---------------------------- MODULE ScoringProofs ----------------------------
(***************************************************************************)
(* The scoring service, for every artifact: the score and the odds that it *)
(* gives agree, a floor that leaves room keeps the unpriced grades out,    *)
(* the reason codes are what pulled the score down most, and where bins    *)
(* meet it is on their edges only that they are not those of training.     *)
(*                                                                         *)
(* The score and the odds agree because they do so, up to a bound that     *)
(* grows with the features gone through, after every turn of the loop.     *)
(***************************************************************************)
EXTENDS Scoring, FunctionTheorems, FiniteSetTheorems, TLAPS

(* A finite set with a strict total order R has a member of every rank. *)
Smaller(x, R, S) == {y \in S : <<y, x>> \in R}

IsOrder(R, S) ==
    /\ \A x \in S : <<x, x>> \notin R
    /\ \A x, y \in S : x # y => <<x, y>> \in R \/ <<y, x>> \in R
    /\ \A x, y, z \in S : <<x, y>> \in R /\ <<y, z>> \in R => <<x, z>> \in R

LEMMA RankGrows ==
    ASSUME NEW S, IsFiniteSet(S), NEW R, IsOrder(R, S), NEW x \in S, NEW y \in S, <<x, y>> \in R
    PROVE  Cardinality(Smaller(x, R, S)) < Cardinality(Smaller(y, R, S))
<1>1. Smaller(x, R, S) \subseteq Smaller(y, R, S) /\ x \in Smaller(y, R, S) \ Smaller(x, R, S)
  BY DEF Smaller, IsOrder
<1>2. IsFiniteSet(Smaller(y, R, S)) /\ IsFiniteSet(Smaller(x, R, S))
  BY FS_Subset DEF Smaller
<1>3. /\ Cardinality(Smaller(x, R, S)) \in Nat /\ Cardinality(Smaller(y, R, S)) \in Nat
      /\ Cardinality(Smaller(x, R, S)) <= Cardinality(Smaller(y, R, S))
      /\ Cardinality(Smaller(x, R, S)) # Cardinality(Smaller(y, R, S))
  BY <1>1, <1>2, FS_Subset, FS_CardinalityType
<1> QED BY <1>3

LEMMA RanksCover ==
    ASSUME NEW S, IsFiniteSet(S), NEW R, IsOrder(R, S)
    PROVE  /\ Cardinality(S) \in Nat
           /\ \A x \in S : Cardinality(Smaller(x, R, S)) \in 0..(Cardinality(S) - 1)
           /\ \A k \in 0..(Cardinality(S) - 1) :
                 \E x \in S : Cardinality(Smaller(x, R, S)) = k
<1> DEFINE n == Cardinality(S)
           rank == [x \in S |-> Cardinality(Smaller(x, R, S))]
<1>1. n \in Nat
  BY FS_CardinalityType
<1>2. ASSUME NEW x \in S PROVE Cardinality(Smaller(x, R, S)) \in 0..(n - 1)
  <2>1. Smaller(x, R, S) \in SUBSET S /\ x \in S \ Smaller(x, R, S)
    BY DEF Smaller, IsOrder
  <2>2. IsFiniteSet(Smaller(x, R, S)) /\ Cardinality(Smaller(x, R, S)) <= n
        /\ Cardinality(Smaller(x, R, S)) # n
    BY <2>1, FS_Subset
  <2>3. Cardinality(Smaller(x, R, S)) \in Nat
    BY <2>2, FS_CardinalityType
  <2> QED BY <1>1, <2>2, <2>3
<1>3. \A x, y \in S : rank[x] = rank[y] => x = y
  <2> SUFFICES ASSUME NEW x \in S, NEW y \in S, x # y PROVE rank[x] # rank[y]
    OBVIOUS
  <2>1. <<x, y>> \in R \/ <<y, x>> \in R
    BY DEF IsOrder
  <2>2. rank[x] \in 0..(n - 1) /\ rank[y] \in 0..(n - 1)
    BY <1>2
  <2>3. rank[x] < rank[y] \/ rank[y] < rank[x]
    BY <2>1, RankGrows
  <2> QED BY <2>2, <2>3
<1>4. rank \in Injection(S, 0..(n - 1))
  <2>1. rank \in [S -> 0..(n - 1)]
    BY <1>2
  <2> QED BY <1>3, <2>1, Fun_IsInj
<1>5. IsFiniteSet(0..(n - 1)) /\ Cardinality(0..(n - 1)) = n
  BY <1>1, FS_Interval
<1>6. rank \in Surjection(S, 0..(n - 1))
  BY <1>4, <1>5, FS_Injection
<1>7. \A k \in 0..(n - 1) : \E x \in S : rank[x] = k
  BY <1>6 DEF Surjection
<1> QED BY <1>1, <1>2, <1>7

(* A non-empty set of positions has a least one. *)
LEMMA LeastPosition ==
    ASSUME NEW n \in Nat, NEW S \in SUBSET (1..n), S # {}
    PROVE  Min(S) \in S /\ \A m \in S : Min(S) <= m
<1> DEFINE R == {p \in S \X S : p[1] < p[2]}
<1>1. IsFiniteSet(S)
  <2>1. IsFiniteSet(1..n)
    BY FS_Interval
  <2> QED BY <2>1, FS_Subset
<1>2. \A x, y \in S : <<x, y>> \in R <=> x < y
  OBVIOUS
<1> HIDE DEF R
<1>3. IsOrder(R, S)
  BY <1>2 DEF IsOrder
<1>4. Cardinality(S) \in Nat \ {0}
  BY <1>1, FS_EmptySet, FS_CardinalityType
<1>5. PICK x \in S : Cardinality(Smaller(x, R, S)) = 0
  <2>1. 0 \in 0..(Cardinality(S) - 1)
    BY <1>4
  <2> QED BY <1>1, <1>3, <2>1, RanksCover
<1>6. Smaller(x, R, S) = {}
  <2>1. IsFiniteSet(Smaller(x, R, S))
    BY <1>1, FS_Subset DEF Smaller
  <2> QED BY <1>5, <2>1, FS_EmptySet
<1>7. \A m \in S : x <= m
  <2> SUFFICES ASSUME NEW m \in S PROVE x <= m
    OBVIOUS
  <2>1. <<m, x>> \notin R
    BY <1>6 DEF Smaller
  <2>2. m \in Int /\ x \in Int
    OBVIOUS
  <2> QED BY <1>2, <2>1, <2>2
<1> QED BY <1>7 DEF Min

-----------------------------------------------------------------------------
(* Rounding is off by half a unit at most. *)
LEMMA RoundedOdds ==
    ASSUME NEW x \in Int
    PROVE  /\ Rounded(x, 10000) \in Int
           /\ 10000 * Rounded(x, 10000) - x <= 5000
           /\ x - 10000 * Rounded(x, 10000) <= 5000
BY SMT DEF Rounded

LEMMA RoundedPoints ==
    ASSUME NEW x \in Int
    PROVE  /\ Rounded(x, 10000000) \in Int
           /\ 10000000 * Rounded(x, 10000000) - x <= 5000000
           /\ x - 10000000 * Rounded(x, 10000000) <= 5000000
BY SMT DEF Rounded

(* What n shares of a whole leave over is less than n. *)
LEMMA Shares ==
    ASSUME NEW x \in Int, NEW n \in Nat \ {0}
    PROVE  /\ x \div n \in Int
           /\ n * (x \div n) <= x
           /\ x <= n * (x \div n) + n - 1
OBVIOUS

LEMMA ArtifactTypes ==
    /\ N \in Nat \ {0} /\ DOMAIN Features = 1..N
    /\ \A k \in 1..N : Features[k] \in Scored
    /\ \A f \in Scored : /\ DOMAIN Bins[f] = 1..Len(Bins[f]) /\ Len(Bins[f]) \in Nat \ {0}
                         /\ Coefficient[f] \in Int
                         /\ \A n \in DOMAIN Bins[f] : Bins[f][n].woe \in Int
<1>1. N \in Nat \ {0} /\ DOMAIN Features = 1..N /\ \A k \in 1..N : Features[k] \in Scored
  BY ArtifactAssumption DEF N
<1>2. ASSUME NEW f \in Scored
      PROVE  /\ DOMAIN Bins[f] = 1..Len(Bins[f]) /\ Len(Bins[f]) \in Nat \ {0}
             /\ Coefficient[f] \in Int
             /\ \A n \in DOMAIN Bins[f] : Bins[f][n].woe \in Int
  <2>1. Bins[f] \in Seq(ToSet(Bins[f])) /\ Bins[f] # <<>>
        /\ \A b \in ToSet(Bins[f]) : b.woe \in Int
    BY ArtifactAssumption
  <2>2. \A n \in DOMAIN Bins[f] : Bins[f][n] \in ToSet(Bins[f])
    BY DEF ToSet
  <2>3. Len(Bins[f]) \in Nat /\ Len(Bins[f]) # 0
    BY <2>1
  <2> QED BY <2>1, <2>2, <2>3, ArtifactAssumption
<1> QED BY <1>1, <1>2

(* Every value is served by a bin of its feature. *)
LEMMA BinExists ==
    ASSUME NEW f \in Scored, NEW v
    PROVE  BinFor(f, v) \in DOMAIN Bins[f]
<1> DEFINE matching == {n \in DOMAIN Bins[f] : Matches(Bins[f][n], v)}
<1>1. DOMAIN Bins[f] = 1..Len(Bins[f]) /\ Len(Bins[f]) \in Nat \ {0}
  BY ArtifactTypes
<1>2. CASE matching = {}
  BY <1>1, <1>2 DEF BinFor
<1>3. CASE matching # {}
  <2>1. matching \in SUBSET (1..Len(Bins[f]))
    BY <1>1
  <2> HIDE DEF matching
  <2>2. Min(matching) \in matching
    BY <1>1, <1>3, <2>1, LeastPosition
  <2>3. BinFor(f, v) = Min(matching)
    BY <1>3 DEF BinFor, matching
  <2> QED BY <1>1, <2>1, <2>2, <2>3
<1> QED BY <1>2, <1>3

(* The points of a bin stand for its share of the odds. *)
LEMMA PointsOfBin ==
    ASSUME NEW f \in Scored, NEW b, b.woe \in Int
    PROVE  LET share == Rounded(b.woe * Coefficient[f], 10000) + Intercept \div N
               x == (Offset \div N) * 1000 - share * Factor
           IN  /\ b.woe * Coefficient[f] \in Int
               /\ Points(f, b) \in Int /\ PointImpact(f, b) \in Int
               /\ 10000000 * Points(f, b) - x <= 5000000
               /\ x - 10000000 * Points(f, b) <= 5000000
<1>1. N \in Nat \ {0} /\ Intercept \in Int /\ Coefficient[f] \in Int
  BY ArtifactTypes, ArtifactAssumption
<1>2. b.woe * Coefficient[f] \in Int
  BY <1>1
<1>3. Intercept \div N \in Int /\ Offset \div N \in Int
  BY <1>1, Shares DEF Offset
<1>4. Rounded(b.woe * Coefficient[f], 10000) \in Int
  BY <1>2, RoundedOdds
<1> DEFINE share == Rounded(b.woe * Coefficient[f], 10000) + Intercept \div N
<1>5. share \in Int
  BY <1>3, <1>4
<1>6. Points(f, b) = Rounded(Scale(share), 10000000)
  BY DEF Points
<1> HIDE DEF share
<1>7. Scale(share) = (Offset \div N) * 1000 - share * Factor /\ Scale(share) \in Int
  BY <1>3, <1>5 DEF Scale, Factor
<1>8. /\ Points(f, b) \in Int
      /\ 10000000 * Points(f, b) - Scale(share) <= 5000000
      /\ Scale(share) - 10000000 * Points(f, b) <= 5000000
  BY SMT, <1>6, <1>7, RoundedPoints
<1>9. NeutralPoints \in Int
  BY <1>3 DEF NeutralPoints, Scale, Factor
<1>10. PointImpact(f, b) \in Int
  BY SMT, <1>8, <1>9, RoundedPoints DEF PointImpact
<1> QED BY SMT, <1>2, <1>7, <1>8, <1>10 DEF share

-----------------------------------------------------------------------------
Contributions == [feature : Scored, bin : Nat, impact : Int]
Turns == Len(contributions)

(* After some turns s is the sum of the rounded shares: it is as near to    *)
(* the odds, and the points are as near to it, as that many roundings allow. *)
Near(s) ==
    LET x == Turns * (Offset \div N) * 1000 - (s + Turns * (Intercept \div N)) * Factor
    IN  /\ s * 10000 - (logOdds - Intercept * 10000) <= 5000 * Turns
        /\ (logOdds - Intercept * 10000) - s * 10000 <= 5000 * Turns
        /\ 10000000 * points - x <= 5000000 * Turns
        /\ x - 10000000 * points <= 5000000 * Turns

Answered ==
    Ok => /\ Turns = N
          /\ response.score = points
          /\ response.riskGrade = RiskGradeFor(logOdds)
          /\ response.reasonCodes = ReasonCodes

ScoringInv ==
    /\ TypeOK
    /\ contributions \in Seq(Contributions)
    /\ \E s \in Int : Near(s)
    /\ Answered

LEMMA InitScoring == Init => ScoringInv
<1> SUFFICES ASSUME Init PROVE ScoringInv
  OBVIOUS
<1>1. contributions \in Seq(Contributions) /\ Turns = 0 /\ DOMAIN contributions = {}
  BY DEF Init, Turns
<1>2. Intercept \in Int /\ N \in Nat
  BY ArtifactAssumption, ArtifactTypes
<1>3. TypeOK
  BY <1>1, <1>2 DEF Init, TypeOK, Pending, Turns
<1>4. Near(0)
  <2>1. (Offset \div N) \in Int /\ (Intercept \div N) \in Int
    BY ArtifactTypes, ArtifactAssumption, Shares DEF Offset
  <2> QED BY <1>1, <1>2, <2>1 DEF Init, Near, Factor
<1>5. Answered
  BY DEF Init, Answered, Ok, Pending
<1> QED BY <1>1, <1>3, <1>4, <1>5 DEF ScoringInv

(* A turn of the loop adds what one feature contributes. *)
LEMMA TurnStep == ScoringInv /\ ScoreFeature => ScoringInv'
<1> SUFFICES ASSUME ScoringInv, ScoreFeature PROVE ScoringInv'
  OBVIOUS
<1> DEFINE f == Features[Position]
           n == BinFor(f, request.value[f])
           b == Bins[f][n]
           new == [feature |-> f, bin |-> n, impact |-> PointImpact(f, b)]
           r == Rounded(b.woe * Coefficient[f], 10000)
           q == Offset \div N
           i == Intercept \div N
<1>1. /\ response = Pending /\ Position <= N
      /\ points' = points + Points(f, b) /\ logOdds' = logOdds + Coefficient[f] * b.woe
      /\ contributions' = Append(contributions, new)
      /\ request' = request /\ response' = response
  BY DEF ScoreFeature, Scoring
<1>2. /\ contributions \in Seq(Contributions) /\ TypeOK /\ Turns \in Nat /\ Position = Turns + 1
      /\ DOMAIN contributions = 1..Turns
  BY DEF ScoringInv, Position, Turns
<1>3. f \in Scored /\ N \in Nat \ {0} /\ Position \in 1..N
  BY <1>1, <1>2, ArtifactTypes
<1>4. n \in DOMAIN Bins[f] /\ n \in Nat
  BY <1>3, BinExists, ArtifactTypes
<1>5. b.woe \in Int /\ Coefficient[f] \in Int
  BY <1>3, <1>4, ArtifactTypes
<1>6. /\ b.woe * Coefficient[f] \in Int /\ b.woe * Coefficient[f] = Coefficient[f] * b.woe
      /\ Points(f, b) \in Int /\ PointImpact(f, b) \in Int
  BY SMT, <1>3, <1>5, PointsOfBin
<1>7. r \in Int /\ q \in Int /\ i \in Int
  BY <1>3, <1>6, RoundedOdds, Shares, ArtifactAssumption DEF Offset
<1>8. /\ 10000 * r - b.woe * Coefficient[f] <= 5000 /\ b.woe * Coefficient[f] - 10000 * r <= 5000
      /\ 10000000 * Points(f, b) - (q * 1000 - (r + i) * Factor) <= 5000000
      /\ (q * 1000 - (r + i) * Factor) - 10000000 * Points(f, b) <= 5000000
  <2>1. /\ 10000000 * Points(f, b) - (q * 1000 - (r + i) * Factor) <= 5000000
        /\ (q * 1000 - (r + i) * Factor) - 10000000 * Points(f, b) <= 5000000
    BY SMT, <1>3, <1>5, PointsOfBin
  <2>2. 10000 * r - b.woe * Coefficient[f] <= 5000 /\ b.woe * Coefficient[f] - 10000 * r <= 5000
    BY SMT, <1>6, RoundedOdds
  <2> QED BY SMT, <2>1, <2>2
<1>9. new \in Contributions /\ new.feature = f /\ new.bin = n
  BY <1>3, <1>4, <1>6 DEF Contributions
<1>10. new.feature = Features[Turns + 1] /\ new.bin \in DOMAIN Bins[Features[Turns + 1]]
  BY <1>2, <1>4, <1>9
<1> HIDE DEF new, r, q, i, n
<1>11. /\ contributions' \in Seq(Contributions) /\ Turns' = Turns + 1
       /\ DOMAIN contributions' = 1..(Turns + 1)
       /\ contributions'[Turns + 1] = new /\ \A k \in 1..Turns : contributions'[k] = contributions[k]
  BY <1>1, <1>2, <1>9 DEF Turns
<1>12. TypeOK'
  <2>1. points' \in Int /\ logOdds' \in Int
    BY <1>1, <1>2, <1>5, <1>6 DEF TypeOK
  <2>2. ASSUME NEW k \in DOMAIN contributions'
        PROVE  /\ contributions'[k].feature = Features[k]
               /\ contributions'[k].bin \in DOMAIN Bins[Features[k]]
    <3>1. CASE k = Turns + 1
      BY <1>10, <1>11, <3>1
    <3>2. CASE k \in 1..Turns
      BY <1>2, <1>11, <3>2 DEF TypeOK
    <3> QED BY <1>2, <1>11, <3>1, <3>2
  <2>3. Len(contributions') <= N
    BY <1>1, <1>2, <1>11 DEF Turns
  <2> QED BY <1>1, <1>2, <2>1, <2>2, <2>3 DEF TypeOK
<1>13. \E s \in Int : Near(s)'
  <2>1. PICK s \in Int : Near(s)
    BY DEF ScoringInv
  <2> DEFINE k == Turns
             w == b.woe * Coefficient[f]
             p == Points(f, b)
  <2>2. w \in Int /\ p \in Int /\ k \in Nat /\ points \in Int /\ logOdds \in Int /\ Intercept \in Int
    BY <1>2, <1>6, ArtifactAssumption DEF TypeOK
  <2>3. points' = points + p /\ logOdds' = logOdds + w /\ Turns' = k + 1
    BY <1>1, <1>6, <1>11
  <2>4. k * q \in Int /\ (k + 1) * q = k * q + q /\ k * i \in Int /\ (k + 1) * i = k * i + i
    BY <1>7, <2>2
  <2>5. 10000 * r - w <= 5000 /\ w - 10000 * r <= 5000
    BY SMT, <1>8
  <2>6. /\ 10000000 * p - (q * 1000 - (r + i) * Factor) <= 5000000
        /\ (q * 1000 - (r + i) * Factor) - 10000000 * p <= 5000000
    BY SMT, <1>8
  <2>7. /\ s * 10000 - (logOdds - Intercept * 10000) <= 5000 * k
        /\ (logOdds - Intercept * 10000) - s * 10000 <= 5000 * k
        /\ 10000000 * points - (k * q * 1000 - (s + k * i) * Factor) <= 5000000 * k
        /\ (k * q * 1000 - (s + k * i) * Factor) - 10000000 * points <= 5000000 * k
    BY SMT, <2>1 DEF Near, q, i
  <2> HIDE DEF w, p, k
  <2>8. /\ (s + r) * 10000 - ((logOdds + w) - Intercept * 10000) <= 5000 * (k + 1)
        /\ ((logOdds + w) - Intercept * 10000) - (s + r) * 10000 <= 5000 * (k + 1)
    BY SMT, <1>7, <2>2, <2>5, <2>7
  <2>9. /\ 10000000 * (points + p) - ((k + 1) * q * 1000 - ((s + r) + (k + 1) * i) * Factor)
             <= 5000000 * (k + 1)
        /\ ((k + 1) * q * 1000 - ((s + r) + (k + 1) * i) * Factor) - 10000000 * (points + p)
             <= 5000000 * (k + 1)
    <3> DEFINE kq == k * q
               ki == k * i
    <3>1. kq \in Int /\ ki \in Int /\ (k + 1) * q = kq + q /\ (k + 1) * i = ki + i
      BY <2>4
    <3>2. /\ 10000000 * points - (kq * 1000 - (s + ki) * Factor) <= 5000000 * k
          /\ (kq * 1000 - (s + ki) * Factor) - 10000000 * points <= 5000000 * k
      BY SMT, <2>7
    <3> HIDE DEF kq, ki
    <3>3. /\ 10000000 * (points + p) - ((kq + q) * 1000 - ((s + r) + (ki + i)) * Factor)
               <= 5000000 * (k + 1)
          /\ ((kq + q) * 1000 - ((s + r) + (ki + i)) * Factor) - 10000000 * (points + p)
               <= 5000000 * (k + 1)
      BY SMT, <1>7, <2>2, <2>6, <3>1, <3>2 DEF Factor
    <3> QED BY SMT, <3>1, <3>3
  <2>10. PICK t \in Int : t = s + r
    BY <1>7
  <2>11. Near(t)'
    <3> HIDE DEF q, i
    <3>1. (Offset \div N) = q /\ (Intercept \div N) = i
      BY DEF q, i
    <3>2. /\ t * 10000 - ((logOdds + w) - Intercept * 10000) <= 5000 * (k + 1)
          /\ ((logOdds + w) - Intercept * 10000) - t * 10000 <= 5000 * (k + 1)
          /\ 10000000 * (points + p) - ((k + 1) * q * 1000 - (t + (k + 1) * i) * Factor)
               <= 5000000 * (k + 1)
          /\ ((k + 1) * q * 1000 - (t + (k + 1) * i) * Factor) - 10000000 * (points + p)
               <= 5000000 * (k + 1)
      BY SMT, <2>8, <2>9, <2>10
    <3> QED BY SMT, <2>3, <3>1, <3>2 DEF Near
  <2> QED BY <2>10, <2>11
<1>14. Answered'
  BY <1>1 DEF Answered, Ok, Pending
<1> QED BY <1>11, <1>12, <1>13, <1>14 DEF ScoringInv

(* Nothing but the loop changes what was gone through. *)
LEMMA KeptStep ==
    ASSUME ScoringInv, UNCHANGED <<request, points, logOdds, contributions>>,
           response' = response
              \/ /\ response' = [status |-> 200, score |-> points, riskGrade |-> RiskGradeFor(logOdds),
                                 reasonCodes |-> ReasonCodes, challenger |-> request.challengerFields]
                 /\ Position > N
              \/ \E status \in {400, 422, 500} : response' = [status |-> status]
    PROVE  ScoringInv'
<1>1. TypeOK /\ Answered /\ contributions \in Seq(Contributions)
  BY DEF ScoringInv
<1>2. response'.status \in {0, 200, 400, 422, 500}
  BY <1>1 DEF TypeOK
<1>3. TypeOK'
  BY <1>1, <1>2 DEF TypeOK
<1>4. \E s \in Int : Near(s)'
  <2>1. PICK s \in Int : Near(s)
    BY DEF ScoringInv
  <2>2. Near(s)' = Near(s)
    BY SMT DEF Near, Turns
  <2> QED BY <2>1, <2>2
<1>5. RiskGradeFor(logOdds)' = RiskGradeFor(logOdds) /\ ReasonCodes' = ReasonCodes /\ Turns' = Turns
  BY DEF RiskGradeFor, ReasonCodes, Sorted, Rank, Before, Turns
<1>6. Answered'
  <2>1. CASE response' = response
    BY <1>1, <1>5, <2>1 DEF Answered, Ok
  <2>2. CASE /\ response' = [status |-> 200, score |-> points, riskGrade |-> RiskGradeFor(logOdds),
                             reasonCodes |-> ReasonCodes, challenger |-> request.challengerFields]
             /\ Position > N
    <3>1. Turns = N
      BY <1>1, <2>2, ArtifactTypes DEF Turns, Position, TypeOK
    <3>2. /\ response'.score = points /\ response'.riskGrade = RiskGradeFor(logOdds)
          /\ response'.reasonCodes = ReasonCodes
      BY <2>2
    <3> QED BY <1>5, <3>1, <3>2 DEF Answered
  <2>3. CASE \E status \in {400, 422, 500} : response' = [status |-> status]
    <3>1. response'.status # 200
      BY <2>3
    <3> QED BY <3>1 DEF Answered, Ok
  <2> QED BY <2>1, <2>2, <2>3
<1>7. contributions' \in Seq(Contributions)
  BY <1>1
<1> QED BY <1>3, <1>4, <1>6, <1>7 DEF ScoringInv

LEMMA ScoringInductive == Spec => []ScoringInv
<1>1. ScoringInv /\ [Next]_vars => ScoringInv'
  <2> SUFFICES ASSUME ScoringInv, [Next]_vars PROVE ScoringInv'
    OBVIOUS
  <2>1. CASE ScoreFeature
    BY <2>1, TurnStep
  <2>2. CASE RejectVersion \/ RejectMissing \/ RejectText
    BY <2>2, KeptStep DEF RejectVersion, RejectMissing, RejectText, Rejects
  <2>3. CASE Respond
    BY <2>3, KeptStep DEF Respond
  <2>4. CASE UNCHANGED vars
    BY <2>4, KeptStep DEF vars
  <2> QED BY <2>1, <2>2, <2>3, <2>4 DEF Next
<1> QED BY InitScoring, <1>1, PTL DEF Spec

(* Every position of the list is filled by its feature, with one of its bins. *)
THEOREM TypeCorrect == Spec => []TypeOK
BY ScoringInductive, PTL DEF ScoringInv

(* The score is the one that the odds stand for, for every artifact, up to  *)
(* half a point of rounding per feature.                                   *)
THEOREM ScoreAndOddsAgree == Spec => []ScoreTracksOdds
<1>1. ScoringInv => ScoreTracksOdds
  <2> SUFFICES ASSUME ScoringInv, Ok
               PROVE  Abs(response.score * 100000
                          - (Offset * 10 - (Rounded(logOdds, 10000) * Factor) \div 100)) <= Slack
    BY DEF ScoreTracksOdds
  <2> DEFINE l == Rounded(logOdds, 10000)
             a == N * (Offset \div N)
             c == N * (Intercept \div N)
  <2>1. response.score = points /\ Turns = N /\ points \in Int /\ logOdds \in Int
    BY DEF ScoringInv, Answered, TypeOK
  <2>2. N \in Nat \ {0} /\ Intercept \in Int
    BY ArtifactTypes, ArtifactAssumption
  <2>3. /\ a \in Int /\ a <= Offset /\ Offset <= a + N - 1
        /\ c \in Int /\ c <= Intercept /\ Intercept <= c + N - 1
    <3>1. /\ (Offset \div N) \in Int /\ a <= Offset /\ Offset <= a + N - 1
      BY <2>2, Shares DEF Offset
    <3>2. (Intercept \div N) \in Int /\ c <= Intercept /\ Intercept <= c + N - 1
      BY <2>2, Shares
    <3> QED BY <2>2, <3>1, <3>2
  <2>4. l \in Int /\ 10000 * l - logOdds <= 5000 /\ logOdds - 10000 * l <= 5000
    <3> HIDE DEF l
    <3>1. logOdds \in Int
      BY <2>1
    <3> QED BY SMT, <3>1, RoundedOdds DEF l
  <2>5. PICK s \in Int : Near(s)
    BY DEF ScoringInv
  <2>6. /\ s * 10000 - (logOdds - Intercept * 10000) <= 5000 * N
        /\ (logOdds - Intercept * 10000) - s * 10000 <= 5000 * N
        /\ 10000000 * points - (a * 1000 - (s + c) * Factor) <= 5000000 * N
        /\ (a * 1000 - (s + c) * Factor) - 10000000 * points <= 5000000 * N
    BY SMT, <2>1, <2>5 DEF Near
  <2> HIDE DEF l, a, c
  <2>7. (l * Factor) \div 100 \in Int
        /\ 100 * ((l * Factor) \div 100) <= l * Factor /\ l * Factor <= 100 * ((l * Factor) \div 100) + 99
    BY SMT, <2>4 DEF Factor
  <2> DEFINE scaled == (l * Factor) \div 100
  <2> HIDE DEF scaled
  <2>8. /\ points * 100000 - (Offset * 10 - scaled) <= N * 50500
        /\ (Offset * 10 - scaled) - points * 100000 <= N * 50500
    <3>1. scaled \in Int /\ 100 * scaled <= l * Factor /\ l * Factor <= 100 * scaled + 99
      BY SMT, <2>7 DEF scaled
    <3> QED BY SMT, <2>1, <2>2, <2>3, <2>4, <2>6, <3>1 DEF Factor, Offset
  <2> QED BY SMT, <2>1, <2>2, <2>7, <2>8 DEF Slack, Abs, scaled, l, Offset
<1> QED BY ScoringInductive, <1>1, PTL

-----------------------------------------------------------------------------
(* Odds below the bound of a band have the grade of that band or a better one. *)
LEMMA GradeWithin ==
    ASSUME NEW odds \in Int, NEW n \in DOMAIN RiskGradeBands, odds < RiskGradeBands[n].upper
    PROVE  \E m \in 1..n : RiskGradeFor(odds) = RiskGradeBands[m].grade
<1> DEFINE above == {m \in DOMAIN RiskGradeBands : odds < RiskGradeBands[m].upper}
<1>1. DOMAIN RiskGradeBands = 1..6 /\ n \in above /\ above \in SUBSET (1..6)
  BY SMT DEF RiskGradeBands
<1> HIDE DEF above
<1>2. Min(above) \in above /\ Min(above) <= n
  BY <1>1, LeastPosition
<1>3. RiskGradeFor(odds) = RiskGradeBands[Min(above)].grade
  BY <1>1 DEF RiskGradeFor, above
<1>4. Min(above) \in 1..n
  BY <1>1, <1>2
<1> QED BY <1>3, <1>4

(* A score that passes the floor has odds below the bound of a band whose   *)
(* price, and that of every better one, is there.                          *)
LEMMA FloorBoundsOdds ==
    ASSUME NEW odds \in Int, NEW score \in Int, ScoreFloor \in Int, score >= ScoreFloor,
           NEW upper \in Int,
           Offset * 10 + Slack - ScoreFloor * 100000 < ((upper \div 10000) * Factor) \div 100,
           Abs(score * 100000 - (Offset * 10 - (Rounded(odds, 10000) * Factor) \div 100)) <= Slack
    PROVE  odds < upper
<1> DEFINE l == Rounded(odds, 10000)
           u == upper \div 10000
           sl == (l * Factor) \div 100
           su == (u * Factor) \div 100
<1>1. l \in Int /\ odds - 10000 * l <= 5000 /\ u \in Int /\ 10000 * u <= upper
  BY SMT, RoundedOdds
<1>2. sl \in Int /\ su \in Int /\ (u <= l => su <= sl)
  BY SMT, <1>1 DEF Factor
<1>3. Slack \in Int /\ Offset \in Int
  BY ArtifactTypes DEF Slack, Offset
<1>4. score * 100000 - (Offset * 10 - sl) <= Slack
  BY SMT, <1>2, <1>3 DEF Abs, Offset
<1>5. Offset * 10 + Slack - ScoreFloor * 100000 < su
  OBVIOUS
<1> HIDE DEF l, u, sl, su
<1>6. sl < su
  BY SMT, <1>2, <1>3, <1>4, <1>5
<1>7. l < u
  BY <1>1, <1>2, <1>6
<1> QED BY SMT, <1>1, <1>7

(* Where the floor leaves room, an approval that passes it has a price, for *)
(* every artifact and applicant.                                           *)
THEOREM FloorKeepsUnpricedOut ==
    ASSUME FloorLeavesRoom PROVE Spec => []FloorImpliesPriced
<1>1. ScoringInv /\ ScoreTracksOdds => FloorImpliesPriced
  <2> SUFFICES ASSUME ScoringInv, ScoreTracksOdds, Ok, response.score >= ScoreFloor
               PROVE  response.riskGrade \in Grades
    BY DEF FloorImpliesPriced
  <2>1. /\ response.score \in Int /\ logOdds \in Int /\ ScoreFloor \in Int
        /\ response.riskGrade = RiskGradeFor(logOdds)
    BY ArtifactAssumption DEF ScoringInv, Answered, TypeOK
  <2>2. PICK n \in DOMAIN RiskGradeBands :
           /\ \A m \in 1..n : RiskGradeBands[m].grade \in Grades
           /\ Offset * 10 + Slack - ScoreFloor * 100000
                 < ((RiskGradeBands[n].upper \div 10000) * Factor) \div 100
    BY SMT DEF FloorLeavesRoom
  <2>3. RiskGradeBands[n].upper \in Int
    BY SMT DEF RiskGradeBands
  <2>4. Abs(response.score * 100000
            - (Offset * 10 - (Rounded(logOdds, 10000) * Factor) \div 100)) <= Slack
    BY SMT DEF ScoreTracksOdds
  <2>5. logOdds < RiskGradeBands[n].upper
    BY SMT, <2>1, <2>2, <2>3, <2>4, FloorBoundsOdds
  <2>6. \E m \in 1..n : RiskGradeFor(logOdds) = RiskGradeBands[m].grade
    BY <2>1, <2>5, GradeWithin
  <2> QED BY SMT, <2>1, <2>2, <2>6
<1> QED BY ScoringInductive, ScoreAndOddsAgree, <1>1, PTL

-----------------------------------------------------------------------------
(* The sorted list of some positions names each of them, in the order of Before. *)
LEMMA SortedByImpact ==
    ASSUME contributions \in Seq(Contributions), NEW S \in SUBSET (DOMAIN contributions)
    PROVE  /\ Cardinality(S) \in Nat
           /\ DOMAIN Sorted(S) = 1..Cardinality(S)
           /\ \A k \in 1..Cardinality(S) :
                 /\ \E n \in S : Sorted(S)[k] = contributions[n]
                 /\ \A j \in 1..Cardinality(S) : j <= k => Sorted(S)[j].impact <= Sorted(S)[k].impact
           /\ \A n \in S : \E k \in 1..Cardinality(S) : Sorted(S)[k] = contributions[n]
<1> DEFINE R == {p \in S \X S : Before(p[1], p[2])}
           chosen(k) == CHOOSE n \in S : Rank(n, S) = k - 1
<1>1. IsFiniteSet(S)
  <2>1. IsFiniteSet(1..Len(contributions)) /\ S \subseteq 1..Len(contributions)
    BY FS_Interval
  <2> QED BY <2>1, FS_Subset
<1>2. \A m, n \in S : <<m, n>> \in R <=> Before(m, n)
  OBVIOUS
<1> HIDE DEF R
<1>3. \A n \in S : contributions[n].impact \in Int /\ n \in Int
  <2>1. \A n \in S : contributions[n] \in Contributions /\ n \in 1..Len(contributions)
    OBVIOUS
  <2> QED BY <2>1 DEF Contributions
<1>4. IsOrder(R, S)
  BY <1>2, <1>3 DEF IsOrder, Before
<1>5. \A n \in S : Rank(n, S) = Cardinality(Smaller(n, R, S))
  <2> SUFFICES ASSUME NEW n \in S PROVE Rank(n, S) = Cardinality(Smaller(n, R, S))
    OBVIOUS
  <2>1. {m \in S : Before(m, n)} = Smaller(n, R, S)
    BY <1>2 DEF Smaller
  <2> QED BY <2>1 DEF Rank
<1>6. /\ Cardinality(S) \in Nat
      /\ \A n \in S : Rank(n, S) \in 0..(Cardinality(S) - 1)
      /\ \A k \in 0..(Cardinality(S) - 1) : \E n \in S : Rank(n, S) = k
  BY <1>1, <1>4, <1>5, RanksCover
<1>7. \A m, n \in S : Before(m, n) => Rank(m, S) < Rank(n, S)
  BY <1>1, <1>2, <1>4, <1>5, RankGrows
<1>8. ASSUME NEW k \in 1..Cardinality(S)
      PROVE  chosen(k) \in S /\ Rank(chosen(k), S) = k - 1 /\ Sorted(S)[k] = contributions[chosen(k)]
  <2>1. \E n \in S : Rank(n, S) = k - 1
    BY <1>6
  <2> QED BY <2>1 DEF Sorted
<1> HIDE DEF chosen
<1>9. ASSUME NEW k \in 1..Cardinality(S), NEW j \in 1..Cardinality(S), j <= k
      PROVE  Sorted(S)[j].impact <= Sorted(S)[k].impact
  <2> SUFFICES ASSUME contributions[chosen(k)].impact < contributions[chosen(j)].impact PROVE FALSE
    BY <1>3, <1>8
  <2>1. Before(chosen(k), chosen(j))
    BY DEF Before
  <2>2. Rank(chosen(k), S) < Rank(chosen(j), S)
    BY <1>7, <1>8, <2>1
  <2> QED BY <1>8, <1>9, <2>2
<1>10. ASSUME NEW n \in S PROVE \E k \in 1..Cardinality(S) : Sorted(S)[k] = contributions[n]
  <2> DEFINE k == Rank(n, S) + 1
  <2>1. k \in 1..Cardinality(S) /\ Rank(n, S) = k - 1
    BY <1>6
  <2>2. chosen(k) = n
    <3>1. chosen(k) # n => Before(chosen(k), n) \/ Before(n, chosen(k))
      BY <1>2, <1>4, <1>8, <2>1 DEF IsOrder
    <3> QED BY <1>6, <1>7, <1>8, <2>1, <3>1
  <2> QED BY <1>8, <2>1, <2>2
<1> QED BY <1>6, <1>8, <1>9, <1>10 DEF Sorted

(* The reason codes are what pulled the score down most, for every artifact, *)
(* every number of codes and however many features have the same impact.    *)
THEOREM ReasonsAreTheWorst == Spec => []ReasonsAreWorst
<1>1. ScoringInv => ReasonsAreWorst
  <2> SUFFICES ASSUME ScoringInv, Ok PROVE ReasonsAreWorst
    BY DEF ReasonsAreWorst
  <2> DEFINE S == {n \in DOMAIN contributions : contributions[n].impact < 0}
             negative == Sorted(S)
             size == Cardinality(S)
             top == Min({ReasonCodesTopN, size})
             codes == response.reasonCodes
  <2>1. contributions \in Seq(Contributions) /\ codes = ReasonCodes /\ ReasonCodesTopN \in Nat
    BY ArtifactAssumption DEF ScoringInv, Answered
  <2> HIDE DEF S
  <2>2. S \in SUBSET (DOMAIN contributions)
    BY DEF S
  <2>3. /\ size \in Nat /\ DOMAIN negative = 1..size
        /\ \A k \in 1..size :
              /\ \E n \in S : negative[k] = contributions[n]
              /\ \A j \in 1..size : j <= k => negative[j].impact <= negative[k].impact
        /\ \A n \in S : \E k \in 1..size : negative[k] = contributions[n]
    BY <2>1, <2>2, SortedByImpact
  <2>4. negative = [k \in 1..size |-> negative[k]]
    BY DEF Sorted
  <2> HIDE DEF negative, size
  <2>5. Len(negative) = size
    BY <2>3, <2>4
  <2>6. top \in 0..size /\ (top = size \/ top = ReasonCodesTopN)
    <3>1. size \in Int /\ ReasonCodesTopN \in Int
      BY <2>1, <2>3
    <3>2. \E x \in {ReasonCodesTopN, size} : \A y \in {ReasonCodesTopN, size} : x <= y
      BY <3>1
    <3>3. top \in {ReasonCodesTopN, size} /\ \A y \in {ReasonCodesTopN, size} : top <= y
      BY <3>2, Zenon DEF Min
    <3> HIDE DEF top
    <3> QED BY <2>1, <2>3, <3>3
  <2> HIDE DEF top
  <2>7. codes = SubSeq(negative, 1, top)
    BY <2>1, <2>5 DEF ReasonCodes, S, negative, size, top
  <2>8. Len(codes) = top /\ DOMAIN codes = 1..top /\ \A k \in 1..top : codes[k] = negative[k]
    BY <2>3, <2>4, <2>6, <2>7
  <2>9. \A m, n \in DOMAIN codes : m < n => codes[m].impact <= codes[n].impact
    <3> SUFFICES ASSUME NEW m \in DOMAIN codes, NEW n \in DOMAIN codes, m < n
                 PROVE  codes[m].impact <= codes[n].impact
      OBVIOUS
    <3>1. m \in 1..size /\ n \in 1..size /\ m <= n
      <4>1. m \in 1..top /\ n \in 1..top
        BY <2>8
      <4>2. top \in Nat /\ size \in Nat /\ top <= size
        BY <2>3, <2>6
      <4> QED BY <4>1, <4>2
    <3>2. codes[m] = negative[m] /\ codes[n] = negative[n]
      BY <2>8
    <3> QED BY <2>3, <3>1, <3>2
  <2>10. ASSUME NEW c \in ToSet(contributions), c.feature \notin {d.feature : d \in ToSet(codes)}
         PROVE  \/ c.impact >= 0
                \/ Len(codes) = ReasonCodesTopN /\ \A d \in ToSet(codes) : d.impact <= c.impact
    <3>1. PICK n \in DOMAIN contributions : c = contributions[n]
      BY DEF ToSet
    <3>2. c.impact \in Int
      <4>1. c \in Contributions
        BY <2>1, <3>1
      <4> QED BY <4>1 DEF Contributions
    <3>3. CASE n \in S
      <4>1. PICK k \in 1..size : negative[k] = c
        BY <2>3, <3>1, <3>3
      <4>2. k \notin 1..top
        BY <2>8, <2>10, <4>1 DEF ToSet
      <4>3. top < k /\ Len(codes) = ReasonCodesTopN
        BY <2>3, <2>6, <2>8, <4>1, <4>2
      <4>4. \A d \in ToSet(codes) : d.impact <= c.impact
        <5> SUFFICES ASSUME NEW j \in 1..top PROVE codes[j].impact <= c.impact
          BY <2>8 DEF ToSet
        <5>1. j \in 1..size /\ j <= k
          BY <2>3, <2>6, <4>3
        <5> QED BY <2>3, <2>8, <4>1, <5>1
      <4> QED BY <4>3, <4>4
    <3>4. CASE n \notin S
      BY <3>1, <3>2, <3>4 DEF S
    <3> QED BY <3>3, <3>4
  <2> QED BY <2>9, <2>10 DEF ReasonsAreWorst
<1> QED BY ScoringInductive, <1>1, PTL

-----------------------------------------------------------------------------
(* The bins that are served and the bins that were trained.                *)

LEMMA ServedAboveEdge ==
    ASSUME BinsMeet, NEW f \in Scored, NEW v, v.is = "number", Covered(f, v.number)
    PROVE  BinFor(f, v) = TrainedBin(f, v.number) + IF AtEdge(f, v.number) THEN 1 ELSE 0
<1> DEFINE x == v.number
           bins == Bins[f]
           size == Len(Bins[f])
           lo(n) == Bins[f][n].lo
           hi(n) == Bins[f][n].hi
<1>1. DOMAIN bins = 1..size /\ size \in Nat \ {0}
  BY ArtifactTypes
<1>2. \A n \in 1..size : lo(n) \in Int /\ hi(n) \in Int
  <2>1. \A n \in DOMAIN bins : bins[n] \in ToSet(bins)
    BY DEF ToSet
  <2> QED BY <1>1, <2>1, ArtifactAssumption
<1>3. /\ \A n \in 1..size : lo(n) < hi(n)
      /\ \A m, n \in 1..size : n < m => hi(n) <= lo(m)
      /\ \A n \in 1..size : n < size => hi(n) = lo(n + 1)
  BY <1>1 DEF BinsMeet
<1>4. x \in Int /\ lo(1) <= x /\ x < hi(size)
  BY <1>1, <1>2 DEF Covered
<1> DEFINE beyond == {n \in 1..size : x < hi(n)}
           matching == {n \in DOMAIN Bins[f] : Matches(Bins[f][n], v)}
<1>5. matching = {n \in 1..size : lo(n) <= x /\ x < hi(n)}
  BY <1>1 DEF Matches
<1>6. BinFor(f, v) = IF matching = {} THEN size ELSE Min(matching)
  BY DEF BinFor
<1>7. TrainedBin(f, x) =
          CHOOSE n \in 1..size : (n = 1 \/ hi(n - 1) < x) /\ (n = size \/ x <= hi(n))
  BY <1>1 DEF TrainedBin
<1>8. AtEdge(f, x) <=> \E n \in 1..(size - 1) : x = hi(n)
  BY DEF AtEdge
<1> HIDE DEF x, bins, size, lo, hi, matching
<1>9. PICK n \in 1..size : lo(n) <= x /\ x < hi(n)
  <2> HIDE DEF beyond
  <2>1. beyond \in SUBSET (1..size) /\ beyond # {}
    BY <1>1, <1>4 DEF beyond
  <2>2. PICK n : n \in beyond /\ \A m \in beyond : n <= m
    BY <1>1, <2>1, LeastPosition
  <2>3. n \in 1..size /\ x < hi(n)
    BY <2>2 DEF beyond
  <2>4. lo(n) <= x
    <3>1. CASE n = 1
      BY <1>4, <3>1
    <3>2. CASE n # 1
      <4>1. n - 1 \in 1..size /\ n - 1 < size /\ (n - 1) + 1 = n /\ ~(n <= n - 1)
        BY <1>1, <2>3, <3>2
      <4>2. n - 1 \notin beyond
        BY <2>2, <4>1
      <4>3. ~(x < hi(n - 1)) /\ hi(n - 1) = lo(n)
        BY <1>3, <4>1, <4>2 DEF beyond
      <4> QED BY <1>2, <1>4, <4>1, <4>3
    <3> QED BY <3>1, <3>2
  <2> QED BY <2>3, <2>4
<1>10. \A m \in 1..size : lo(m) <= x /\ x < hi(m) => m = n
  <2> SUFFICES ASSUME NEW m \in 1..size, lo(m) <= x, x < hi(m) PROVE m = n
    OBVIOUS
  <2>1. ~(m < n) /\ ~(n < m)
    BY <1>2, <1>3, <1>4, <1>9
  <2> QED BY <1>1, <2>1
<1>11. BinFor(f, v) = n
  <2>1. matching = {n}
    BY <1>5, <1>9, <1>10
  <2>2. Min({n}) = n
    BY DEF Min
  <2> QED BY <1>6, <2>1, <2>2
<1> DEFINE Fit(k) == (k = 1 \/ hi(k - 1) < x) /\ (k = size \/ x <= hi(k))
<1>12. TrainedBin(f, x) = CHOOSE k \in 1..size : Fit(k)
  BY <1>7
<1>13. CASE AtEdge(f, x)
  <2>1. PICK e \in 1..(size - 1) : x = hi(e)
    BY <1>8, <1>13
  <2>2. e \in 1..size /\ e + 1 \in 1..size /\ e < size
    BY <1>1, <2>1
  <2>3. e + 1 = n
    <3>1. lo(e + 1) = x /\ x < hi(e + 1)
      BY <1>3, <2>1, <2>2
    <3>2. lo(e + 1) <= x
      BY <1>4, <3>1
    <3> QED BY <1>10, <2>2, <3>1, <3>2
  <2>4. Fit(e)
    <3>1. e # 1 => e - 1 \in 1..size /\ e - 1 < e
      BY <1>1, <2>2
    <3> QED BY <1>2, <1>3, <1>4, <2>1, <2>2, <3>1
  <2>5. \A k \in 1..size : Fit(k) => k = e
    <3> SUFFICES ASSUME NEW k \in 1..size, Fit(k) PROVE k = e
      OBVIOUS
    <3>1. ~(k < e)
      <4> SUFFICES ASSUME k < e PROVE FALSE
        OBVIOUS
      <4>1. k # size /\ x <= hi(k)
        BY <1>1, <2>2
      <4>2. hi(k) <= lo(e) /\ lo(e) < hi(e)
        BY <1>3, <2>2
      <4> QED BY <1>2, <2>1, <2>2, <4>1, <4>2
    <3>2. ~(e < k)
      <4> SUFFICES ASSUME e < k PROVE FALSE
        OBVIOUS
      <4>1. k # 1 /\ k - 1 \in 1..size /\ hi(k - 1) < x
        BY <1>1, <2>2
      <4>2. k - 1 = e \/ e < k - 1
        BY <2>2
      <4>3. e < k - 1 => hi(e) <= lo(k - 1) /\ lo(k - 1) < hi(k - 1)
        BY <1>3, <2>2, <4>1
      <4> QED BY <1>2, <2>1, <2>2, <4>1, <4>2, <4>3
    <3> QED BY <1>1, <2>2, <3>1, <3>2
  <2> HIDE DEF Fit
  <2>6. TrainedBin(f, x) = e
    BY <1>12, <2>2, <2>4, <2>5
  <2> QED BY <1>11, <1>13, <2>2, <2>3, <2>6 DEF x
<1>14. CASE ~AtEdge(f, x)
  <2>1. \A k \in 1..size : k < size => x # hi(k)
    <3>1. \A k \in 1..size : k < size => k \in 1..(size - 1)
      BY <1>1
    <3> QED BY <1>8, <1>14, <3>1
  <2>2. Fit(n)
    <3>1. CASE n = 1
      BY <1>2, <1>4, <1>9, <3>1
    <3>2. CASE n # 1
      <4>1. n - 1 \in 1..size /\ n - 1 < size /\ n - 1 < n
        BY <1>1, <3>2
      <4>2. hi(n - 1) <= lo(n) /\ x # hi(n - 1)
        BY <1>3, <2>1, <4>1
      <4> QED BY <1>2, <1>4, <1>9, <4>1, <4>2
    <3> QED BY <3>1, <3>2
  <2>3. \A k \in 1..size : Fit(k) => k = n
    <3> SUFFICES ASSUME NEW k \in 1..size, Fit(k) PROVE k = n
      OBVIOUS
    <3>1. ~(k < n)
      <4> SUFFICES ASSUME k < n PROVE FALSE
        OBVIOUS
      <4>1. k # size /\ k < size /\ x <= hi(k)
        BY <1>1
      <4>2. hi(k) <= lo(n) /\ x # hi(k)
        BY <1>3, <2>1, <4>1
      <4> QED BY <1>2, <1>4, <1>9, <4>1, <4>2
    <3>2. ~(n < k)
      <4> SUFFICES ASSUME n < k PROVE FALSE
        OBVIOUS
      <4>1. k # 1 /\ k - 1 \in 1..size /\ hi(k - 1) < x
        BY <1>1
      <4>2. k - 1 = n \/ n < k - 1
        BY <1>1
      <4>3. n < k - 1 => hi(n) <= lo(k - 1) /\ lo(k - 1) < hi(k - 1)
        BY <1>3, <4>1
      <4> QED BY <1>2, <1>4, <1>9, <4>1, <4>2, <4>3
    <3> QED BY <1>1, <3>1, <3>2
  <2> HIDE DEF Fit
  <2>4. TrainedBin(f, x) = n
    BY <1>12, <2>2, <2>3
  <2> QED BY <1>1, <1>11, <1>14, <2>4 DEF x
<1> QED BY <1>13, <1>14 DEF x

(* Every contribution names the bin that its value is served by. *)
ServedInv ==
    \A n \in DOMAIN contributions :
        /\ contributions[n].feature \in Scored
        /\ contributions[n].bin
              = BinFor(contributions[n].feature, request.value[contributions[n].feature])

LEMMA ServedInductive == Spec => []ServedInv
<1>1. Init => ServedInv
  BY DEF Init, ServedInv
<1>2. ScoringInv /\ ServedInv /\ [Next]_vars => ServedInv'
  <2> SUFFICES ASSUME ScoringInv, ServedInv, [Next]_vars PROVE ServedInv'
    OBVIOUS
  <2>1. CASE UNCHANGED <<request, contributions>>
    BY <2>1 DEF ServedInv
  <2>2. CASE ScoreFeature
    <3> DEFINE f == Features[Position]
               n == BinFor(f, request.value[f])
               turn == [feature |-> f, bin |-> n, impact |-> PointImpact(f, Bins[f][n])]
    <3>1. contributions' = Append(contributions, turn) /\ request' = request /\ Position <= N
      BY <2>2 DEF ScoreFeature, Scoring
    <3>2. contributions \in Seq(Contributions) /\ Position = Len(contributions) + 1
      BY DEF ScoringInv, Position
    <3>3. f \in Scored /\ turn.feature = f /\ turn.bin = n
      BY <3>1, <3>2, ArtifactTypes
    <3> HIDE DEF turn, n
    <3>4. /\ DOMAIN contributions' = 1..Position /\ contributions'[Position] = turn
          /\ \A k \in 1..(Position - 1) : contributions'[k] = contributions[k]
          /\ DOMAIN contributions = 1..(Position - 1)
      BY <3>1, <3>2
    <3>5. \A k \in DOMAIN contributions' : k \in DOMAIN contributions \/ contributions'[k] = turn
      BY <3>2, <3>4
    <3>6. \A k \in DOMAIN contributions : contributions'[k] = contributions[k]
      BY <3>4
    <3> QED BY <3>1, <3>3, <3>5, <3>6 DEF ServedInv, n
  <2> QED BY <2>1, <2>2 DEF Next, vars, RejectVersion, RejectMissing, RejectText, Rejects, Respond
<1> QED BY <1>1, <1>2, ScoringInductive, PTL DEF Spec

(* A value on an inner edge is served by the bin after the one it was      *)
(* trained in (scorecard.py:48 against woe.py:85), and every other value   *)
(* by its own, for every artifact whose bins are intervals that meet.      *)
THEOREM OnlyEdgesDiffer == ASSUME BinsMeet PROVE Spec => []EdgesServedAbove
<1>1. ServedInv => EdgesServedAbove
  <2> SUFFICES ASSUME ServedInv, NEW n \in DOMAIN contributions,
                      NEW c, c = contributions[n], request.value[c.feature].is = "number",
                      Covered(c.feature, request.value[c.feature].number)
               PROVE  c.bin = TrainedBin(c.feature, request.value[c.feature].number)
                              + IF AtEdge(c.feature, request.value[c.feature].number) THEN 1 ELSE 0
    BY DEF EdgesServedAbove, ToSet
  <2>1. c.feature \in Scored /\ c.bin = BinFor(c.feature, request.value[c.feature])
    BY DEF ServedInv
  <2> QED BY <2>1, ServedAboveEdge
<1> QED BY <1>1, ServedInductive, PTL
=============================================================================
