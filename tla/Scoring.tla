------------------------------- MODULE Scoring -------------------------------
(***************************************************************************)
(* POST /score: one applicant scored by the points-based scorecard that    *)
(* train_scorecard.py writes and the scoring service loads.                *)
(*                                                                         *)
(* The points of a bin and the probability of default come from the same   *)
(* WOE values on two ways: the points are rounded bin by bin when the      *)
(* artifact is written, the log odds are summed when it is served.  The    *)
(* grade follows the one, the policy's SCORE_FLOOR the other.  WOE,        *)
(* coefficients and the intercept are integers here, in 1/10000; edges and *)
(* values in 1/1000; a log odds stands for its probability.                *)
(***************************************************************************)
EXTENDS Integers, Sequences, FiniteSets, SequencesExt, FiniteSetsExt

CONSTANTS
    Features,           \* the features of the artifact, in its order
    Coefficient,        \* Coefficient[f], in 1/10000
    Bins,               \* Bins[f]: bins with lo, hi and woe
    Intercept,          \* in 1/10000
    Champion,           \* the model_version of the artifact
    ReasonCodesTopN,    \* settings.reason_codes_top_n
    ScoreFloor,         \* the score that a policy's SCORE_FLOOR rule demands
    Grades,             \* keys of GRADE_SPREADS, those that have a price
    Requests            \* version, value of each feature, whether the fields of the
                        \* challenger are there

Scored == ToSet(Features)
N == Len(Features)

ASSUME ArtifactAssumption ==
    /\ Features \in Seq(Scored) /\ N > 0
    /\ Intercept \in Int /\ ReasonCodesTopN \in Nat /\ ScoreFloor \in Int
    /\ \A f \in Scored : /\ Coefficient[f] \in Int
                         /\ Bins[f] \in Seq(ToSet(Bins[f])) /\ Bins[f] # <<>>
                         /\ \A b \in ToSet(Bins[f]) : {b.lo, b.hi, b.woe} \subseteq Int
ASSUME RequestsAssumption ==
    \A r \in Requests : \A f \in Scored : r.value[f].is \in {"number", "nan", "text", "missing"}

VARIABLES
    request,
    points,         \* total_points
    logOdds,        \* log_odds_bad, in 1/10^8
    contributions,  \* of the features gone through, with the bin of each
    response

vars == <<request, points, logOdds, contributions, response>>

Pending == [status |-> 0]

TypeOK ==
    /\ request \in Requests
    /\ points \in Int /\ logOdds \in Int
    /\ response.status \in {0, 200, 400, 422, 500}
    /\ Len(contributions) <= N
    /\ \A n \in DOMAIN contributions :
          /\ contributions[n].feature = Features[n]
          /\ contributions[n].bin \in DOMAIN Bins[Features[n]]

-----------------------------------------------------------------------------
(* train_scorecard.py, the PDO scaling.                                    *)

Factor == 28854         \* 20 / ln 2, in 1/1000
Offset == 4871229       \* 600 - Factor * ln 50, in 1/10000

Rounded(x, unit) == (x + unit \div 2) \div unit

\* A share of the linear predictor, in 1/10000, in points, in 1/10^7.
Scale(share) == (Offset \div N) * 1000 - share * Factor

\* Mutant: the intercept goes to every feature undivided.
PointsUndivided(f, b) ==
    Rounded(Scale(Rounded(b.woe * Coefficient[f], 10000) + Intercept), 10000000)

Points(f, b) ==
    Rounded(Scale(Rounded(b.woe * Coefficient[f], 10000) + Intercept \div N), 10000000)

\* woe.py, transform_to_woe: pd.cut at the upper edges, closed on the right.
TrainedBin(f, x) ==
    CHOOSE n \in DOMAIN Bins[f] :
        /\ n = 1 \/ Bins[f][n - 1].hi < x
        /\ n = Len(Bins[f]) \/ x <= Bins[f][n].hi

-----------------------------------------------------------------------------
(* scorecard.py and main.py.                                               *)

\* Mutant: a bin has its upper edge and not its lower one, as it was trained.
MatchesClosedAbove(b, v) == v.is = "number" /\ b.lo < v.number /\ v.number <= b.hi

Matches(b, v) == v.is = "number" /\ b.lo <= v.number /\ v.number < b.hi

\* The first bin that matches, or else, for a NaN, the last one.
BinFor(f, v) ==
    LET matching == {n \in DOMAIN Bins[f] : Matches(Bins[f][n], v)}
    IN  IF matching = {} THEN Len(Bins[f]) ELSE Min(matching)

\* What a WOE of 0 contributes.
NeutralPoints == Scale(Intercept \div N)
PointImpact(f, b) == Rounded(Points(f, b) * 10000000 - NeutralPoints, 10000000)

\* Bounds of PD, as log odds in 1/10^8: 1%, 2%, 3.5%, 5%, 8% and 12%.
RiskGradeBands ==
    <<[upper |-> -459511985, grade |-> "A1"], [upper |-> -389182030, grade |-> "A2"],
      [upper |-> -331678091, grade |-> "B1"], [upper |-> -294443898, grade |-> "B2"],
      [upper |-> -244234704, grade |-> "C1"], [upper |-> -199243016, grade |-> "C2"]>>

RiskGradeFor(odds) ==
    LET above == {n \in DOMAIN RiskGradeBands : odds < RiskGradeBands[n].upper}
    IN  IF above = {} THEN "D" ELSE RiskGradeBands[Min(above)].grade

Init ==
    /\ request \in Requests
    /\ points = 0
    /\ logOdds = Intercept * 10000
    /\ contributions = <<>>
    /\ response = Pending

\* Mutant: the loop begins with the second feature.
PositionSecond == Len(contributions) + 2

Position == Len(contributions) + 1

Rejects(status) ==
    /\ response' = [status |-> status]
    /\ UNCHANGED <<request, points, logOdds, contributions>>

Missing == {f \in Scored : request.value[f].is = "missing"}
WrongVersion == request.version \notin {"none", Champion}

RejectVersion == response = Pending /\ WrongVersion /\ Rejects(400)

RejectMissing == response = Pending /\ ~WrongVersion /\ Missing # {} /\ Rejects(422)

Scoring ==
    /\ response = Pending /\ ~WrongVersion /\ Missing = {}
    /\ Position <= N

\* float(value) of a text raises.
RejectText == Scoring /\ request.value[Features[Position]].is = "text" /\ Rejects(500)

\* Mutant: the WOE counts with its raw sign.
ScoreFeatureUnweighted ==
    /\ Scoring
    /\ LET f == Features[Position]
           n == BinFor(f, request.value[f])
           b == Bins[f][n]
       IN  /\ request.value[f].is # "text"
           /\ points' = points + Points(f, b)
           /\ logOdds' = logOdds + 10000 * b.woe
           /\ contributions' = Append(contributions,
                                      [feature |-> f, bin |-> n, impact |-> PointImpact(f, b)])
    /\ UNCHANGED <<request, response>>

\* One turn of the loop of Scorecard.score.
ScoreFeature ==
    /\ Scoring
    /\ LET f == Features[Position]
           n == BinFor(f, request.value[f])
           b == Bins[f][n]
       IN  /\ request.value[f].is # "text"
           /\ points' = points + Points(f, b)
           /\ logOdds' = logOdds + Coefficient[f] * b.woe
           /\ contributions' = Append(contributions,
                                      [feature |-> f, bin |-> n, impact |-> PointImpact(f, b)])
    /\ UNCHANGED <<request, response>>

\* Mutant: in the order of the artifact.
BeforeByPosition(m, n) == m < n

\* contributions.sort by point_impact, which keeps the order of equals.
Before(m, n) ==
    \/ contributions[m].impact < contributions[n].impact
    \/ contributions[m].impact = contributions[n].impact /\ m < n

Rank(n, S) == Cardinality({m \in S : Before(m, n)})
Sorted(S) == [k \in 1..Cardinality(S) |-> contributions[CHOOSE n \in S : Rank(n, S) = k - 1]]

\* The negative ones of the sorted list, in its order, and of those the first.
ReasonCodes ==
    LET negative == Sorted({n \in DOMAIN contributions : contributions[n].impact < 0})
    IN  SubSeq(negative, 1, Min({ReasonCodesTopN, Len(negative)}))

\* The response; the challenger scores along when all of its fields are there.
Respond ==
    /\ response = Pending /\ Position > N
    /\ response' = [status |-> 200, score |-> points, riskGrade |-> RiskGradeFor(logOdds),
                    reasonCodes |-> ReasonCodes, challenger |-> request.challengerFields]
    /\ UNCHANGED <<request, points, logOdds, contributions>>

Next == RejectVersion \/ RejectMissing \/ RejectText \/ ScoreFeature \/ Respond

Spec == Init /\ [][Next]_vars

-----------------------------------------------------------------------------
(* Properties.                                                             *)

Ok == response.status = 200
Abs(x) == IF x < 0 THEN -x ELSE x

\* What rounding may make of it, in 1/10^5 points: half a point for each feature,
\* and what the units of this module round off.
Slack == N * 50500

(* The two ways agree: the score is the one that the log odds stand for on *)
(* the PDO scale, up to half a point of rounding per feature, so that the  *)
(* points a customer is told of rank like the probability that is priced.  *)
ScoreTracksOdds ==
    Ok => Abs(response.score * 100000
              - (Offset * 10 - (Rounded(logOdds, 10000) * Factor) \div 100)) <= Slack

\* What a floor has to be, with this artifact, to keep the unpriced grades out.
FloorLeavesRoom ==
    \E n \in DOMAIN RiskGradeBands :
        /\ \A m \in 1..n : RiskGradeBands[m].grade \in Grades
        /\ Offset * 10 + Slack - ScoreFloor * 100000
              < ((RiskGradeBands[n].upper \div 10000) * Factor) \div 100

(* A score that passes SCORE_FLOOR comes with a grade that has a price, as *)
(* limit-pricing.service.ts relies on when it prices an approval, although *)
(* the floor is written by a user and the grade comes from the odds.       *)
FloorImpliesPriced == Ok /\ response.score >= ScoreFloor => response.riskGrade \in Grades

(* The reason codes are what pulled the score down most: negative, in      *)
(* order, and no feature that is left out pulls harder than one that is    *)
(* named, unless there was room for it.                                    *)
ReasonsAreWorst ==
    Ok =>
        LET named == {c.feature : c \in ToSet(response.reasonCodes)}
            codes == response.reasonCodes
        IN  /\ \A m, n \in DOMAIN codes : m < n => codes[m].impact <= codes[n].impact
            /\ \A c \in ToSet(contributions) : c.feature \notin named =>
                  \/ c.impact >= 0
                  \/ Len(codes) = ReasonCodesTopN
                     /\ \A d \in ToSet(codes) : d.impact <= c.impact

\* What bins are like: intervals in order, each of which ends where the next begins.
BinsMeet ==
    \A f \in Scored : \A n \in DOMAIN Bins[f] :
        /\ Bins[f][n].lo < Bins[f][n].hi
        /\ \A m \in DOMAIN Bins[f] : n < m => Bins[f][n].hi <= Bins[f][m].lo
        /\ n < Len(Bins[f]) => Bins[f][n].hi = Bins[f][n + 1].lo

\* Inner edges, and the values between the first and the last.
AtEdge(f, x) == \E n \in 1..(Len(Bins[f]) - 1) : x = Bins[f][n].hi
Covered(f, x) == x \in Bins[f][1].lo..(Bins[f][Len(Bins[f])].hi - 1)

(* A value on an inner edge is served by the bin after the one it was      *)
(* trained in, so with points that were fitted to others, and every other  *)
(* value by its own (scorecard.py:48 against woe.py:85, which says of a    *)
(* bin that it is the interval (lo, hi]).                                  *)
EdgesServedAbove ==
    \A c \in ToSet(contributions) :
        LET f == c.feature
            v == request.value[f]
        IN  v.is = "number" /\ Covered(f, v.number) =>
                c.bin = TrainedBin(f, v.number) + IF AtEdge(f, v.number) THEN 1 ELSE 0
=============================================================================
