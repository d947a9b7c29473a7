-------------------------- MODULE DecisioningProofs --------------------------
(***************************************************************************)
(* What Decisioning promises of every list of rules, every verdict and     *)
(* every applicant.  The argument rests on LoopInv: what the loop of the   *)
(* rules engine has seen so far is an initial segment of the sorted rules, *)
(* none of which threw or declined, and the outcome is a function of it.   *)
(***************************************************************************)
EXTENDS Decisioning, TLAPS

LEMMA PolicyIsList ==
    ASSUME TypeOK
    PROVE  /\ Len(policy) \in Nat
           /\ Rules = 1..Len(policy)
           /\ \A k \in Rules : /\ policy[k].priority \in Int
                               /\ policy[k].onFail \in {"DECLINE", "REFER"}
<1> DEFINE RuleSet == [priority : Int, onFail : {"DECLINE", "REFER"}, reason : STRING]
<1>1. policy \in Seq(RuleSet)
  BY PolicyAssumption DEF TypeOK
<1>2. Len(policy) \in Nat /\ Rules = 1..Len(policy) /\ \A k \in Rules : policy[k] \in RuleSet
  <2> HIDE DEF RuleSet
  <2> QED
    BY <1>1 DEF Rules
<1>3. QED
  BY <1>2

LEMMA LimitIsNatural ==
    ASSUME NEW a \in Applicants, NEW g \in DOMAIN Annuity
    PROVE  Limit(a, g) \in Nat
<1>1. /\ a.monthlyIncome \in Nat /\ a.obligations \in Nat
      /\ Annuity[g] \in Nat /\ ProductCeiling \in Nat
  BY AmountAssumption
<1>2. MaxEmi(a) \in Nat
  BY <1>1 DEF MaxEmi, Room, Most, FoirPercent
<1>3. MaxEmi(a) * Annuity[g] \in Nat
  BY <1>1, <1>2
<1>4. AffordabilityLimit(MaxEmi(a), g) \in Int
  BY <1>3 DEF AffordabilityLimit
<1>5. Cap(MaxEmi(a), a, g) \in Int
  BY <1>1, <1>4 DEF Cap, Least, IncomeCap, IncomeMultiplier
<1>6. QED
  BY <1>5 DEF Limit, Most, Step

LEMMA TypeInit == Init => TypeOK
PROOF BY PolicyAssumption DEF Init, TypeOK, Rules, NoAmount

LEMMA TypeStep == TypeOK /\ [Next]_vars => TypeOK'
<1> SUFFICES ASSUME TypeOK, [Next]_vars PROVE TypeOK'
  OBVIOUS
<1> USE DEF TypeOK, input
<1>0. Len(policy) \in Nat /\ Rules = 1..Len(policy)
  BY PolicyIsList
<1>1. CASE Sort
  BY <1>1 DEF Sort, Rules, Bijection, Injection
<1>2. CASE EvaluateRule
  <2>1. /\ phase = "rules" /\ Rule \in Rules
        /\ next \in 1..Len(policy)
        /\ UNCHANGED <<input, sortedRules, approvedAmount, reasonCodes>>
    BY <1>0, <1>2 DEF EvaluateRule, Rule
  <2>2. policy[Rule].onFail \in {"DECLINE", "REFER"}
    BY <2>1, PolicyIsList
  <2>3. CASE RulePasses
    BY <1>0, <2>1, <2>3 DEF RulePasses, Rules
  <2>4. CASE RuleFails
    <3>1. next' \in 1..(Len(policy) + 1) /\ phase' \in {"rules", "price"}
      BY <1>0, <2>1, <2>4 DEF RuleFails
    <3>2. firedRules' \in Seq(Rules) /\ outcome' \in {"REFER", "DECLINE"}
      BY <2>1, <2>2, <2>4 DEF RuleFails
    <3>3. QED
      BY <2>1, <3>1, <3>2 DEF Rules
  <2>5. CASE RuleThrows
    BY <2>1, <2>5 DEF RuleThrows, Rules
  <2>6. QED
    BY <1>2, <2>3, <2>4, <2>5 DEF EvaluateRule
<1>3. CASE EndRules
  BY <1>3 DEF EndRules, Rules
<1>4. CASE LimitStage
  <2>1. CASE Skip
    BY <1>4, <2>1 DEF LimitStage, Skip, Rules
  <2>2. CASE Price
    BY <1>4, <2>2, LimitIsNatural DEF LimitStage, Price, Rules
  <2>3. QED
    BY <1>4, <2>1, <2>2 DEF LimitStage
<1>5. CASE Persist
  BY <1>5 DEF Persist, Rules
<1>6. CASE UNCHANGED vars
  BY <1>6 DEF vars, Rules
<1>7. QED
  BY <1>1, <1>2, <1>3, <1>4, <1>5, <1>6 DEF Next

(* Type correctness: among the rest, the turn of the loop of evaluate never *)
(* passes the end of the list, and no limit of price is negative.          *)
THEOREM TypeCorrect == Spec => []TypeOK
PROOF BY TypeInit, TypeStep, PTL DEF Spec

-----------------------------------------------------------------------------
(* The loop of the rules engine.                                           *)

Ordered ==
    /\ sortedRules \in [Rules -> Rules]
    /\ \A k \in Rules : \E m \in Rules : sortedRules[m] = k
    /\ \A m, n \in Rules : m < n => Precedes(sortedRules[m], sortedRules[n])

\* The turns the loop has taken; the DECLINE that broke it is the last one.
Turns == IF outcome = "DECLINE" THEN 1..next ELSE 1..(next - 1)

Clear(m) == verdict[sortedRules[m]] # "throws" /\ ~Declines(sortedRules[m])

LoopInv ==
    /\ phase = "sort" => next = 1 /\ outcome = "APPROVE" /\ firedRules = <<>>
    /\ phase # "sort" => Ordered
    /\ phase = "rules" => outcome # "DECLINE"
    /\ phase # "failed" =>
        /\ \A m \in 1..(next - 1) : Clear(m)
        /\ outcome # "DECLINE" =>
             (outcome = "REFER" <=> \E m \in 1..(next - 1) : Fails(sortedRules[m]))
    /\ Evaluated =>
        IF outcome = "DECLINE" THEN next \in Rules /\ Declines(sortedRules[next])
        ELSE next = Len(policy) + 1

LEMMA SortOrders ==
    ASSUME Sort PROVE Ordered'
PROOF BY DEF Sort, Ordered, Precedes, Bijection, Injection, Surjection, input, Rules

LEMMA LoopInit == TypeOK /\ Init => LoopInv
<1> SUFFICES ASSUME TypeOK, Init PROVE LoopInv
  OBVIOUS
<1>1. 1..(next - 1) = {}
  BY DEF Init
<1>2. QED
  BY <1>1 DEF Init, LoopInv, Evaluated

LEMMA LoopStep == TypeOK /\ TypeOK' /\ LoopInv /\ [Next]_vars => LoopInv'
<1> SUFFICES ASSUME TypeOK, TypeOK', LoopInv, [Next]_vars PROVE LoopInv'
  OBVIOUS
<1> USE DEF LoopInv, Evaluated
<1>0. /\ Len(policy) \in Nat /\ Rules = 1..Len(policy)
      /\ next \in 1..(Len(policy) + 1)
      /\ outcome \in {"APPROVE", "REFER", "DECLINE"}
  BY PolicyIsList DEF TypeOK
<1>1. CASE Sort
  <2>1. next = 1 /\ outcome = "APPROVE" /\ 1..(next - 1) = {}
    BY <1>1 DEF Sort
  <2>2. Ordered'
    BY <1>1, SortOrders
  <2>3. phase' = "rules" /\ UNCHANGED <<next, outcome>>
    BY <1>1 DEF Sort
  <2>4. QED
    BY <2>1, <2>2, <2>3
<1>2. CASE EvaluateRule
  <2>1. /\ phase = "rules" /\ next \in 1..Len(policy) /\ outcome # "DECLINE"
        /\ UNCHANGED <<policy, verdict, sortedRules>>
    BY <1>0, <1>2 DEF EvaluateRule, input
  <2>2. /\ Ordered' /\ Rules' = Rules
        /\ \A m : /\ Clear(m)' <=> Clear(m)
                  /\ Fails(sortedRules[m])' <=> Fails(sortedRules[m])
                  /\ Declines(sortedRules[m])' <=> Declines(sortedRules[m])
    BY <2>1 DEF Ordered, Precedes, Rules, Clear, Fails, Declines
  <2>3. Rule = sortedRules[next] /\ Rule \in Rules
    BY <1>0, <2>1 DEF Rule, Ordered
  <2>4. ASSUME next' = next + 1
        PROVE  \A m \in 1..(next' - 1) : m \in 1..(next - 1) \/ m = next
    BY <1>0, <2>4
  <2>5. ASSUME next' = next + 1
        PROVE  1..(next - 1) \subseteq 1..(next' - 1) /\ next \in 1..(next' - 1)
    BY <1>0, <2>1, <2>5
  <2>6. CASE RulePasses
    <3>1. Clear(next) /\ ~Fails(sortedRules[next])
      BY <2>3, <2>6 DEF RulePasses, Clear, Fails, Declines
    <3>2. next' = next + 1 /\ phase' = "rules" /\ outcome' = outcome
      BY <2>1, <2>6 DEF RulePasses
    <3>3. QED
      BY <2>1, <2>2, <2>4, <2>5, <3>1, <3>2
  <2>7. CASE RuleFails
    <3>1. Fails(sortedRules[next]) /\ outcome' = policy[Rule].onFail
      BY <2>3, <2>7 DEF RuleFails, Fails
    <3>2. CASE policy[Rule].onFail = "DECLINE"
      <4>1. phase' = "price" /\ next' = next /\ outcome' = "DECLINE"
        BY <2>7, <3>1, <3>2 DEF RuleFails
      <4>2. Declines(sortedRules[next])
        BY <2>3, <3>1, <3>2 DEF Declines
      <4>3. QED
        BY <1>0, <2>1, <2>2, <4>1, <4>2
    <3>3. CASE policy[Rule].onFail # "DECLINE"
      <4>1. phase' = "rules" /\ next' = next + 1 /\ outcome' = "REFER"
        BY <2>1, <2>3, <2>7, <3>1, <3>3, PolicyIsList DEF RuleFails
      <4>2. Clear(next)
        BY <2>3, <3>1, <3>3 DEF Clear, Fails, Declines
      <4>3. QED
        BY <2>1, <2>2, <2>4, <2>5, <3>1, <4>1, <4>2
    <3>4. QED
      BY <3>2, <3>3
  <2>8. CASE RuleThrows
    BY <2>2, <2>8 DEF RuleThrows
  <2>9. QED
    BY <1>2, <2>6, <2>7, <2>8 DEF EvaluateRule
<1>3. CASE EndRules \/ LimitStage \/ Persist \/ UNCHANGED vars
  <2>1. /\ UNCHANGED <<policy, verdict, sortedRules, next, outcome, firedRules>>
    BY <1>3 DEF EndRules, LimitStage, Persist, vars, input
  <2>2. /\ Rules' = Rules /\ Ordered' = Ordered
        /\ \A m : /\ Clear(m)' <=> Clear(m)
                  /\ Fails(sortedRules[m])' <=> Fails(sortedRules[m])
                  /\ Declines(sortedRules[m])' <=> Declines(sortedRules[m])
    BY <2>1 DEF Ordered, Precedes, Rules, Clear, Fails, Declines
  <2>3. CASE EndRules
    <3>1. next = Len(policy) + 1 /\ phase = "rules" /\ phase' = "price"
      BY <1>0, <2>3 DEF EndRules
    <3>2. QED
      BY <2>1, <2>2, <3>1
  <2>4. CASE LimitStage \/ Persist
    <3>1. Evaluated /\ phase' \in {"persist", "stored", "failed"}
      BY <2>4 DEF LimitStage, Skip, Price, Persist
    <3>2. QED
      BY <2>1, <2>2, <3>1
  <2>5. CASE UNCHANGED vars
    <3>1. phase' = phase
      BY <2>5 DEF vars
    <3>2. QED
      BY <2>1, <2>2, <3>1
  <2>6. QED
    BY <1>3, <2>3, <2>4, <2>5
<1>4. QED
  BY <1>1, <1>2, <1>3 DEF Next

LEMMA LoopAlways == Spec => [](TypeOK /\ LoopInv)
<1>1. Init => TypeOK /\ LoopInv
  BY TypeInit, LoopInit
<1>2. TypeOK /\ LoopInv /\ [Next]_vars => (TypeOK /\ LoopInv)'
  BY TypeStep, LoopStep
<1>3. QED
  BY <1>1, <1>2, PTL DEF Spec

\* Where a rule stands among the sorted ones is what Precedes says.
LEMMA PlaceOfRule ==
    ASSUME TypeOK, Ordered, NEW m \in Rules, NEW n \in Rules
    PROVE  Precedes(sortedRules[m], sortedRules[n]) <=> m < n
<1>1. Len(policy) \in Nat /\ Rules = 1..Len(policy)
  BY PolicyIsList
<1>2. m \in Int /\ n \in Int
  BY <1>1
<1> DEFINE i == sortedRules[m]
           j == sortedRules[n]
<1>3. i \in Rules /\ j \in Rules
  BY DEF Ordered
<1>4. /\ i \in Int /\ j \in Int
      /\ policy[i].priority \in Int /\ policy[j].priority \in Int
  BY <1>1, <1>3, PolicyIsList
<1>5. CASE m < n
  BY <1>5 DEF Ordered
<1>6. CASE m = n
  <2>1. i = j
    BY <1>6
  <2>2. ~Precedes(i, j)
    <3> HIDE DEF i, j
    <3> QED
      BY <1>4, <2>1 DEF Precedes
  <2>3. QED
    BY <1>2, <1>6, <2>2
<1>7. CASE n < m
  <2>1. Precedes(j, i)
    BY <1>7 DEF Ordered
  <2>2. ~Precedes(i, j)
    <3> HIDE DEF i, j
    <3> QED
      BY <1>4, <2>1 DEF Precedes
  <2>3. QED
    BY <1>2, <1>7, <2>2
<1>8. QED
  BY <1>2, <1>5, <1>6, <1>7

LEMMA LoopDecides ==
    ASSUME TypeOK, LoopInv, Evaluated
    PROVE  outcome = IF \E k \in Rules : Declines(k) THEN "DECLINE"
                     ELSE IF \E k \in Rules : Fails(k) THEN "REFER"
                     ELSE "APPROVE"
<1>0. /\ Len(policy) \in Nat /\ Rules = 1..Len(policy)
      /\ outcome \in {"APPROVE", "REFER", "DECLINE"}
  BY PolicyIsList DEF TypeOK
<1>1. Ordered
  BY DEF LoopInv, Evaluated
<1>2. CASE outcome = "DECLINE"
  <2>1. sortedRules[next] \in Rules /\ Declines(sortedRules[next])
    BY <1>1, <1>2 DEF LoopInv, Ordered
  <2>2. QED
    BY <1>2, <2>1
<1>3. CASE outcome # "DECLINE"
  <2>1. 1..(next - 1) = Rules
    BY <1>0, <1>3 DEF LoopInv
  <2>2. \A k \in Rules : ~Declines(k)
    <3>1. \A m \in Rules : ~Declines(sortedRules[m])
      BY <2>1 DEF LoopInv, Evaluated, Clear
    <3>2. QED
      BY <1>1, <3>1 DEF Ordered
  <2>3. outcome = "REFER" <=> \E k \in Rules : Fails(k)
    <3>1. outcome = "REFER" <=> \E m \in Rules : Fails(sortedRules[m])
      BY <1>3, <2>1 DEF LoopInv, Evaluated
    <3>2. QED
      BY <1>1, <3>1 DEF Ordered
  <2>4. QED
    BY <1>0, <1>3, <2>2, <2>3
<1>4. QED
  BY <1>2, <1>3

LEMMA LoopSkipsNone ==
    ASSUME TypeOK, LoopInv, Evaluated, NEW k \in Rules, verdict[k] = "throws"
    PROVE  \E j \in Rules : Declines(j) /\ Precedes(j, k)
<1>0. Len(policy) \in Nat /\ Rules = 1..Len(policy)
  BY PolicyIsList
<1>1. Ordered
  BY DEF LoopInv, Evaluated
<1>2. PICK m \in Rules : sortedRules[m] = k
  BY <1>1 DEF Ordered
<1>3. m \notin 1..(next - 1)
  BY <1>2 DEF LoopInv, Evaluated, Clear
<1>4. outcome = "DECLINE" /\ next \in Rules /\ Declines(sortedRules[next])
  BY <1>0, <1>3 DEF LoopInv
<1>5. m # next
  BY <1>2, <1>4 DEF Declines, Fails
<1>6. next < m
  BY <1>0, <1>3, <1>4, <1>5
<1>7. QED
  BY <1>1, <1>2, <1>4, <1>6 DEF Ordered

(* The outcome of the rules is that of the worst rule that fails, and a    *)
(* rule that threw goes unnoticed only behind a DECLINE of earlier place,  *)
(* for every list of rules in any order, with any priorities.              *)
THEOREM OutcomeOrderFree == Spec => []OutcomeIgnoresOrder
<1>1. TypeOK /\ LoopInv => OutcomeIgnoresOrder
  BY LoopDecides, LoopSkipsNone DEF OutcomeIgnoresOrder
<1> QED BY <1>1, LoopAlways, PTL

-----------------------------------------------------------------------------
(* The reason codes.                                                       *)

FiredInv ==
    phase # "failed" =>
        \A k \in Rules :
            (\E n \in DOMAIN firedRules : firedRules[n] = k)
                <=> (\E m \in Turns : sortedRules[m] = k /\ Fails(k))

CodesInv == phase = "stored" => reasonCodes = MergeReasonCodes

LEMMA FiredInit == TypeOK /\ Init => FiredInv
<1> SUFFICES ASSUME TypeOK, Init PROVE FiredInv
  OBVIOUS
<1>1. Turns = {} /\ DOMAIN firedRules = {}
  BY DEF Init, Turns
<1>2. QED
  BY <1>1 DEF FiredInv

LEMMA FiredStep ==
    TypeOK /\ TypeOK' /\ LoopInv /\ FiredInv /\ [Next]_vars => FiredInv'
<1> SUFFICES ASSUME TypeOK, TypeOK', LoopInv, FiredInv, [Next]_vars, phase' # "failed",
                    NEW k \in Rules'
             PROVE  (\E n \in DOMAIN firedRules' : firedRules'[n] = k)
                       <=> (\E m \in Turns' : sortedRules'[m] = k /\ Fails(k)')
  BY DEF FiredInv
<1>0. /\ Len(policy) \in Nat /\ Rules = 1..Len(policy)
      /\ next \in 1..(Len(policy) + 1) /\ firedRules \in Seq(Rules)
  BY PolicyIsList DEF TypeOK
<1>1. CASE Sort
  <2>1. /\ next' = 1 /\ outcome' = "APPROVE" /\ firedRules' = <<>>
    BY <1>1 DEF Sort, LoopInv
  <2>2. Turns' = {} /\ DOMAIN firedRules' = {}
    BY <2>1 DEF Turns
  <2>3. QED
    BY <2>2
<1>2. CASE EvaluateRule
  <2>1. /\ phase = "rules" /\ next \in 1..Len(policy) /\ outcome # "DECLINE"
        /\ UNCHANGED <<policy, verdict, sortedRules>>
    BY <1>0, <1>2 DEF EvaluateRule, input, LoopInv
  <2>2. k \in Rules /\ (Fails(k)' <=> Fails(k))
    BY <2>1 DEF Rules, Fails
  <2>3. Rule = sortedRules[next] /\ Rule \in Rules
    BY <1>0, <2>1 DEF Rule, LoopInv, Ordered
  <2>4. (\E n \in DOMAIN firedRules : firedRules[n] = k)
          <=> (\E m \in 1..(next - 1) : sortedRules[m] = k /\ Fails(k))
    BY <2>1, <2>2 DEF FiredInv, Turns
  <2>5. CASE RulePasses
    <3>1. ~Fails(sortedRules[next]) /\ firedRules' = firedRules
      BY <2>3, <2>5 DEF RulePasses, Fails
    <3>2. Turns' = 1..next
      BY <1>0, <2>1, <2>5 DEF RulePasses, Turns
    <3>3. \A m : m \in 1..next <=> m \in 1..(next - 1) \/ m = next
      BY <2>1
    <3>4. QED
      BY <2>1, <2>2, <2>4, <3>1, <3>2, <3>3
  <2>6. CASE RuleFails
    <3>1. Fails(Rule) /\ firedRules' = Append(firedRules, Rule)
      BY <2>6 DEF RuleFails, Fails
    <3>2. Turns' = 1..next
      <4>1. CASE policy[Rule].onFail = "DECLINE"
        BY <2>6, <4>1 DEF RuleFails, Turns
      <4>2. CASE policy[Rule].onFail # "DECLINE"
        BY <1>0, <2>1, <2>6, <4>2 DEF RuleFails, Turns
      <4>3. QED
        BY <4>1, <4>2
    <3>3. \A m : m \in 1..next <=> m \in 1..(next - 1) \/ m = next
      BY <2>1
    <3>4. (\E n \in DOMAIN firedRules' : firedRules'[n] = k)
             <=> (\E n \in DOMAIN firedRules : firedRules[n] = k) \/ k = Rule
      <4>1. /\ DOMAIN firedRules = 1..Len(firedRules) /\ Len(firedRules) \in Nat
            /\ DOMAIN firedRules' = 1..(Len(firedRules) + 1)
            /\ firedRules'[Len(firedRules) + 1] = Rule
            /\ \A n \in 1..Len(firedRules) : firedRules'[n] = firedRules[n]
        BY <1>0, <2>3, <3>1
      <4>2. \A n \in 1..(Len(firedRules) + 1) :
               n \in 1..Len(firedRules) \/ n = Len(firedRules) + 1
        BY <4>1
      <4>3. /\ 1..Len(firedRules) \subseteq 1..(Len(firedRules) + 1)
            /\ Len(firedRules) + 1 \in 1..(Len(firedRules) + 1)
        BY <4>1
      <4>4. QED
        BY <4>1, <4>2, <4>3
    <3>5. QED
      BY <2>1, <2>2, <2>3, <2>4, <3>1, <3>2, <3>3, <3>4
  <2>7. CASE RuleThrows
    BY <2>7 DEF RuleThrows
  <2>8. QED
    BY <1>2, <2>5, <2>6, <2>7 DEF EvaluateRule
<1>3. CASE EndRules \/ LimitStage \/ Persist \/ UNCHANGED vars
  <2>1. UNCHANGED <<policy, verdict, sortedRules, next, outcome, firedRules>>
    BY <1>3 DEF EndRules, LimitStage, Persist, vars, input
  <2>2. phase # "failed"
    BY <1>3 DEF EndRules, LimitStage, Persist, vars
  <2>3. k \in Rules /\ (Fails(k)' <=> Fails(k)) /\ Turns' = Turns
    BY <2>1 DEF Rules, Fails, Turns
  <2>4. QED
    BY <2>1, <2>2, <2>3 DEF FiredInv
<1>4. QED
  BY <1>1, <1>2, <1>3 DEF Next

LEMMA CodesStep == CodesInv /\ [Next]_vars => CodesInv'
<1> SUFFICES ASSUME CodesInv, [Next]_vars, phase' = "stored"
             PROVE  (reasonCodes = MergeReasonCodes)'
  BY DEF CodesInv
<1>1. CASE Persist
  BY <1>1 DEF Persist, MergeReasonCodes, RuleReasons, input
<1>2. CASE UNCHANGED vars
  BY <1>2 DEF CodesInv, vars, MergeReasonCodes, RuleReasons
<1>3. ~(Sort \/ EvaluateRule \/ EndRules \/ LimitStage)
  BY DEF Sort, EvaluateRule, RulePasses, RuleFails, RuleThrows, EndRules,
         LimitStage, Skip, Price
<1>4. QED
  BY <1>1, <1>2, <1>3 DEF Next

LEMMA CodesExplain == TypeOK /\ LoopInv /\ FiredInv /\ CodesInv => ReasonsExplain
<1> SUFFICES ASSUME TypeOK, LoopInv, FiredInv, CodesInv, phase = "stored"
             PROVE  reasonCodes =
                       IF outcome = "APPROVE" THEN {}
                       ELSE score.reasonCodes \union
                            {policy[k].reason : k \in {k \in Rules :
                                Fails(k) /\ \A j \in Rules : Declines(j) => ~Precedes(j, k)}}
  BY DEF ReasonsExplain
<1> DEFINE Fired == {k \in Rules : \E m \in Turns : sortedRules[m] = k /\ Fails(k)}
           Deciding == {k \in Rules :
                          Fails(k) /\ \A j \in Rules : Declines(j) => ~Precedes(j, k)}
<1>0. /\ Len(policy) \in Nat /\ Rules = 1..Len(policy)
      /\ outcome \in {"APPROVE", "REFER", "DECLINE"} /\ firedRules \in Seq(Rules)
  BY PolicyIsList DEF TypeOK
<1>1. Ordered
  BY DEF LoopInv
<1>2. RuleReasons = {policy[k].reason : k \in Fired}
  <2>1. \A n \in DOMAIN firedRules : firedRules[n] \in Rules
    BY <1>0
  <2>2. \A n \in DOMAIN firedRules : firedRules[n] \in Fired
    BY <2>1 DEF FiredInv
  <2>3. \A k \in Fired : \E n \in DOMAIN firedRules : firedRules[n] = k
    BY DEF FiredInv
  <2>4. QED
    BY <2>2, <2>3 DEF RuleReasons
<1>3. CASE outcome = "DECLINE"
  <2>1. /\ next \in Rules /\ Declines(sortedRules[next])
        /\ \A m \in 1..(next - 1) : ~Declines(sortedRules[m])
    BY <1>3 DEF LoopInv, Evaluated, Clear
  <2>2. ASSUME NEW m \in Rules, Fails(sortedRules[m])
        PROVE  m \in Turns <=> sortedRules[m] \in Deciding
    <3>0. sortedRules[m] \in Rules /\ sortedRules[next] \in Rules
      BY <1>1, <2>1 DEF Ordered
    <3>1. ASSUME m \in Turns
          PROVE  sortedRules[m] \in Deciding
      <4> SUFFICES ASSUME NEW j \in Rules, Declines(j)
                   PROVE  ~Precedes(j, sortedRules[m])
        BY <2>2, <3>0
      <4>1. PICK n \in Rules : sortedRules[n] = j
        BY <1>1 DEF Ordered
      <4>2. n \notin 1..(next - 1)
        BY <2>1, <4>1
      <4>3. m \in 1..next
        BY <1>3, <3>1 DEF Turns
      <4>4. ~(n < m)
        BY <1>0, <2>1, <4>2, <4>3
      <4>5. QED
        BY <1>1, <4>1, <4>4, PlaceOfRule
    <3>2. ASSUME m \notin Turns
          PROVE  sortedRules[m] \notin Deciding
      <4>1. m \notin 1..next
        BY <1>3, <3>2 DEF Turns
      <4>2. next < m
        BY <1>0, <2>1, <4>1
      <4>3. Precedes(sortedRules[next], sortedRules[m])
        BY <1>1, <2>1, <4>2 DEF Ordered
      <4>4. QED
        BY <2>1, <3>0, <4>3
    <3>3. QED
      BY <3>1, <3>2
  <2>3. Turns \subseteq Rules
    BY <1>0, <1>3, <2>1 DEF Turns
  <2>4. Fired = Deciding
    <3>1. ASSUME NEW k \in Rules
          PROVE  k \in Fired <=> k \in Deciding
      <4>1. PICK m \in Rules : sortedRules[m] = k
        BY <1>1 DEF Ordered
      <4>2. \A n \in Turns : sortedRules[n] = k /\ Fails(k) => k \in Deciding
        BY <2>2, <2>3
      <4>3. k \in Deciding => m \in Turns /\ Fails(k)
        BY <2>2, <4>1
      <4>4. QED
        BY <4>1, <4>2, <4>3
    <3>2. QED
      BY <3>1
  <2>5. QED
    BY <1>2, <1>3, <2>4 DEF CodesInv, MergeReasonCodes
<1>4. CASE outcome # "DECLINE"
  <2>1. 1..(next - 1) = Rules
    BY <1>0, <1>4 DEF LoopInv, Evaluated
  <2>2. Turns = Rules
    BY <1>4, <2>1 DEF Turns
  <2>3. \A k \in Rules : ~Declines(k)
    <3>1. \A m \in Rules : ~Declines(sortedRules[m])
      BY <2>1 DEF LoopInv, Clear
    <3>2. QED
      BY <1>1, <3>1 DEF Ordered
  <2>4. Fired = {k \in Rules : Fails(k)}
    BY <1>1, <2>2 DEF Ordered
  <2>5. Fired = Deciding
    BY <2>3, <2>4
  <2>6. outcome = "APPROVE" => Fired = {}
    BY <1>4, <2>1, <2>2 DEF LoopInv
  <2>7. outcome = "APPROVE" => RuleReasons = {}
    BY <1>2, <2>6
  <2>8. CASE outcome = "APPROVE"
    BY <2>7, <2>8 DEF CodesInv, MergeReasonCodes
  <2>9. CASE outcome # "APPROVE"
    BY <1>2, <2>5, <2>9 DEF CodesInv, MergeReasonCodes
  <2>10. QED
    BY <2>8, <2>9
<1>5. QED
  BY <1>3, <1>4

(* The stored reason codes are those of the rules that decided, with the   *)
(* codes of the score unless the application is approved: mergeReasonCodes  *)
(* over what the loop collected before it ended or broke.                  *)
THEOREM CodesExplainOutcome == Spec => []ReasonsExplain
<1>1. Init => CodesInv
  BY DEF Init, CodesInv
<1>2. Init => FiredInv
  BY TypeInit, FiredInit
<1>3. QED
  BY LoopAlways, <1>1, <1>2, FiredStep, CodesStep, CodesExplain, PTL DEF Spec

-----------------------------------------------------------------------------
(* The limit.                                                              *)

AmountInv ==
    /\ approvedAmount # NoAmount =>
        /\ outcome = "APPROVE" /\ phase \in {"persist", "stored"}
        /\ score.riskGrade \in DOMAIN Annuity
        /\ approvedAmount = Limit(applicant, score.riskGrade)
    /\ phase \in {"persist", "stored"} /\ outcome = "APPROVE" => approvedAmount # NoAmount

LEMMA AmountStep == TypeOK /\ AmountInv /\ [Next]_vars => AmountInv'
<1> SUFFICES ASSUME TypeOK, AmountInv, [Next]_vars PROVE AmountInv'
  OBVIOUS
<1> USE DEF AmountInv
<1>1. CASE Sort
  BY <1>1 DEF Sort, input
<1>2. CASE EvaluateRule
  BY <1>2 DEF EvaluateRule, RulePasses, RuleFails, RuleThrows, input
<1>3. CASE EndRules
  BY <1>3 DEF EndRules, input
<1>4. CASE LimitStage
  <2>1. /\ approvedAmount = NoAmount
        /\ UNCHANGED <<outcome, score, applicant>>
    BY <1>4 DEF LimitStage, input
  <2>2. CASE Skip
    BY <2>1, <2>2 DEF Skip
  <2>3. CASE Price /\ score.riskGrade \in DOMAIN Annuity
    <3>1. applicant \in Applicants
      BY DEF TypeOK
    <3>2. Limit(applicant, score.riskGrade) \in Nat
      BY <2>3, <3>1, LimitIsNatural
    <3>3. /\ approvedAmount' = Limit(applicant, score.riskGrade)
          /\ phase' = "persist" /\ outcome = "APPROVE"
      BY <2>3 DEF Price
    <3>4. Limit(applicant', score'.riskGrade) = Limit(applicant, score.riskGrade)
      BY <2>1
    <3>5. approvedAmount' # NoAmount
      BY <3>2, <3>3 DEF NoAmount
    <3>6. QED
      BY <2>1, <2>3, <3>3, <3>4, <3>5
  <2>4. CASE Price /\ score.riskGrade \notin DOMAIN Annuity
    BY <2>1, <2>4 DEF Price
  <2>5. QED
    BY <1>4, <2>2, <2>3, <2>4 DEF LimitStage
<1>5. CASE Persist
  BY <1>5 DEF Persist, input
<1>6. CASE UNCHANGED vars
  BY <1>6 DEF vars
<1>7. QED
  BY <1>1, <1>2, <1>3, <1>4, <1>5, <1>6 DEF Next

\* Limit is the largest whole step within the three caps.
LEMMA LimitIsLargest ==
    ASSUME NEW a \in Applicants, NEW g \in DOMAIN Annuity
    PROVE  LET fits(amount) ==
                   /\ 10000 * amount <= MaxEmi(a) * Annuity[g]
                   /\ amount <= 120 * a.monthlyIncome
                   /\ amount <= ProductCeiling
           IN  /\ fits(Limit(a, g))
               /\ Limit(a, g) % Step = 0
               /\ ~fits(Limit(a, g) + Step)
<1>1. /\ a.monthlyIncome \in Nat /\ a.obligations \in Nat
      /\ Annuity[g] \in Nat /\ ProductCeiling \in Nat
  BY AmountAssumption
<1>2. MaxEmi(a) \in Nat
  BY <1>1 DEF MaxEmi, Room, Most, FoirPercent
<1> DEFINE total == MaxEmi(a) * Annuity[g]
           income == 120 * a.monthlyIncome
           cap == Cap(MaxEmi(a), a, g)
<1>3. total \in Nat /\ income \in Nat
  BY <1>1, <1>2
<1>4. cap = Least(Least(total \div 10000, income), ProductCeiling)
  BY <1>1 DEF Cap, AffordabilityLimit, IncomeCap, IncomeMultiplier
<1>5. Limit(a, g) = Most(0, (cap \div 10) * 10)
  BY DEF Limit, Step
<1> HIDE DEF total, income, cap
<1>6. cap \in Nat
  BY <1>1, <1>3, <1>4 DEF Least
<1>7. ASSUME NEW amount \in Nat
      PROVE  amount <= cap <=> /\ 10000 * amount <= total
                               /\ amount <= income
                               /\ amount <= ProductCeiling
  <2>1. amount <= total \div 10000 <=> 10000 * amount <= total
    BY <1>3
  <2>2. total \div 10000 \in Nat
    BY <1>3
  <2>3. QED
    BY <1>1, <1>3, <1>4, <2>1, <2>2 DEF Least
<1>8. /\ Limit(a, g) \in Nat /\ Limit(a, g) <= cap
      /\ Limit(a, g) % 10 = 0 /\ ~(Limit(a, g) + 10 <= cap)
  BY <1>5, <1>6 DEF Most
<1>9. Limit(a, g) + 10 \in Nat
  BY <1>8
<1>10. QED
  BY <1>7, <1>8, <1>9 DEF Step, total, income

(* An amount is stored for approvals alone, and it is the largest multiple *)
(* of 10 000 rupees within the share of income, the income and the product. *)
THEOREM LimitCapped == Spec => []LimitWithinCaps
<1>1. Init => AmountInv
  BY DEF Init, AmountInv
<1>2. TypeOK /\ AmountInv => LimitWithinCaps
  <2> SUFFICES ASSUME TypeOK, AmountInv PROVE LimitWithinCaps
    OBVIOUS
  <2>1. phase = "stored" => (outcome = "APPROVE" <=> approvedAmount # NoAmount)
    BY DEF AmountInv
  <2>2. CASE approvedAmount # NoAmount
    BY <2>1, <2>2, LimitIsLargest DEF AmountInv, TypeOK, LimitWithinCaps
  <2>3. CASE approvedAmount = NoAmount
    BY <2>1, <2>3 DEF LimitWithinCaps
  <2>4. QED
    BY <2>2, <2>3
<1>3. QED
  BY TypeInit, TypeStep, <1>1, AmountStep, <1>2, PTL DEF Spec
=============================================================================
