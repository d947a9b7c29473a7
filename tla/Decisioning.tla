----------------------------- MODULE Decisioning -----------------------------
(***************************************************************************)
(* How an application is decided: stages RULES and LIMIT + PRICE of submit, *)
(* with RulesEngineService.evaluate, LimitPricingService.price and          *)
(* mergeReasonCodes.  replay runs the same three on what was recorded.      *)
(*                                                                         *)
(* Whether the expression of a rule is true of the application, or throws, *)
(* is an input, and so are the score and the annuity factor of its grade:  *)
(* a policy is any list of rules that the console may have activated.      *)
(* Amounts are in thousands of rupees, shares and the annuity factor in     *)
(* hundredths; the code has the same fractions as floating-point numbers.  *)
(***************************************************************************)
EXTENDS Integers, Sequences, Functions

CONSTANTS
    Policies,         \* lists of rules, as PolicyVersion.rules holds them
    Scores,           \* answers of the scoring service: riskGrade and reasonCodes
    Applicants,       \* monthlyIncome and obligations
    Annuity,          \* Annuity[g]: annuityFactor for the rate of grade g, in 1/100
    ProductCeiling    \* productCeilings[product]

Verdicts == {"passes", "fails", "throws"}

ASSUME PolicyAssumption ==
    Policies \subseteq Seq([priority : Int, onFail : {"DECLINE", "REFER"}, reason : STRING])
ASSUME AmountAssumption ==
    /\ ProductCeiling \in Nat
    /\ \A g \in DOMAIN Annuity : Annuity[g] \in Nat
    /\ \A a \in Applicants : a.monthlyIncome \in Nat /\ a.obligations \in Nat

VARIABLES
    policy,        \* the rules of the active policy, in the order of the row
    verdict,       \* what each of their expressions yields for this application
    score,         \* answer of the scoring service
    applicant,
    phase,         \* sort, rules, price, persist, stored, or failed
    sortedRules,   \* the places in policy, in the order of evaluation
    next,          \* the turn of the loop
    outcome,
    firedRules,    \* the places in policy of the rules that fired, in order
    approvedAmount,
    reasonCodes    \* of the stored decision

vars == <<policy, verdict, score, applicant, phase, sortedRules, next, outcome,
          firedRules, approvedAmount, reasonCodes>>
input == <<policy, verdict, score, applicant>>

NoAmount == -1

Rules == DOMAIN policy

TypeOK ==
    /\ policy \in Policies
    /\ verdict \in [Rules -> Verdicts]
    /\ score \in Scores /\ applicant \in Applicants
    /\ phase \in {"sort", "rules", "price", "persist", "stored", "failed"}
    /\ phase # "sort" => sortedRules \in [Rules -> Rules]
    /\ next \in 1..(Len(policy) + 1)
    /\ outcome \in {"APPROVE", "REFER", "DECLINE"}
    /\ firedRules \in Seq(Rules)
    /\ approvedAmount \in Nat \union {NoAmount}

Init ==
    /\ policy \in Policies
    /\ verdict \in [Rules -> Verdicts]
    /\ score \in Scores /\ applicant \in Applicants
    /\ phase = "sort"
    /\ sortedRules = <<>>
    /\ next = 1
    /\ outcome = "APPROVE"
    /\ firedRules = <<>>
    /\ approvedAmount = NoAmount
    /\ reasonCodes = {}

-----------------------------------------------------------------------------
(* RulesEngineService.evaluate.                                            *)

\* Array.prototype.sort by priority, which is stable.
Precedes(i, j) ==
    \/ policy[i].priority < policy[j].priority
    \/ policy[i].priority = policy[j].priority /\ i < j

Sort ==
    /\ phase = "sort"
    /\ sortedRules' \in
          {s \in Bijection(Rules, Rules) : \A m, n \in Rules : m < n => Precedes(s[m], s[n])}
    /\ phase' = "rules"
    /\ UNCHANGED <<input, next, outcome, firedRules, approvedAmount, reasonCodes>>

Rule == sortedRules[next]

RulePasses ==
    /\ verdict[Rule] = "passes"
    /\ next' = next + 1
    /\ UNCHANGED <<phase, outcome, firedRules>>

\* Mutant: the outcome is that of the last rule that fired.
RuleFailsLast ==
    /\ verdict[Rule] = "fails"
    /\ firedRules' = Append(firedRules, Rule)
    /\ outcome' = policy[Rule].onFail
    /\ next' = next + 1
    /\ UNCHANGED phase

\* Mutant: a REFER ends the loop as well.
RuleFailsStops ==
    /\ verdict[Rule] = "fails"
    /\ firedRules' = Append(firedRules, Rule)
    /\ outcome' = policy[Rule].onFail
    /\ phase' = "price"
    /\ UNCHANGED next

\* A DECLINE breaks the loop, a REFER lets it go on.
RuleFails ==
    /\ verdict[Rule] = "fails"
    /\ firedRules' = Append(firedRules, Rule)
    /\ outcome' = policy[Rule].onFail
    /\ IF policy[Rule].onFail = "DECLINE"
       THEN phase' = "price" /\ UNCHANGED next
       ELSE next' = next + 1 /\ UNCHANGED phase

\* Mutant: a rule that does not evaluate is skipped.
RuleThrowsSkipped ==
    /\ verdict[Rule] = "throws"
    /\ next' = next + 1
    /\ UNCHANGED <<phase, outcome, firedRules>>

\* RuleEvaluationError leaves submit, and nothing is decided.
RuleThrows ==
    /\ verdict[Rule] = "throws"
    /\ phase' = "failed"
    /\ UNCHANGED <<next, outcome, firedRules>>

EvaluateRule ==
    /\ phase = "rules" /\ next \in Rules
    /\ RulePasses \/ RuleFails \/ RuleThrows
    /\ UNCHANGED <<input, sortedRules, approvedAmount, reasonCodes>>

EndRules ==
    /\ phase = "rules" /\ next \notin Rules
    /\ phase' = "price"
    /\ UNCHANGED <<input, sortedRules, next, outcome, firedRules, approvedAmount, reasonCodes>>

-----------------------------------------------------------------------------
(* LimitPricingService.price, with PRICING_DEFAULTS.                       *)

FoirPercent == 55
IncomeMultiplier == 10
Step == 10

Least(m, n) == IF m <= n THEN m ELSE n
Most(m, n) == IF m >= n THEN m ELSE n

\* What the obligations leave of the FOIR share, and maxEmi, in 1/100.
Room(a) == FoirPercent * a.monthlyIncome - 100 * a.obligations
MaxEmi(a) == Most(0, Room(a))

AffordabilityLimit(emi, g) == (emi * Annuity[g]) \div 10000
IncomeCap(a) == IncomeMultiplier * 12 * a.monthlyIncome

Cap(emi, a, g) == Least(Least(AffordabilityLimit(emi, g), IncomeCap(a)), ProductCeiling)

\* Mutant: rounded to the nearest step.
LimitNearest(a, g) == ((Cap(MaxEmi(a), a, g) + Step \div 2) \div Step) * Step

\* Mutant: neither the EMI nor the limit is kept from falling below zero.
LimitUnclamped(a, g) == (Cap(Room(a), a, g) \div Step) * Step

Limit(a, g) == Most(0, (Cap(MaxEmi(a), a, g) \div Step) * Step)

Skip ==
    /\ outcome # "APPROVE"
    /\ phase' = "persist"
    /\ UNCHANGED approvedAmount

\* Only an approval is priced; a grade without a spread throws.
Price ==
    /\ outcome = "APPROVE"
    /\ IF score.riskGrade \in DOMAIN Annuity
       THEN /\ approvedAmount' = Limit(applicant, score.riskGrade)
            /\ phase' = "persist"
       ELSE /\ phase' = "failed"
            /\ UNCHANGED approvedAmount

LimitStage ==
    /\ phase = "price"
    /\ Skip \/ Price
    /\ UNCHANGED <<input, sortedRules, next, outcome, firedRules, reasonCodes>>

-----------------------------------------------------------------------------
(* mergeReasonCodes, and the decision that is persisted.                   *)

RuleReasons == {policy[firedRules[n]].reason : n \in DOMAIN firedRules}

\* Mutant: the codes of the scorecard are merged in whatever the outcome.
MergeReasonCodesAlways == RuleReasons \union score.reasonCodes

MergeReasonCodes ==
    RuleReasons \union (IF outcome # "APPROVE" THEN score.reasonCodes ELSE {})

Persist ==
    /\ phase = "persist"
    /\ reasonCodes' = MergeReasonCodes
    /\ phase' = "stored"
    /\ UNCHANGED <<input, sortedRules, next, outcome, firedRules, approvedAmount>>

Next == Sort \/ EvaluateRule \/ EndRules \/ LimitStage \/ Persist

Spec == Init /\ [][Next]_vars

-----------------------------------------------------------------------------
(* Properties.                                                             *)

Evaluated == phase \in {"price", "persist", "stored"}

Fails(k) == verdict[k] = "fails"
Declines(k) == Fails(k) /\ policy[k].onFail = "DECLINE"

(* The outcome is that of the worst rule that fails, wherever it stands in *)
(* the list and whatever the priorities: the break at the first DECLINE    *)
(* and the REFER that later rules must not undo come to the same.  A rule  *)
(* that could not be evaluated is not taken for one that passed: it was    *)
(* skipped only behind a DECLINE.                                          *)
OutcomeIgnoresOrder ==
    Evaluated =>
        /\ outcome = IF \E k \in Rules : Declines(k) THEN "DECLINE"
                     ELSE IF \E k \in Rules : Fails(k) THEN "REFER"
                     ELSE "APPROVE"
        /\ \A k \in Rules :
              verdict[k] = "throws" => \E j \in Rules : Declines(j) /\ Precedes(j, k)

(* The stored codes explain the outcome, neither less nor more: a REFER    *)
(* lists every rule that fails, a DECLINE those up to the one that decided *)
(* by priority, both with the codes of the score; an APPROVE lists none.   *)
ReasonsExplain ==
    phase = "stored" =>
        reasonCodes =
            IF outcome = "APPROVE" THEN {}
            ELSE score.reasonCodes \union
                 {policy[k].reason : k \in {k \in Rules :
                     Fails(k) /\ \A j \in Rules : Declines(j) => ~Precedes(j, k)}}

(* An amount is stored for approvals and for them alone, and it is the     *)
(* largest whole step within all three caps: its instalment takes no more  *)
(* of the income than existing obligations leave of the FOIR share, which  *)
(* is nothing where they exceed that share by themselves.                  *)
LimitWithinCaps ==
    /\ phase = "stored" => (outcome = "APPROVE" <=> approvedAmount # NoAmount)
    /\ approvedAmount # NoAmount =>
        LET fits(amount) ==
                /\ 10000 * amount <= MaxEmi(applicant) * Annuity[score.riskGrade]
                /\ amount <= 120 * applicant.monthlyIncome
                /\ amount <= ProductCeiling
        IN  /\ fits(approvedAmount)
            /\ approvedAmount % Step = 0
            /\ ~fits(approvedAmount + Step)
=============================================================================
