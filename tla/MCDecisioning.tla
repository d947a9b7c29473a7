---------------------------- MODULE MCDecisioning ----------------------------
(* Instances of Decisioning for TLC: every policy of up to three rules with *)
(* two priorities, so that two rules may share one, and two reasons, one of *)
(* them also a code of the score; a priced grade and one that is not;       *)
(* applicants whose limit is what they can afford, the product's ceiling,   *)
(* and nothing.  The cap on the income binds for no tenure: at 14% and more *)
(* the annuity factor is below 86, and the FOIR share of 86 incomes is less *)
(* than the 120 incomes of IncomeCap.                                       *)
EXTENDS Decisioning

MCRules == [priority : {1, 2}, onFail : {"DECLINE", "REFER"}, reason : {"R1", "R2"}]
MCPolicies == UNION {[1..n -> MCRules] : n \in 0..3}
MCScores == {[riskGrade |-> "C2", reasonCodes |-> {"R2", "S1"}],
             [riskGrade |-> "D", reasonCodes |-> {"S1"}]}
MCApplicants == {[monthlyIncome |-> i, obligations |-> o] : i \in {50, 1000}, o \in {0, 30}}
MCAnnuity == [g \in {"C2"} |-> 2869]
=============================================================================
