---------------------------- MODULE MCAuditChain ----------------------------
(* Instances of AuditChain for TLC.  s1 is referred and overridden by two   *)
(* calls that disagree, and by one that its maker approves; s2 is decided   *)
(* by the engine alone, with the model versions of s1 and a challenger.     *)
EXTENDS AuditChain, TLC

CONSTANTS s1, s2, o1, o2, o3, m1, m2

MCTarget == [o \in Overrides |-> s1]
MCEngine == [p \in Persists |-> IF p = s1 THEN "REFER" ELSE "DECLINE"]
MCNewOutcome == [o \in Overrides |-> IF o = o1 THEN "APPROVE" ELSE "DECLINE"]
MCChampion == [p \in Persists |-> m1]
MCChallenger == [p \in Persists |-> IF p = s1 THEN NoModel ELSE m2]
=============================================================================
