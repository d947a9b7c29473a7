---------------------------- MODULE MCSubmission ----------------------------
(* Instances of Submission for TLC: a key that one person sends up to three *)
(* times.                                                                  *)
EXTENDS Submission

CONSTANTS r1, r2, r3, k1, p1

MCPerson == [r \in Requests |-> p1]
MCKey == [r \in Requests |-> k1]
=============================================================================
