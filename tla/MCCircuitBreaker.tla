-------------------------- MODULE MCCircuitBreaker --------------------------
(* Instances of CircuitBreaker for TLC.  Three overlapping calls are enough *)
(* for two to disagree while a third is a trial; a threshold of two makes a *)
(* sub-threshold count possible, a longer cooldown a partly elapsed one.  *)
EXTENDS CircuitBreaker
=============================================================================
