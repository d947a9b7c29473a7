---------------------------- MODULE AuditLedger ----------------------------
(***************************************************************************)
(* What the audit trail promises its readers: a sequence of entries that   *)
(* only grows, by the whole batch of one unit of work at a time.  Nothing  *)
(* of a unit that failed is in it, and no unit is spread over another's.   *)
(***************************************************************************)
EXTENDS Integers, Sequences

CONSTANT Batches    \* the batches that units of work may add, each once

VARIABLE ledger

Init == ledger = <<>>

Recorded(batch) ==
    \E n \in 0..(Len(ledger) - Len(batch)) :
        SubSeq(ledger, n + 1, n + Len(batch)) = batch

Add(batch) ==
    /\ ~Recorded(batch)
    /\ ledger' = ledger \o batch

Next == \E batch \in Batches : Add(batch)

Spec == Init /\ [][Next]_ledger
=============================================================================
