--------------------------- MODULE CircuitBreaker ---------------------------
(***************************************************************************)
(* The breaker around the credit bureau: circuit-breaker.ts, driven by the *)
(* fetch of BureauClientService (bureau.service.ts).  One breaker serves   *)
(* every submission of a process, so several fetches are in flight at      *)
(* once; each one asks canAttempt, awaits the bureau, and reports the      *)
(* outcome to the breaker as it is by then.                                *)
(*                                                                         *)
(* Time is counted in ticks.  Date.now() - openedAt only matters up to the *)
(* cooldown and consecutiveFailures only up to the threshold, so both are  *)
(* kept saturated there, which loses no behaviour.                         *)
(***************************************************************************)
EXTENDS Integers

CONSTANTS
    Calls,              \* the submissions that may have a fetch in flight
    FailureThreshold,   \* constructor argument failureThreshold
    CooldownTicks       \* constructor argument cooldownMs, in ticks

ASSUME ThresholdAssumption == FailureThreshold \in Nat \ {0}
ASSUME CooldownAssumption == CooldownTicks \in Nat \ {0}

VARIABLES
    state,                \* the private field: CLOSED or OPEN
    consecutiveFailures,  \* saturated at FailureThreshold
    sinceOpened,          \* now - openedAt, saturated; NotOpened for a null openedAt
    call,                 \* idle, or in flight as a regular or as a trial call
    age,                  \* how long each call has been in flight, saturated
    bureau                \* external: whether the bureau answers calls now

vars == <<state, consecutiveFailures, sinceOpened, call, age, bureau>>

NotOpened == -1

TypeOK ==
    /\ state \in {"CLOSED", "OPEN"}
    /\ consecutiveFailures \in 0..FailureThreshold
    /\ sinceOpened \in {NotOpened} \union 0..CooldownTicks
    /\ call \in [Calls -> {"idle", "regular", "trial"}]
    /\ age \in [Calls -> 0..CooldownTicks]
    /\ bureau \in {"answering", "failing"}

Init ==
    /\ state = "CLOSED"
    /\ consecutiveFailures = 0
    /\ sinceOpened = NotOpened
    /\ call = [c \in Calls |-> "idle"]
    /\ age = [c \in Calls |-> 0]
    /\ bureau = "answering"

Saturated(n, bound) == IF n < bound THEN n ELSE bound

-----------------------------------------------------------------------------
(* The methods of CircuitBreaker.                                          *)

\* Mutants: the cooldown is not waited for; the trial state is never reached.
GetStateNoClock == IF state = "OPEN" /\ sinceOpened # NotOpened THEN "HALF_OPEN" ELSE state
GetStateNoTrial == state

GetState ==
    IF state = "OPEN" /\ sinceOpened # NotOpened /\ sinceOpened >= CooldownTicks
    THEN "HALF_OPEN"
    ELSE state

CanAttempt == GetState # "OPEN"

\* Mutant: the failure count is not reset.
RecordSuccessKeepsCount ==
    /\ state' = "CLOSED"
    /\ consecutiveFailures' = consecutiveFailures
    /\ sinceOpened' = NotOpened

RecordSuccess ==
    /\ state' = "CLOSED"
    /\ consecutiveFailures' = 0
    /\ sinceOpened' = NotOpened

\* Mutant: a failed trial does not open the circuit.
RecordFailureKeepsTrial ==
    /\ consecutiveFailures' = Saturated(consecutiveFailures + 1, FailureThreshold)
    /\ IF GetState = "HALF_OPEN" \/ consecutiveFailures + 1 >= FailureThreshold
       THEN /\ state' = IF GetState = "HALF_OPEN" THEN GetState ELSE "OPEN"
            /\ sinceOpened' = 0
       ELSE UNCHANGED <<state, sinceOpened>>

RecordFailure ==
    /\ consecutiveFailures' = Saturated(consecutiveFailures + 1, FailureThreshold)
    /\ IF GetState = "HALF_OPEN" \/ consecutiveFailures + 1 >= FailureThreshold
       THEN /\ state' = "OPEN"
            /\ sinceOpened' = 0
       ELSE UNCHANGED <<state, sinceOpened>>

-----------------------------------------------------------------------------
(* BureauClientService.fetch: the part before the await, the two outcomes  *)
(* after it, and the short-circuited call, which touches nothing.          *)

StartFetch(c) ==
    /\ call[c] = "idle"
    /\ CanAttempt
    /\ call' = [call EXCEPT ![c] = IF GetState = "HALF_OPEN" THEN "trial" ELSE "regular"]
    /\ age' = [age EXCEPT ![c] = 0]
    /\ UNCHANGED <<state, consecutiveFailures, sinceOpened, bureau>>

EndFetch(c) ==
    /\ call[c] # "idle"
    /\ call' = [call EXCEPT ![c] = "idle"]
    /\ age' = [age EXCEPT ![c] = 0]
    /\ UNCHANGED bureau

FetchSucceeds(c) ==
    /\ bureau = "answering"
    /\ EndFetch(c)
    /\ RecordSuccess

FetchFails(c) ==
    /\ bureau = "failing"
    /\ EndFetch(c)
    /\ RecordFailure

\* Time passes for the breaker and for the calls in flight.
Tick ==
    /\ sinceOpened' = IF sinceOpened = NotOpened THEN NotOpened
                      ELSE Saturated(sinceOpened + 1, CooldownTicks)
    /\ age' = [c \in Calls |-> IF call[c] = "idle" THEN 0
                               ELSE Saturated(age[c] + 1, CooldownTicks)]
    /\ UNCHANGED <<state, consecutiveFailures, call, bureau>>

\* The bureau fails or recovers; a mock that errs at random is one that
\* changes between any two calls.
BureauChanges ==
    /\ bureau' \in {"answering", "failing"} \ {bureau}
    /\ UNCHANGED <<state, consecutiveFailures, sinceOpened, call, age>>

Next ==
    \/ \E c \in Calls : StartFetch(c) \/ FetchSucceeds(c) \/ FetchFails(c)
    \/ Tick
    \/ BureauChanges

\* Applications keep arriving, every bureau call ends (the mock's latency is a
\* timer) and the clock runs.  The bureau itself is under no obligation.
Fairness ==
    /\ \A c \in Calls : /\ WF_vars(StartFetch(c))
                        /\ WF_vars(FetchSucceeds(c) \/ FetchFails(c))
    /\ WF_vars(Tick)

Spec == Init /\ [][Next]_vars

FairSpec == Spec /\ Fairness

-----------------------------------------------------------------------------
(* Properties.                                                             *)

(* The three fields agree whatever order the outcomes of concurrent calls  *)
(* come back in: a closed circuit has no opening time and a count below    *)
(* the threshold, an open one has both an opening time and a full count.   *)
(* getState tests openedAt for null and recordFailure tests for HALF_OPEN: *)
(* by this invariant neither test ever decides anything alone.             *)
BreakerConsistent ==
    /\ state = "CLOSED" => /\ sinceOpened = NotOpened
                           /\ consecutiveFailures < FailureThreshold
    /\ state = "OPEN" => /\ sinceOpened # NotOpened
                         /\ consecutiveFailures = FailureThreshold

(* No call is begun while the circuit is open and cooling down: whatever   *)
(* is in flight then was begun before the opening that the cooldown is     *)
(* counted from, late failures having moved that opening forward.          *)
QuietDuringCooldown ==
    (state = "OPEN" /\ sinceOpened < CooldownTicks) =>
        \A c \in Calls : call[c] # "idle" => age[c] >= sinceOpened

(* The circuit follows a bureau that settles: it closes for good if the    *)
(* bureau answers for good, so that no sequence of late answers leaves the *)
(* process referring every application, and it opens for good if the       *)
(* bureau fails for good, however the calls overlap.                       *)
FollowsBureau ==
    /\ <>[](bureau = "answering") => <>[](state = "CLOSED")
    /\ <>[](bureau = "failing") => <>[](state = "OPEN")
=============================================================================
