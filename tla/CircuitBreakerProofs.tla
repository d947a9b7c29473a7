------------------------ MODULE CircuitBreakerProofs ------------------------
(***************************************************************************)
(* The safety invariants of CircuitBreaker, for every set of overlapping   *)
(* calls, every threshold and every cooldown.                              *)
(***************************************************************************)
EXTENDS CircuitBreaker, TLAPS

BreakerInv == TypeOK /\ BreakerConsistent /\ QuietDuringCooldown

(* A number counted up by one and saturated at its bound stays in range. *)
LEMMA SaturatedRange ==
    ASSUME NEW bound \in Nat, NEW n \in 0..bound
    PROVE  Saturated(n + 1, bound) \in 0..bound
BY DEF Saturated

(* The initial breaker satisfies all three parts. *)
LEMMA BreakerInit == Init => BreakerInv
BY ThresholdAssumption, CooldownAssumption
   DEF Init, BreakerInv, TypeOK, BreakerConsistent, QuietDuringCooldown, NotOpened

(* Every step of a call, of the clock and of the bureau keeps the fields in *)
(* their ranges, whatever the fields say of each other.                     *)
LEMMA TypeStep == TypeOK /\ [Next]_vars => TypeOK'
<1> SUFFICES ASSUME TypeOK, [Next]_vars PROVE TypeOK'
  OBVIOUS
<1> USE ThresholdAssumption, CooldownAssumption
<1>1. ASSUME NEW c \in Calls, StartFetch(c) PROVE TypeOK'
  BY <1>1 DEF TypeOK, StartFetch
<1>2. ASSUME NEW c \in Calls, FetchSucceeds(c) PROVE TypeOK'
  BY <1>2 DEF TypeOK, FetchSucceeds, EndFetch, RecordSuccess
<1>3. ASSUME NEW c \in Calls, FetchFails(c) PROVE TypeOK'
  <2>1. consecutiveFailures' \in 0..FailureThreshold
    BY <1>3, SaturatedRange DEF TypeOK, FetchFails, RecordFailure
  <2> QED BY <1>3, <2>1 DEF TypeOK, FetchFails, EndFetch, RecordFailure
<1>4. CASE Tick
  <2>1. sinceOpened' \in {NotOpened} \union 0..CooldownTicks
    BY <1>4, SaturatedRange DEF TypeOK, Tick, NotOpened
  <2>2. age' \in [Calls -> 0..CooldownTicks]
    BY <1>4, SaturatedRange DEF TypeOK, Tick
  <2> QED BY <1>4, <2>1, <2>2 DEF TypeOK, Tick
<1>5. CASE BureauChanges
  BY <1>5 DEF TypeOK, BureauChanges
<1>6. CASE UNCHANGED vars
  BY <1>6 DEF TypeOK, vars
<1> QED BY <1>1, <1>2, <1>3, <1>4, <1>5, <1>6 DEF Next

(* The state, the count and the opening time keep agreeing. *)
LEMMA ConsistentStep ==
    TypeOK /\ BreakerConsistent /\ [Next]_vars => BreakerConsistent'
<1> SUFFICES ASSUME TypeOK, BreakerConsistent, [Next]_vars
             PROVE  BreakerConsistent'
  OBVIOUS
<1> USE ThresholdAssumption, CooldownAssumption
        DEF TypeOK, BreakerConsistent, NotOpened
<1>1. ASSUME NEW c \in Calls, StartFetch(c) PROVE BreakerConsistent'
  BY <1>1 DEF StartFetch
<1>2. ASSUME NEW c \in Calls, FetchSucceeds(c) PROVE BreakerConsistent'
  BY <1>2 DEF FetchSucceeds, RecordSuccess
<1>3. ASSUME NEW c \in Calls, FetchFails(c) PROVE BreakerConsistent'
  BY <1>3 DEF FetchFails, RecordFailure, GetState, Saturated
<1>4. CASE Tick
  BY <1>4 DEF Tick, Saturated
<1>5. CASE BureauChanges
  BY <1>5 DEF BureauChanges
<1>6. CASE UNCHANGED vars
  BY <1>6 DEF vars
<1> QED BY <1>1, <1>2, <1>3, <1>4, <1>5, <1>6 DEF Next

(* Calls in flight during a cooldown stay older than the opening.  Only    *)
(* BreakerConsistent tells that an OPEN circuit has an opening time, hence *)
(* that StartFetch was refused during the cooldown.                        *)
LEMMA QuietStep == BreakerInv /\ [Next]_vars => QuietDuringCooldown'
<1> SUFFICES ASSUME BreakerInv, [Next]_vars PROVE QuietDuringCooldown'
  OBVIOUS
<1> USE ThresholdAssumption, CooldownAssumption
        DEF BreakerInv, TypeOK, BreakerConsistent, QuietDuringCooldown, NotOpened
<1>1. ASSUME NEW c \in Calls, StartFetch(c) PROVE QuietDuringCooldown'
  BY <1>1 DEF StartFetch, CanAttempt, GetState
<1>2. ASSUME NEW c \in Calls, FetchSucceeds(c) PROVE QuietDuringCooldown'
  BY <1>2 DEF FetchSucceeds, RecordSuccess
<1>3. ASSUME NEW c \in Calls, FetchFails(c) PROVE QuietDuringCooldown'
  <2>1. \A d \in Calls : call'[d] # "idle" => call[d] # "idle" /\ age'[d] = age[d]
    BY <1>3 DEF FetchFails, EndFetch
  <2>2. sinceOpened' = 0 \/ (state' = state /\ sinceOpened' = sinceOpened)
    BY <1>3 DEF FetchFails, RecordFailure
  <2> QED BY <2>1, <2>2, <1>3 DEF FetchFails, EndFetch
<1>4. CASE Tick
  <2>1. ASSUME state = "OPEN", sinceOpened' < CooldownTicks, NEW d \in Calls,
               call[d] # "idle"
        PROVE  age'[d] >= sinceOpened'
    <3>1. sinceOpened < CooldownTicks /\ sinceOpened' = sinceOpened + 1
      BY <1>4, <2>1 DEF Tick, Saturated
    <3>2. age'[d] = Saturated(age[d] + 1, CooldownTicks)
      BY <1>4, <2>1 DEF Tick
    <3> QED BY <2>1, <3>1, <3>2 DEF Saturated
  <2> QED BY <1>4, <2>1 DEF Tick
<1>5. CASE BureauChanges
  BY <1>5 DEF BureauChanges
<1>6. CASE UNCHANGED vars
  BY <1>6 DEF vars
<1> QED BY <1>1, <1>2, <1>3, <1>4, <1>5, <1>6 DEF Next

(* The three parts together are inductive. *)
LEMMA BreakerInductive == Spec => []BreakerInv
<1>1. BreakerInv /\ [Next]_vars => BreakerInv'
  BY TypeStep, ConsistentStep, QuietStep DEF BreakerInv
<1> QED BY BreakerInit, <1>1, PTL DEF Spec

(* The fields of the breaker keep their types. *)
THEOREM TypeCorrect == Spec => []TypeOK
BY BreakerInductive, PTL DEF BreakerInv

(* The state, the failure count and the opening time agree at all times,   *)
(* for every order in which concurrent calls report.                       *)
THEOREM FieldsAgree == Spec => []BreakerConsistent
BY BreakerInductive, PTL DEF BreakerInv

(* No call is begun during a cooldown, for every number of calls.          *)
THEOREM NoCallInCooldown == Spec => []QuietDuringCooldown
BY BreakerInductive, PTL DEF BreakerInv
=============================================================================
