------------------------------- MODULE Records -------------------------------
(***************************************************************************)
(* What is read back of a decision: ReplayService.replay, verifyChain and  *)
(* the policy simulator, over the tables that submit and override write.   *)
(*                                                                         *)
(* Between a decision and its replay days pass, policies are activated,    *)
(* the scoring service is restarted with another champion, decisions are   *)
(* overridden, and rows are changed out of band: those of DecisionEvent    *)
(* are altered, exchanged or lost, and the policy, the application and the *)
(* decision of a replay are altered.  A submission reads its inputs in     *)
(* steps of its own, between which they may change.  The transactions are  *)
(* single steps here: AuditChain has their statements, Decisioning the     *)
(* evaluation of the rules and the limit.                                  *)
(***************************************************************************)
EXTENDS Integers, Sequences, FiniteSets, FiniteSetsExt, SequencesExt

CONSTANTS
    Applications,
    Product,            \* Product[a]: payload.application.product
    Dob,                \* Dob[a]: payload.applicant.dob
    FirstDay,           \* the date on which the behaviour begins
    MaxDays,            \* bound: days that pass
    DaysPerYear,
    Bureaus,            \* Bureaus[a]: payloads that fetchBureau may return
    MaxModel,           \* bound: champions are numbered in the order of deployment
    PolicyVersions,
    PolicyProduct,      \* PolicyProduct[v]: the product of version v
    Seeded,             \* the versions that are ACTIVE at the beginning
    ProductCeilings,    \* PRICING_DEFAULTS.productCeilings
    Grades,             \* keys of GRADE_SPREADS
    MaxTampering,       \* bound: changes out of band
    MaxOverrides,       \* bound: overrides, of all decisions together
    ScoreOf(_, _, _, _),        \* the answer of a model: application, age, bureau
    Evaluate(_, _, _, _, _),    \* RulesEngineService.evaluate: the rules that a version
                                \* was drafted with, application, age, bureau, score
    Limit(_, _, _),             \* price(...).limit: application, grade, ceiling
    Rate(_)                     \* price(...).interestRate: grade

Stages == <<"BUREAU", "SCORE", "RULES", "LIMIT", "PRICE", "PERSIST">>

VARIABLES
    today,
    days,        \* days that have passed
    loaded,      \* the champion of the scoring service
    status,      \* PolicyVersion.status
    rules,       \* rules[v]: PolicyVersion.rules, named by the version drafted with them
    payload,     \* payload[a]: Application.payload, named by the application submitted
                 \* with it
    created,     \* Application rows, in the order of createdAt
    pipeline,    \* pipeline[a]: what the submission of a has in memory, and had
                 \* when it was persisted
    decision,    \* Decision rows
    written,     \* auxiliary: Decision rows as submit and override have written them
    events,      \* DecisionEvent rows in id order; auxiliary: serial, the id at the
                 \* insert, inserted, the columns at the insert, and after, the
                 \* serial of the tip that the row was linked to
    lastId,      \* the BIGSERIAL of DecisionEvent
    tampering    \* how often something was changed out of band

vars == <<today, days, loaded, status, rules, payload, created, pipeline, decision, written,
          events, lastId, tampering>>
clock == <<today, days>>
decisions == <<decision, written>>
table == <<events, lastId, tampering, rules, payload>>

Outcomes == {"APPROVE", "REFER", "DECLINE"}
None == [step |-> "none"]
NoDecision == [outcome |-> "none"]
Null == -1

ASSUME SeedAssumption ==
    /\ Seeded \subseteq PolicyVersions
    /\ PolicyProduct \in [PolicyVersions -> DOMAIN ProductCeilings]
ASSUME ClockAssumption ==
    /\ {MaxDays, MaxTampering, MaxOverrides} \subseteq Nat
    /\ {MaxModel, DaysPerYear} \subseteq Nat \ {0}
    /\ FirstDay \in [year : Nat, day : 0..(DaysPerYear - 1)]
    /\ Dob \in [Applications -> [year : Nat, day : 0..(DaysPerYear - 1)]]

TypeOK ==
    /\ today \in [year : Nat, day : 0..(DaysPerYear - 1)]
    /\ days \in 0..MaxDays /\ tampering \in 0..MaxTampering
    /\ loaded \in 1..MaxModel
    /\ status \in [PolicyVersions -> {"DRAFT", "ACTIVE", "RETIRED"}]
    /\ created \in Seq(Applications)
    /\ rules \in [PolicyVersions -> PolicyVersions]
    /\ payload \in [Applications -> Applications]
    /\ DOMAIN pipeline = Applications
    /\ DOMAIN decision = Applications /\ DOMAIN written = Applications
    /\ lastId \in Nat
    /\ \A i \in DOMAIN events :
          /\ {events[i].id, events[i].serial} \subseteq 1..lastId
          /\ events[i].after \in 0..(events[i].serial - 1)

Init ==
    /\ today = FirstDay /\ days = 0
    /\ loaded = 1
    /\ status = [v \in PolicyVersions |-> IF v \in Seeded THEN "ACTIVE" ELSE "DRAFT"]
    /\ rules = [v \in PolicyVersions |-> v]
    /\ payload = [a \in Applications |-> a]
    /\ created = <<>>
    /\ pipeline = [a \in Applications |-> None]
    /\ decision = [a \in Applications |-> NoDecision]
    /\ written = decision
    /\ events = <<>>
    /\ lastId = 0
    /\ tampering = 0

-----------------------------------------------------------------------------
(* What goes on around the decisions.                                      *)

NextDay ==
    /\ days < MaxDays
    /\ days' = days + 1
    /\ today' = IF today.day = DaysPerYear - 1
                THEN [year |-> today.year + 1, day |-> 0]
                ELSE [today EXCEPT !.day = @ + 1]
    /\ UNCHANGED <<loaded, status, created, pipeline, decisions, table>>

Deploy ==
    /\ loaded < MaxModel
    /\ loaded' = loaded + 1
    /\ UNCHANGED <<clock, status, created, pipeline, decisions, table>>

\* PolicyService.activate; PolicyVersions has the interleavings of two of them.
Activate(v) ==
    /\ status[v] = "DRAFT"
    /\ status' = [w \in PolicyVersions |->
                     IF w = v THEN "ACTIVE"
                     ELSE IF PolicyProduct[w] = PolicyProduct[v] /\ status[w] = "ACTIVE"
                     THEN "RETIRED" ELSE status[w]]
    /\ UNCHANGED <<clock, loaded, created, pipeline, decisions, table>>

FindActive(product) == {v \in PolicyVersions : PolicyProduct[v] = product /\ status[v] = "ACTIVE"}

-----------------------------------------------------------------------------
(* ApplicationsService.submit, as far as replay repeats it.                *)

DeriveAge(dob, asOf) == asOf.year - dob.year - (IF asOf.day >= dob.day THEN 0 ELSE 1)

\* KYC derives the age, and the application row is created.
Submit(a) ==
    /\ pipeline[a] = None
    /\ pipeline' = [pipeline EXCEPT ![a] =
                       [step |-> "kyc", age |-> DeriveAge(Dob[a], today)]]
    /\ created' = Append(created, a)
    /\ UNCHANGED <<clock, loaded, status, decisions, table>>

\* BUREAU and SCORE, by the model that is loaded now.
Score(a, bureau) ==
    LET s == pipeline[a]
    IN  /\ s.step = "kyc"
        /\ pipeline' = [pipeline EXCEPT ![a] =
               [step |-> "scored", age |-> s.age, bureau |-> bureau, model |-> loaded,
                score |-> ScoreOf(loaded, a, s.age, bureau)]]
        /\ UNCHANGED <<clock, loaded, status, created, decisions, table>>

\* LIMIT and PRICE, for an approval alone; a grade without a spread throws.
Priced(a, grade, outcome, ceiling) ==
    IF outcome # "APPROVE" THEN [limit |-> Null, rate |-> Null]
    ELSE [limit |-> Limit(a, grade, ceiling), rate |-> Rate(grade)]
Throws(result, grade) ==
    result.outcome \notin Outcomes \/ (result.outcome = "APPROVE" /\ grade \notin Grades)

\* RULES by the active policy, LIMIT and PRICE.  Without an active policy, or
\* when one of them throws, the submission ends here and nothing is decided.
Rules(a) ==
    LET s == pipeline[a]
    IN  /\ s.step = "scored"
        /\ \E v \in FindActive(Product[a]) :
              LET result == Evaluate(rules[v], a, s.age, s.bureau, s.score.score)
              IN  /\ ~Throws(result, s.score.riskGrade)
                  /\ pipeline' = [pipeline EXCEPT ![a] =
                         [step |-> "decided", age |-> s.age, bureau |-> s.bureau,
                          model |-> s.model, score |-> s.score,
                          policy |-> v, rules |-> rules[v], result |-> result]]
        /\ UNCHANGED <<clock, loaded, status, created, decisions, table>>

MergeReasonCodes(outcome, ruleReasons, scoreReasons) ==
    ruleReasons \union (IF outcome # "APPROVE" THEN scoreReasons ELSE {})

Genesis == <<>>
TipHash == IF events = <<>> THEN Genesis ELSE Last(events).hash
TipSerial == IF events = <<>> THEN 0 ELSE Last(events).serial

\* sha256(prevHash + canonical(event)), with no collisions: a digest stands for
\* the content of the event and of every event that it was chained to.  serial
\* stands for the rest of the content, in which one event differs from another.
Content(row) ==
    [application |-> row.application, stage |-> row.stage, output |-> row.output,
     serial |-> row.serial]
Digest(prevHash, content) == Append(prevHash, content)

Numbered(new) ==
    [n \in DOMAIN new |->
        [application |-> new[n].application, stage |-> new[n].stage, output |-> new[n].output,
         serial |-> lastId + n]]

\* The rows of appendEvent for each of the new events, one after the other.
Chained(new) ==
    LET contents == Numbered(new)
        DigestUpTo(n) == TipHash \o SubSeq(contents, 1, n)
    IN  [n \in DOMAIN new |->
            [id |-> lastId + n, serial |-> lastId + n,
             application |-> new[n].application, stage |-> new[n].stage,
             output |-> new[n].output,
             prevHash |-> DigestUpTo(n - 1), hash |-> DigestUpTo(n),
             inserted |-> [output |-> new[n].output,
                           prevHash |-> DigestUpTo(n - 1), hash |-> DigestUpTo(n)],
             after |-> IF n = 1 THEN TipSerial ELSE lastId + n - 1]]

\* Mutant: one id for the whole batch.
AppendEventsOneId(new) ==
    /\ events' = events \o Chained(new)
    /\ lastId' = lastId + 1
    /\ UNCHANGED <<tampering, rules, payload>>

AppendEvents(new) ==
    /\ events' = events \o Chained(new)
    /\ lastId' = lastId + Len(new)
    /\ UNCHANGED <<tampering, rules, payload>>

\* Of the outputs, only that of BUREAU is ever read back.
StageEvents(a, s) ==
    [n \in DOMAIN Stages |->
        [application |-> a, stage |-> Stages[n],
         output |-> IF Stages[n] = "BUREAU" THEN s.bureau ELSE "recorded"]]

\* Mutant: the policy is looked up again when the decision is persisted.
DecisionRowActive(a, s) ==
    LET grade == s.score.riskGrade
        priced == Priced(a, grade, s.result.outcome, ProductCeilings[Product[a]])
    IN  [outcome |-> s.result.outcome, score |-> s.score.score, riskGrade |-> grade,
         reasonCodes |->
             MergeReasonCodes(s.result.outcome, s.result.reasonCodes, s.score.reasonCodes),
         approvedAmount |-> priced.limit, interestRate |-> priced.rate,
         policyVersion |-> CHOOSE v \in FindActive(Product[a]) : TRUE, modelVersion |-> s.model,
         createdAt |-> today, overridden |-> FALSE]

\* The decision that the pipeline s of a came to.
DecisionRow(a, s) ==
    LET grade == s.score.riskGrade
        priced == Priced(a, grade, s.result.outcome, ProductCeilings[Product[a]])
    IN  [outcome |-> s.result.outcome, score |-> s.score.score, riskGrade |-> grade,
         reasonCodes |->
             MergeReasonCodes(s.result.outcome, s.result.reasonCodes, s.score.reasonCodes),
         approvedAmount |-> priced.limit, interestRate |-> priced.rate,
         policyVersion |-> s.policy, modelVersion |-> s.model,
         createdAt |-> today, overridden |-> FALSE]

\* PERSIST: the events and the decision, in one transaction.
Persist(a) ==
    /\ pipeline[a].step = "decided" /\ decision[a] = NoDecision
    /\ decision' = [decision EXCEPT ![a] = DecisionRow(a, pipeline[a])]
    /\ written' = [written EXCEPT ![a] = DecisionRow(a, pipeline[a])]
    /\ AppendEvents(StageEvents(a, pipeline[a]))
    /\ UNCHANGED <<clock, loaded, status, created, pipeline>>

Overrides == lastId - Len(Stages) * Cardinality({a \in Applications : decision[a] # NoDecision})

\* DecisionsService.override.  The outcome is checked when it is read, and that
\* may have been before another override committed: what is certain is that the
\* engine had referred the application, or that the row was changed to say so.
Override(a, newOutcome) ==
    /\ decision[a] # NoDecision
    /\ "REFER" \in {pipeline[a].result.outcome, decision[a].outcome}
    /\ Overrides < MaxOverrides
    /\ decision' = [decision EXCEPT ![a].outcome = newOutcome, ![a].overridden = TRUE]
    /\ written' = [written EXCEPT ![a].outcome = newOutcome, ![a].overridden = TRUE]
    /\ AppendEvents(<<[application |-> a, stage |-> "OVERRIDE", output |-> newOutcome]>>)
    /\ UNCHANGED <<clock, loaded, status, created, pipeline>>

-----------------------------------------------------------------------------
(* What no part of the program does: to DecisionEvent, where the rules of  *)
(* the database turn UPDATE and DELETE into nothing, and to the rows that  *)
(* replay and the simulator read beside it.                                *)

OutOfBand ==
    /\ tampering < MaxTampering
    /\ tampering' = tampering + 1
    /\ UNCHANGED <<clock, loaded, status, created, pipeline, written, lastId>>

OtherOutputs(row) ==
    (IF row.stage = "BUREAU" THEN Bureaus[row.application] ELSE {"altered"}) \ {row.output}

\* A digest that no event has.
Forged(row) == <<[Content(row) EXCEPT !.stage = "forged"]>>

\* Which other content does not matter, but for the event that is read back.
AlterRow(i) ==
    /\ OutOfBand
    /\ \E row \in {[events[i] EXCEPT !.output = output] : output \in OtherOutputs(events[i])}
               \union {[events[i] EXCEPT !.prevHash = Forged(events[i])],
                       [events[i] EXCEPT !.hash = Forged(events[i])]} :
          events' = [events EXCEPT ![i] = row]
    /\ UNCHANGED <<decision, rules, payload>>

LoseRow(i) ==
    /\ OutOfBand
    /\ events' = RemoveAt(events, i)
    /\ UNCHANGED <<decision, rules, payload>>

\* Two neighbours exchange their ids.
SwapRows(i) ==
    /\ OutOfBand
    /\ events' = [events EXCEPT ![i] = [events[i + 1] EXCEPT !.id = events[i].id],
                               ![i + 1] = [events[i] EXCEPT !.id = events[i + 1].id]]
    /\ UNCHANGED <<decision, rules, payload>>

AlterPolicy(v) ==
    /\ OutOfBand
    /\ \E w \in PolicyVersions \ {rules[v]} : rules' = [rules EXCEPT ![v] = w]
    /\ UNCHANGED <<decision, events, payload>>

AlterPayload(a) ==
    /\ OutOfBand
    /\ pipeline[a] # None
    /\ \E b \in Applications \ {payload[a]} : payload' = [payload EXCEPT ![a] = b]
    /\ UNCHANGED <<decision, events, rules>>

AlterDecision(a) ==
    /\ OutOfBand
    /\ decision[a] # NoDecision
    /\ \/ \E o \in Outcomes \ {decision[a].outcome} :
             decision' = [decision EXCEPT ![a].outcome = o]
       \/ \E v \in PolicyVersions \ {decision[a].policyVersion} :
             decision' = [decision EXCEPT ![a].policyVersion = v]
    /\ UNCHANGED <<events, rules, payload>>

Next ==
    \/ NextDay
    \/ Deploy
    \/ \E v \in PolicyVersions : Activate(v)
    \/ \E a \in Applications :
          \/ Submit(a) \/ Rules(a) \/ Persist(a)
          \/ \E b \in Bureaus[a] : Score(a, b)
          \/ \E o \in {"APPROVE", "DECLINE"} : Override(a, o)
          \/ AlterPayload(a) \/ AlterDecision(a)
    \/ \E v \in PolicyVersions : AlterPolicy(v)
    \/ \E i \in DOMAIN events : LoseRow(i) \/ AlterRow(i)
    \/ \E i \in 1..(Len(events) - 1) : SwapRows(i)

Spec == Init /\ [][Next]_vars

-----------------------------------------------------------------------------
(* HashChainService.verifyChain: the loop ends at the first row that does  *)
(* not match, having compared each row before it with its predecessor.     *)

ExpectedPrevHash(i) == IF i = 1 THEN Genesis ELSE events[i - 1].hash

\* Mutant: prevHash is not compared, only the hash recomputed from it.
MatchesOwnPrev(i) == events[i].hash = Digest(events[i].prevHash, Content(events[i]))

Matches(i) ==
    /\ events[i].prevHash = ExpectedPrevHash(i)
    /\ events[i].hash = Digest(ExpectedPrevHash(i), Content(events[i]))

Breaks == {i \in DOMAIN events : ~Matches(i)}
Valid == Breaks = {}
FirstBreakId == events[CHOOSE i \in Breaks : \A j \in Breaks : i <= j].id

-----------------------------------------------------------------------------
(* ReplayService.replay.                                                   *)

BureauEvents(a) == {i \in DOMAIN events : events[i].application = a /\ events[i].stage = "BUREAU"}
BureauOf(a) == events[CHOOSE i \in BureauEvents(a) : \A j \in BureauEvents(a) : j <= i].output

ReplayCeiling == 2000

\* What the stages yield today for the decision, on the payload in its row, the
\* age at its createdAt, the bureau payload of its event and the rules in the row
\* of its policy version.
Replayed(a) ==
    LET d == decision[a]
        p == payload[a]
        age == DeriveAge(Dob[p], d.createdAt)
        bureau == BureauOf(a)
        score == ScoreOf(loaded, p, age, bureau)
        result == Evaluate(rules[d.policyVersion], p, age, bureau, score.score)
        priced == Priced(p, score.riskGrade, result.outcome, ReplayCeiling)
    IN  [throws |-> Throws(result, score.riskGrade),
         outcome |-> result.outcome, score |-> score.score, riskGrade |-> score.riskGrade,
         reasonCodes |->
             MergeReasonCodes(result.outcome, result.reasonCodes, score.reasonCodes),
         approvedAmount |-> priced.limit, interestRate |-> priced.rate]

Checked == {"outcome", "score", "riskGrade", "reasonCodes", "approvedAmount", "interestRate"}

\* A replay answers unless the BUREAU event is gone or a stage throws.
Answers(a) == decision[a] # NoDecision /\ BureauEvents(a) # {} /\ ~Replayed(a).throws
Differences(a) == {f \in Checked : decision[a][f] # Replayed(a)[f]}

-----------------------------------------------------------------------------
(* getSimulationRecords and PolicySimulatorService.simulate.               *)

\* The newest n decided applications of the product, less those without event.
Sample(product, n) ==
    LET decided == SelectSeq(Reverse(created),
                       LAMBDA a : Product[a] = product /\ decision[a] # NoDecision)
    IN  SelectSeq(SubSeq(decided, 1, Min({n, Len(decided)})), LAMBDA a : BureauEvents(a) # {})

\* Mutant: the age is the applicant's age today.
DraftResultToday(v, a) ==
    Evaluate(rules[v], payload[a], DeriveAge(Dob[payload[a]], today), BureauOf(a),
             decision[a].score)

\* What the rules of v make of a, on its stored score.
DraftResult(v, a) ==
    Evaluate(rules[v], payload[a], DeriveAge(Dob[payload[a]], decision[a].createdAt),
             BureauOf(a), decision[a].score)

Summarize(outcomes) == [o \in Outcomes |-> Len(SelectSeq(outcomes, LAMBDA x : x = o))]

Simulate(v, n) ==
    LET records == Sample(PolicyProduct[v], n)
        now == [i \in DOMAIN records |-> decision[records[i]].outcome]
        draft == [i \in DOMAIN records |-> DraftResult(v, records[i]).outcome]
        flips(from, to) == Cardinality({i \in DOMAIN records : now[i] = from /\ draft[i] = to})
    IN  [current |-> Summarize(now), draft |-> Summarize(draft),
         approvedNowDeclined |-> flips("APPROVE", "DECLINE"),
         declinedNowApproved |-> flips("DECLINE", "APPROVE"),
         sampleSize |-> Len(records)]

-----------------------------------------------------------------------------
(* Properties.                                                             *)

Untouched(i) ==
    [output |-> events[i].output, prevHash |-> events[i].prevHash, hash |-> events[i].hash]
        = events[i].inserted

\* The row before it is the one that was the tip, with the hash it had then.
FollowsItsTip(i) ==
    IF i = 1 THEN events[i].after = 0
    ELSE /\ events[i - 1].serial = events[i].after
         /\ events[i - 1].hash = events[i].inserted.prevHash

Tampered == {i \in DOMAIN events : ~(Untouched(i) /\ FollowsItsTip(i))}

(* verifyChain answers valid exactly when every row that is left holds     *)
(* what was inserted and follows the row that was the tip at its insert,   *)
(* whatever was altered, exchanged or lost and whatever was appended       *)
(* since; otherwise it names the first row that was altered, moved, or     *)
(* that a missing row went before.  It cannot tell of rows that were the   *)
(* last ones when they were lost: VerifyProvesAll.                         *)
VerifyFindsTampering ==
    /\ Valid <=> Tampered = {}
    /\ ~Valid => FirstBreakId = events[CHOOSE i \in Tampered : \A j \in Tampered : i <= j].id

(* "it lets one verification pass over the whole DecisionEvent table prove *)
(* nothing anywhere was ever altered, reordered, or deleted"               *)
(* (hash-chain.service.ts:16-17).                                          *)
VerifyProvesAll ==
    Valid => \A n \in 1..lastId : \E i \in DOMAIN events : events[i].serial = n /\ Untouched(i)

\* The reasons for which the same decision may come out otherwise today.
SameModel(a) == loaded = decision[a].modelVersion
SameAge(a) == DeriveAge(Dob[a], decision[a].createdAt) = pipeline[a].age
SameCeiling(a) ==
    LET grade == decision[a].riskGrade
    IN  Limit(a, grade, ProductCeilings[Product[a]]) = Limit(a, grade, ReplayCeiling)
Reproducible(a) == ~decision[a].overridden /\ SameModel(a) /\ SameAge(a) /\ SameCeiling(a)

\* The rows that a replay reads are as the program wrote them.
BureauKept(a) ==
    BureauEvents(a) # {} /\ \A i \in BureauEvents(a) : events[i].output = events[i].inserted.output
DecisionKept(a) == decision[a] = written[a]
PolicyKept(a) == rules[pipeline[a].policy] = pipeline[a].rules
PayloadKept(a) == payload[a] = a
RowsKept(a) == DecisionKept(a) /\ PolicyKept(a) /\ PayloadKept(a)

(* The replay of a decision agrees with it in every field checked, however *)
(* late it is made and whatever policy is active by then or was when it    *)
(* was persisted, as long as it was not overridden, its model is loaded,   *)
(* the rows it reads are intact, no birthday lay between KYC and createdAt *)
(* and the one ceiling of replay does not cut the limit of its product.    *)
ReplayAgrees ==
    \A a \in Applications :
        decision[a] # NoDecision /\ BureauKept(a) /\ RowsKept(a) /\ Reproducible(a) =>
            Answers(a) /\ Differences(a) = {}

(* What a mismatch means (replay.service.ts:33-35): when a replay answers  *)
(* and disagrees, either the code has another model, age or ceiling than   *)
(* the decision had, or a row was changed out of band.  If audit/verify    *)
(* still answers valid, that row is the decision's, its policy's or its    *)
(* application's: the chain vouches for none of these.                     *)
MismatchMeansDrift ==
    \A a \in Applications :
        Answers(a) /\ Reproducible(a) /\ Differences(a) # {} /\ Valid =>
            ~DecisionKept(a) \/ ~PolicyKept(a) \/ ~PayloadKept(a)

(* Simulating the policy under which a sample was decided shows no effect: *)
(* its rates are the current ones and the swap set is empty, for any model *)
(* loaded and on any later day, unless an outcome was overridden or a row  *)
(* that the sample stands for was changed out of band.                     *)
SimulationOfOwnPolicy ==
    \A v \in PolicyVersions, n \in 1..Cardinality(Applications) :
        LET sample == ToSet(Sample(PolicyProduct[v], n))
            result == Simulate(v, n)
        IN  (\A a \in sample : /\ decision[a].policyVersion = v /\ ~decision[a].overridden
                               /\ BureauKept(a) /\ RowsKept(a) /\ SameAge(a)) =>
                /\ result.current = result.draft
                /\ result.approvedNowDeclined + result.declinedNowApproved = 0
=============================================================================
