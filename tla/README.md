# A verification project for the Loan Origination & Decisioning System

TLA+ modules, TLC runs and TLAPS proofs for this repository: the orchestrator
(`src/apps/orchestrator`), which decides loan applications and keeps the record
of why, the scoring service it asks, and the console that underwriters work
with. The reference is the code. Where a comment, a document or a test of the
repository promises something the code does not do, section 3 says so under
"Claims the code does not keep"; those that a run can show are `findings` of
`PROJECT.json` as well.

Paths below are under `src/apps/orchestrator/src/` unless they say otherwise.

## 1. The system

### Components, their state and their operations

| component | state | operations | modelled in |
|---|---|---|---|
| Bureau client and circuit breaker (`applications/stages/circuit-breaker.ts`, `bureau.service.ts`) | `state`, `consecutiveFailures`, `openedAt`, one breaker per process | `getState`, `canAttempt`, `recordSuccess`, `recordFailure`, `fetch` | `CircuitBreaker` |
| `POST /applications` and idempotency (`applications.controller.ts`, `common/idempotency.service.ts`) | Redis: cached responses (24 h), claims (60 s) | `create`, `get`, `claim`, `put`, `releaseClaim` | `Submission` |
| Submission pipeline (`applications.service.ts`, `dedupe.service.ts`, `kyc.service.ts`) | Postgres: Applicant, Application | `submit`: dedupe, KYC, application row, bureau, score, rules, limit and price, persist | `Submission`, `AuditChain` |
| Audit chain (`common/hash-chain.service.ts`) | Postgres: DecisionEvent, its sequence, an advisory lock | `appendEvent`, `verifyChain` | `AuditChain`, `AuditLedger` |
| Decisions (`decisions/decisions.service.ts`) | Postgres: Decision | `override`; `queue` and `stats` only read | `AuditChain` (`override`) |
| Policy versions (`policy/policy.service.ts`) | Postgres: PolicyVersion | `createDraft`, `activate`, `findActive` | `PolicyVersions` |
| Rules engine, reason codes (`common/rules-engine.service.ts`, `reason-codes.ts`) | none | `evaluate`, `validate`, `mergeReasonCodes` | `Decisioning` (`validate` changes nothing) |
| Limit and price (`limit-pricing.service.ts`) | none | `price`, `annuityFactor`, `spreadForGrade` | `Decisioning` (the limit) |
| Scoring client (`scoring-client.service.ts`) | none | `score` | its failure is a fault of `Submission`, its answer an input of `Decisioning` and `Records` |
| Scoring service (`src/apps/scoring-service`) | the loaded artifacts | `POST /score`: `Scorecard.score`, grade, reason codes | `Scoring`; the restart with another champion in `Records` |
| Scorecard training (`src/ml/scorecard`) | none | binning, fitting, PDO scaling | the edges of the bins and the scaling in `Scoring` |
| Replay and verification (`audit/replay.service.ts`, `verifyChain`) | none; they read every table | `replay`, `verify` | `Records` |
| Policy simulator (`policy/policy-simulator.service.ts`) | none | `getSimulationRecords`, `simulate` | `Records` |
| Decision queue and statistics (`decisions/decisions.service.ts`) | none | `queue`, `stats` | `Console`, but for the figures of `stats` |
| Console (`src/apps/console`) | the filters, the last answers, flags of what is under way | the effects and the buttons of the four pages | `Console` |
| Seed script (`src/scripts`) | a pool of workers | | not modelled |

### How they interact

A request reaches `create`, which asks Redis for a cached response, claims the
key and calls `submit`. `submit` writes through Prisma to Postgres, awaits the
bureau through the breaker and the scoring service over HTTP, reads the active
policy, computes the outcome and commits everything it knows in one
transaction, six events of which go through `appendEvent` under one global
advisory lock. `override` appends to the same chain from a transaction of its
own. Drafts and activations change the policies that later submissions read.
There is no lock in the process itself: every `await` is a place where other
requests run, and every statement a place where other transactions commit.

`replay`, `verify` and `simulate` read those tables later, when the day, the
active policy and the loaded model may have changed. The console talks to the
orchestrator alone; every page keeps its own copy of what it was told, and a
browser may have several requests under way.

### What is hard

* **Between two awaits.** The cache is read before the claim and not after it;
  dedupe is a query and two inserts; `activate` and `override` check a row
  before the transaction that changes it; the breaker hears of a call long
  after it let it start.
* **Partial failure.** The application row is committed by itself, the decision
  with its events, the answer in Redis: three steps, and a failure may fall
  between any two.
* **Unreliable delivery.** A lost answer of Redis or of a COMMIT leaves the
  caller not knowing whether the command was carried out.
* **Ordering.** Event ids come from a sequence that a rollback does not restore
  and the chain is read back by id; locks are taken in two orders.
* **Time.** The claim lives 60 s, a transaction 5 s, a cooldown 30 s; an
  applicant has a birthday between a decision and its replay.
* **Stale views.** A replay uses the model that is loaded now, a simulation the
  outcomes of now; a page of the console shows the answer that came last.
* **Tampering.** Rows of the trail that are altered, moved or removed behind the
  program's back are what the chain is for; the rows that a replay reads beside
  the trail (decision, policy, application) are in no chain.
* **Two roundings of one number.** Points are rounded per bin when the scorecard
  is written, the log odds are summed when it is served.

`PROJECT.json` lists each of these under `hazards` at the line where it bites,
with the properties that watch it, or the reason why none does yet.

### What makes each component correct

* Breaker: its three fields agree; no call begins while it cools down; it
  closes for good with a bureau that answers for good, and opens for good with
  one that fails for good.
* Submission: one request per key in the pipeline, and one more for each claim
  that ran out under its holder; one applicant row and one open application per
  person; an answer names a decided application; one loan per key, unless the
  answer to the first was lost or overtaken or its claim ran out; no key claimed
  for ever; nothing open that nobody works on.
* Audit chain: one chain from the genesis, growing by whole units of work; the
  table of outcomes is explained by the trail, and what the trail says of the
  outcome before is wrong only for overrides that overlapped; no deadlock.
* Policy versions: maker is not checker; one active policy per product, and
  always one once there was one; versions are never written over.
* Decisioning: the outcome is that of the worst failing rule wherever it
  stands, and no rule that throws is taken for one that passed; the reason codes
  explain the outcome; the limit is the largest step within every cap.
* Replay and verification: `verifyChain` finds every row that was altered or
  moved and every gap before a row that is left, and names the first (rows lost
  from the end it does not find: a finding); a replay agrees with its decision
  wherever the inputs it uses are still those of the decision.
* Simulator: a policy simulated over the decisions it made shows no effect.
* Scoring: score and odds agree up to rounding; a score above the floor has a
  grade with a price; the reason codes are the worst features; a value
  that is not an edge is served by the bin it was trained in (an edge is served
  by the next one: a finding).
* Console: a page ends up showing the answer to what it asks for; a case never
  goes back to an older view; no button stays disabled.

## 2. The modules

### `CircuitBreaker`

One process, its breaker and a set `Calls` of submissions that may have a
fetch in flight. `StartFetch` is `BureauClientService.fetch` up to the await,
`FetchSucceeds` and `FetchFails` what follows it; `GetState`, `CanAttempt`,
`RecordSuccess` and `RecordFailure` are the four methods. `Tick` is the clock
and `BureauChanges` the outside world. A call that finds the circuit open
changes nothing and is not a step.

Bounds: `now - openedAt` is only compared with the cooldown, and
`consecutiveFailures` with the threshold, so both are saturated there; no
behaviour is lost, and no counter is unbounded. The same holds of `age`, which
exists only for the property.

### `Submission`

Each request runs `create` once; `pc` is the await it stands at. Redis is
`cache` and `claims`, Postgres is `applicants`, `status` and `owner`. A row is
named by the request that inserts it, so that "a second loan" is a second
request with a DECIDED row. `SubmitFails` is a stage that throws (the scoring
client, which does not retry, a missing active policy, a rule that throws, a rolled
back transaction); `PersistUnacknowledged` a COMMIT whose acknowledgement is
lost; `RedisFails`, `PutFails` and `ReleaseFails` commands to Redis that fail
or whose answer is lost; `Crash` the end of the process, which may take its
requests one at a time; `ExpireClaim` the 60 s.

`Faults` and `ClaimsExpire` say which part of the outside world a run admits.
They are parameters rather than separate modules so that the theorems quantify
over them. With `ClaimsExpire = FALSE` a claim still expires once nobody is
working under it; with `TRUE`, as in `submission_safety`, it may also do so under
a handler that takes more than 60 s, whose `releaseClaim` then deletes the claim
of whoever came next.

`expiries` is auxiliary: how often the claim of a key ran out under a holder. The
code has no fencing, so each time one more request may run the pipeline, which
`ClaimExclusion` and `LoanPerKey` count: they say that it is never more than one
more, although the foreign `DEL` sets a claim free once again.

The cached response lives 24 h, which is taken to be longer than a client
retries; it does not expire in the model.

`overlapped` is auxiliary: the persons for whom two requests were between the
dedupe query and the application insert at once. It constrains nothing and
lets `DedupeWithoutOverlap` say precisely what the comment at
`applications.service.ts:59-63` concedes.

`exposed` is auxiliary as well: the keys that were claimed by a request whose
look into the cache had gone stale by then (it missed, and an answer was put
since), and those under which a decision was committed
and the handler did not get to `put`. `LoanPerKey` says that these and a claim
that ran out are the only ways to a second loan of one key; `NoSecondLoan`,
without the exceptions, is what the comment in `idempotency.service.ts` promises,
and is refuted.

### `AuditLedger` and `AuditChain`

`AuditLedger` is the promise: a sequence that only grows, by the whole batch
of one unit of work at a time.

`AuditChain` has one process per transaction: the submissions at step PERSIST
and the overrides. `op` is the statement the transaction is at, in the order
of the source (`Then`); an append is three statements, `AcquireLock`,
`ReadTip` and `InsertEvent`. Isolation is READ COMMITTED, the default of
Postgres that Prisma leaves alone: `rows` is what is committed, `pending[t]`
what only `t` sees. `nextId` is the sequence, which `Abort` does not restore.
SHA-256 is taken to have no collisions, so a digest is the event together with
everything that was hashed before it.

The refinement maps the committed rows, in id order, to the ledger. It says
more than `ChainIntact`: nothing of a rolled back transaction is in the trail,
and no batch is interleaved with another.

`overtaken` is auxiliary: the overrides that were under way, with the decision
read, when another override of the same decision committed. Such a call commits
all the same and records a `previousOutcome` that is no longer true.
`TrailExplainsOutcome` therefore has two parts: the last RULES or OVERRIDE event
says what the table shows (`LastEventDecides`), and an OVERRIDE event stands behind
another one, whose outcome its `previousOutcome` does not tell, only if its call was
overtaken (`PreviousIsBefore`).

The application row that a submission wrote before PERSIST is not a variable
of this module, nor are the columns of the decision other than its outcome.

### `PolicyVersions`

Calls of `createDraft` and `activate`. `updateMany` is a `Scan` followed by one
`RetireRow` for each row it saw: a statement that meets a locked row waits, and
tests its condition again on what it then finds (`status[v] = "ACTIVE"` in
`RetireRow`). `Promote` is the update by version, which has no such condition.
Rows are locked until the transaction ends; two activations that wait for each
other are ended by `Abort`, as Postgres does.

`overlapped` is auxiliary again: the products two of whose activations were
open at once. The properties that need an activation to be alone, among them
that only a DRAFT is activated, exclude those products; `policy_race` shows
what happens to them.

### `Decisioning`

One application through the stages RULES and LIMIT + PRICE. The loop of
`evaluate` is a step per rule; a verdict (`passes`, `fails`, `throws`) for each
rule is chosen at the start, so that all lists of rules with all truth values
are covered without the grammar of the expressions. `Sort` is any stable order
by priority, of which there is one. Amounts are in thousands of rupees, the
share of income and the annuity factor in hundredths. The factor of each priced
grade is a constant: what `annuityFactor` computes in floating point is not
modelled, and neither is the rounding of the EMI and the rate that go into the
record. `failed` is where `submit` is left by an exception, with the
application row behind (`Submission` follows that row).

The cap on ten annual incomes can never bind with the constants in
`applications.service.ts:19-24`: at 14% the annuity factor stays below 86, and
the FOIR share of 86 monthly incomes is less than 120. The model keeps it all
the same, and the theorem is about every annuity factor.

### `Records`

The tables that are read back (`created`, `payload`, `decision`, `events`,
`status`, `rules`) and what changes around them: `NextDay`, `Deploy` (the scoring
service restarts with the next champion), `Activate`. A submission is four steps,
`Submit` (KYC, with the age of that day), `Score`, `Rules` and `Persist`, because
days, deployments and activations may fall between them; the transactions
themselves are single steps, for their statements are the subject of `AuditChain`
and `PolicyVersions`. `Override` may follow another override, as it does in
`AuditChain`.

Six actions are done by no part of the program. `AlterRow` changes what an event
says or forges one of its two digests, `LoseRow` removes it and `SwapRows` exchanges
it with its neighbour; `AlterDecision`, `AlterPolicy` and `AlterPayload` change
the rows that a replay reads beside the events. `replay.service.ts:34` names the
policy among the causes of a mismatch, and no digest covers any of the three.

`verifyChain`, `replay`, `getSimulationRecords` and `simulate` only read, so
they are operators on the state (`Valid`, `FirstBreakId`, `Replayed`, `Sample`,
`Simulate`), evaluated in every state: whenever the endpoint is called, this is
what it answers. What a model scores, a version evaluates and `price` returns
are constant operators: nothing is assumed of them but that they are functions
of what the code passes to them. The content of a policy or an application is
named by the version or application it was written for, so altering a row makes
it hold that of another.

SHA-256 is again taken to have no collisions: a digest is the sequence of all
contents hashed into it. In a content, `output` stands for the columns that are
hashed, of which the output of BUREAU is the one read back, and the id at the
insert for whatever else distinguishes two events: the rows of one batch differ in
their stages, those of two batches are taken never to be alike in every column.
`createdAt` of an event is not hashed by the code and not modelled. Somebody who recomputes
the digests of all rows behind a change is outside the model, and is not found by the
code either, which keeps no tip elsewhere.

Bounds: `MaxDays`, `MaxModel`, `MaxOverrides` and `MaxTampering`. Ghosts: each
event remembers its columns when it was inserted (`inserted`) and the row it was
linked to (`serial`, `after`); `written` is the decision as the program wrote it;
`pipeline` is what the submission had in memory.

### `Console`

One of the four pages is mounted; `Init` chooses which. `ui` is its React state
as far as answers change it. A request is sent, served and answered in steps of
its own: `Serve` is the server's part (`queue` with its two queries side by
side, `stats`, `findById`, `replay`, `override` with its check before the
transaction, `createDraft`, `activate`), `Arrive` the handlers of the page, in
any order of the answers. Each request may also fail at any time (`ViewFails`,
`CaseFails`, `PolicyFails`), whether or not the server had acted. A request that
fails in the browser while the server has yet to act is covered by
`OverrideElsewhere` for the case; on the policy page such a failure sets `lost`,
and the property excludes it. The user's actions are those that the page offers: a button that is disabled
or not rendered is a guard.

The filters of the dashboard for product and days, and the product filter of
the queue, send a request and select rows as the outcome filter does, which
stands for them. The queue is never longer than its page of 50 rows.
`MaxRequests` bounds the requests under way. Ghosts: `overtaken` (an answer was
shown before that of an older request of the same kind), `lost` (a request
failed that the server had not refused), `asked` and `changes` (how old
an answer is).

### `Scoring`

One request to `POST /score`. `RejectVersion`, `RejectMissing` and `RejectText`
are the three ways it is refused, `ScoreFeature` is a turn of the loop of
`Scorecard.score`, `Respond` what follows it: `ReasonCodes` sorts the negative
impacts, equals in the order of the features, and takes the first. Numbers are integers in fixed
units (the header of the module names them); a probability of default is
represented by its log odds, of which it is an increasing function, so the
bands of the grade are compared there. `Points` is the scaling of
`train_scorecard.py` and `TrainedBin` the cut of `woe.py`; with them the module
relates what was trained to what is served.

The trees of the challenger are data; that it scores along exactly when all of
its fields are there is modelled.

## 3. The runs

A run takes between a second and a minute and a half on two workers. "Found"
marks a run that is expected to end in a counterexample.

| run | what it shows | instance and why it is enough |
|---|---|---|
| `breaker_safety` | `TypeOK`, `BreakerConsistent`, `QuietDuringCooldown`, `FollowsBureau` | 3 calls, threshold 2, cooldown 3: two calls can disagree while a third is a trial, a count can be below the threshold, a cooldown partly over |
| `submission_safety` | `TypeOK`, `ClaimExclusion`, `DedupeWithoutOverlap`, `AnswersAreDurable`, `LoanPerKey`, `ClaimsEnd` | one key sent 3 times by one person, every fault, claims that expire under a handler: the second request runs beside the first and the first's `DEL` frees the claim for the third, the least in which one expiry could admit two. Requests without a key, other persons and those whom KYC refuses are left to the theorems |
| `submission_race` | found: `NoSecondLoan` fails for a resend that overlaps | no fault is needed |
| `submission_orphan` | found: an open application that nobody works on | one failing stage |
| `chain_safety` | `TypeOK`, `ChainIntact`, `ModelsCreatedOnce`, `TrailExplainsOutcome`, `ImplementsLedger`, `TransactionsEnd` | 2 submissions that share a new model, 3 overrides of one of them that disagree: one that overlaps both others, and one that comes after both and is refused |
| `policy_safety` | `TypeOK`, `MakerChecker`, `SingleActiveWithoutOverlap`, `DraftsKept`, `StaysActive`, `OnlyDraftActivated` | 4 drafts, two of one version for different products; 4 activations, two of one version and one by an author |
| `policy_race` | found: two active policies | 2 drafts, 2 activations |
| `decisioning` | `TypeOK`, `OutcomeIgnoresOrder`, `ReasonsExplain`, `LimitWithinCaps` | every policy of up to 3 rules with 2 priorities and 2 reasons, every verdict: a REFER before, between and after a DECLINE and a throw, equal priorities; an applicant each for the affordable limit, the ceiling and nothing |
| `records` | `TypeOK`, `VerifyFindsTampering`, `ReplayAgrees`, `SimulationOfOwnPolicy` | 2 applications of different products: one with a birthday on the second day and a bureau that may be degraded, one above the ceiling that replay assumes; 2 champions and 2 policies of one product that decide differently; 2 overrides; one change out of band of any kind, to any row, before or after later appends (with two, the run takes too long; the theorems are for any number) |
| `records_tail` | found: `VerifyProvesAll` fails when the last row is deleted; `verify` answers valid | one application, one change out of band |
| `console` | `TypeOK`, `ViewFollowsFilter`, `PoliciesCatchUp`, `CaseNeverGoesBack`, `SpinnersEnd` | 2 requests under way, the least for one answer to overtake another; 2 decisions and 2 filters, so a row leaves what a filter matches; 2 versions, so an activation retires one |
| `scoring` | `TypeOK`, `ScoreTracksOdds`, `FloorImpliesPriced`, `ReasonsAreWorst`, `EdgesServedAbove` | the artifact that is deployed and an applicant for every combination of its bins (values on the edges), so nothing is left out but values that share a bin; NaN, text and missing values, a wrong version |

Deadlock is checked for the breaker, which never stops. The other systems end
when every call has ended, the days, deployments and overrides are used up, or the user does
nothing more.

### Claims the code does not keep

Each is quoted from the repository; `findings` has the full wording of those that
a run shows.

Shown by a run:

* "must not create a second loan" (`common/idempotency.service.ts:8-9`): a resend
  that overlaps the first request makes one (`submission_race`). `LoanPerKey`
  names all the ways.
* 'An "open" application is one still in flight' (`dedupe.service.ts:12`): a
  stage that throws leaves a row that is open for ever (`submission_orphan`).
* "retiring the prior ACTIVE policy" (`policy.service.spec.ts:100`): two
  activations that overlap leave two active policies (`policy_race`).
* "prove nothing anywhere was ever altered, reordered, or deleted"
  (`common/hash-chain.service.ts:16-18`): rows deleted from the end leave the
  chain valid (`records_tail`). `VerifyFindsTampering` says what is found.
* the bins are labelled `(lo, hi]` (`woe.py:85`) and served as `[lo, hi)`:
  `EdgesServedAbove`, a property of the passing run `scoring`, says exactly which
  values are served by another bin than they were trained in, and by which.

Without a run, because reading the lines suffices:

* "one trial call is allowed through" (`circuit-breaker.ts:6`): `canAttempt`
  admits every caller while the state is HALF_OPEN. `CircuitBreaker` has these
  overlapping trials; `FollowsBureau` is checked against them, not against one.
* "used at draft-save and activation time" (`common/rules-engine.service.ts:70`):
  `createDraft` calls `validate`, `activate` does not. A rule that throws when an
  application meets it is a verdict of `Decisioning` (`OutcomeIgnoresOrder`).
* "treat it as the riskiest bin rather than raising" (`scorecard.py:62-63`): the
  last bin is the one with the most points for income and age, and text raises in
  `float`. `Scoring` serves NaN from the last bin and has `RejectText`.
* "the exact policy version and model version recorded on it"
  (`audit/replay.service.ts:27-28`): the model is the one that is loaded now. The
  response tells the recorded version; `ReplayAgrees` is conditional on
  `SameModel`.
* the chain covers the events: `createdAt` is not among the columns hashed
  (`common/hash-chain.service.ts`), so a changed one is not found.

Exceptions of passing properties, which say when a claim does hold:

* a key is claimed by one request (`ClaimExclusion`): but for claims that outlive
  their 60 s, each of which admits one more.
* one open application per person (`DedupeWithoutOverlap`): but for submissions
  that overlap between the query and the insert, as the comment at
  `applications.service.ts:59-63` concedes.
* only a DRAFT is activated (`OnlyDraftActivated`): but for activations of one
  product that overlap, whose status was read before the transaction.
* `previousOutcome` is the outcome before (`TrailExplainsOutcome`): but for an
  override that overlapped another.
* a mismatch is drift (`audit/replay.service.ts:33-35`): `ReplayAgrees` names the
  reasons that are none, an override, the one ceiling for all products and a
  birthday between KYC and the row. The theorem `MismatchExplained` says what is
  left while the chain is valid: the row of the decision, of its policy or of its
  application was changed.
* what a page shows is what it asks for (`ViewFollowsFilter`): but where answers
  overtake one another, which the effects do not guard against, or somebody decided
  since, after which rows and total may disagree as well.

Every property of a passing run has a mutant in `PROJECT.json`: a plausible
slip in the code (a dropped `NX`, a lock not taken, a statement outside the
transaction) under which TLC finds the property violated. The mutated forms
stand beside the definitions they change and are used by nothing else.

### Fairness

* Breaker: applications keep arriving (`WF(StartFetch)`), a bureau call ends
  (the latency of the mock is a timer), the clock runs. The bureau may fail and
  recover at will; the property is about bureaus that settle.
* Submission: an `await` returns or throws, so a request that is in the handler
  moves on unless it crashes, and Redis expires what is due. Nothing obliges a
  client to send or the outside world to fail.
* Audit chain: an open transaction issues its next statement once the last has
  returned, and a lock that is free is granted to one that waits; weak fairness
  is enough because a transaction holds a lock for finitely many statements.
  No transaction is obliged to begin, or to abort.
* Console: a request that was sent is answered or fails, for a browser gives up
  a connection that is dead. Nothing obliges the user or the other underwriters
  to do anything.

## 4. The proofs

The theorems hold for every value of the constants that satisfies the named
assumptions of the modules. Each proof module extends its component.

* `CircuitBreakerProofs`: `TypeCorrect`, `FieldsAgree`, `NoCallInCooldown`.
  The second is inductive given the first. The third needs both: a success
  while open is harmless because it clears the opening time, and a failure
  restarts `sinceOpened` at 0, below every age.
* `SubmissionProofs`: `TypeCorrect`; `ClaimExcludes`, strengthened by "under a
  key there are no more holders than claims in Redis and expiries" (`ClaimInv`: whoever
  deletes a claim, his own or another's, ceases to be a holder, and an expiry
  trades the claim for a count); `DedupeCorrect`, strengthened by who can be inside
  the window and by where the rows that it saw come from; `AnswersDurable`,
  strengthened by what a request at `put` has committed; `OneLoanPerKey`,
  strengthened by: under a key that is not exposed, a decided application is
  cached or about to be put (`PutInv`), and those that made a loan or still may
  are no more than one and the expiries (`TakerInv`). None assumes anything of
  `Faults` or `ClaimsExpire`.
* `AuditChainProofs`: `TypeCorrect`, `ChainAlwaysIntact`, `ModelVersionsUnique`
  and `TrailAlwaysExplains`. The chain is not inductive by itself: the
  invariant says that the holder of the lock sees a linked table (committed
  rows and its own), that nobody else has pending rows, that a tip read is the
  last row seen, and that all ids are below `nextId`. Models are created once
  because a transaction holds the lock from its first event to its end, which
  includes the look for the model and its insert (`HoldInv`, `ModelInv`). The
  trail explains the outcomes because every transaction has written one RULES
  or OVERRIDE event, with its own outcome, before it can commit the decision
  (`OwnInv`, `ToldInv`), and an override only starts from a decision (`ReferInv`).
  That an OVERRIDE event on top of another is of a call that was overtaken rests on
  this: once an override has committed, the decision is never REFER again
  (`DecidedInv`, `OverriddenInv`), so a call that is still under way had read it
  before (`OvertakenInv`).
  `LedgerImplemented` is the refinement: the committed rows, numbered in the
  order of their ids, are an `AuditLedger`. `BatchInv` says that the rows of an
  open transaction are a prefix of its batch; with the lock they are above all
  committed ids, so a commit appends them in one step (`NumberUnion`,
  `CommitAdds`), and every other step leaves the ledger as it is.
* `PolicyVersionsProofs`: `TypeCorrect`, `MakerIsNotChecker`,
  `SingleActivePolicy`, and the action properties `DraftsAreKept` and
  `ProductStaysActive`. The strengthening says that an open activation has a
  version whose author is not its user, that rows it retires are locked by it
  and of its product, and that without overlap it is alone in its product.
  `OnlyDraftsActivated` uses the last part: the status read before the
  transaction still holds when the row is promoted.
* `DecisioningProofs`: `TypeCorrect`, `OutcomeOrderFree`,
  `CodesExplainOutcome` and `LimitCapped`, for every list of rules. The
  first two properties are not inductive, for they speak of the end of the loop;
  the invariant says that the turns taken so far neither threw nor declined and
  that the outcome and the fired rules are those of this initial segment of the
  sorted rules.
* `RecordsProofs`: `TypeCorrect`, `TamperingFound`, `ReplayCorrect`,
  `MismatchExplained` and `SimulationNeutral`, for every model, policy and
  pricing function and every amount of tampering. `LinkInv` says that the
  digest in a row, even a forged one, tells which event the row is of, and that the
  `prevHash` it was inserted with tells which row was the tip; so comparing
  digests, as `Matches` does, is comparing rows, wherever they have been moved.
  `PathInv` says that the decision as it was written was computed from what the pipeline holds, `EventInv`
  that a decided application has one BUREAU event at most, inserted with the bureau
  payload of its pipeline. `MismatchExplained` joins the two audits: if a replay
  differs without a reason among those of `ReplayAgrees` while `verify` answers
  valid, the row of the decision, of its policy or of its application was changed
  out of band. It is a theorem only; no run lists the property it states,
  `MismatchMeansDrift`, for it follows from two that `records` checks.

* `ScoringProofs`: `TypeCorrect`, `ScoreAndOddsAgree`, `FloorKeepsUnpricedOut`,
  `ReasonsAreTheWorst` and `OnlyEdgesDiffer`, for every artifact and request. The
  score and the odds agree because after every turn of the loop they differ by no more than
  the rounding of the features gone through (`ScoringInv`, half a point each and
  the units of the module: `Slack` at the end). That the floor keeps grades
  without a price out is a matter of the numbers in the artifact and the bands,
  so the theorem has the hypothesis `FloorLeavesRoom`: with the floor go odds at
  which, `Slack` deducted, a band has been reached that is priced, as are those
  before it. It is a fact of what is deployed: `MCScoring` states it as an
  assumption, which TLC evaluates. The reason codes are sorted by rank, the
  number of features before one; that a finite set with a strict order has one
  member of every rank (`RankGrows`, `RanksCover`) makes that a sort.
  `OnlyEdgesDiffer` proves `EdgesServedAbove`: a value on
  an inner edge is served by the bin after the one it was trained in, and every
  other value in the range of the bins by its own. It is for artifacts whose bins
  are intervals that meet (`BinsMeet`), which TLC finds the deployed ones to be.

* `ConsoleProofs`: `TypeCorrect`, `FiltersFollowed`, `ListCatchesUp` and the
  action property `NeverGoesBack`, for any number of requests under way. Each
  page has an invariant about what is under way. Queue and dashboard
  (`ViewInv`): whatever has been read of a request still matches, unless
  somebody decided after it was sent, and if nothing was overtaken the newest
  request has the filter that is set. Policy editor (`PolicyInv`): a save or an
  activation that went through is yet to be answered, or the last list under way
  will be that of the database, or the one shown is. Case (`CaseInv`): at most
  one load and one override are under way; a load after the first means that
  the case is overridden, so the server refuses an override sent meanwhile
  (`LoadsAfterOverride`), and no second load follows.

The invariants of `ConsoleProofs` were also checked with three requests under
way (17.5 million states) before they were proved.

Every invariant, every action property and the refinement that the passing runs
check are theorems.

Only model-checked: the four liveness properties (`FollowsBureau`, `ClaimsEnd`,
`TransactionsEnd`, `SpinnersEnd`), since ENABLED and fairness are out of the
prover's reach. What a recursive definition computes for every input would need
induction over data, which the installed provers cannot instantiate; no module
of this project has one.

## 5. Not modelled, and the plan

Open, in this order:

1. The figures of `stats`: histogram, percentile and correlation as functions
   of the decisions found.
2. The loops of `woe.py` that merge bins and select features, and the worker
   pool of `scripts/seed.js`.

Left out for good: the rendering of the console, Docker and CI files,
validation decorators and module wiring, the numerical fitting of the scorecard
and the challenger, and the generator of synthetic data, which have no state or
control that a model would say anything about.
