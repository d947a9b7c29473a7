----------------------------- MODULE AuditChain -----------------------------
(***************************************************************************)
(* The hash-chained DecisionEvent table and the two transactions that      *)
(* append to it: the PERSIST step of ApplicationsService.submit and        *)
(* DecisionsService.override.                                              *)
(*                                                                         *)
(* A transaction is a process at READ COMMITTED: a statement sees what was *)
(* committed when it began and the transaction's own rows.  appendEvent is *)
(* three statements, the advisory lock, the read of the tip and the        *)
(* insert, and other transactions may step between any two of them.        *)
(***************************************************************************)
EXTENDS Naturals, Sequences, FiniteSets

CONSTANTS
    Persists,       \* submissions that reach PERSIST, one application each
    Overrides,      \* calls of override
    Target,         \* Target[o]: the submission whose decision o is about
    SelfApproved,   \* the overrides whose proposedBy is their approvedBy
    Engine,         \* Engine[p]: the outcome of the rules for p
    NewOutcome,     \* NewOutcome[o]: dto.newOutcome
    Champion,       \* Champion[p]: score.modelVersion
    Challenger,     \* Challenger[p]: score.challenger's, or NoModel
    NoModel,
    Free            \* the holder of a lock that nobody holds

Txs == Persists \union Overrides

ASSUME KindAssumption == Persists \intersect Overrides = {} /\ Free \notin Txs
ASSUME TargetAssumption == Target \in [Overrides -> Persists]
ASSUME EngineAssumption == Engine \in [Persists -> {"APPROVE", "REFER", "DECLINE"}]
ASSUME OutcomeAssumption == NewOutcome \in [Overrides -> {"APPROVE", "DECLINE"}]

VARIABLES
    at,         \* where each transaction is, within its current statement
    op,         \* the part of its program that each transaction is at
    tip,        \* tip[t]: prevHash, as appendEvent read it
    lock,       \* holder of the advisory lock CHAIN_LOCK_KEY
    rowLock,    \* rowLock[p]: holder of the lock on the Decision row of p
    nextId,     \* the BIGSERIAL of DecisionEvent, which no rollback restores
    rows,       \* committed DecisionEvent rows
    pending,    \* pending[t]: rows inserted by the open transaction t
    models,     \* committed ModelVersion names
    newModels,  \* newModels[t]: names inserted by the open transaction t
    decision,   \* committed outcome of the Decision of p; "none" before, while
                \* the application is PROCESSING
    overtaken   \* auxiliary: overrides that had read the decision, and were
                \* still under way, when another override of it committed

vars == <<at, op, tip, lock, rowLock, nextId, rows, pending, models, newModels, decision,
          overtaken>>

Events == {"BUREAU", "SCORE", "RULES", "LIMIT", "PRICE", "PERSIST", "OVERRIDE"}

\* The statements of both transactions, in the order of the source.
Then == [BUREAU |-> "SCORE", SCORE |-> "RULES", RULES |-> "LIMIT", LIMIT |-> "PRICE",
         PRICE |-> "champion", champion |-> "challenger", challenger |-> "decide",
         decide |-> "PERSIST", PERSIST |-> "commit",
         update |-> "OVERRIDE", OVERRIDE |-> "flip", flip |-> "commit"]

Entry(t, stage) == [tx |-> t, stage |-> stage]

\* sha256(prevHash + canonical(event)), with no collisions: the digest of an
\* event stands for the event and for everything before it.
Digest(prevHash, entry) == Append(prevHash, entry)

Genesis == <<>>

Ops == DOMAIN Then \union {"commit"}
Entries == [tx : Txs, stage : Events]
Hashes == Seq(Entries)
EventRows == [id : Nat, entry : Entries, prev : Hashes, hash : Hashes]

Active(t) == at[t] \in {"running", "tip", "insert", "create"}

TypeOK ==
    /\ at \in [Txs -> {"idle", "running", "tip", "insert", "create",
                       "committed", "aborted", "rejected"}]
    /\ op \in [Txs -> Ops]
    /\ tip \in [Txs -> Hashes]
    /\ lock \in Txs \union {Free}
    /\ lock # Free => Active(lock)
    /\ rowLock \in [Persists -> Overrides \union {Free}]
    /\ nextId \in Nat
    /\ rows \subseteq EventRows
    /\ pending \in [Txs -> SUBSET EventRows]
    /\ decision \in [Persists -> {"none", "APPROVE", "REFER", "DECLINE"}]
    /\ overtaken \subseteq Overrides

Init ==
    /\ at = [t \in Txs |-> "idle"]
    /\ op = [t \in Txs |-> IF t \in Persists THEN "BUREAU" ELSE "update"]
    /\ tip = [t \in Txs |-> Genesis]
    /\ lock = Free
    /\ rowLock = [p \in Persists |-> Free]
    /\ nextId = 1
    /\ rows = {}
    /\ pending = [t \in Txs |-> {}]
    /\ models = {}
    /\ newModels = [t \in Txs |-> {}]
    /\ decision = [p \in Persists |-> "none"]
    /\ overtaken = {}

Moves(t, place) == at' = [at EXCEPT ![t] = place]
Completes(t) == op' = [op EXCEPT ![t] = Then[op[t]]] /\ Moves(t, "running")

tables == <<rows, models, decision, overtaken>>
private == <<pending, newModels>>

-----------------------------------------------------------------------------
(* How a transaction begins.                                               *)

\* $transaction of submit, once every stage has its result.
BeginPersist(p) ==
    /\ at[p] = "idle"
    /\ Moves(p, "running")
    /\ UNCHANGED <<op, tip, lock, rowLock, nextId, tables, private>>

\* override reads the decision, and checks it, before its transaction begins.
ReadDecision(o) ==
    /\ at[o] = "idle"
    /\ Moves(o, IF o \notin SelfApproved /\ decision[Target[o]] = "REFER"
                THEN "running" ELSE "rejected")
    /\ UNCHANGED <<op, tip, lock, rowLock, nextId, tables, private>>

-----------------------------------------------------------------------------
(* HashChainService.appendEvent.                                           *)

\* Mutant: the tip is read without the lock.
AcquireLockNever(t) ==
    /\ at[t] = "running" /\ op[t] \in Events
    /\ Moves(t, "tip")
    /\ UNCHANGED <<op, tip, lock, rowLock, nextId, tables, private>>

\* pg_advisory_xact_lock waits for the holder, and is reentrant.
AcquireLock(t) ==
    /\ at[t] = "running" /\ op[t] \in Events
    /\ lock \in {Free, t}
    /\ lock' = t
    /\ Moves(t, "tip")
    /\ UNCHANGED <<op, tip, rowLock, nextId, tables, private>>

Visible(t) == rows \union pending[t]

ReadTip(t) ==
    /\ at[t] = "tip"
    /\ \/ Visible(t) = {} /\ tip' = [tip EXCEPT ![t] = Genesis]
       \/ \E e \in Visible(t) : /\ \A d \in Visible(t) : d.id <= e.id
                                /\ tip' = [tip EXCEPT ![t] = e.hash]
    /\ Moves(t, "insert")
    /\ UNCHANGED <<op, lock, rowLock, nextId, tables, private>>

NewRow(t) ==
    LET entry == Entry(t, op[t])
    IN  [id |-> nextId, entry |-> entry, prev |-> tip[t], hash |-> Digest(tip[t], entry)]

\* Mutant: the row is created through this.prisma, outside the transaction.
InsertEventOutside(t) ==
    /\ at[t] = "insert"
    /\ rows' = rows \union {NewRow(t)}
    /\ nextId' = nextId + 1
    /\ Completes(t)
    /\ UNCHANGED <<tip, lock, rowLock, models, decision, overtaken, private>>

InsertEvent(t) ==
    /\ at[t] = "insert"
    /\ pending' = [pending EXCEPT ![t] = @ \union {NewRow(t)}]
    /\ nextId' = nextId + 1
    /\ Completes(t)
    /\ UNCHANGED <<tip, lock, rowLock, tables, newModels>>

-----------------------------------------------------------------------------
(* The other statements of the two transactions.                           *)

Model(t) == IF op[t] = "champion" THEN Champion[t] ELSE Challenger[t]

\* ensureModelVersion: findUnique, or nothing without a challenger.
FindModel(t) ==
    /\ at[t] = "running" /\ op[t] \in {"champion", "challenger"}
    /\ IF Model(t) \in models \union newModels[t] \union {NoModel}
       THEN Completes(t)
       ELSE Moves(t, "create") /\ UNCHANGED op
    /\ UNCHANGED <<tip, lock, rowLock, nextId, tables, private>>

\* The create waits for another insert of the same unique name to end; once
\* that is committed it fails, and Abort is what is left.
CreateModel(t) ==
    /\ at[t] = "create"
    /\ Model(t) \notin models
    /\ \A u \in Txs \ {t} : Model(t) \notin newModels[u]
    /\ newModels' = [newModels EXCEPT ![t] = @ \union {Model(t)}]
    /\ Completes(t)
    /\ UNCHANGED <<tip, lock, rowLock, nextId, tables, pending>>

\* decision.create, and the application.update of either transaction: rows that
\* no other open transaction writes, seen by others at the commit.
WriteOwnRows(t) ==
    /\ at[t] = "running" /\ op[t] \in {"decide", "flip"}
    /\ Completes(t)
    /\ UNCHANGED <<tip, lock, rowLock, nextId, tables, private>>

\* Mutant: the update goes through this.prisma, outside the transaction.
UpdateDecisionOutside(o) ==
    /\ at[o] = "running" /\ op[o] = "update"
    /\ decision' = [decision EXCEPT ![Target[o]] = NewOutcome[o]]
    /\ Completes(o)
    /\ UNCHANGED <<tip, lock, rowLock, nextId, rows, models, overtaken, private>>

\* decision.update waits for the row, and keeps it to the end.
UpdateDecision(o) ==
    /\ at[o] = "running" /\ op[o] = "update"
    /\ rowLock[Target[o]] = Free
    /\ rowLock' = [rowLock EXCEPT ![Target[o]] = o]
    /\ Completes(o)
    /\ UNCHANGED <<tip, lock, nextId, tables, private>>

-----------------------------------------------------------------------------
(* How a transaction ends.                                                 *)

Subject(t) == IF t \in Persists THEN t ELSE Target[t]
Result(t) == IF t \in Persists THEN Engine[t] ELSE NewOutcome[t]

\* The other overrides of the same decision that are under way when t commits.
Overtakes(t) ==
    IF t \in Persists THEN {}
    ELSE {o \in Overrides \ {t} : Target[o] = Target[t] /\ Active(o)}

ReleaseLocks(t) ==
    /\ lock' = IF lock = t THEN Free ELSE lock
    /\ rowLock' = [p \in Persists |-> IF rowLock[p] = t THEN Free ELSE rowLock[p]]

\* Mutant: a session lock, which the commit does not release.
CommitKeepsLock(t) ==
    /\ at[t] = "running" /\ op[t] = "commit"
    /\ rows' = rows \union pending[t]
    /\ models' = models \union newModels[t]
    /\ decision' = [decision EXCEPT ![Subject(t)] = Result(t)]
    /\ overtaken' = overtaken \union Overtakes(t)
    /\ pending' = [pending EXCEPT ![t] = {}]
    /\ newModels' = [newModels EXCEPT ![t] = {}]
    /\ Moves(t, "committed")
    /\ UNCHANGED <<op, tip, lock, rowLock, nextId>>

Commit(t) ==
    /\ at[t] = "running" /\ op[t] = "commit"
    /\ rows' = rows \union pending[t]
    /\ models' = models \union newModels[t]
    /\ decision' = [decision EXCEPT ![Subject(t)] = Result(t)]
    /\ overtaken' = overtaken \union Overtakes(t)
    /\ pending' = [pending EXCEPT ![t] = {}]
    /\ newModels' = [newModels EXCEPT ![t] = {}]
    /\ ReleaseLocks(t)
    /\ Moves(t, "committed")
    /\ UNCHANGED <<op, tip, nextId>>

\* A statement fails, the 5 s of an interactive transaction pass, or the
\* process or its connection dies: everything but nextId is undone.
Abort(t) ==
    /\ Active(t)
    /\ pending' = [pending EXCEPT ![t] = {}]
    /\ newModels' = [newModels EXCEPT ![t] = {}]
    /\ ReleaseLocks(t)
    /\ Moves(t, "aborted")
    /\ UNCHANGED <<op, tip, nextId, tables>>

Statement(t) ==
    \/ AcquireLock(t) \/ ReadTip(t) \/ InsertEvent(t)
    \/ FindModel(t) \/ CreateModel(t) \/ WriteOwnRows(t)
    \/ t \in Overrides /\ UpdateDecision(t)
    \/ Commit(t)

Next ==
    \/ \E p \in Persists : BeginPersist(p)
    \/ \E o \in Overrides : ReadDecision(o)
    \/ \E t \in Txs : Statement(t) \/ Abort(t)

Spec == Init /\ [][Next]_vars

\* An open transaction issues its next statement as soon as the last returns,
\* and a lock that is free is granted to one that waits.  Nothing obliges a
\* transaction to begin or to abort.
FairSpec == Spec /\ \A t \in Txs : WF_vars(Statement(t))

-----------------------------------------------------------------------------
(* Properties.                                                             *)

\* The rows of S, in id order, are linked from the genesis on.
Linked(S) ==
    /\ \A d, e \in S : d.id = e.id => d = e
    /\ \A e \in S :
          /\ e.hash = Digest(e.prev, e.entry)
          /\ \/ e.prev = Genesis /\ \A d \in S : d.id >= e.id
             \/ \E d \in S : /\ e.prev = d.hash
                             /\ d.id < e.id
                             /\ \A f \in S : f.id <= d.id \/ f.id >= e.id

(* verifyChain finds the committed table valid at any moment, whatever     *)
(* transactions were interleaved or rolled back: the chain never forks, no *)
(* event is linked to one that a rollback took away, and the gaps that     *)
(* rollbacks leave between the ids do no harm.                             *)
ChainIntact == Linked(rows)

(* A model version is created by one transaction at a time, and never when *)
(* the name is already there, so that the unique name never fails a        *)
(* decision.  ensureModelVersion has no guard of its own: it is the lock   *)
(* taken for the chain, by the appends before it, that protects it.        *)
ModelsCreatedOnce ==
    \A t \in Persists : at[t] = "create" =>
        /\ Model(t) \notin models
        /\ \A u \in Txs \ {t} : Model(t) \notin newModels[u] /\ at[u] # "create"

Outcomes(p) == {e \in rows : e.entry.stage \in {"RULES", "OVERRIDE"} /\ Subject(e.entry.tx) = p}

\* The outcome that a decision shows is the one that the last RULES or OVERRIDE
\* event of its application recorded, and there is no decision without its events
\* nor events without it.
LastEventDecides ==
    \A p \in Persists :
        IF decision[p] = "none" THEN Outcomes(p) = {}
        ELSE \E e \in Outcomes(p) : /\ \A d \in Outcomes(p) : d.id <= e.id
                                    /\ decision[p] = Result(e.entry.tx)

\* The previousOutcome of an OVERRIDE event is the one its call read.  It is
\* still that of the event before it, but for a call that read REFER before
\* another override of the decision committed: nothing makes that one fail.
PreviousIsBefore ==
    \A d, e \in rows :
        (/\ d.entry.stage = "OVERRIDE" /\ e.entry.stage = "OVERRIDE"
         /\ Subject(d.entry.tx) = Subject(e.entry.tx)
         /\ d.entry.tx # e.entry.tx
         /\ d.id < e.id)
        => e.entry.tx \in overtaken

(* The trail explains the table: the last event of an application says     *)
(* what its decision shows, with overrides racing, and an OVERRIDE event   *)
(* on top of another one comes only from a call that overlapped it.  That  *)
(* such a call commits, and records a previousOutcome that is no longer    *)
(* true, is what the code does; it is reached in this instance.            *)
TrailExplainsOutcome == LastEventDecides /\ PreviousIsBefore

(* Locks taken in two orders, the row then the chain and the chain then    *)
(* the rows, leave no two transactions waiting for each other: every       *)
(* transaction that begins comes to an end.                                *)
TransactionsEnd == \A t \in Txs : Active(t) ~> ~Active(t)

-----------------------------------------------------------------------------
(* Refinement: the rows in id order are the ledger of AuditLedger, to      *)
(* which every commit adds the whole batch of its transaction.             *)

Below(e, S) == {d \in S : d.id < e.id}
InOrder(S) ==
    [i \in 1..Cardinality(S) |-> (CHOOSE e \in S : Cardinality(Below(e, S)) = i - 1).entry]

RowsInOrder == InOrder(rows)

Batch(t) ==
    IF t \in Persists
    THEN <<Entry(t, "BUREAU"), Entry(t, "SCORE"), Entry(t, "RULES"),
           Entry(t, "LIMIT"), Entry(t, "PRICE"), Entry(t, "PERSIST")>>
    ELSE <<Entry(t, "OVERRIDE")>>

Ledger == INSTANCE AuditLedger WITH
              ledger <- RowsInOrder,
              Batches <- {Batch(t) : t \in Txs}

(* The table is the promised ledger: it only grows, and only by the six    *)
(* events of a submission, or the one of an override, all together.        *)
ImplementsLedger == Ledger!Spec
=============================================================================
