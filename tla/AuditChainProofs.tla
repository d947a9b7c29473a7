-------------------------- MODULE AuditChainProofs --------------------------
(***************************************************************************)
(* The chain of committed events is linked from the genesis on, for every  *)
(* number of submissions and overrides and every interleaving and abort.   *)
(*                                                                         *)
(* Linked(rows) is not inductive.  What is: only the holder of the lock    *)
(* has uncommitted events; they come after every committed one and are     *)
(* linked to them; and the tip it has read is still the tip.  The last     *)
(* part shows that the table implements AuditLedger.                       *)
(***************************************************************************)
EXTENDS AuditChain, FunctionTheorems, FiniteSetTheorems, TLAPS

(* Between the lock and the insert the transaction is at an event, and     *)
(* between the query and the insert of a model version at one of the two.  *)
PlaceInv ==
    \A t \in Txs :
        /\ at[t] \in {"tip", "insert"} => op[t] \in Events
        /\ at[t] = "create" => op[t] \in {"champion", "challenger"}

(* Only the lock's holder is inside appendEvent or has uncommitted events. *)
LockInv == \A t \in Txs : at[t] \in {"tip", "insert"} \/ pending[t] # {} => lock = t

(* Ids are given out in the order of the chain. *)
IdInv ==
    /\ \A e \in rows : e.id < nextId
    /\ \A t \in Txs : \A e \in pending[t] : e.id < nextId /\ \A d \in rows : d.id < e.id

IsTip(hash, S) ==
    \/ S = {} /\ hash = Genesis
    \/ \E e \in S : hash = e.hash /\ \A d \in S : d.id <= e.id

(* What was read as the tip is still the tip when the event is inserted. *)
TipInv == \A t \in Txs : at[t] = "insert" => IsTip(tip[t], Visible(t))

(* Committed events are linked, and so they are with those of one transaction. *)
LinkInv == Linked(rows) /\ \A t \in Txs : Linked(Visible(t))

ChainInv == TypeOK /\ PlaceInv /\ LockInv /\ IdInv /\ TipInv /\ LinkInv

-----------------------------------------------------------------------------
(* Appending to the tip keeps a set of events linked. *)
LEMMA LinkedAppend ==
    ASSUME NEW S, \A e \in S : e.id \in Nat,
           NEW n \in Nat, \A e \in S : e.id < n,
           NEW hash, IsTip(hash, S), Linked(S),
           NEW row, row.id = n, row.prev = hash,
           row.hash = Digest(row.prev, row.entry)
    PROVE  Linked(S \union {row})
<1>1. ASSUME NEW d \in S \union {row}, NEW e \in S \union {row}, d.id = e.id
      PROVE  d = e
  BY <1>1 DEF Linked
<1>2. ASSUME NEW e \in S
      PROVE  /\ e.hash = Digest(e.prev, e.entry)
             /\ \/ e.prev = Genesis /\ \A d \in S \union {row} : d.id >= e.id
                \/ \E d \in S \union {row} :
                      /\ e.prev = d.hash
                      /\ d.id < e.id
                      /\ \A f \in S \union {row} : f.id <= d.id \/ f.id >= e.id
  BY <1>2 DEF Linked
<1>3. \/ row.prev = Genesis /\ \A d \in S \union {row} : d.id >= row.id
      \/ \E d \in S \union {row} :
            /\ row.prev = d.hash
            /\ d.id < row.id
            /\ \A f \in S \union {row} : f.id <= d.id \/ f.id >= row.id
  <2>1. CASE S = {} /\ hash = Genesis
    BY <2>1
  <2>2. CASE \E e \in S : hash = e.hash /\ \A d \in S : d.id <= e.id
    BY <2>2
  <2> QED BY <2>1, <2>2 DEF IsTip
<1> QED BY <1>1, <1>2, <1>3 DEF Linked

(* The successor of every statement but the commit is a statement. *)
LEMMA ThenOps == \A o \in Ops \ {"commit"} : Then[o] \in Ops
BY DEF Ops, Then

LEMMA EventsOps == Events \subseteq Ops \ {"commit"}
BY DEF Events, Ops, Then

(* A new row is a row of the table. *)
LEMMA NewRowType ==
    ASSUME TypeOK, PlaceInv, NEW t \in Txs, at[t] = "insert"
    PROVE  NewRow(t) \in EventRows
<1>1. Entry(t, op[t]) \in Entries
  BY DEF PlaceInv, Entry, Entries
<1>2. tip[t] \in Hashes /\ nextId \in Nat
  BY DEF TypeOK
<1>3. Digest(tip[t], Entry(t, op[t])) \in Hashes
  BY <1>1, <1>2 DEF Digest, Hashes
<1> QED BY <1>1, <1>2, <1>3 DEF NewRow, EventRows

LEMMA InitInv == Init => ChainInv
<1>1. Genesis \in Hashes
  BY DEF Genesis, Hashes
<1>2. ASSUME Init PROVE TypeOK
  BY <1>1, <1>2 DEF Init, TypeOK, Ops, Then
<1> QED BY <1>2 DEF Init, ChainInv, PlaceInv, LockInv, IdInv, TipInv, LinkInv, Linked, Visible
(* Every statement keeps the types of the tables and of the transactions. *)
LEMMA TypeStep == TypeOK /\ PlaceInv /\ [Next]_vars => TypeOK'
<1> SUFFICES ASSUME TypeOK, PlaceInv, [Next]_vars PROVE TypeOK'
  OBVIOUS
<1> USE KindAssumption, TargetAssumption, EngineAssumption, OutcomeAssumption,
        ThenOps, EventsOps
    DEF TypeOK, Active, tables, private, Txs
<1>1. ASSUME NEW p \in Persists, BeginPersist(p) PROVE TypeOK'
  BY <1>1 DEF BeginPersist, Moves
<1>2. ASSUME NEW o \in Overrides, ReadDecision(o) PROVE TypeOK'
  BY <1>2 DEF ReadDecision, Moves
<1>3. ASSUME NEW t \in Txs, AcquireLock(t) PROVE TypeOK'
  BY <1>3 DEF AcquireLock, Moves
<1>4. ASSUME NEW t \in Txs, ReadTip(t) PROVE TypeOK'
  <2>1. \A e \in Visible(t) : e.hash \in Hashes
    BY DEF Visible, EventRows
  <2>2. Genesis \in Hashes
    BY DEF Genesis, Hashes
  <2> QED BY <1>4, <2>1, <2>2 DEF ReadTip, Moves
<1>5. ASSUME NEW t \in Txs, InsertEvent(t) PROVE TypeOK'
  <2>1. at[t] = "insert"
    BY <1>5 DEF InsertEvent
  <2>2. NewRow(t) \in EventRows
    BY <2>1, NewRowType
  <2>3. op[t] \in Ops \ {"commit"}
    BY <2>1 DEF PlaceInv
  <2> QED BY <1>5, <2>2, <2>3 DEF InsertEvent, Completes, Moves
<1>6. ASSUME NEW t \in Txs, FindModel(t) PROVE TypeOK'
  <2>1. op[t] \in Ops \ {"commit"}
    BY <1>6 DEF FindModel
  <2> QED BY <1>6, <2>1 DEF FindModel, Completes, Moves
<1>7. ASSUME NEW t \in Txs, CreateModel(t) PROVE TypeOK'
  <2>1. op[t] \in Ops \ {"commit"}
    BY <1>7 DEF CreateModel, PlaceInv
  <2> QED BY <1>7, <2>1 DEF CreateModel, Completes, Moves
<1>8. ASSUME NEW t \in Txs, WriteOwnRows(t) PROVE TypeOK'
  <2>1. op[t] \in Ops \ {"commit"}
    BY <1>8 DEF WriteOwnRows
  <2> QED BY <1>8, <2>1 DEF WriteOwnRows, Completes, Moves
<1>9. ASSUME NEW o \in Overrides, UpdateDecision(o) PROVE TypeOK'
  <2>1. op[o] \in Ops \ {"commit"}
    BY <1>9 DEF UpdateDecision
  <2> QED BY <1>9, <2>1 DEF UpdateDecision, Completes, Moves
<1>10. ASSUME NEW t \in Txs, Commit(t) PROVE TypeOK'
  <2>1. Subject(t) \in Persists /\ Result(t) \in {"APPROVE", "REFER", "DECLINE"}
    BY DEF Subject, Result
  <2>2. overtaken' \subseteq Overrides
    BY <1>10 DEF Commit, Overtakes
  <2> QED BY <1>10, <2>1, <2>2 DEF Commit, ReleaseLocks, Moves
<1>11. ASSUME NEW t \in Txs, Abort(t) PROVE TypeOK'
  BY <1>11 DEF Abort, Moves, ReleaseLocks
<1>12. CASE UNCHANGED vars
  BY <1>12 DEF vars
<1> QED
  BY <1>1, <1>2, <1>3, <1>4, <1>5, <1>6, <1>7, <1>8, <1>9, <1>10, <1>11, <1>12
     DEF Next, Statement

(* A transaction leaves its event only by completing it. *)
LEMMA PlaceStep == TypeOK /\ PlaceInv /\ [Next]_vars => PlaceInv'
<1> SUFFICES ASSUME TypeOK, PlaceInv, [Next]_vars PROVE PlaceInv'
  OBVIOUS
<1> USE DEF TypeOK, PlaceInv, tables, private, Txs
<1>1. ASSUME NEW p \in Persists, BeginPersist(p) PROVE PlaceInv'
  BY <1>1 DEF BeginPersist, Moves
<1>2. ASSUME NEW o \in Overrides, ReadDecision(o) PROVE PlaceInv'
  BY <1>2 DEF ReadDecision, Moves
<1>3. ASSUME NEW t \in Txs, AcquireLock(t) PROVE PlaceInv'
  BY <1>3 DEF AcquireLock, Moves
<1>4. ASSUME NEW t \in Txs, ReadTip(t) PROVE PlaceInv'
  BY <1>4 DEF ReadTip, Moves, Visible
<1>5. ASSUME NEW t \in Txs, InsertEvent(t) PROVE PlaceInv'
  BY <1>5 DEF InsertEvent, Completes, Moves
<1>6. ASSUME NEW t \in Txs, FindModel(t) PROVE PlaceInv'
  BY <1>6 DEF FindModel, Completes, Moves
<1>7. ASSUME NEW t \in Txs, CreateModel(t) PROVE PlaceInv'
  BY <1>7 DEF CreateModel, Completes, Moves
<1>8. ASSUME NEW t \in Txs, WriteOwnRows(t) PROVE PlaceInv'
  BY <1>8 DEF WriteOwnRows, Completes, Moves
<1>9. ASSUME NEW o \in Overrides, UpdateDecision(o) PROVE PlaceInv'
  BY <1>9 DEF UpdateDecision, Completes, Moves
<1>10. ASSUME NEW t \in Txs, Commit(t) PROVE PlaceInv'
  BY <1>10 DEF Commit, Moves, ReleaseLocks
<1>11. ASSUME NEW t \in Txs, Abort(t) PROVE PlaceInv'
  BY <1>11 DEF Abort, Moves, ReleaseLocks
<1>12. CASE UNCHANGED vars
  BY <1>12 DEF vars
<1> QED
  BY <1>1, <1>2, <1>3, <1>4, <1>5, <1>6, <1>7, <1>8, <1>9, <1>10, <1>11, <1>12
     DEF Next, Statement

(* The lock admits one transaction, and goes only with what it protected. *)
LEMMA LockStep == TypeOK /\ LockInv /\ [Next]_vars => LockInv'
<1> SUFFICES ASSUME TypeOK, LockInv, [Next]_vars PROVE LockInv'
  OBVIOUS
<1> USE KindAssumption DEF TypeOK, LockInv, tables, private, Txs
<1>1. ASSUME NEW p \in Persists, BeginPersist(p) PROVE LockInv'
  BY <1>1 DEF BeginPersist, Moves
<1>2. ASSUME NEW o \in Overrides, ReadDecision(o) PROVE LockInv'
  BY <1>2 DEF ReadDecision, Moves
<1>3. ASSUME NEW t \in Txs, AcquireLock(t) PROVE LockInv'
  BY <1>3 DEF AcquireLock, Moves
<1>4. ASSUME NEW t \in Txs, ReadTip(t) PROVE LockInv'
  BY <1>4 DEF ReadTip, Moves, Visible
<1>5. ASSUME NEW t \in Txs, InsertEvent(t) PROVE LockInv'
  BY <1>5 DEF InsertEvent, Completes, Moves
<1>6. ASSUME NEW t \in Txs, FindModel(t) PROVE LockInv'
  BY <1>6 DEF FindModel, Completes, Moves
<1>7. ASSUME NEW t \in Txs, CreateModel(t) PROVE LockInv'
  BY <1>7 DEF CreateModel, Completes, Moves
<1>8. ASSUME NEW t \in Txs, WriteOwnRows(t) PROVE LockInv'
  BY <1>8 DEF WriteOwnRows, Completes, Moves
<1>9. ASSUME NEW o \in Overrides, UpdateDecision(o) PROVE LockInv'
  BY <1>9 DEF UpdateDecision, Completes, Moves
<1>10. ASSUME NEW t \in Txs, Commit(t) PROVE LockInv'
  BY <1>10 DEF Commit, Moves, ReleaseLocks
<1>11. ASSUME NEW t \in Txs, Abort(t) PROVE LockInv'
  BY <1>11 DEF Abort, Moves, ReleaseLocks
<1>12. CASE UNCHANGED vars
  BY <1>12 DEF vars
<1> QED
  BY <1>1, <1>2, <1>3, <1>4, <1>5, <1>6, <1>7, <1>8, <1>9, <1>10, <1>11, <1>12
     DEF Next, Statement

(* Ids follow the chain, because they are given out under the lock. *)
LEMMA IdStep == TypeOK /\ LockInv /\ IdInv /\ [Next]_vars => IdInv'
<1> SUFFICES ASSUME TypeOK, LockInv, IdInv, [Next]_vars PROVE IdInv'
  OBVIOUS
<1>0. (\A e \in rows : e.id \in Nat) /\ \A t \in Txs : \A e \in pending[t] : e.id \in Nat
  BY DEF TypeOK, EventRows
<1> USE DEF TypeOK, LockInv, IdInv, tables, private, Txs
<1>1. ASSUME NEW p \in Persists, BeginPersist(p) PROVE IdInv'
  BY <1>1 DEF BeginPersist, Moves
<1>2. ASSUME NEW o \in Overrides, ReadDecision(o) PROVE IdInv'
  BY <1>2 DEF ReadDecision, Moves
<1>3. ASSUME NEW t \in Txs, AcquireLock(t) PROVE IdInv'
  BY <1>3 DEF AcquireLock, Moves
<1>4. ASSUME NEW t \in Txs, ReadTip(t) PROVE IdInv'
  BY <1>4 DEF ReadTip, Moves, Visible
<1>5. ASSUME NEW t \in Txs, InsertEvent(t) PROVE IdInv'
  <2>1. NewRow(t).id = nextId /\ nextId' = nextId + 1
    BY <1>5 DEF InsertEvent, NewRow
  <2>2. pending'[t] = pending[t] \union {NewRow(t)} /\ rows' = rows
    BY <1>5 DEF InsertEvent
  <2>3. \A u \in Txs \ {t} : pending'[u] = pending[u]
    BY <1>5 DEF InsertEvent
  <2> QED BY <1>0, <2>1, <2>2, <2>3
<1>6. ASSUME NEW t \in Txs, FindModel(t) PROVE IdInv'
  BY <1>6 DEF FindModel, Completes, Moves
<1>7. ASSUME NEW t \in Txs, CreateModel(t) PROVE IdInv'
  BY <1>7 DEF CreateModel, Completes, Moves
<1>8. ASSUME NEW t \in Txs, WriteOwnRows(t) PROVE IdInv'
  BY <1>8 DEF WriteOwnRows, Completes, Moves
<1>9. ASSUME NEW o \in Overrides, UpdateDecision(o) PROVE IdInv'
  BY <1>9 DEF UpdateDecision, Completes, Moves
<1>10. ASSUME NEW t \in Txs, Commit(t) PROVE IdInv'
  <2>1. rows' = rows \union pending[t] /\ nextId' = nextId /\ pending'[t] = {}
    BY <1>10 DEF Commit
  <2>2. \A u \in Txs \ {t} : pending'[u] = pending[u]
    BY <1>10 DEF Commit
  <2>3. \A u \in Txs \ {t} : pending[t] # {} => pending[u] = {}
    OBVIOUS
  <2> QED BY <2>1, <2>2, <2>3
<1>11. ASSUME NEW t \in Txs, Abort(t) PROVE IdInv'
  BY <1>11 DEF Abort, Moves, ReleaseLocks
<1>12. CASE UNCHANGED vars
  BY <1>12 DEF vars
<1> QED
  BY <1>1, <1>2, <1>3, <1>4, <1>5, <1>6, <1>7, <1>8, <1>9, <1>10, <1>11, <1>12
     DEF Next, Statement

(* Nothing is inserted between the read of the tip and the insert. *)
LEMMA TipStep == TypeOK /\ LockInv /\ TipInv /\ [Next]_vars => TipInv'
<1> SUFFICES ASSUME TypeOK, LockInv, TipInv, [Next]_vars PROVE TipInv'
  OBVIOUS
<1> USE DEF TypeOK, LockInv, TipInv, IsTip, tables, private, Txs
<1>1. ASSUME NEW p \in Persists, BeginPersist(p) PROVE TipInv'
  <2>1. \A u \in Txs : Visible(u)' = Visible(u)
    BY <1>1 DEF BeginPersist, Visible
  <2> QED BY <1>1, <2>1 DEF BeginPersist, Moves
<1>2. ASSUME NEW o \in Overrides, ReadDecision(o) PROVE TipInv'
  <2>1. \A u \in Txs : Visible(u)' = Visible(u)
    BY <1>2 DEF ReadDecision, Visible
  <2> QED BY <1>2, <2>1 DEF ReadDecision, Moves
<1>3. ASSUME NEW t \in Txs, AcquireLock(t) PROVE TipInv'
  <2>1. \A u \in Txs : Visible(u)' = Visible(u)
    BY <1>3 DEF AcquireLock, Visible
  <2> QED BY <1>3, <2>1 DEF AcquireLock, Moves
<1>4. ASSUME NEW t \in Txs, ReadTip(t) PROVE TipInv'
  <2>1. \A u \in Txs : Visible(u)' = Visible(u)
    BY <1>4 DEF ReadTip, Visible
  <2> QED BY <1>4, <2>1 DEF ReadTip, Moves
<1>5. ASSUME NEW t \in Txs, InsertEvent(t) PROVE TipInv'
  <2>1. \A u \in Txs : at'[u] = "insert" => u # t /\ at[u] = "insert"
    BY <1>5 DEF InsertEvent, Completes, Moves
  <2>2. lock = t
    BY <1>5 DEF InsertEvent
  <2> QED BY <2>1, <2>2
<1>6. ASSUME NEW t \in Txs, FindModel(t) PROVE TipInv'
  <2>1. \A u \in Txs : Visible(u)' = Visible(u)
    BY <1>6 DEF FindModel, Visible
  <2> QED BY <1>6, <2>1 DEF FindModel, Completes, Moves
<1>7. ASSUME NEW t \in Txs, CreateModel(t) PROVE TipInv'
  <2>1. \A u \in Txs : Visible(u)' = Visible(u)
    BY <1>7 DEF CreateModel, Visible
  <2> QED BY <1>7, <2>1 DEF CreateModel, Completes, Moves
<1>8. ASSUME NEW t \in Txs, WriteOwnRows(t) PROVE TipInv'
  <2>1. \A u \in Txs : Visible(u)' = Visible(u)
    BY <1>8 DEF WriteOwnRows, Visible
  <2> QED BY <1>8, <2>1 DEF WriteOwnRows, Completes, Moves
<1>9. ASSUME NEW o \in Overrides, UpdateDecision(o) PROVE TipInv'
  <2>1. \A u \in Txs : Visible(u)' = Visible(u)
    BY <1>9 DEF UpdateDecision, Visible
  <2> QED BY <1>9, <2>1 DEF UpdateDecision, Completes, Moves
<1>10. ASSUME NEW t \in Txs, Commit(t) PROVE TipInv'
  <2>1. ASSUME NEW u \in Txs, at'[u] = "insert" PROVE IsTip(tip[u], Visible(u))'
    <3>1. u # t /\ at[u] = "insert"
      BY <1>10, <2>1 DEF Commit, Moves
    <3>2. pending[t] = {}
      BY <3>1
    <3>3. Visible(u)' = Visible(u) /\ tip' = tip
      BY <1>10, <3>1, <3>2 DEF Commit, Visible
    <3> QED BY <3>1, <3>3
  <2> QED BY <2>1
<1>11. ASSUME NEW t \in Txs, Abort(t) PROVE TipInv'
  <2>1. ASSUME NEW u \in Txs, at'[u] = "insert" PROVE IsTip(tip[u], Visible(u))'
    <3>1. u # t /\ at[u] = "insert"
      BY <1>11, <2>1 DEF Abort, Moves
    <3>2. Visible(u)' = Visible(u) /\ tip' = tip
      BY <1>11, <3>1 DEF Abort, Visible
    <3> QED BY <3>1, <3>2
  <2> QED BY <2>1
<1>12. CASE UNCHANGED vars
  <2>1. \A u \in Txs : Visible(u)' = Visible(u)
    BY <1>12 DEF vars, Visible
  <2> QED BY <1>12, <2>1 DEF vars
<1> QED
  BY <1>1, <1>2, <1>3, <1>4, <1>5, <1>6, <1>7, <1>8, <1>9, <1>10, <1>11, <1>12
     DEF Next, Statement

(* Inserting at the tip, committing and rolling back all keep the links. *)
LEMMA LinkStep ==
    TypeOK /\ LockInv /\ IdInv /\ TipInv /\ LinkInv /\ [Next]_vars => LinkInv'
<1> SUFFICES ASSUME TypeOK, LockInv, IdInv, TipInv, LinkInv, [Next]_vars PROVE LinkInv'
  OBVIOUS
<1> USE DEF TypeOK, LinkInv, tables, private, Txs
<1>1. ASSUME NEW p \in Persists, BeginPersist(p) PROVE LinkInv'
  <2>1. rows' = rows /\ \A u \in Txs : Visible(u)' = Visible(u)
    BY <1>1 DEF BeginPersist, Visible
  <2> QED BY <2>1
<1>2. ASSUME NEW o \in Overrides, ReadDecision(o) PROVE LinkInv'
  <2>1. rows' = rows /\ \A u \in Txs : Visible(u)' = Visible(u)
    BY <1>2 DEF ReadDecision, Visible
  <2> QED BY <2>1
<1>3. ASSUME NEW t \in Txs, AcquireLock(t) PROVE LinkInv'
  <2>1. rows' = rows /\ \A u \in Txs : Visible(u)' = Visible(u)
    BY <1>3 DEF AcquireLock, Visible
  <2> QED BY <2>1
<1>4. ASSUME NEW t \in Txs, ReadTip(t) PROVE LinkInv'
  <2>1. rows' = rows /\ \A u \in Txs : Visible(u)' = Visible(u)
    BY <1>4 DEF ReadTip, Visible
  <2> QED BY <2>1
<1>5. ASSUME NEW t \in Txs, InsertEvent(t) PROVE LinkInv'
  <2>1. rows' = rows
    BY <1>5 DEF InsertEvent
  <2>2. Visible(t)' = Visible(t) \union {NewRow(t)}
    BY <1>5 DEF InsertEvent, Visible
  <2>3. \A u \in Txs \ {t} : Visible(u)' = Visible(u)
    BY <1>5 DEF InsertEvent, Visible
  <2>4. Linked(Visible(t) \union {NewRow(t)})
    <3>1. IsTip(tip[t], Visible(t)) /\ Linked(Visible(t))
      BY <1>5 DEF InsertEvent, TipInv
    <3>2. \A e \in Visible(t) : e.id \in Nat /\ e.id < nextId
      BY DEF Visible, IdInv, EventRows
    <3>3. /\ NewRow(t).id = nextId
          /\ NewRow(t).prev = tip[t]
          /\ NewRow(t).hash = Digest(NewRow(t).prev, NewRow(t).entry)
      BY DEF NewRow
    <3>4. nextId \in Nat
      OBVIOUS
    <3> HIDE DEF TypeOK
    <3> QED BY <3>1, <3>2, <3>3, <3>4, LinkedAppend
  <2> QED BY <2>1, <2>2, <2>3, <2>4
<1>6. ASSUME NEW t \in Txs, FindModel(t) PROVE LinkInv'
  <2>1. rows' = rows /\ \A u \in Txs : Visible(u)' = Visible(u)
    BY <1>6 DEF FindModel, Visible
  <2> QED BY <2>1
<1>7. ASSUME NEW t \in Txs, CreateModel(t) PROVE LinkInv'
  <2>1. rows' = rows /\ \A u \in Txs : Visible(u)' = Visible(u)
    BY <1>7 DEF CreateModel, Visible
  <2> QED BY <2>1
<1>8. ASSUME NEW t \in Txs, WriteOwnRows(t) PROVE LinkInv'
  <2>1. rows' = rows /\ \A u \in Txs : Visible(u)' = Visible(u)
    BY <1>8 DEF WriteOwnRows, Visible
  <2> QED BY <2>1
<1>9. ASSUME NEW o \in Overrides, UpdateDecision(o) PROVE LinkInv'
  <2>1. rows' = rows /\ \A u \in Txs : Visible(u)' = Visible(u)
    BY <1>9 DEF UpdateDecision, Visible
  <2> QED BY <2>1
<1>10. ASSUME NEW t \in Txs, Commit(t) PROVE LinkInv'
  <2>1. rows' = Visible(t)
    BY <1>10 DEF Commit, Visible
  <2>2. ASSUME NEW u \in Txs PROVE Visible(u)' \in {Visible(u), Visible(t)}
    <3>1. CASE pending[t] = {}
      BY <1>10, <3>1 DEF Commit, Visible
    <3>2. CASE pending[t] # {}
      <4>1. u # t => pending[u] = {}
        BY <3>2 DEF LockInv
      <4>2. pending'[u] = {}
        BY <1>10, <4>1 DEF Commit
      <4> QED BY <2>1, <4>2 DEF Visible
    <3> QED BY <3>1, <3>2
  <2> QED BY <2>1, <2>2
<1>11. ASSUME NEW t \in Txs, Abort(t) PROVE LinkInv'
  <2>1. rows' = rows /\ Visible(t)' = rows
    BY <1>11 DEF Abort, Visible
  <2>2. \A u \in Txs \ {t} : Visible(u)' = Visible(u)
    BY <1>11 DEF Abort, Visible
  <2> QED BY <2>1, <2>2
<1>12. CASE UNCHANGED vars
  <2>1. rows' = rows /\ \A u \in Txs : Visible(u)' = Visible(u)
    BY <1>12 DEF vars, Visible
  <2> QED BY <2>1
<1> QED
  BY <1>1, <1>2, <1>3, <1>4, <1>5, <1>6, <1>7, <1>8, <1>9, <1>10, <1>11, <1>12
     DEF Next, Statement

LEMMA ChainInductive == Spec => []ChainInv
<1>1. ChainInv /\ [Next]_vars => ChainInv'
  BY TypeStep, PlaceStep, LockStep, IdStep, TipStep, LinkStep DEF ChainInv
<1> QED BY InitInv, <1>1, PTL DEF Spec

(* The tables and the transactions keep their types. *)
THEOREM TypeCorrect == Spec => []TypeOK
BY ChainInductive, PTL DEF ChainInv

(* verifyChain finds the committed events linked at every moment: for any  *)
(* number of transactions, any interleaving of their statements, any abort. *)
THEOREM ChainAlwaysIntact == Spec => []ChainIntact
<1>1. ChainInv => ChainIntact
  BY DEF ChainInv, LinkInv, ChainIntact
<1> QED BY ChainInductive, <1>1, PTL

-----------------------------------------------------------------------------
(* From its first event to its end a transaction keeps the chain's lock,   *)
(* and so it does around the find and the create of a model version.       *)
Unlocked == {"BUREAU", "update", "OVERRIDE"}

HoldInv ==
    \A t \in Txs :
        /\ at[t] = "idle" => op[t] \in {"BUREAU", "update"}
        /\ Active(t) /\ op[t] \notin Unlocked => lock = t

ModelInv ==
    /\ DOMAIN newModels = Txs
    /\ \A t \in Txs :
          /\ newModels[t] # {} => lock = t
          /\ at[t] = "create" => Model(t) \notin models \union newModels[t]

ModelsInv == ChainInv /\ HoldInv /\ ModelInv

LEMMA ModelsInit == Init => HoldInv /\ ModelInv
BY DEF Init, HoldInv, ModelInv, Active

LEMMA HoldStep == ChainInv /\ HoldInv /\ [Next]_vars => HoldInv'
<1> SUFFICES ASSUME ChainInv, HoldInv, [Next]_vars PROVE HoldInv'
  OBVIOUS
<1> USE KindAssumption DEF ChainInv, TypeOK, HoldInv, Active, tables, private, Txs, Unlocked
<1>1. ASSUME NEW p \in Persists, BeginPersist(p) PROVE HoldInv'
  BY <1>1 DEF BeginPersist, Moves
<1>2. ASSUME NEW o \in Overrides, ReadDecision(o) PROVE HoldInv'
  BY <1>2 DEF ReadDecision, Moves
<1>3. ASSUME NEW t \in Txs, AcquireLock(t) PROVE HoldInv'
  BY <1>3 DEF AcquireLock, Moves
<1>4. ASSUME NEW t \in Txs, ReadTip(t) PROVE HoldInv'
  BY <1>4 DEF ReadTip, Moves, Visible
<1>5. ASSUME NEW t \in Txs, InsertEvent(t) PROVE HoldInv'
  BY <1>5 DEF InsertEvent, Completes, Moves, LockInv
<1>6. ASSUME NEW t \in Txs, FindModel(t) PROVE HoldInv'
  BY <1>6 DEF FindModel, Completes, Moves
<1>7. ASSUME NEW t \in Txs, CreateModel(t) PROVE HoldInv'
  BY <1>7 DEF CreateModel, Completes, Moves, PlaceInv
<1>8. ASSUME NEW t \in Txs, WriteOwnRows(t) PROVE HoldInv'
  BY <1>8 DEF WriteOwnRows, Completes, Moves
<1>9. ASSUME NEW o \in Overrides, UpdateDecision(o) PROVE HoldInv'
  <2>1. op' = [op EXCEPT ![o] = "OVERRIDE"] /\ at' = [at EXCEPT ![o] = "running"] /\ lock' = lock
    BY <1>9 DEF UpdateDecision, Completes, Moves, Then
  <2> QED BY <1>9, <2>1
<1>10. ASSUME NEW t \in Txs, Commit(t) PROVE HoldInv'
  BY <1>10 DEF Commit, Moves, ReleaseLocks
<1>11. ASSUME NEW t \in Txs, Abort(t) PROVE HoldInv'
  BY <1>11 DEF Abort, Moves, ReleaseLocks
<1>12. CASE UNCHANGED vars
  BY <1>12 DEF vars
<1> QED
  BY <1>1, <1>2, <1>3, <1>4, <1>5, <1>6, <1>7, <1>8, <1>9, <1>10, <1>11, <1>12
     DEF Next, Statement

LEMMA ModelStep == ModelsInv /\ [Next]_vars => ModelInv'
<1> SUFFICES ASSUME ModelsInv, [Next]_vars PROVE ModelInv'
  OBVIOUS
<1>0. \A t \in Txs : at[t] = "create" => lock = t /\ op[t] \in {"champion", "challenger"}
  BY DEF ModelsInv, ChainInv, PlaceInv, HoldInv, Active, Unlocked
<1> USE KindAssumption DEF ModelsInv, ChainInv, TypeOK, ModelInv, Model, tables, private, Txs
<1>1. ASSUME NEW p \in Persists, BeginPersist(p) PROVE ModelInv'
  BY <1>1 DEF BeginPersist, Moves
<1>2. ASSUME NEW o \in Overrides, ReadDecision(o) PROVE ModelInv'
  BY <1>2 DEF ReadDecision, Moves
<1>3. ASSUME NEW t \in Txs, AcquireLock(t) PROVE ModelInv'
  BY <1>3 DEF AcquireLock, Moves
<1>4. ASSUME NEW t \in Txs, ReadTip(t) PROVE ModelInv'
  BY <1>4 DEF ReadTip, Moves, Visible
<1>5. ASSUME NEW t \in Txs, InsertEvent(t) PROVE ModelInv'
  BY <1>5 DEF InsertEvent, Completes, Moves
<1>6. ASSUME NEW t \in Txs, FindModel(t) PROVE ModelInv'
  BY <1>6 DEF FindModel, Completes, Moves
<1>7. ASSUME NEW t \in Txs, CreateModel(t) PROVE ModelInv'
  <2>1. lock = t /\ lock' = lock /\ models' = models
    BY <1>0, <1>7 DEF CreateModel
  <2>2. newModels' = [newModels EXCEPT ![t] = @ \union {Model(t)}] /\ at' = [at EXCEPT ![t] = "running"]
    BY <1>7 DEF CreateModel, Completes, Moves
  <2>3. \A u \in Txs \ {t} : at[u] # "create" /\ newModels'[u] = newModels[u] /\ at'[u] = at[u]
    BY <1>0, <2>1, <2>2
  <2> QED BY <2>1, <2>2, <2>3
<1>8. ASSUME NEW t \in Txs, WriteOwnRows(t) PROVE ModelInv'
  BY <1>8 DEF WriteOwnRows, Completes, Moves
<1>9. ASSUME NEW o \in Overrides, UpdateDecision(o) PROVE ModelInv'
  BY <1>9 DEF UpdateDecision, Completes, Moves
<1>10. ASSUME NEW t \in Txs, Commit(t) PROVE ModelInv'
  <2>1. /\ models' = models \union newModels[t]
        /\ newModels' = [newModels EXCEPT ![t] = {}]
        /\ at' = [at EXCEPT ![t] = "committed"]
        /\ lock' = IF lock = t THEN Free ELSE lock
        /\ op' = op
    BY <1>10 DEF Commit, Moves, ReleaseLocks
  <2>2. \A u \in Txs \ {t} : at[u] = "create" => newModels[t] = {}
    BY <1>0
  <2>3. \A u \in Txs \ {t} : newModels[u] # {} => lock' = u
    BY <2>1
  <2> QED BY <2>1, <2>2, <2>3
<1>11. ASSUME NEW t \in Txs, Abort(t) PROVE ModelInv'
  BY <1>11 DEF Abort, Moves, ReleaseLocks
<1>12. CASE UNCHANGED vars
  BY <1>12 DEF vars
<1> QED
  BY <1>1, <1>2, <1>3, <1>4, <1>5, <1>6, <1>7, <1>8, <1>9, <1>10, <1>11, <1>12
     DEF Next, Statement

LEMMA ModelsInductive == Spec => []ModelsInv
<1>1. HoldInv /\ ModelInv /\ [Next]_vars /\ ChainInv => HoldInv' /\ ModelInv'
  BY HoldStep, ModelStep DEF ModelsInv
<1> QED BY ChainInductive, ModelsInit, <1>1, PTL DEF Spec, ModelsInv

(* The unique name of a model version never fails a decision, for any       *)
(* number of submissions whose models are new.                              *)
THEOREM ModelVersionsUnique == Spec => []ModelsCreatedOnce
<1>1. ModelsInv => ModelsCreatedOnce
  <2> SUFFICES ASSUME ModelsInv, NEW t \in Persists, at[t] = "create"
               PROVE  /\ Model(t) \notin models
                      /\ \A u \in Txs \ {t} : Model(t) \notin newModels[u] /\ at[u] # "create"
    BY DEF ModelsCreatedOnce
  <2>1. \A u \in Txs : at[u] = "create" => lock = u
    BY DEF ModelsInv, ChainInv, PlaceInv, HoldInv, Active, Unlocked
  <2> QED BY <2>1 DEF ModelsInv, ModelInv, Txs
<1> QED BY <1>1, ModelsInductive, PTL

-----------------------------------------------------------------------------
(* Every transaction tells of its outcome once, by a RULES or an OVERRIDE  *)
(* event, before it can commit.                                            *)
PersistOps == {"BUREAU", "SCORE", "RULES", "LIMIT", "PRICE", "champion", "challenger", "decide",
               "PERSIST", "commit"}
OverrideOps == {"update", "OVERRIDE", "flip", "commit"}

Told(o) == o \notin {"BUREAU", "SCORE", "RULES", "update", "OVERRIDE"}
Tells(e) == e.entry.stage \in {"RULES", "OVERRIDE"}

OwnInv ==
    /\ \A p \in Persists : op[p] \in PersistOps
    /\ \A o \in Overrides : op[o] \in OverrideOps
    /\ \A t \in Txs : \A e \in pending[t] :
          e.entry.tx = t /\ (e.entry.stage = "OVERRIDE" => t \in Overrides)

ToldInv ==
    \A t \in Txs :
        /\ Active(t) /\ Told(op[t]) => \E e \in pending[t] : Tells(e)
        /\ ~Told(op[t]) => \A e \in pending[t] : ~Tells(e)
        /\ \A d, e \in pending[t] : Tells(d) /\ Tells(e) => d = e

(* Only an application that was decided is overridden. *)
ReferInv == \A o \in Overrides : Active(o) => decision[Target[o]] # "none"

TrailInv == ModelsInv /\ OwnInv /\ ToldInv /\ ReferInv /\ LastEventDecides

LEMMA ThenTold ==
    /\ \A s \in Ops \ {"commit", "RULES", "OVERRIDE"} : Told(Then[s]) <=> Told(s)
    /\ Told(Then["RULES"]) /\ Told(Then["OVERRIDE"])
BY DEF Ops, Then, Told

LEMMA ThenPersist == \A s \in PersistOps \ {"commit"} : Then[s] \in PersistOps
BY DEF PersistOps, Then

LEMMA ThenOverride == \A s \in OverrideOps \ {"commit"} : Then[s] \in OverrideOps
BY DEF OverrideOps, Then

LEMMA TrailInit == Init => OwnInv /\ ToldInv /\ ReferInv /\ LastEventDecides
<1> SUFFICES ASSUME Init PROVE OwnInv /\ ToldInv /\ ReferInv /\ LastEventDecides
  OBVIOUS
<1>1. OwnInv
  BY KindAssumption DEF Init, OwnInv, PersistOps, OverrideOps, Txs
<1>2. ToldInv /\ ReferInv
  BY DEF Init, ToldInv, ReferInv, Active, Txs
<1>3. LastEventDecides
  BY DEF Init, LastEventDecides, Outcomes
<1> QED BY <1>1, <1>2, <1>3

(* A statement other than an insert or a commit completes, or waits. *)
LEMMA OwnStep == ChainInv /\ OwnInv /\ [Next]_vars => OwnInv'
<1> SUFFICES ASSUME ChainInv, OwnInv, [Next]_vars PROVE OwnInv'
  OBVIOUS
<1> USE KindAssumption DEF ChainInv, TypeOK, OwnInv, tables, private, Txs
<1>0. ASSUME NEW t \in Txs, op[t] # "commit", op' = [op EXCEPT ![t] = Then[op[t]]]
      PROVE  (\A p \in Persists : op'[p] \in PersistOps) /\ \A o \in Overrides : op'[o] \in OverrideOps
  BY <1>0, ThenPersist, ThenOverride
<1>1. ASSUME NEW p \in Persists, BeginPersist(p) PROVE OwnInv'
  BY <1>1 DEF BeginPersist
<1>2. ASSUME NEW o \in Overrides, ReadDecision(o) PROVE OwnInv'
  BY <1>2 DEF ReadDecision
<1>3. ASSUME NEW t \in Txs, AcquireLock(t) PROVE OwnInv'
  BY <1>3 DEF AcquireLock
<1>4. ASSUME NEW t \in Txs, ReadTip(t) PROVE OwnInv'
  BY <1>4 DEF ReadTip, Visible
<1>5. ASSUME NEW t \in Txs, InsertEvent(t) PROVE OwnInv'
  <2>1. op[t] # "commit" /\ op' = [op EXCEPT ![t] = Then[op[t]]]
    BY <1>5, EventsOps DEF InsertEvent, Completes, PlaceInv
  <2>2. NewRow(t).entry.tx = t /\ NewRow(t).entry.stage = op[t]
    BY DEF NewRow, Entry
  <2>3. op[t] = "OVERRIDE" => t \in Overrides
    BY DEF PersistOps
  <2> QED BY <1>0, <1>5, <2>1, <2>2, <2>3 DEF InsertEvent
<1>6. ASSUME NEW t \in Txs, FindModel(t) PROVE OwnInv'
  BY <1>0, <1>6 DEF FindModel, Completes, Moves
<1>7. ASSUME NEW t \in Txs, CreateModel(t) PROVE OwnInv'
  BY <1>0, <1>7 DEF CreateModel, Completes, Moves, PlaceInv
<1>8. ASSUME NEW t \in Txs, WriteOwnRows(t) PROVE OwnInv'
  BY <1>0, <1>8 DEF WriteOwnRows, Completes, Moves
<1>9. ASSUME NEW o \in Overrides, UpdateDecision(o) PROVE OwnInv'
  BY <1>0, <1>9 DEF UpdateDecision, Completes, Moves
<1>10. ASSUME NEW t \in Txs, Commit(t) PROVE OwnInv'
  BY <1>10 DEF Commit
<1>11. ASSUME NEW t \in Txs, Abort(t) PROVE OwnInv'
  BY <1>11 DEF Abort
<1>12. CASE UNCHANGED vars
  BY <1>12 DEF vars
<1> QED
  BY <1>1, <1>2, <1>3, <1>4, <1>5, <1>6, <1>7, <1>8, <1>9, <1>10, <1>11, <1>12
     DEF Next, Statement

LEMMA ToldStep == ModelsInv /\ OwnInv /\ ToldInv /\ [Next]_vars => ToldInv'
<1> SUFFICES ASSUME ModelsInv, OwnInv, ToldInv, [Next]_vars PROVE ToldInv'
  OBVIOUS
<1>a. \A t \in Txs : at[t] = "idle" => ~Told(op[t])
  BY DEF ModelsInv, HoldInv, Told
<1> USE KindAssumption DEF ModelsInv, ChainInv, TypeOK, ToldInv, Active, tables, private, Txs
(* What completes without inserting tells as little as before. *)
<1>0. ASSUME NEW t \in Txs, Active(t), op[t] \notin {"commit", "RULES", "OVERRIDE"},
             op' = [op EXCEPT ![t] = Then[op[t]]], at' = [at EXCEPT ![t] = "running"],
             pending' = pending
      PROVE  ToldInv'
  <2>1. Told(op'[t]) <=> Told(op[t])
    BY <1>0, ThenTold
  <2> QED BY <1>0, <2>1
<1>1. ASSUME NEW p \in Persists, BeginPersist(p) PROVE ToldInv'
  <2>1. at[p] = "idle" /\ at' = [at EXCEPT ![p] = "running"] /\ op' = op /\ pending' = pending
    BY <1>1 DEF BeginPersist, Moves
  <2>2. ~Told(op[p])
    BY <1>a, <2>1
  <2> QED BY <2>1, <2>2
<1>2. ASSUME NEW o \in Overrides, ReadDecision(o) PROVE ToldInv'
  <2>1. at[o] = "idle" /\ \E place : at' = [at EXCEPT ![o] = place]
    BY <1>2 DEF ReadDecision, Moves
  <2>2. op' = op /\ pending' = pending /\ ~Told(op[o])
    BY <1>2, <1>a, <2>1 DEF ReadDecision
  <2> QED BY <2>1, <2>2
<1>3. ASSUME NEW t \in Txs, AcquireLock(t) PROVE ToldInv'
  BY <1>3 DEF AcquireLock, Moves
<1>4. ASSUME NEW t \in Txs, ReadTip(t) PROVE ToldInv'
  BY <1>4 DEF ReadTip, Moves, Visible
<1>5. ASSUME NEW t \in Txs, InsertEvent(t) PROVE ToldInv'
  <2> DEFINE row == NewRow(t)
  <2>1. /\ at[t] = "insert" /\ op[t] \in Events
        /\ pending' = [pending EXCEPT ![t] = @ \union {row}]
        /\ op' = [op EXCEPT ![t] = Then[op[t]]] /\ at' = [at EXCEPT ![t] = "running"]
    BY <1>5 DEF InsertEvent, Completes, Moves, PlaceInv
  <2>2. Tells(row) <=> op[t] \in {"RULES", "OVERRIDE"}
    BY DEF NewRow, Entry, Tells
  <2> HIDE DEF row
  <2>3. /\ \A u \in Txs \ {t} : pending'[u] = pending[u] /\ op'[u] = op[u] /\ at'[u] = at[u]
        /\ pending'[t] = pending[t] \union {row} /\ op'[t] = Then[op[t]]
    BY <2>1
  <2>4. CASE op[t] \in {"RULES", "OVERRIDE"}
    <3>1. Told(op'[t]) /\ ~Told(op[t]) /\ Tells(row)
      BY <2>2, <2>3, <2>4, ThenTold DEF Told
    <3> QED BY <2>3, <3>1
  <2>5. CASE op[t] \notin {"RULES", "OVERRIDE"}
    <3>1. ~Tells(row) /\ (Told(op'[t]) <=> Told(op[t]))
      BY <2>1, <2>2, <2>3, <2>5, ThenTold, EventsOps
    <3>2. Active(t)
      BY <2>1
    <3> QED BY <2>3, <3>1, <3>2
  <2> QED BY <2>4, <2>5
<1>6. ASSUME NEW t \in Txs, FindModel(t) PROVE ToldInv'
  <2>1. CASE Completes(t)
    BY <1>0, <1>6, <2>1 DEF FindModel, Completes, Moves
  <2>2. CASE Moves(t, "create") /\ op' = op
    BY <1>6, <2>2 DEF FindModel, Moves
  <2> QED BY <1>6, <2>1, <2>2 DEF FindModel
<1>7. ASSUME NEW t \in Txs, CreateModel(t) PROVE ToldInv'
  BY <1>0, <1>7 DEF CreateModel, Completes, Moves, PlaceInv
<1>8. ASSUME NEW t \in Txs, WriteOwnRows(t) PROVE ToldInv'
  BY <1>0, <1>8 DEF WriteOwnRows, Completes, Moves
<1>9. ASSUME NEW o \in Overrides, UpdateDecision(o) PROVE ToldInv'
  BY <1>0, <1>9 DEF UpdateDecision, Completes, Moves
<1>10. ASSUME NEW t \in Txs, Commit(t) PROVE ToldInv'
  BY <1>10 DEF Commit, Moves
<1>11. ASSUME NEW t \in Txs, Abort(t) PROVE ToldInv'
  BY <1>11 DEF Abort, Moves
<1>12. CASE UNCHANGED vars
  BY <1>12 DEF vars
<1> QED
  BY <1>1, <1>2, <1>3, <1>4, <1>5, <1>6, <1>7, <1>8, <1>9, <1>10, <1>11, <1>12
     DEF Next, Statement

(* What a transaction tells of its outcome is what it commits. *)
LEMMA CommitTells ==
    ASSUME TrailInv, NEW t \in Txs, Commit(t)
    PROVE  /\ \A p \in Persists \ {Subject(t)} :
                 Outcomes(p)' = Outcomes(p) /\ decision'[p] = decision[p]
           /\ decision'[Subject(t)] = Result(t) /\ Subject(t) \in Persists /\ Result(t) # "none"
           /\ \E e \in Outcomes(Subject(t))' :
                 /\ Result(e.entry.tx) = Result(t)
                 /\ \A d \in Outcomes(Subject(t))' : d.id <= e.id
<1> DEFINE s == Subject(t)
<1>1. TypeOK /\ IdInv /\ OwnInv /\ ToldInv
  BY DEF TrailInv, ModelsInv, ChainInv
<1>2. /\ rows' = rows \union pending[t]
      /\ decision' = [decision EXCEPT ![s] = Result(t)]
      /\ at[t] = "running" /\ op[t] = "commit"
  BY DEF Commit
<1>3. s \in Persists /\ Result(t) # "none"
  BY TargetAssumption, EngineAssumption, OutcomeAssumption DEF Subject, Result, Txs
<1>4. \A e \in pending[t] : e.entry.tx = t /\ Subject(e.entry.tx) = s
  BY <1>1 DEF OwnInv
<1> HIDE DEF s
<1>5. \A p \in Persists : decision'[p] = IF p = s THEN Result(t) ELSE decision[p]
  BY <1>1, <1>2 DEF TypeOK
<1>6. \A p \in Persists : Outcomes(p)' = {e \in rows \union pending[t] : Tells(e) /\ Subject(e.entry.tx) = p}
  BY <1>2 DEF Outcomes, Tells, Subject
<1>7. ASSUME NEW p \in Persists, p # s PROVE Outcomes(p)' = Outcomes(p)
  BY <1>4, <1>6, <1>7 DEF Outcomes, Tells
<1>8. PICK e \in pending[t] : Tells(e)
  BY <1>1, <1>2 DEF ToldInv, Active, Told
<1>9. e \in Outcomes(s)' /\ Result(e.entry.tx) = Result(t)
  BY <1>3, <1>4, <1>6, <1>8
<1>10. ASSUME NEW d \in Outcomes(s)' PROVE d.id <= e.id
  <2>1. d \in rows \union pending[t] /\ Tells(d)
    BY <1>3, <1>6
  <2>2. d.id \in Nat /\ e.id \in Nat
    BY <1>1, <2>1 DEF TypeOK, EventRows
  <2>3. CASE d \in rows
    BY <1>1, <1>8, <2>2, <2>3 DEF IdInv
  <2>4. CASE d \in pending[t]
    <3>1. d = e
      BY <1>1, <1>8, <2>1, <2>4 DEF ToldInv
    <3> QED BY <2>2, <3>1
  <2> QED BY <2>1, <2>3, <2>4
<1> QED BY <1>3, <1>5, <1>7, <1>9, <1>10 DEF s

(* A decision, once there, is there for good. *)
LEMMA ReferStep == TrailInv /\ [Next]_vars => ReferInv'
<1> SUFFICES ASSUME TrailInv, [Next]_vars PROVE ReferInv'
  OBVIOUS
<1>a. TypeOK /\ ReferInv
  BY DEF TrailInv, ModelsInv, ChainInv
<1> USE KindAssumption, TargetAssumption DEF TypeOK, ReferInv, Active, tables, private, Txs
<1>1. ASSUME NEW p \in Persists, BeginPersist(p) PROVE ReferInv'
  BY <1>a, <1>1 DEF BeginPersist, Moves
<1>2. ASSUME NEW o \in Overrides, ReadDecision(o) PROVE ReferInv'
  <2>1. decision' = decision /\ \A u \in Overrides \ {o} : at'[u] = at[u]
    BY <1>a, <1>2 DEF ReadDecision, Moves
  <2>2. at'[o] = "rejected" \/ decision[Target[o]] = "REFER"
    BY <1>a, <1>2 DEF ReadDecision, Moves
  <2> QED BY <1>a, <2>1, <2>2
<1>3. ASSUME NEW t \in Txs, AcquireLock(t) PROVE ReferInv'
  BY <1>a, <1>3 DEF AcquireLock, Moves
<1>4. ASSUME NEW t \in Txs, ReadTip(t) PROVE ReferInv'
  BY <1>a, <1>4 DEF ReadTip, Moves, Visible
<1>5. ASSUME NEW t \in Txs, InsertEvent(t) PROVE ReferInv'
  BY <1>a, <1>5 DEF InsertEvent, Completes, Moves
<1>6. ASSUME NEW t \in Txs, FindModel(t) PROVE ReferInv'
  BY <1>a, <1>6 DEF FindModel, Completes, Moves
<1>7. ASSUME NEW t \in Txs, CreateModel(t) PROVE ReferInv'
  BY <1>a, <1>7 DEF CreateModel, Completes, Moves
<1>8. ASSUME NEW t \in Txs, WriteOwnRows(t) PROVE ReferInv'
  BY <1>a, <1>8 DEF WriteOwnRows, Completes, Moves
<1>9. ASSUME NEW o \in Overrides, UpdateDecision(o) PROVE ReferInv'
  BY <1>a, <1>9 DEF UpdateDecision, Completes, Moves
<1>10. ASSUME NEW t \in Txs, Commit(t) PROVE ReferInv'
  <2>1. \A p \in Persists : decision'[p] = "none" => decision[p] = "none"
    BY <1>10, CommitTells
  <2>2. at' = [at EXCEPT ![t] = "committed"]
    BY <1>10 DEF Commit, Moves
  <2> QED BY <1>a, <2>1, <2>2
<1>11. ASSUME NEW t \in Txs, Abort(t) PROVE ReferInv'
  BY <1>a, <1>11 DEF Abort, Moves
<1>12. CASE UNCHANGED vars
  BY <1>a, <1>12 DEF vars
<1> QED
  BY <1>1, <1>2, <1>3, <1>4, <1>5, <1>6, <1>7, <1>8, <1>9, <1>10, <1>11, <1>12
     DEF Next, Statement

(* Only a commit touches the rows or the decisions. *)
LEMMA TablesStep ==
    ASSUME [Next]_vars PROVE (\E t \in Txs : Commit(t)) \/ UNCHANGED tables
<1> USE DEF tables, private, Txs
<1>1. ASSUME NEW p \in Persists, BeginPersist(p) PROVE UNCHANGED tables
  BY <1>1 DEF BeginPersist
<1>2. ASSUME NEW o \in Overrides, ReadDecision(o) PROVE UNCHANGED tables
  BY <1>2 DEF ReadDecision
<1>3. ASSUME NEW t \in Txs, Statement(t), ~Commit(t) PROVE UNCHANGED tables
  BY <1>3 DEF Statement, AcquireLock, ReadTip, InsertEvent, FindModel, CreateModel, WriteOwnRows,
              UpdateDecision
<1>4. ASSUME NEW t \in Txs, Abort(t) PROVE UNCHANGED tables
  BY <1>4 DEF Abort
<1>5. CASE UNCHANGED vars
  BY <1>5 DEF vars
<1> QED BY <1>1, <1>2, <1>3, <1>4, <1>5 DEF Next

LEMMA TrailStep == TrailInv /\ [Next]_vars => LastEventDecides'
<1> SUFFICES ASSUME TrailInv, [Next]_vars PROVE LastEventDecides'
  OBVIOUS
<1>1. LastEventDecides
  BY DEF TrailInv
<1>2. ASSUME NEW t \in Txs, Commit(t) PROVE LastEventDecides'
  <2> SUFFICES ASSUME NEW p \in Persists
               PROVE  IF decision'[p] = "none" THEN Outcomes(p)' = {}
                      ELSE \E e \in Outcomes(p)' : /\ \A d \in Outcomes(p)' : d.id <= e.id
                                                   /\ decision'[p] = Result(e.entry.tx)
    BY DEF LastEventDecides, Result
  <2>1. CASE p = Subject(t)
    BY <1>2, <2>1, CommitTells
  <2>2. CASE p # Subject(t)
    <3>1. Outcomes(p)' = Outcomes(p) /\ decision'[p] = decision[p]
      BY <1>2, <2>2, CommitTells
    <3> QED BY <1>1, <3>1 DEF LastEventDecides
  <2> QED BY <2>1, <2>2
<1>3. CASE rows' = rows /\ decision' = decision
  <2>1. \A p \in Persists : Outcomes(p)' = Outcomes(p)
    BY <1>3 DEF Outcomes, Subject
  <2> QED BY <1>1, <1>3, <2>1 DEF LastEventDecides, Result
<1> QED BY <1>2, <1>3, TablesStep DEF tables

LEMMA TrailInductive == Spec => []TrailInv
<1>1. TrailInv /\ [Next]_vars => OwnInv' /\ ToldInv' /\ ReferInv' /\ LastEventDecides'
  BY OwnStep, ToldStep, ReferStep, TrailStep DEF TrailInv, ModelsInv
<1> QED BY ModelsInductive, TrailInit, <1>1, PTL DEF Spec, TrailInv

-----------------------------------------------------------------------------
(* An override that begins after another one has committed finds a decision *)
(* that is no longer referred: the application was decided once, before.    *)
DecidedInv == \A p \in Persists : decision[p] # "none" => at[p] = "committed"

Overridden(e, p) == e.entry.stage = "OVERRIDE" /\ Subject(e.entry.tx) = p

OverriddenInv ==
    \A p \in Persists : \A e \in rows :
        Overridden(e, p) => decision[p] \in {"APPROVE", "DECLINE"}

OvertakenInv ==
    \A o \in Overrides : \A e \in rows :
        Active(o) /\ Overridden(e, Target[o]) => o \in overtaken

PreviousInv == DecidedInv /\ OverriddenInv /\ OvertakenInv /\ PreviousIsBefore

LEMMA PreviousInit == Init => PreviousInv
BY DEF Init, PreviousInv, DecidedInv, OverriddenInv, OvertakenInv, PreviousIsBefore

(* Nothing moves a transaction that has committed. *)
LEMMA CommittedStays ==
    ASSUME TypeOK, [Next]_vars, NEW t \in Txs, at[t] = "committed"
    PROVE  at'[t] = "committed"
<1>1. DOMAIN at = Txs
  BY DEF TypeOK
<1> USE DEF Moves, Completes
<1>2. ASSUME NEW p \in Persists, BeginPersist(p) PROVE at'[t] = "committed"
  BY <1>1, <1>2 DEF BeginPersist
<1>3. ASSUME NEW o \in Overrides, ReadDecision(o) PROVE at'[t] = "committed"
  BY <1>1, <1>3 DEF ReadDecision
<1>4. ASSUME NEW u \in Txs, Statement(u) PROVE at'[t] = "committed"
  <2>1. at[u] # "committed" /\ \E place : at' = [at EXCEPT ![u] = place]
    BY <1>4 DEF Statement, AcquireLock, ReadTip, InsertEvent, FindModel, CreateModel, WriteOwnRows,
                UpdateDecision, Commit
  <2> QED BY <1>1, <2>1
<1>5. ASSUME NEW u \in Txs, Abort(u) PROVE at'[t] = "committed"
  BY <1>1, <1>5 DEF Abort, Active
<1>6. CASE UNCHANGED vars
  BY <1>6 DEF vars
<1> QED BY <1>2, <1>3, <1>4, <1>5, <1>6 DEF Next

(* A transaction becomes active only by beginning. *)
LEMMA ActiveStep ==
    ASSUME TypeOK, [Next]_vars, NEW o \in Overrides, Active(o)', decision[Target[o]] # "REFER"
    PROVE  Active(o)
<1>1. DOMAIN at = Txs /\ o \notin Persists
  BY KindAssumption DEF TypeOK
<1> USE DEF Moves, Completes, Active
<1>2. ASSUME NEW p \in Persists, BeginPersist(p) PROVE Active(o)
  BY <1>1, <1>2 DEF BeginPersist
<1>3. ASSUME NEW u \in Overrides, ReadDecision(u) PROVE Active(o)
  BY <1>1, <1>3 DEF ReadDecision, Txs
<1>4. ASSUME NEW u \in Txs, Statement(u) PROVE Active(o)
  <2>1. Active(u) /\ \E place : at' = [at EXCEPT ![u] = place]
    BY <1>4 DEF Statement, AcquireLock, ReadTip, InsertEvent, FindModel, CreateModel, WriteOwnRows,
                UpdateDecision, Commit
  <2> QED BY <1>1, <2>1
<1>5. ASSUME NEW u \in Txs, Abort(u) PROVE Active(o)
  BY <1>1, <1>5 DEF Abort
<1>6. CASE UNCHANGED vars
  BY <1>6 DEF vars
<1> QED BY <1>2, <1>3, <1>4, <1>5, <1>6 DEF Next

(* A commit adds its own events, on top, and decides what it is about. *)
LEMMA PreviousCommit ==
    ASSUME TrailInv, PreviousInv, NEW t \in Txs, Commit(t)
    PROVE  PreviousInv'
<1>1. TypeOK /\ IdInv /\ OwnInv /\ ReferInv
  BY DEF TrailInv, ModelsInv, ChainInv
<1>2. /\ rows' = rows \union pending[t]
      /\ overtaken' = overtaken \union Overtakes(t)
      /\ at[t] = "running" /\ at' = [at EXCEPT ![t] = "committed"]
  BY DEF Commit, Moves
<1>3. /\ Subject(t) \in Persists
      /\ \A p \in Persists : decision'[p] = IF p = Subject(t) THEN Result(t) ELSE decision[p]
  BY <1>1, TargetAssumption DEF Commit, TypeOK, Subject, Txs
<1>4. at'[t] = "committed" /\ \A u \in Txs \ {t} : at'[u] = at[u]
  BY <1>1, <1>2 DEF TypeOK
<1>5. \A e \in pending[t] : e.entry.tx = t /\ (e.entry.stage = "OVERRIDE" => t \in Overrides)
  BY <1>1 DEF OwnInv
<1>6. \A e \in rows, p \in Persists : Overridden(e, p)' <=> Overridden(e, p)
  BY DEF Overridden, Subject
<1>7. t \in Overrides => /\ Subject(t) = Target[t] /\ Result(t) = NewOutcome[t]
                         /\ Active(t) /\ t \notin Persists
  BY <1>2, KindAssumption DEF Subject, Result, Active
<1>8. DecidedInv'
  <2>1. ASSUME NEW p \in Persists, p = Subject(t) PROVE at'[p] = "committed"
    <3>1. CASE t \in Persists
      BY <1>4, <2>1, <3>1 DEF Subject
    <3>2. CASE t \in Overrides
      <4>1. decision[Target[t]] # "none"
        BY <1>1, <1>7, <3>2 DEF ReferInv
      <4>2. at[p] = "committed" /\ p # t /\ p \in Txs
        BY <1>2, <1>7, <2>1, <3>2, <4>1 DEF PreviousInv, DecidedInv, Txs
      <4> QED BY <1>4, <4>2
    <3> QED BY <3>1, <3>2 DEF Txs
  <2>2. ASSUME NEW p \in Persists, p # Subject(t), decision[p] # "none"
        PROVE  at'[p] = "committed"
    <3>1. at[p] = "committed" /\ p \in Txs
      BY <2>2 DEF PreviousInv, DecidedInv, Txs
    <3> QED BY <1>4, <3>1
  <2> QED BY <1>3, <2>1, <2>2 DEF DecidedInv
<1>9. OverriddenInv'
  <2> SUFFICES ASSUME NEW p \in Persists, NEW e \in rows',
                      e.entry.stage = "OVERRIDE", Subject(e.entry.tx) = p
               PROVE  decision'[p] \in {"APPROVE", "DECLINE"}
    BY DEF OverriddenInv, Overridden, Subject
  <2>1. CASE t \in Overrides /\ p = Subject(t)
    BY <1>3, <1>7, <2>1, OutcomeAssumption
  <2>2. CASE ~(t \in Overrides /\ p = Subject(t))
    <3>1. e \in rows
      BY <1>2, <1>5, <2>2
    <3>2. decision[p] \in {"APPROVE", "DECLINE"}
      BY <3>1 DEF PreviousInv, OverriddenInv, Overridden
    <3>3. p # Subject(t)
      <4>1. ASSUME t \in Persists, p = t PROVE FALSE
        BY <1>2, <3>2, <4>1 DEF PreviousInv, DecidedInv
      <4> QED BY <2>2, <4>1 DEF Subject, Txs
    <3> QED BY <1>3, <3>2, <3>3
  <2> QED BY <2>1, <2>2
<1>10. OvertakenInv'
  <2> SUFFICES ASSUME NEW o \in Overrides, NEW e \in rows', Active(o)',
                      e.entry.stage = "OVERRIDE", Subject(e.entry.tx) = Target[o]
               PROVE  o \in overtaken'
    BY DEF OvertakenInv, Overridden, Subject
  <2>1. o # t /\ Active(o)
    BY <1>4 DEF Active, Txs
  <2>2. CASE e \in rows
    BY <1>2, <2>1, <2>2 DEF PreviousInv, OvertakenInv, Overridden
  <2>3. CASE e \in pending[t]
    <3>1. t \in Overrides /\ Target[o] = Target[t]
      BY <1>5, <1>7, <2>3
    <3> QED BY <1>2, <1>7, <2>1, <3>1 DEF Overtakes
  <2> QED BY <1>2, <2>2, <2>3
<1>11. PreviousIsBefore'
  <2> SUFFICES ASSUME NEW d \in rows', NEW e \in rows',
                      d.entry.stage = "OVERRIDE", e.entry.stage = "OVERRIDE",
                      Subject(d.entry.tx) = Subject(e.entry.tx),
                      d.entry.tx # e.entry.tx, d.id < e.id
               PROVE  e.entry.tx \in overtaken'
    BY DEF PreviousIsBefore, Subject
  <2>1. CASE e \in rows
    <3>1. d \in rows
      <4>1. d.id \in Nat /\ e.id \in Nat
        BY <1>1, <1>2, <2>1 DEF TypeOK, EventRows
      <4>2. d \in pending[t] => e.id < d.id
        BY <1>1, <2>1 DEF IdInv
      <4> QED BY <1>2, <4>1, <4>2
    <3> QED BY <1>2, <2>1, <3>1 DEF PreviousInv, PreviousIsBefore
  <2>2. CASE e \in pending[t]
    <3>1. e.entry.tx = t /\ t \in Overrides
      BY <1>5, <2>2
    <3>2. d \in rows
      BY <1>2, <1>5, <3>1
    <3>3. Overridden(d, Target[t]) /\ Active(t)
      BY <1>7, <3>1 DEF Overridden
    <3> QED BY <1>2, <3>1, <3>2, <3>3 DEF PreviousInv, OvertakenInv
  <2> QED BY <1>2, <2>1, <2>2
<1> QED BY <1>8, <1>9, <1>10, <1>11 DEF PreviousInv

(* What leaves the tables alone starts an override at most of a decision    *)
(* that is still referred, and moves nothing that has committed.            *)
LEMMA PreviousOther ==
    ASSUME TrailInv, PreviousInv, [Next]_vars,
           rows' = rows, decision' = decision, overtaken' = overtaken
    PROVE  PreviousInv'
<1>1. TypeOK
  BY DEF TrailInv, ModelsInv, ChainInv
<1>2. \A e \in rows, p \in Persists : Overridden(e, p)' <=> Overridden(e, p)
  BY DEF Overridden, Subject
<1>3. DecidedInv'
  <2> SUFFICES ASSUME NEW p \in Persists, decision[p] # "none" PROVE at'[p] = "committed"
    BY DEF DecidedInv
  <2>1. p \in Txs /\ at[p] = "committed"
    BY DEF PreviousInv, DecidedInv, Txs
  <2> QED BY <1>1, <2>1, CommittedStays
<1>4. OverriddenInv'
  BY <1>2 DEF PreviousInv, OverriddenInv
<1>5. OvertakenInv'
  <2> SUFFICES ASSUME NEW o \in Overrides, NEW e \in rows, Active(o)', Overridden(e, Target[o])
               PROVE  o \in overtaken
    BY <1>2, TargetAssumption DEF OvertakenInv
  <2>1. decision[Target[o]] # "REFER"
    BY TargetAssumption DEF PreviousInv, OverriddenInv
  <2>2. Active(o)
    BY <1>1, <2>1, ActiveStep DEF Txs
  <2> QED BY <2>2 DEF PreviousInv, OvertakenInv
<1>6. PreviousIsBefore'
  BY DEF PreviousInv, PreviousIsBefore, Subject
<1> QED BY <1>3, <1>4, <1>5, <1>6 DEF PreviousInv

LEMMA PreviousInductive == Spec => []PreviousInv
<1>1. TrailInv /\ PreviousInv /\ [Next]_vars => PreviousInv'
  BY PreviousCommit, PreviousOther, TablesStep DEF tables
<1> QED BY PreviousInit, TrailInductive, <1>1, PTL DEF Spec

(* Whatever overrides raced, rolled back or came one after the other, the   *)
(* outcome shown is the one told by the last event of the application, and  *)
(* an override that overlapped no other recorded the true previousOutcome. *)
THEOREM TrailAlwaysExplains == Spec => []TrailExplainsOutcome
BY TrailInductive, PreviousInductive, PTL
   DEF TrailInv, PreviousInv, TrailExplainsOutcome

-----------------------------------------------------------------------------
(* The refinement of AuditLedger.  f numbers the rows of S by their ids.    *)
Numbers(f, n, S) ==
    /\ f \in [1..n -> S]
    /\ \A e \in S : \E i \in 1..n : f[i] = e
    /\ \A i, j \in 1..n : i < j => f[i].id < f[j].id

(* A number is one more than how many rows have a smaller id. *)
LEMMA RankOfRow ==
    ASSUME NEW S, \A e \in S : e.id \in Nat, NEW n \in Nat, NEW f, Numbers(f, n, S),
           NEW i \in 1..n
    PROVE  Cardinality(Below(f[i], S)) = i - 1
<1> DEFINE g == [j \in 1..(i - 1) |-> f[j]]
<1>1. f[i] \in S /\ f[i].id \in Nat /\ \A j \in 1..n : f[j] \in S /\ f[j].id \in Nat
  BY DEF Numbers
<1>2. \A j \in 1..n : f[j].id < f[i].id <=> j < i
  BY <1>1 DEF Numbers
<1>3. g \in [1..(i - 1) -> Below(f[i], S)]
  BY <1>1, <1>2 DEF Below
<1>4. \A e \in Below(f[i], S) : \E j \in 1..(i - 1) : g[j] = e
  BY <1>1, <1>2 DEF Below, Numbers
<1>5. \A j, k \in 1..(i - 1) : g[j] = g[k] => j = k
  BY <1>1 DEF Numbers
<1>6. g \in Bijection(1..(i - 1), Below(f[i], S))
  BY <1>3, <1>4, <1>5, Fun_IsBij
<1>7. ExistsBijection(1..(i - 1), Below(f[i], S)) /\ i - 1 \in Nat
  BY <1>6 DEF ExistsBijection
<1> QED BY <1>7, FS_CountingElements

LEMMA NumberedRows ==
    ASSUME NEW S, \A e \in S : e.id \in Nat, NEW n \in Nat, NEW f, Numbers(f, n, S)
    PROVE  Cardinality(S) = n /\ InOrder(S) = [i \in 1..n |-> f[i].entry]
<1>1. \A i, j \in 1..n : f[i] = f[j] => i = j
  BY DEF Numbers
<1>2. f \in Bijection(1..n, S)
  BY <1>1, Fun_IsBij DEF Numbers
<1>3. Cardinality(S) = n
  BY <1>2, FS_CountingElements DEF ExistsBijection
<1>4. ASSUME NEW i \in 1..n
      PROVE  (CHOOSE e \in S : Cardinality(Below(e, S)) = i - 1) = f[i]
  <2>1. f[i] \in S /\ Cardinality(Below(f[i], S)) = i - 1
    BY RankOfRow DEF Numbers
  <2>2. ASSUME NEW e \in S, Cardinality(Below(e, S)) = i - 1 PROVE e = f[i]
    <3>1. PICK j \in 1..n : f[j] = e
      BY DEF Numbers
    <3>2. Cardinality(Below(f[j], S)) = j - 1
      BY RankOfRow
    <3> QED BY <2>2, <3>1, <3>2
  <2> QED BY <2>1, <2>2
<1>5. InOrder(S) = [i \in 1..n |-> (CHOOSE e \in S : Cardinality(Below(e, S)) = i - 1).entry]
  BY <1>3 DEF InOrder
<1> QED BY <1>3, <1>4, <1>5, Zenon

LEMMA NumberAppend ==
    ASSUME NEW S, \A e \in S : e.id \in Nat, NEW n \in Nat, NEW f, Numbers(f, n, S),
           NEW row, row.id \in Nat, \A e \in S : e.id < row.id
    PROVE  Numbers([i \in 1..(n + 1) |-> IF i = n + 1 THEN row ELSE f[i]], n + 1, S \union {row})
<1> DEFINE g == [i \in 1..(n + 1) |-> IF i = n + 1 THEN row ELSE f[i]]
<1>1. \A i \in 1..n : i \in 1..(n + 1) /\ g[i] = f[i] /\ f[i] \in S
  BY DEF Numbers
<1>2. g[n + 1] = row /\ \A i \in 1..(n + 1) : i \in 1..n \/ i = n + 1
  OBVIOUS
<1>3. g \in [1..(n + 1) -> S \union {row}]
  BY <1>1, <1>2
<1> HIDE DEF g
<1>4. \A e \in S \union {row} : \E i \in 1..(n + 1) : g[i] = e
  BY <1>1, <1>2 DEF Numbers
<1>5. \A i, j \in 1..(n + 1) : i < j => g[i].id < g[j].id
  <2> SUFFICES ASSUME NEW i \in 1..(n + 1), NEW j \in 1..(n + 1), i < j PROVE g[i].id < g[j].id
    OBVIOUS
  <2>1. i \in 1..n /\ g[i] = f[i] /\ f[i] \in S
    BY <1>1
  <2>2. CASE j = n + 1
    BY <1>2, <2>1, <2>2
  <2>3. CASE j \in 1..n
    BY <1>1, <2>1, <2>3 DEF Numbers
  <2> QED BY <1>2, <2>2, <2>3
<1> QED BY <1>3, <1>4, <1>5 DEF Numbers, g

LEMMA NumberUnion ==
    ASSUME NEW S, NEW T, \A e \in S \union T : e.id \in Nat,
           NEW m \in Nat, NEW n \in Nat, NEW f, NEW g, Numbers(f, m, S), Numbers(g, n, T),
           \A d \in S : \A e \in T : d.id < e.id
    PROVE  Numbers([i \in 1..(m + n) |-> IF i <= m THEN f[i] ELSE g[i - m]], m + n, S \union T)
<1> DEFINE h == [i \in 1..(m + n) |-> IF i <= m THEN f[i] ELSE g[i - m]]
<1>1. \A i \in 1..m : i \in 1..(m + n) /\ h[i] = f[i] /\ f[i] \in S
  BY DEF Numbers
<1>2. \A i \in 1..n : i + m \in 1..(m + n) /\ h[i + m] = g[i] /\ g[i] \in T
  BY DEF Numbers
<1>3. \A i \in 1..(m + n) : i \in 1..m \/ \E j \in 1..n : i = j + m
  <2> SUFFICES ASSUME NEW i \in 1..(m + n), i \notin 1..m PROVE \E j \in 1..n : i = j + m
    OBVIOUS
  <2>1. i - m \in 1..n /\ i = (i - m) + m
    OBVIOUS
  <2> QED BY <2>1
<1>4. DOMAIN h = 1..(m + n) /\ h = [i \in 1..(m + n) |-> h[i]]
  OBVIOUS
<1> HIDE DEF h
<1>5. \A i \in 1..(m + n) : h[i] \in S \union T
  BY <1>1, <1>2, <1>3
<1>6. \A e \in S \union T : \E i \in 1..(m + n) : h[i] = e
  BY <1>1, <1>2 DEF Numbers
<1>7. \A i, j \in 1..(m + n) : i < j => h[i].id < h[j].id
  <2> SUFFICES ASSUME NEW i \in 1..(m + n), NEW j \in 1..(m + n), i < j PROVE h[i].id < h[j].id
    OBVIOUS
  <2>1. CASE i \in 1..m /\ j \in 1..m
    BY <1>1, <2>1 DEF Numbers
  <2>2. CASE i \in 1..m /\ \E k \in 1..n : j = k + m
    BY <1>1, <1>2, <2>2
  <2>3. CASE (\E k \in 1..n : i = k + m) /\ \E k \in 1..n : j = k + m
    <3>1. PICK k \in 1..n, l \in 1..n : i = k + m /\ j = l + m
      BY <2>3
    <3>2. k < l
      BY <3>1
    <3> QED BY <1>2, <3>1, <3>2 DEF Numbers
  <2> QED BY <1>3, <2>1, <2>2, <2>3
<1> QED BY <1>4, <1>5, <1>6, <1>7 DEF Numbers, h

(* How many events of its batch t has inserted when it comes to op[t]. *)
Position == [BUREAU |-> 0, SCORE |-> 1, RULES |-> 2, LIMIT |-> 3, PRICE |-> 4, champion |-> 5,
             challenger |-> 5, decide |-> 5, PERSIST |-> 5, update |-> 0, OVERRIDE |-> 0, flip |-> 1]
Inserted(t) == IF op[t] = "commit" THEN Len(Batch(t)) ELSE Position[op[t]]

(* The open transaction t has inserted that much of its batch, in order. *)
BatchInv ==
    \A t \in Txs :
        IF Active(t)
        THEN \E f : /\ Numbers(f, Inserted(t), pending[t])
                    /\ \A i \in 1..Inserted(t) : f[i].entry = Batch(t)[i]
        ELSE pending[t] = {}

(* Committed rows are those of transactions that have ended. *)
RowsInv ==
    /\ \A e \in rows : at[e.entry.tx] = "committed"
    /\ \E n \in Nat : \E f : Numbers(f, n, rows)

LedgerInv == TrailInv /\ BatchInv /\ RowsInv

LEMMA InsertedStep ==
    ASSUME OwnInv, NEW t \in Txs, op[t] # "commit"
    PROVE  /\ Inserted(t) \in Nat
           /\ op[t] \in Events =>
                 /\ op'[t] = Then[op[t]] => Inserted(t)' = Inserted(t) + 1
                 /\ Inserted(t) + 1 \in 1..Len(Batch(t))
                 /\ Batch(t)[Inserted(t) + 1] = Entry(t, op[t])
           /\ op[t] \notin Events /\ op'[t] = Then[op[t]] => Inserted(t)' = Inserted(t)
<1>1. CASE t \in Persists
  <2>1. op[t] \in PersistOps \ {"commit"}
    BY <1>1 DEF OwnInv
  <2>2. Len(Batch(t)) = 6
    BY <1>1 DEF Batch
  <2> QED BY <1>1, <2>1, <2>2 DEF PersistOps, Inserted, Position, Then, Events, Batch
<1>2. CASE t \notin Persists
  <2>1. op[t] \in OverrideOps \ {"commit"}
    BY <1>2 DEF OwnInv, Txs
  <2>2. Len(Batch(t)) = 1
    BY <1>2 DEF Batch
  <2> QED BY <1>2, <2>1, <2>2 DEF OverrideOps, Inserted, Position, Then, Events, Batch
<1> QED BY <1>1, <1>2

LEMMA InitRows == Init => BatchInv /\ RowsInv
<1> SUFFICES ASSUME Init PROVE BatchInv /\ RowsInv
  OBVIOUS
<1>1. BatchInv
  BY DEF Init, BatchInv, Active
<1>2. Numbers([i \in 1..0 |-> i], 0, rows)
  BY DEF Init, Numbers
<1>3. RowsInv
  BY <1>2 DEF Init, RowsInv
<1> QED BY <1>1, <1>3

(* What touches one transaction only leaves the batches of the others. *)
LEMMA OtherBatches ==
    ASSUME TypeOK, BatchInv, NEW t \in Txs,
           \A u \in Txs \ {t} : at'[u] = at[u] /\ op'[u] = op[u] /\ pending'[u] = pending[u],
           IF Active(t)'
           THEN \E f : /\ Numbers(f, Inserted(t)', pending'[t])
                       /\ \A i \in 1..Inserted(t)' : f[i].entry = Batch(t)[i]
           ELSE pending'[t] = {}
    PROVE  BatchInv'
<1> SUFFICES ASSUME NEW u \in Txs
             PROVE  IF Active(u)'
                    THEN \E f : /\ Numbers(f, Inserted(u)', pending'[u])
                                /\ \A i \in 1..Inserted(u)' : f[i].entry = Batch(u)[i]
                    ELSE pending'[u] = {}
  BY DEF BatchInv, Batch, Entry
<1>1. CASE u # t
  <2>1. Active(u)' = Active(u) /\ Inserted(u)' = Inserted(u) /\ pending'[u] = pending[u]
    BY <1>1 DEF Active, Inserted, Batch, Entry
  <2> QED BY <2>1 DEF BatchInv
<1> QED BY <1>1

LEMMA BatchStep == LedgerInv /\ [Next]_vars => BatchInv'
<1> SUFFICES ASSUME LedgerInv, [Next]_vars PROVE BatchInv'
  OBVIOUS
<1>a. TypeOK /\ PlaceInv /\ HoldInv /\ IdInv /\ OwnInv /\ BatchInv
  BY DEF LedgerInv, TrailInv, ModelsInv, ChainInv
<1>b. DOMAIN at = Txs /\ DOMAIN op = Txs /\ DOMAIN pending = Txs
  BY <1>a DEF TypeOK
<1> USE DEF tables, private
(* What changes only the place of an open transaction, or completes a statement
   other than an insert. *)
<1>c. ASSUME NEW t \in Txs, Active(t), Active(t)', pending' = pending, op' = op,
             \A u \in Txs \ {t} : at'[u] = at[u]
      PROVE  BatchInv'
  <2>1. Inserted(t)' = Inserted(t)
    BY <1>c DEF Inserted, Batch, Entry
  <2> QED BY <1>a, <1>c, <2>1, OtherBatches DEF BatchInv
<1>d. ASSUME NEW t \in Txs, Active(t), op[t] \notin Events \union {"commit"}, Completes(t),
             pending' = pending
      PROVE  BatchInv'
  <2>1. op'[t] = Then[op[t]] /\ at'[t] = "running"
    BY <1>b, <1>d DEF Completes, Moves
  <2>2. \A u \in Txs \ {t} : at'[u] = at[u] /\ op'[u] = op[u]
    BY <1>b, <1>d DEF Completes, Moves
  <2>3. Inserted(t)' = Inserted(t)
    BY <1>a, <1>d, <2>1, InsertedStep
  <2>4. Active(t)'
    BY <2>1 DEF Active
  <2> QED BY <1>a, <1>d, <2>2, <2>3, <2>4, OtherBatches DEF BatchInv
(* What ends a transaction that has no rows left. *)
<1>e. ASSUME NEW t \in Txs, ~Active(t)', pending'[t] = {},
             \A u \in Txs \ {t} : at'[u] = at[u] /\ op'[u] = op[u] /\ pending'[u] = pending[u]
      PROVE  BatchInv'
  BY <1>a, <1>e, OtherBatches
<1>1. ASSUME NEW t \in Txs, at[t] = "idle", at'[t] = "running", op' = op, pending' = pending,
             \A u \in Txs \ {t} : at'[u] = at[u]
      PROVE  BatchInv'
  <2>1. pending[t] = {}
    BY <1>a, <1>1 DEF BatchInv, Active
  <2>2. op'[t] \in {"BUREAU", "update"}
    BY <1>a, <1>1 DEF HoldInv
  <2>3. Inserted(t)' = 0
    BY <2>2 DEF Inserted, Position
  <2>4. \E f : Numbers(f, 0, pending'[t]) /\ \A i \in 1..0 : f[i].entry = Batch(t)[i]
    <3>1. Numbers([i \in 1..0 |-> i], 0, pending'[t])
      BY <1>1, <2>1 DEF Numbers
    <3>2. \A i \in 1..0 : FALSE
      OBVIOUS
    <3> QED BY <3>1, <3>2
  <2>5. Active(t)'
    BY <1>1 DEF Active
  <2>6. \A u \in Txs \ {t} : at'[u] = at[u] /\ op'[u] = op[u] /\ pending'[u] = pending[u]
    BY <1>1
  <2> QED BY <1>a, <2>3, <2>4, <2>5, <2>6, OtherBatches
<1>2. ASSUME NEW p \in Persists, BeginPersist(p) PROVE BatchInv'
  BY <1>b, <1>1, <1>2 DEF BeginPersist, Moves, Txs
<1>3. ASSUME NEW o \in Overrides, ReadDecision(o) PROVE BatchInv'
  <2>1. /\ at[o] = "idle" /\ at'[o] \in {"running", "rejected"} /\ op' = op /\ pending' = pending
        /\ \A u \in Txs \ {o} : at'[u] = at[u]
        /\ o \in Txs
    BY <1>b, <1>3 DEF ReadDecision, Moves, Txs
  <2>2. pending[o] = {}
    BY <1>a, <2>1 DEF BatchInv, Active
  <2>3. CASE at'[o] = "rejected"
    BY <1>e, <2>1, <2>2, <2>3 DEF Active
  <2> QED BY <1>1, <2>1, <2>3
<1>4. ASSUME NEW t \in Txs, AcquireLock(t) PROVE BatchInv'
  BY <1>b, <1>c, <1>4 DEF AcquireLock, Moves, Active
<1>5. ASSUME NEW t \in Txs, ReadTip(t) PROVE BatchInv'
  <2>1. at[t] = "tip" /\ Moves(t, "insert") /\ op' = op /\ pending' = pending
    BY <1>5 DEF ReadTip
  <2> QED BY <1>b, <1>c, <2>1 DEF Moves, Active
<1>6. ASSUME NEW t \in Txs, InsertEvent(t) PROVE BatchInv'
  <2> DEFINE n == Inserted(t)
             row == NewRow(t)
  <2>1. /\ at[t] = "insert" /\ op[t] \in Events
        /\ pending'[t] = pending[t] \union {row} /\ op'[t] = Then[op[t]] /\ at'[t] = "running"
    BY <1>a, <1>b, <1>6 DEF InsertEvent, Completes, Moves, PlaceInv
  <2>2. \A u \in Txs \ {t} : at'[u] = at[u] /\ op'[u] = op[u] /\ pending'[u] = pending[u]
    BY <1>b, <1>6 DEF InsertEvent, Completes, Moves
  <2>3. /\ n \in Nat /\ Inserted(t)' = n + 1
        /\ n + 1 \in 1..Len(Batch(t)) /\ Batch(t)[n + 1] = Entry(t, op[t])
    BY <1>a, <2>1, InsertedStep, EventsOps
  <2>4. PICK f : Numbers(f, n, pending[t]) /\ \A i \in 1..n : f[i].entry = Batch(t)[i]
    BY <1>a, <2>1 DEF BatchInv, Active
  <2>5. row.id \in Nat /\ row.entry = Entry(t, op[t])
    BY <1>a DEF TypeOK, NewRow
  <2>6. \A e \in pending[t] : e.id \in Nat /\ e.id < row.id
    BY <1>a DEF TypeOK, EventRows, IdInv, NewRow
  <2> HIDE DEF n, row
  <2> DEFINE g == [i \in 1..(n + 1) |-> IF i = n + 1 THEN row ELSE f[i]]
  <2>7. Numbers(g, n + 1, pending'[t])
    <3>1. Numbers(g, n + 1, pending[t] \union {row})
      <4> HIDE DEF Numbers
      <4> QED BY <2>3, <2>4, <2>5, <2>6, NumberAppend
    <3> QED BY <2>1, <3>1
  <2>8. \A i \in 1..(n + 1) : g[i].entry = Batch(t)[i]
    BY <2>3, <2>4, <2>5
  <2>9. Active(t)'
    BY <2>1 DEF Active
  <2> HIDE DEF g
  <2> QED BY <1>a, <2>2, <2>3, <2>7, <2>8, <2>9, OtherBatches
<1>7. ASSUME NEW t \in Txs, FindModel(t) PROVE BatchInv'
  <2>1. op[t] \in {"champion", "challenger"} /\ at[t] = "running" /\ pending' = pending
    BY <1>7 DEF FindModel
  <2>2. CASE Completes(t)
    BY <1>d, <2>1, <2>2 DEF Active, Events
  <2>3. CASE Moves(t, "create") /\ op' = op
    BY <1>b, <1>c, <2>1, <2>3 DEF Active, Moves
  <2> QED BY <1>7, <2>2, <2>3 DEF FindModel
<1>8. ASSUME NEW t \in Txs, CreateModel(t) PROVE BatchInv'
  BY <1>a, <1>d, <1>8 DEF CreateModel, PlaceInv, Active, Events
<1>9. ASSUME NEW t \in Txs, WriteOwnRows(t) PROVE BatchInv'
  BY <1>d, <1>9 DEF WriteOwnRows, Active, Events
<1>10. ASSUME NEW o \in Overrides, UpdateDecision(o) PROVE BatchInv'
  BY <1>d, <1>10 DEF UpdateDecision, Active, Events, Txs
<1>11. ASSUME NEW t \in Txs, Commit(t) PROVE BatchInv'
  BY <1>b, <1>e, <1>11 DEF Commit, Moves, Active
<1>12. ASSUME NEW t \in Txs, Abort(t) PROVE BatchInv'
  BY <1>b, <1>e, <1>12 DEF Abort, Moves, Active
<1>13. CASE UNCHANGED vars
  BY <1>a, <1>13 DEF vars, BatchInv, Active, Inserted, Batch, Entry
<1> QED
  BY <1>2, <1>3, <1>4, <1>5, <1>6, <1>7, <1>8, <1>9, <1>10, <1>11, <1>12, <1>13
     DEF Next, Statement

(* A commit adds its batch to the numbered rows, after all of them. *)
LEMMA CommitNumbers ==
    ASSUME LedgerInv, NEW t \in Txs, Commit(t),
           NEW m \in Nat, NEW f, Numbers(f, m, rows)
    PROVE  \E g : LET n == Len(Batch(t))
                      h == [i \in 1..(m + n) |-> IF i <= m THEN f[i] ELSE g[i - m]]
                  IN  /\ Numbers(h, m + n, rows')
                      /\ \A i \in 1..n : g[i].entry = Batch(t)[i]
<1>1. TypeOK /\ IdInv /\ BatchInv
  BY DEF LedgerInv, TrailInv, ModelsInv, ChainInv
<1>2. rows' = rows \union pending[t] /\ at[t] = "running" /\ op[t] = "commit"
  BY DEF Commit
<1>3. Len(Batch(t)) \in Nat /\ Inserted(t) = Len(Batch(t))
  BY <1>2 DEF Batch, Inserted
<1>4. PICK g : /\ Numbers(g, Len(Batch(t)), pending[t])
               /\ \A i \in 1..Len(Batch(t)) : g[i].entry = Batch(t)[i]
  BY <1>1, <1>2, <1>3 DEF BatchInv, Active
<1>5. \A e \in rows \union pending[t] : e.id \in Nat
  BY <1>1 DEF TypeOK, EventRows
<1>6. \A d \in rows : \A e \in pending[t] : d.id < e.id
  BY <1>1 DEF IdInv
<1> DEFINE n == Len(Batch(t))
           h == [i \in 1..(m + n) |-> IF i <= m THEN f[i] ELSE g[i - m]]
<1>7. Numbers(h, m + n, rows \union pending[t])
  <2> HIDE DEF n
  <2>1. n \in Nat /\ Numbers(g, n, pending[t])
    BY <1>3, <1>4 DEF n
  <2> QED BY <2>1, <1>5, <1>6, NumberUnion
<1> QED BY <1>2, <1>4, <1>7

LEMMA RowsStep == LedgerInv /\ [Next]_vars => RowsInv'
<1> SUFFICES ASSUME LedgerInv, [Next]_vars PROVE RowsInv'
  OBVIOUS
<1>1. TypeOK /\ OwnInv /\ RowsInv
  BY DEF LedgerInv, TrailInv, ModelsInv, ChainInv
<1>2. ASSUME NEW e \in rows PROVE at'[e.entry.tx] = "committed"
  <2>1. e.entry.tx \in Txs /\ at[e.entry.tx] = "committed"
    BY <1>1 DEF RowsInv, TypeOK, EventRows, Entries
  <2> QED BY <1>1, <2>1, CommittedStays
<1>3. ASSUME NEW t \in Txs, Commit(t) PROVE RowsInv'
  <2>1. rows' = rows \union pending[t] /\ at'[t] = "committed"
    BY <1>1, <1>3 DEF Commit, Moves, TypeOK
  <2>2. \A e \in pending[t] : e.entry.tx = t
    BY <1>1 DEF OwnInv
  <2>3. PICK m \in Nat : \E f : Numbers(f, m, rows)
    BY <1>1 DEF RowsInv
  <2>4. \E h : Numbers(h, m + Len(Batch(t)), rows')
    <3>1. PICK f : Numbers(f, m, rows)
      BY <2>3
    <3> QED BY <1>3, <3>1, CommitNumbers
  <2>5. m + Len(Batch(t)) \in Nat
    BY DEF Batch
  <2> QED BY <1>2, <2>1, <2>2, <2>4, <2>5 DEF RowsInv
<1>4. CASE rows' = rows
  BY <1>1, <1>2, <1>4 DEF RowsInv
<1> QED BY <1>3, <1>4, TablesStep DEF tables

LEMMA LedgerInductive == Spec => []LedgerInv
<1>1. LedgerInv /\ TrailInv' /\ [Next]_vars => LedgerInv'
  BY BatchStep, RowsStep DEF LedgerInv
<1> QED BY TrailInductive, InitRows, <1>1, PTL DEF Spec, LedgerInv

(* The rows in order are the entries of the numbered rows. *)
LEMMA LedgerOfRows ==
    ASSUME TypeOK, NEW n \in Nat, NEW f, Numbers(f, n, rows)
    PROVE  RowsInOrder = [i \in 1..n |-> f[i].entry]
<1>1. \A e \in rows : e.id \in Nat
  BY DEF TypeOK, EventRows
<1> QED BY <1>1, NumberedRows DEF RowsInOrder

(* A commit adds the batch of its transaction, of which nothing was there. *)
LEMMA CommitAdds ==
    ASSUME LedgerInv, TypeOK', NEW t \in Txs, Commit(t)
    PROVE  Ledger!Add(Batch(t))
<1>1. TypeOK /\ RowsInv
  BY DEF LedgerInv, TrailInv, ModelsInv, ChainInv
<1>2. PICK m \in Nat : \E f : Numbers(f, m, rows)
  BY <1>1 DEF RowsInv
<1>3. PICK f : Numbers(f, m, rows)
  BY <1>2
<1> DEFINE n == Len(Batch(t))
<1>4. n \in Nat \ {0} /\ Batch(t) = [i \in 1..n |-> Batch(t)[i]] /\ Batch(t)[1].tx = t
  <2>1. CASE t \in Persists
    BY <2>1 DEF Batch, Entry
  <2>2. CASE t \notin Persists
    BY <2>2 DEF Batch, Entry
  <2> QED BY <2>1, <2>2
<1>5. PICK g : /\ Numbers([i \in 1..(m + n) |-> IF i <= m THEN f[i] ELSE g[i - m]], m + n, rows')
               /\ \A i \in 1..n : g[i].entry = Batch(t)[i]
  BY <1>3, CommitNumbers
<1> DEFINE h == [i \in 1..(m + n) |-> IF i <= m THEN f[i] ELSE g[i - m]]
<1>6. RowsInOrder = [i \in 1..m |-> f[i].entry]
  BY <1>1, <1>3, LedgerOfRows
<1>7. RowsInOrder' = [i \in 1..(m + n) |-> h[i].entry]
  <2> HIDE DEF n, h
  <2>1. m + n \in Nat /\ Numbers(h, m + n, rows')
    BY <1>4, <1>5 DEF h
  <2>2. \A e \in rows' : e.id \in Nat
    BY DEF TypeOK, EventRows
  <2> QED BY <2>1, <2>2, NumberedRows DEF RowsInOrder
<1> HIDE DEF n
<1>8. RowsInOrder' = RowsInOrder \o Batch(t)
  <2>1. Len(RowsInOrder) = m /\ Len(Batch(t)) = n
    BY <1>4, <1>6 DEF n
  <2>2. RowsInOrder \in Seq(Entries)
    <3>1. \A i \in 1..m : f[i].entry \in Entries
      BY <1>1, <1>3 DEF Numbers, TypeOK, EventRows
    <3> QED BY <1>6, <3>1
  <2>3. Batch(t) \in Seq(Entries)
    <3>1. CASE t \in Persists
      BY <3>1 DEF Batch, Entry, Entries, Events
    <3>2. CASE t \notin Persists
      BY <3>2 DEF Batch, Entry, Entries, Events
    <3> QED BY <3>1, <3>2
  <2>4. RowsInOrder \o Batch(t)
          = [i \in 1..(m + n) |-> IF i <= m THEN RowsInOrder[i] ELSE Batch(t)[i - m]]
    <3> DEFINE both == RowsInOrder \o Batch(t)
    <3>1. both \in Seq(Entries) /\ Len(both) = m + n
      BY <2>1, <2>2, <2>3
    <3>2. \A i \in 1..(m + n) : both[i] = IF i <= m THEN RowsInOrder[i] ELSE Batch(t)[i - m]
      BY <2>1, <2>2, <2>3
    <3> HIDE DEF both
    <3>3. both = [i \in 1..(m + n) |-> both[i]]
      BY <3>1
    <3>4. both = [i \in 1..(m + n) |-> IF i <= m THEN RowsInOrder[i] ELSE Batch(t)[i - m]]
      BY <3>2, <3>3, Zenon
    <3> QED BY <3>4 DEF both
  <2>5. ASSUME NEW i \in 1..(m + n)
        PROVE  h[i].entry = IF i <= m THEN RowsInOrder[i] ELSE Batch(t)[i - m]
    <3>1. CASE i <= m
      BY <1>6, <3>1
    <3>2. CASE ~(i <= m)
      <4>1. i - m \in 1..n
        BY <1>4, <3>2
      <4> QED BY <1>5, <3>2, <4>1
    <3> QED BY <3>1, <3>2
  <2> HIDE DEF h
  <2> QED BY <1>7, <2>4, <2>5
<1>9. ~Ledger!Recorded(Batch(t))
  <2> SUFFICES ASSUME NEW k \in 0..(Len(RowsInOrder) - Len(Batch(t))),
                      SubSeq(RowsInOrder, k + 1, k + Len(Batch(t))) = Batch(t)
               PROVE  FALSE
    BY DEF Ledger!Recorded
  <2>1. Len(RowsInOrder) = m /\ Len(Batch(t)) = n
    BY <1>4, <1>6 DEF n
  <2>2. k + 1 \in 1..m
    BY <1>4, <2>1
  <2>3. SubSeq(RowsInOrder, k + 1, k + n)[1] = RowsInOrder[k + 1]
    BY <1>4, <2>1, <2>2
  <2>4. f[k + 1].entry.tx = t /\ f[k + 1] \in rows
    BY <1>3, <1>4, <1>6, <2>1, <2>2, <2>3 DEF Numbers
  <2>5. at[t] = "committed" /\ at[t] = "running"
    BY <1>1, <2>4 DEF RowsInv, Commit
  <2> QED BY <2>5
<1> QED BY <1>8, <1>9 DEF Ledger!Add

(* The table of events, in the order of its ids, is the ledger that the     *)
(* audit trail promises: it grows by whole batches, each once.             *)
THEOREM LedgerImplemented == Spec => ImplementsLedger
<1>1. Init => Ledger!Init
  <2> SUFFICES ASSUME Init PROVE RowsInOrder = <<>>
    BY DEF Ledger!Init
  <2>1. \A e \in rows : e.id \in Nat
    BY DEF Init
  <2>2. Numbers([i \in 1..0 |-> i], 0, rows)
    BY DEF Init, Numbers
  <2>3. \E f : RowsInOrder = [i \in 1..0 |-> f[i].entry]
    BY <2>1, <2>2, NumberedRows DEF RowsInOrder
  <2> QED BY <2>3
<1>2. LedgerInv /\ TypeOK' /\ [Next]_vars => [Ledger!Next]_RowsInOrder
  <2> SUFFICES ASSUME LedgerInv, TypeOK', [Next]_vars
               PROVE  Ledger!Next \/ RowsInOrder' = RowsInOrder
    OBVIOUS
  <2>1. ASSUME NEW t \in Txs, Commit(t) PROVE Ledger!Next
    BY <2>1, CommitAdds DEF Ledger!Next
  <2>2. ASSUME rows' = rows PROVE RowsInOrder' = RowsInOrder
    BY <2>2 DEF RowsInOrder
  <2> QED BY <2>1, <2>2, TablesStep DEF tables
<1> QED BY <1>1, <1>2, LedgerInductive, TypeCorrect, PTL DEF Spec, ImplementsLedger, Ledger!Spec
=============================================================================
