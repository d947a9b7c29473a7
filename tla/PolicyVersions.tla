--------------------------- MODULE PolicyVersions ---------------------------
(***************************************************************************)
(* The life of policy versions: createDraft and activate of PolicyService, *)
(* called by any number of users at once.                                  *)
(*                                                                         *)
(* createDraft is a query and an insert with no transaction around them.   *)
(* activate reads and checks the draft first; its transaction, at READ     *)
(* COMMITTED, retires what its first statement sees as ACTIVE and then     *)
(* promotes the version.  A statement that meets a row locked by another   *)
(* transaction waits, and tests its condition again on what it then finds. *)
(***************************************************************************)
EXTENDS FiniteSets

CONSTANTS
    Drafts,         \* calls of createDraft
    Activations,    \* calls of activate
    VersionOf,      \* VersionOf[c]: the version that a call names
    ProductOf,      \* ProductOf[d]: dto.product of a draft
    User,           \* User[c]: dto.createdBy, or approvedBy
    Parsing,        \* the drafts whose rules all parse
    Versions,
    Nobody          \* an approvedBy, a createdBy, a product or a lock not set

ASSUME CallAssumption == Drafts \intersect Activations = {}
ASSUME NobodyAssumption ==
    Nobody \notin Activations /\ \A a \in Activations : User[a] # Nobody
ASSUME VersionAssumption == VersionOf \in [Drafts \union Activations -> Versions]

VARIABLES
    at,          \* where each call is
    status,      \* committed PolicyVersion rows: status, "none" for no row,
    product,     \* ... product,
    createdBy,   \* ... createdBy,
    approvedBy,  \* ... approvedBy,
    retiredAt,   \* ... and whether retiredAt is set
    targets,     \* targets[a]: rows that updateMany of a still has to visit
    retiring,    \* retiring[a]: rows that the open transaction a has retired
    rowLock,     \* rowLock[v]: the transaction that has written row v
    overlapped   \* auxiliary: products two of whose activations overlapped

vars == <<at, status, product, createdBy, approvedBy, retiredAt,
          targets, retiring, rowLock, overlapped>>
table == <<status, product, createdBy, approvedBy, retiredAt>>
transaction == <<targets, retiring, rowLock>>

Calls == Drafts \union Activations
Open == {"scan", "retire", "commit"}

TypeOK ==
    /\ at \in [Calls -> {"idle", "insert", "done", "rejected", "aborted"} \union Open]
    /\ status \in [Versions -> {"none", "DRAFT", "ACTIVE", "RETIRED"}]
    /\ retiredAt \in [Versions -> BOOLEAN]
    /\ approvedBy \in [Versions -> {User[a] : a \in Activations} \union {Nobody}]
    /\ createdBy \in [Versions -> {User[d] : d \in Drafts} \union {Nobody}]
    /\ product \in [Versions -> {ProductOf[d] : d \in Drafts} \union {Nobody}]
    /\ targets \in [Activations -> SUBSET Versions]
    /\ retiring \in [Activations -> SUBSET Versions]
    /\ rowLock \in [Versions -> Activations \union {Nobody}]
    /\ \A v \in Versions : rowLock[v] # Nobody => at[rowLock[v]] \in Open
    /\ overlapped \subseteq {ProductOf[d] : d \in Drafts} \union {Nobody}

Init ==
    /\ at = [c \in Calls |-> "idle"]
    /\ status = [v \in Versions |-> "none"]
    /\ product = [v \in Versions |-> Nobody]
    /\ createdBy = [v \in Versions |-> Nobody]
    /\ approvedBy = [v \in Versions |-> Nobody]
    /\ retiredAt = [v \in Versions |-> FALSE]
    /\ targets = [a \in Activations |-> {}]
    /\ retiring = [a \in Activations |-> {}]
    /\ rowLock = [v \in Versions |-> Nobody]
    /\ overlapped = {}

Moves(c, place) == at' = [at EXCEPT ![c] = place]

-----------------------------------------------------------------------------
(* createDraft.                                                            *)

\* validate throws for a rule that does not parse, then the version is looked up.
FindVersion(d) ==
    /\ at[d] = "idle"
    /\ Moves(d, IF d \in Parsing /\ status[VersionOf[d]] = "none" THEN "insert" ELSE "rejected")
    /\ UNCHANGED <<table, transaction, overlapped>>

\* Mutant: an upsert, which overwrites what another call has inserted meanwhile.
InsertDraftUpserts(d) ==
    /\ at[d] = "insert"
    /\ LET v == VersionOf[d]
       IN  /\ status' = [status EXCEPT ![v] = "DRAFT"]
           /\ product' = [product EXCEPT ![v] = ProductOf[d]]
           /\ createdBy' = [createdBy EXCEPT ![v] = User[d]]
    /\ Moves(d, "done")
    /\ UNCHANGED <<approvedBy, retiredAt, transaction, overlapped>>

\* The unique version refuses a row that another call has inserted meanwhile.
InsertDraft(d) ==
    /\ at[d] = "insert"
    /\ LET v == VersionOf[d]
       IN  IF status[v] = "none"
           THEN /\ status' = [status EXCEPT ![v] = "DRAFT"]
                /\ product' = [product EXCEPT ![v] = ProductOf[d]]
                /\ createdBy' = [createdBy EXCEPT ![v] = User[d]]
                /\ Moves(d, "done")
           ELSE /\ Moves(d, "rejected")
                /\ UNCHANGED <<status, product, createdBy>>
    /\ UNCHANGED <<approvedBy, retiredAt, transaction, overlapped>>

-----------------------------------------------------------------------------
(* activate.                                                               *)

SameProduct(a, b) == product[VersionOf[a]] = product[VersionOf[b]]

\* Mutant: the creator may approve.
ReadDraftUnchecked(a) ==
    /\ at[a] = "idle"
    /\ LET v == VersionOf[a]
       IN  IF status[v] = "DRAFT"
           THEN /\ Moves(a, "scan")
                /\ overlapped' = IF \E b \in Activations \ {a} : at[b] \in Open /\ SameProduct(a, b)
                                 THEN overlapped \union {product[v]} ELSE overlapped
           ELSE Moves(a, "rejected") /\ UNCHANGED overlapped
    /\ UNCHANGED <<table, transaction>>

\* Mutant: the status is not checked.
ReadDraftAnyStatus(a) ==
    /\ at[a] = "idle"
    /\ LET v == VersionOf[a]
       IN  IF status[v] # "none" /\ createdBy[v] # User[a]
           THEN /\ Moves(a, "scan")
                /\ overlapped' = IF \E b \in Activations \ {a} : at[b] \in Open /\ SameProduct(a, b)
                                 THEN overlapped \union {product[v]} ELSE overlapped
           ELSE Moves(a, "rejected") /\ UNCHANGED overlapped
    /\ UNCHANGED <<table, transaction>>

\* The query and the two checks, before the transaction.
ReadDraft(a) ==
    /\ at[a] = "idle"
    /\ LET v == VersionOf[a]
       IN  IF status[v] = "DRAFT" /\ createdBy[v] # User[a]
           THEN /\ Moves(a, "scan")
                /\ overlapped' = IF \E b \in Activations \ {a} : at[b] \in Open /\ SameProduct(a, b)
                                 THEN overlapped \union {product[v]} ELSE overlapped
           ELSE Moves(a, "rejected") /\ UNCHANGED overlapped
    /\ UNCHANGED <<table, transaction>>

\* What updateMany sees when it begins.
Scan(a) ==
    /\ at[a] = "scan"
    /\ targets' = [targets EXCEPT ![a] =
           {v \in Versions : status[v] = "ACTIVE" /\ product[v] = product[VersionOf[a]]}]
    /\ Moves(a, "retire")
    /\ UNCHANGED <<table, retiring, rowLock, overlapped>>

\* updateMany goes on to one of its rows.
RetireRow(a) ==
    /\ at[a] = "retire"
    /\ \E v \in targets[a] :
          /\ rowLock[v] \in {Nobody, a}
          /\ rowLock' = [rowLock EXCEPT ![v] = a]
          /\ targets' = [targets EXCEPT ![a] = @ \ {v}]
          /\ retiring' = IF status[v] = "ACTIVE"
                         THEN [retiring EXCEPT ![a] = @ \union {v}] ELSE retiring
    /\ UNCHANGED <<at, table, overlapped>>

\* update by version, whatever the status of the row has become.
Promote(a) ==
    /\ at[a] = "retire" /\ targets[a] = {}
    /\ rowLock[VersionOf[a]] \in {Nobody, a}
    /\ rowLock' = [rowLock EXCEPT ![VersionOf[a]] = a]
    /\ Moves(a, "commit")
    /\ UNCHANGED <<table, targets, retiring, overlapped>>

\* Mutant: the transaction is left idle, with its locks.
EndTransactionIdle(a) ==
    /\ targets' = [targets EXCEPT ![a] = {}]
    /\ retiring' = [retiring EXCEPT ![a] = {}]
    /\ UNCHANGED rowLock

EndTransaction(a) ==
    /\ targets' = [targets EXCEPT ![a] = {}]
    /\ retiring' = [retiring EXCEPT ![a] = {}]
    /\ rowLock' = [v \in Versions |-> IF rowLock[v] = a THEN Nobody ELSE rowLock[v]]

\* Mutant: the prior policy is not retired.
CommitPromotionOnly(a) ==
    /\ at[a] = "commit"
    /\ status' = [status EXCEPT ![VersionOf[a]] = "ACTIVE"]
    /\ approvedBy' = [approvedBy EXCEPT ![VersionOf[a]] = User[a]]
    /\ EndTransaction(a)
    /\ Moves(a, "done")
    /\ UNCHANGED <<product, createdBy, retiredAt, overlapped>>

Commit(a) ==
    /\ at[a] = "commit"
    /\ status' = [v \in Versions |-> IF v = VersionOf[a] THEN "ACTIVE"
                                     ELSE IF v \in retiring[a] THEN "RETIRED"
                                     ELSE status[v]]
    /\ retiredAt' = [v \in Versions |-> retiredAt[v] \/ v \in retiring[a]]
    /\ approvedBy' = [approvedBy EXCEPT ![VersionOf[a]] = User[a]]
    /\ EndTransaction(a)
    /\ Moves(a, "done")
    /\ UNCHANGED <<product, createdBy, overlapped>>

\* Mutant: no transaction, so that what was retired stays so.
AbortKeepsRetired(a) ==
    /\ at[a] \in Open
    /\ status' = [v \in Versions |-> IF v \in retiring[a] THEN "RETIRED" ELSE status[v]]
    /\ retiredAt' = [v \in Versions |-> retiredAt[v] \/ v \in retiring[a]]
    /\ EndTransaction(a)
    /\ Moves(a, "aborted")
    /\ UNCHANGED <<product, createdBy, approvedBy, overlapped>>

\* A failure, the timeout of the transaction, a crash, or a deadlock resolved.
Abort(a) ==
    /\ at[a] \in Open
    /\ EndTransaction(a)
    /\ Moves(a, "aborted")
    /\ UNCHANGED <<table, overlapped>>

Next ==
    \/ \E d \in Drafts : FindVersion(d) \/ InsertDraft(d)
    \/ \E a \in Activations :
          ReadDraft(a) \/ Scan(a) \/ RetireRow(a) \/ Promote(a) \/ Commit(a) \/ Abort(a)

Spec == Init /\ [][Next]_vars

-----------------------------------------------------------------------------
(* Properties.                                                             *)

(* No policy decides anything that its own author has approved.  activate  *)
(* compares the approver with a row read before its transaction; this says *)
(* that no overlap of drafts, activations and aborts makes that stale.     *)
MakerChecker ==
    \A v \in Versions :
        status[v] \in {"ACTIVE", "RETIRED"} =>
            approvedBy[v] # Nobody /\ approvedBy[v] # createdBy[v]

(* While the activations of a product do not overlap, one policy at most   *)
(* is active for it, an active one was never retired, and a retired one    *)
(* bears the time of its retirement: no failed activation leaves a trace.  *)
SingleActiveWithoutOverlap ==
    /\ \A v, w \in Versions :
          /\ status[v] = "ACTIVE" /\ status[w] = "ACTIVE"
          /\ product[v] = product[w] /\ product[v] \notin overlapped
          => v = w
    /\ \A v \in Versions :
          product[v] \notin overlapped => (retiredAt[v] <=> status[v] = "RETIRED")

(* A version, once created, is never written over by a second createDraft, *)
(* although both find it absent first: its author and its product, which   *)
(* activate relies on, stay what they were.                                *)
DraftsKept ==
    [][\A v \in Versions :
          status[v] # "none" =>
              /\ createdBy'[v] = createdBy[v]
              /\ product'[v] = product[v]
              /\ status'[v] \notin {"none", "DRAFT"} \ {status[v]}]_vars

(* A product that has an active policy always has one afterwards, so that  *)
(* findActive never fails again for it: neither a failed activation nor    *)
(* any overlap leaves the product without.                                 *)
StaysActive ==
    [][\A v \in Versions :
          status[v] = "ACTIVE" =>
              \E w \in Versions : status'[w] = "ACTIVE" /\ product'[w] = product[v]]_vars

(* policy.service.ts:46: "only a DRAFT can be activated".  The status is   *)
(* not looked at again in the transaction, yet only an activation that     *)
(* overlapped another one of its product can find it changed: drafts,      *)
(* aborted activations and those of other products cannot bring back a     *)
(* version that has been active.                                           *)
OnlyDraftActivated ==
    [][\A a \in Activations :
          /\ at[a] = "commit" /\ at'[a] = "done"
          /\ product[VersionOf[a]] \notin overlapped
          => status[VersionOf[a]] = "DRAFT"]_vars

(* What activating promises (policy.service.spec.ts:100, "retiring the     *)
(* prior ACTIVE policy") and applications.service.ts:98 builds on ("the    *)
(* live ACTIVE policy for this product").  Two activations of different    *)
(* drafts each retire what was active when they began, and not each other. *)
SingleActive ==
    \A v, w \in Versions :
        status[v] = "ACTIVE" /\ status[w] = "ACTIVE" /\ product[v] = product[w] => v = w
=============================================================================
