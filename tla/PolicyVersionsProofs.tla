------------------------- MODULE PolicyVersionsProofs -------------------------
(***************************************************************************)
(* Maker-checker and the life of policy versions, for any set of versions, *)
(* users, drafts and activations, and any overlap of them.                 *)
(***************************************************************************)
EXTENDS PolicyVersions, TLAPS

(* An open activation is about a row that exists and that its user has not *)
(* drafted; what it has locked, retired and yet to retire is its own.      *)
OpenInv ==
    \A a \in Activations :
        /\ at[a] \in Open => /\ status[VersionOf[a]] # "none"
                             /\ createdBy[VersionOf[a]] # User[a]
        /\ at[a] = "commit" => rowLock[VersionOf[a]] = a /\ targets[a] = {}
        /\ targets[a] # {} \/ retiring[a] # {} => at[a] \in {"retire", "commit"}
        /\ \A v \in retiring[a] : /\ rowLock[v] = a
                                  /\ status[v] = "ACTIVE"
                                  /\ product[v] = product[VersionOf[a]]
        /\ \A v \in targets[a] : /\ status[v] \in {"ACTIVE", "RETIRED"}
                                 /\ product[v] = product[VersionOf[a]]

(* A version without a row has no trace of a retirement. *)
AbsentInv == \A v \in Versions : status[v] = "none" => ~retiredAt[v]

(* Without overlap an activation is alone with its product: its version is *)
(* still a draft, and it has seen every active row.                        *)
AloneInv ==
    \A a \in Activations :
        at[a] \in Open /\ product[VersionOf[a]] \notin overlapped =>
            /\ \A b \in Activations : at[b] \in Open /\ SameProduct(a, b) => b = a
            /\ status[VersionOf[a]] = "DRAFT"
            /\ at[a] # "scan" =>
                  \A v \in Versions :
                      status[v] = "ACTIVE" /\ product[v] = product[VersionOf[a]]
                      => v \in targets[a] \union retiring[a]

(* The rows and the transactions keep their types. *)
LEMMA TypeStep ==
    TypeOK /\ [Next]_vars => TypeOK'
<1> SUFFICES ASSUME TypeOK, [Next]_vars
             PROVE  TypeOK'
  OBVIOUS
<1> USE CallAssumption, NobodyAssumption, VersionAssumption
    DEF TypeOK, table, transaction, Calls, Open
<1>1. ASSUME NEW d \in Drafts, FindVersion(d) PROVE TypeOK'
  BY <1>1 DEF FindVersion, Moves
<1>2. ASSUME NEW d \in Drafts, InsertDraft(d) PROVE TypeOK'
  BY <1>2 DEF InsertDraft, Moves
<1>3. ASSUME NEW a \in Activations, ReadDraft(a) PROVE TypeOK'
  BY <1>3 DEF ReadDraft, Moves, SameProduct
<1>4. ASSUME NEW a \in Activations, Scan(a) PROVE TypeOK'
  BY <1>4 DEF Scan, Moves
<1>5. ASSUME NEW a \in Activations, RetireRow(a) PROVE TypeOK'
  BY <1>5 DEF RetireRow
<1>6. ASSUME NEW a \in Activations, Promote(a) PROVE TypeOK'
  BY <1>6 DEF Promote, Moves
<1>7. ASSUME NEW a \in Activations, Commit(a) PROVE TypeOK'
  BY <1>7 DEF Commit, Moves, EndTransaction
<1>8. ASSUME NEW a \in Activations, Abort(a) PROVE TypeOK'
  BY <1>8 DEF Abort, Moves, EndTransaction
<1>9. CASE UNCHANGED vars
  BY <1>9 DEF vars
<1> QED
  BY <1>1, <1>2, <1>3, <1>4, <1>5, <1>6, <1>7, <1>8, <1>9 DEF Next

(* Row locks keep what a transaction relies on. *)
LEMMA OpenStep ==
    TypeOK /\ OpenInv /\ [Next]_vars => OpenInv'
<1> SUFFICES ASSUME TypeOK, OpenInv, [Next]_vars
             PROVE  OpenInv'
  OBVIOUS
<1> USE CallAssumption, NobodyAssumption, VersionAssumption
    DEF TypeOK, OpenInv, table, transaction, Calls, Open
<1>1. ASSUME NEW d \in Drafts, FindVersion(d) PROVE OpenInv'
  BY <1>1 DEF FindVersion, Moves
<1>2. ASSUME NEW d \in Drafts, InsertDraft(d) PROVE OpenInv'
  BY <1>2 DEF InsertDraft, Moves
<1>3. ASSUME NEW a \in Activations, ReadDraft(a) PROVE OpenInv'
  BY <1>3 DEF ReadDraft, Moves, SameProduct
<1>4. ASSUME NEW a \in Activations, Scan(a) PROVE OpenInv'
  BY <1>4 DEF Scan, Moves
<1>5. ASSUME NEW a \in Activations, RetireRow(a) PROVE OpenInv'
  BY <1>5 DEF RetireRow
<1>6. ASSUME NEW a \in Activations, Promote(a) PROVE OpenInv'
  BY <1>6 DEF Promote, Moves
<1>7. ASSUME NEW a \in Activations, Commit(a) PROVE OpenInv'
  BY <1>7 DEF Commit, Moves, EndTransaction
<1>8. ASSUME NEW a \in Activations, Abort(a) PROVE OpenInv'
  BY <1>8 DEF Abort, Moves, EndTransaction
<1>9. CASE UNCHANGED vars
  BY <1>9 DEF vars
<1> QED
  BY <1>1, <1>2, <1>3, <1>4, <1>5, <1>6, <1>7, <1>8, <1>9 DEF Next

(* Approval by another user outlasts every later step. *)
LEMMA MakerStep ==
    TypeOK /\ OpenInv /\ MakerChecker /\ [Next]_vars => MakerChecker'
<1> SUFFICES ASSUME TypeOK, OpenInv, MakerChecker, [Next]_vars
             PROVE  MakerChecker'
  OBVIOUS
<1> USE CallAssumption, NobodyAssumption, VersionAssumption
    DEF TypeOK, OpenInv, MakerChecker, table, transaction, Calls, Open
<1>1. ASSUME NEW d \in Drafts, FindVersion(d) PROVE MakerChecker'
  BY <1>1 DEF FindVersion, Moves
<1>2. ASSUME NEW d \in Drafts, InsertDraft(d) PROVE MakerChecker'
  BY <1>2 DEF InsertDraft, Moves
<1>3. ASSUME NEW a \in Activations, ReadDraft(a) PROVE MakerChecker'
  BY <1>3 DEF ReadDraft, Moves, SameProduct
<1>4. ASSUME NEW a \in Activations, Scan(a) PROVE MakerChecker'
  BY <1>4 DEF Scan, Moves
<1>5. ASSUME NEW a \in Activations, RetireRow(a) PROVE MakerChecker'
  BY <1>5 DEF RetireRow
<1>6. ASSUME NEW a \in Activations, Promote(a) PROVE MakerChecker'
  BY <1>6 DEF Promote, Moves
<1>7. ASSUME NEW a \in Activations, Commit(a) PROVE MakerChecker'
  BY <1>7 DEF Commit, Moves, EndTransaction
<1>8. ASSUME NEW a \in Activations, Abort(a) PROVE MakerChecker'
  BY <1>8 DEF Abort, Moves, EndTransaction
<1>9. CASE UNCHANGED vars
  BY <1>9 DEF vars
<1> QED
  BY <1>1, <1>2, <1>3, <1>4, <1>5, <1>6, <1>7, <1>8, <1>9 DEF Next

(* Rows come without a retirement. *)
LEMMA AbsentStep ==
    TypeOK /\ OpenInv /\ AbsentInv /\ [Next]_vars => AbsentInv'
<1> SUFFICES ASSUME TypeOK, OpenInv, AbsentInv, [Next]_vars
             PROVE  AbsentInv'
  OBVIOUS
<1> USE CallAssumption, NobodyAssumption, VersionAssumption
    DEF TypeOK, OpenInv, AbsentInv, table, transaction, Calls, Open
<1>1. ASSUME NEW d \in Drafts, FindVersion(d) PROVE AbsentInv'
  BY <1>1 DEF FindVersion, Moves
<1>2. ASSUME NEW d \in Drafts, InsertDraft(d) PROVE AbsentInv'
  BY <1>2 DEF InsertDraft, Moves
<1>3. ASSUME NEW a \in Activations, ReadDraft(a) PROVE AbsentInv'
  BY <1>3 DEF ReadDraft, Moves, SameProduct
<1>4. ASSUME NEW a \in Activations, Scan(a) PROVE AbsentInv'
  BY <1>4 DEF Scan, Moves
<1>5. ASSUME NEW a \in Activations, RetireRow(a) PROVE AbsentInv'
  BY <1>5 DEF RetireRow
<1>6. ASSUME NEW a \in Activations, Promote(a) PROVE AbsentInv'
  BY <1>6 DEF Promote, Moves
<1>7. ASSUME NEW a \in Activations, Commit(a) PROVE AbsentInv'
  BY <1>7 DEF Commit, Moves, EndTransaction
<1>8. ASSUME NEW a \in Activations, Abort(a) PROVE AbsentInv'
  BY <1>8 DEF Abort, Moves, EndTransaction
<1>9. CASE UNCHANGED vars
  BY <1>9 DEF vars
<1> QED
  BY <1>1, <1>2, <1>3, <1>4, <1>5, <1>6, <1>7, <1>8, <1>9 DEF Next

(* Overlap is recorded before it can do anything. *)
LEMMA AloneStep ==
    TypeOK /\ OpenInv /\ AloneInv /\ [Next]_vars => AloneInv'
<1> SUFFICES ASSUME TypeOK, OpenInv, AloneInv, [Next]_vars
             PROVE  AloneInv'
  OBVIOUS
<1> USE CallAssumption, NobodyAssumption, VersionAssumption
    DEF TypeOK, OpenInv, AloneInv, SameProduct, table, transaction, Calls, Open
<1>1. ASSUME NEW d \in Drafts, FindVersion(d) PROVE AloneInv'
  BY <1>1 DEF FindVersion, Moves
<1>2. ASSUME NEW d \in Drafts, InsertDraft(d) PROVE AloneInv'
  BY <1>2 DEF InsertDraft, Moves
<1>3. ASSUME NEW a \in Activations, ReadDraft(a) PROVE AloneInv'
  BY <1>3 DEF ReadDraft, Moves, SameProduct
<1>4. ASSUME NEW a \in Activations, Scan(a) PROVE AloneInv'
  BY <1>4 DEF Scan, Moves
<1>5. ASSUME NEW a \in Activations, RetireRow(a) PROVE AloneInv'
  BY <1>5 DEF RetireRow
<1>6. ASSUME NEW a \in Activations, Promote(a) PROVE AloneInv'
  BY <1>6 DEF Promote, Moves
<1>7. ASSUME NEW a \in Activations, Commit(a) PROVE AloneInv'
  BY <1>7 DEF Commit, Moves, EndTransaction
<1>8. ASSUME NEW a \in Activations, Abort(a) PROVE AloneInv'
  BY <1>8 DEF Abort, Moves, EndTransaction
<1>9. CASE UNCHANGED vars
  BY <1>9 DEF vars
<1> QED
  BY <1>1, <1>2, <1>3, <1>4, <1>5, <1>6, <1>7, <1>8, <1>9 DEF Next

(* A lone activation leaves one active row and an exact retirement. *)
LEMMA SingleStep ==
    /\ TypeOK /\ OpenInv /\ AbsentInv /\ AloneInv /\ SingleActiveWithoutOverlap
    /\ [Next]_vars
    => SingleActiveWithoutOverlap'
<1> SUFFICES ASSUME TypeOK, OpenInv, AbsentInv, AloneInv, SingleActiveWithoutOverlap, [Next]_vars
             PROVE  SingleActiveWithoutOverlap'
  OBVIOUS
<1> USE CallAssumption, NobodyAssumption, VersionAssumption
    DEF TypeOK, OpenInv, AbsentInv, AloneInv, SingleActiveWithoutOverlap, table, transaction, Calls, Open
<1>1. ASSUME NEW d \in Drafts, FindVersion(d) PROVE SingleActiveWithoutOverlap'
  BY <1>1 DEF FindVersion, Moves
<1>2. ASSUME NEW d \in Drafts, InsertDraft(d) PROVE SingleActiveWithoutOverlap'
  <2>1. /\ retiredAt' = retiredAt /\ overlapped' = overlapped
        /\ \A v \in Versions :
              \/ status'[v] = status[v] /\ product'[v] = product[v]
              \/ status[v] = "none" /\ status'[v] = "DRAFT"
    BY <1>2 DEF InsertDraft, Moves
  <2>2. \A v \in Versions : status'[v] = "ACTIVE" =>
           status[v] = "ACTIVE" /\ product'[v] = product[v]
    BY <2>1
  <2>3. \A v \in Versions : product'[v] \notin overlapped =>
           (retiredAt[v] <=> status'[v] = "RETIRED")
    BY <2>1
  <2> QED BY <2>1, <2>2, <2>3
<1>3. ASSUME NEW a \in Activations, ReadDraft(a) PROVE SingleActiveWithoutOverlap'
  BY <1>3 DEF ReadDraft, Moves, SameProduct
<1>4. ASSUME NEW a \in Activations, Scan(a) PROVE SingleActiveWithoutOverlap'
  BY <1>4 DEF Scan, Moves
<1>5. ASSUME NEW a \in Activations, RetireRow(a) PROVE SingleActiveWithoutOverlap'
  BY <1>5 DEF RetireRow
<1>6. ASSUME NEW a \in Activations, Promote(a) PROVE SingleActiveWithoutOverlap'
  BY <1>6 DEF Promote, Moves
<1>7. ASSUME NEW a \in Activations, Commit(a) PROVE SingleActiveWithoutOverlap'
  <2> DEFINE own == VersionOf[a]
  <2>1. /\ product' = product /\ overlapped' = overlapped
        /\ \A v \in Versions :
              /\ status'[v] = IF v = own THEN "ACTIVE"
                              ELSE IF v \in retiring[a] THEN "RETIRED" ELSE status[v]
              /\ retiredAt'[v] = (retiredAt[v] \/ v \in retiring[a])
    BY <1>7 DEF Commit
  <2>2. /\ at[a] = "commit" /\ targets[a] = {} /\ own \in Versions
        /\ \A v \in retiring[a] : status[v] = "ACTIVE" /\ product[v] = product[own]
    BY <1>7 DEF Commit
  <2>3. product[own] \notin overlapped =>
           /\ status[own] = "DRAFT"
           /\ \A v \in Versions :
                 status[v] = "ACTIVE" /\ product[v] = product[own] => v \in retiring[a]
    BY <2>2
  <2>4. ASSUME NEW v \in Versions, status'[v] = "ACTIVE", product[v] \notin overlapped
        PROVE  IF product[v] = product[own] THEN v = own ELSE status[v] = "ACTIVE"
    BY <2>1, <2>2, <2>3, <2>4
  <2>5. ASSUME NEW v \in Versions, product[v] \notin overlapped
        PROVE  retiredAt'[v] <=> status'[v] = "RETIRED"
    <3>1. retiredAt[v] <=> status[v] = "RETIRED"
      BY <2>5
    <3>2. CASE product[v] = product[own]
      BY <2>1, <2>2, <2>3, <2>5, <3>1, <3>2
    <3>3. CASE product[v] # product[own]
      BY <2>1, <2>2, <3>1, <3>3
    <3> QED BY <3>2, <3>3
  <2>6. \A v, w \in Versions :
           /\ status'[v] = "ACTIVE" /\ status'[w] = "ACTIVE"
           /\ product[v] = product[w] /\ product[v] \notin overlapped
           => v = w
    BY <2>4
  <2> QED BY <2>1, <2>5, <2>6
<1>8. ASSUME NEW a \in Activations, Abort(a) PROVE SingleActiveWithoutOverlap'
  BY <1>8 DEF Abort, Moves, EndTransaction
<1>9. CASE UNCHANGED vars
  BY <1>9 DEF vars
<1> QED
  BY <1>1, <1>2, <1>3, <1>4, <1>5, <1>6, <1>7, <1>8, <1>9 DEF Next

-----------------------------------------------------------------------------
PolicyInv ==
    /\ TypeOK
    /\ OpenInv
    /\ MakerChecker
    /\ AbsentInv
    /\ AloneInv
    /\ SingleActiveWithoutOverlap

LEMMA InitInv == Init => PolicyInv
BY NobodyAssumption
   DEF Init, PolicyInv, TypeOK, OpenInv, MakerChecker, AbsentInv, AloneInv, Open, Calls,
       SingleActiveWithoutOverlap

LEMMA PolicyInductive == Spec => []PolicyInv
<1>1. PolicyInv /\ [Next]_vars => PolicyInv'
  BY TypeStep, OpenStep, MakerStep, AbsentStep, AloneStep, SingleStep DEF PolicyInv
<1> QED BY InitInv, <1>1, PTL DEF Spec

(* The rows and the transactions keep their types. *)
THEOREM TypeCorrect == Spec => []TypeOK
BY PolicyInductive, PTL DEF PolicyInv

(* No active or retired policy was approved by the user who drafted it,    *)
(* for any number of users and any overlap of their calls.                 *)
THEOREM MakerIsNotChecker == Spec => []MakerChecker
BY PolicyInductive, PTL DEF PolicyInv

(* A product whose activations never overlapped has one active policy at   *)
(* most, and its rows tell exactly which policies were retired.            *)
THEOREM SingleActivePolicy == Spec => []SingleActiveWithoutOverlap
BY PolicyInductive, PTL DEF PolicyInv

(* No createDraft ever writes over a version that exists.                  *)
THEOREM DraftsAreKept == Spec => DraftsKept
<1> DEFINE Kept == \A v \in Versions :
                      status[v] # "none" =>
                          /\ createdBy'[v] = createdBy[v]
                          /\ product'[v] = product[v]
                          /\ status'[v] \notin {"none", "DRAFT"} \ {status[v]}
<1>1. PolicyInv /\ [Next]_vars => Kept
  <2> SUFFICES ASSUME PolicyInv, [Next]_vars PROVE Kept
    OBVIOUS
  <2> USE VersionAssumption, CallAssumption DEF PolicyInv, TypeOK, table, Calls
  <2>1. ASSUME NEW d \in Drafts, FindVersion(d) PROVE Kept
    BY <2>1 DEF FindVersion, Moves
  <2>2. ASSUME NEW d \in Drafts, InsertDraft(d) PROVE Kept
    BY <2>2 DEF InsertDraft, Moves
  <2>3. ASSUME NEW a \in Activations, ReadDraft(a) PROVE Kept
    BY <2>3 DEF ReadDraft, Moves, SameProduct
  <2>4. ASSUME NEW a \in Activations, Scan(a) PROVE Kept
    BY <2>4 DEF Scan, Moves
  <2>5. ASSUME NEW a \in Activations, RetireRow(a) PROVE Kept
    BY <2>5 DEF RetireRow
  <2>6. ASSUME NEW a \in Activations, Promote(a) PROVE Kept
    BY <2>6 DEF Promote, Moves
  <2>7. ASSUME NEW a \in Activations, Commit(a) PROVE Kept
    BY <2>7 DEF Commit, Moves, EndTransaction
  <2>8. ASSUME NEW a \in Activations, Abort(a) PROVE Kept
    BY <2>8 DEF Abort, Moves, EndTransaction
  <2>9. CASE UNCHANGED vars
    BY <2>9 DEF vars
  <2> QED
    BY <2>1, <2>2, <2>3, <2>4, <2>5, <2>6, <2>7, <2>8, <2>9 DEF Next
<1> QED BY PolicyInductive, <1>1, PTL DEF Spec, DraftsKept

(* A product that has an active policy is never without one again.         *)
THEOREM ProductStaysActive == Spec => StaysActive
<1> DEFINE Stays == \A v \in Versions :
                       status[v] = "ACTIVE" =>
                           \E w \in Versions : status'[w] = "ACTIVE" /\ product'[w] = product[v]
<1>1. PolicyInv /\ [Next]_vars => Stays
  <2> SUFFICES ASSUME PolicyInv, [Next]_vars PROVE Stays
    OBVIOUS
  <2> USE VersionAssumption, CallAssumption DEF PolicyInv, TypeOK, OpenInv, table, Calls
  <2>1. ASSUME NEW d \in Drafts, FindVersion(d) PROVE Stays
    BY <2>1 DEF FindVersion, Moves
  <2>2. ASSUME NEW d \in Drafts, InsertDraft(d) PROVE Stays
    BY <2>2 DEF InsertDraft, Moves
  <2>3. ASSUME NEW a \in Activations, ReadDraft(a) PROVE Stays
    BY <2>3 DEF ReadDraft, Moves, SameProduct
  <2>4. ASSUME NEW a \in Activations, Scan(a) PROVE Stays
    BY <2>4 DEF Scan, Moves
  <2>5. ASSUME NEW a \in Activations, RetireRow(a) PROVE Stays
    BY <2>5 DEF RetireRow
  <2>6. ASSUME NEW a \in Activations, Promote(a) PROVE Stays
    BY <2>6 DEF Promote, Moves
  <2>7. ASSUME NEW a \in Activations, Commit(a) PROVE Stays
    BY <2>7 DEF Commit, Moves, EndTransaction
  <2>8. ASSUME NEW a \in Activations, Abort(a) PROVE Stays
    BY <2>8 DEF Abort, Moves, EndTransaction
  <2>9. CASE UNCHANGED vars
    BY <2>9 DEF vars
  <2> QED
    BY <2>1, <2>2, <2>3, <2>4, <2>5, <2>6, <2>7, <2>8, <2>9 DEF Next
<1> QED BY PolicyInductive, <1>1, PTL DEF Spec, StaysActive

(* A version that has been active is brought back only by activations that *)
(* overlapped others of its product.                                       *)
THEOREM OnlyDraftsActivated == Spec => OnlyDraftActivated
<1> DEFINE FromDraft == \A a \in Activations :
                           /\ at[a] = "commit" /\ at'[a] = "done"
                           /\ product[VersionOf[a]] \notin overlapped
                           => status[VersionOf[a]] = "DRAFT"
<1>1. PolicyInv => FromDraft
  BY DEF PolicyInv, AloneInv, Open
<1> QED BY PolicyInductive, <1>1, PTL DEF Spec, OnlyDraftActivated
=============================================================================
