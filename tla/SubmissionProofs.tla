--------------------------- MODULE SubmissionProofs ---------------------------
(***************************************************************************)
(* The safety invariants of Submission, for every set of requests, every   *)
(* assignment of persons and keys to them, and every set of faults.        *)
(***************************************************************************)
EXTENDS Submission, FiniteSetTheorems, TLAPS

(* What the place of a handler tells of its key and of its application row. *)
PlaceInv ==
    \A r \in Requests :
        /\ pc[r] \in {"get", "claim", "put", "release"} => Key[r] # NoKey
        /\ pc[r] \in Window \union {"idle", "get", "claim", "find"} => status[r] = "none"
        /\ pc[r] \in {"stages", "persist"} => status[r] = "PROCESSING"

(* Who runs submit for a key came in by its claim, or by one that expired. *)
ClaimInv ==
    \A k \in Keys :
        Cardinality(Holders(k)) <= (IF k \in claims THEN 1 ELSE 0) + expiries[k]

(* Rows refer to an applicant row of the same person. *)
OwnerInv ==
    \A r \in Requests :
        pc[r] = "newApplication" \/ status[r] # "none" =>
            owner[r] \in applicants /\ Person[owner[r]] = Person[r]

(* What a request in its dedupe window still knows of its person. *)
WindowInv ==
    \A r \in Requests : Person[r] \notin overlapped =>
        /\ \A q \in Requests :
              Person[q] = Person[r] /\ pc[q] \in Window /\ pc[r] \in Window => q = r
        /\ pc[r] = "newApplicant" => \A a \in applicants : Person[a] # Person[r]
        /\ pc[r] = "newApplication" =>
              \A q \in Requests : Person[q] = Person[r] => status[q] # "PROCESSING"

(* The requests that made a loan under a key, or still may. *)
Takers(k) == Loans(k) \union {r \in Requests : Key[r] = k /\ pc[r] \in Pipeline}

(* Under a key that is not exposed, a commit is followed by the put, and   *)
(* nobody comes in after it.                                               *)
PutInv ==
    /\ \A r \in Requests : pc[r] = "put" => answer[r] = r
    /\ \A k \in Keys \ exposed :
          cache[k] = NoApplication => \A r \in Loans(k) : pc[r] = "put"
TakerInv == \A k \in Keys \ exposed : Cardinality(Takers(k)) <= 1 + expiries[k]

USE RequestAssumption

-----------------------------------------------------------------------------
LEMMA KeysOf == NoKey \notin Keys /\ \A r \in Requests : Key[r] # NoKey => Key[r] \in Keys
BY DEF Keys

LEMMA PersonsOf == \A r \in Requests : Person[r] \in Persons
BY DEF Persons

(* The handlers stay in their places, and the rows keep their types. *)
LEMMA TypeStep == TypeOK /\ PlaceInv /\ [Next]_vars => TypeOK'
<1> SUFFICES ASSUME TypeOK, PlaceInv, [Next]_vars PROVE TypeOK'
  OBVIOUS
<1> USE KeysOf, PersonsOf
    DEF TypeOK, PlaceInv, database, redis, auxiliary, Locations, Ended, Pipeline, Window
<1>1. ASSUME NEW r \in Requests, Arrive(r) PROVE TypeOK'
  BY <1>1 DEF Arrive, Goto
<1>2. ASSUME NEW r \in Requests, GetCached(r) PROVE TypeOK'
  BY <1>2 DEF GetCached, Goto
<1>3. ASSUME NEW r \in Requests, Claim(r) PROVE TypeOK'
  BY <1>3 DEF Claim, Goto
<1>4. ASSUME NEW r \in Requests, RedisFails(r) PROVE TypeOK'
  BY <1>4 DEF RedisFails, Goto
<1>5. ASSUME NEW r \in Requests, DedupeFind(r) PROVE TypeOK'
  BY <1>5 DEF DedupeFind, Goto, Leave, AfterKyc
<1>6. ASSUME NEW r \in Requests, CreateApplicant(r) PROVE TypeOK'
  BY <1>6 DEF CreateApplicant, Goto, Leave, AfterKyc
<1>7. ASSUME NEW r \in Requests, CreateApplication(r) PROVE TypeOK'
  BY <1>7 DEF CreateApplication, Goto
<1>8. ASSUME NEW r \in Requests, RunStages(r) PROVE TypeOK'
  BY <1>8 DEF RunStages, Goto
<1>9. ASSUME NEW r \in Requests, SubmitFails(r) PROVE TypeOK'
  BY <1>9 DEF SubmitFails, Goto, Leave
<1>10. ASSUME NEW r \in Requests, Persist(r) PROVE TypeOK'
  BY <1>10 DEF Persist, Goto
<1>11. ASSUME NEW r \in Requests, PersistUnacknowledged(r) PROVE TypeOK'
  BY <1>11 DEF PersistUnacknowledged, Goto, Leave, Expose
<1>12. ASSUME NEW r \in Requests, PutCache(r) PROVE TypeOK'
  BY <1>12 DEF PutCache, Goto
<1>13. ASSUME NEW r \in Requests, PutFails(r) PROVE TypeOK'
  BY <1>13 DEF PutFails, Goto, Expose
<1>14. ASSUME NEW r \in Requests, ReleaseClaim(r) PROVE TypeOK'
  BY <1>14 DEF ReleaseClaim, Goto
<1>15. ASSUME NEW r \in Requests, ReleaseFails(r) PROVE TypeOK'
  BY <1>15 DEF ReleaseFails, Goto
<1>16. ASSUME NEW r \in Requests, Crash(r) PROVE TypeOK'
  BY <1>16 DEF Crash, Goto, Expose
<1>17. ASSUME NEW k \in Keys, ExpireClaim(k) PROVE TypeOK'
  BY <1>17 DEF ExpireClaim
<1>18. CASE UNCHANGED vars
  BY <1>18 DEF vars
<1> QED
  BY <1>1, <1>2, <1>3, <1>4, <1>5, <1>6, <1>7, <1>8, <1>9,
     <1>10, <1>11, <1>12, <1>13, <1>14, <1>15, <1>16, <1>17, <1>18 DEF Next, Handle

(* What the place of a handler tells stays true. *)
LEMMA PlaceStep == TypeOK /\ PlaceInv /\ [Next]_vars => PlaceInv'
<1> SUFFICES ASSUME TypeOK, PlaceInv, [Next]_vars PROVE PlaceInv'
  OBVIOUS
<1> USE DEF TypeOK, PlaceInv, database, redis, auxiliary, Ended, Pipeline, Window
<1>1. ASSUME NEW r \in Requests, Arrive(r) PROVE PlaceInv'
  BY <1>1 DEF Arrive, Goto
<1>2. ASSUME NEW r \in Requests, GetCached(r) PROVE PlaceInv'
  BY <1>2 DEF GetCached, Goto
<1>3. ASSUME NEW r \in Requests, Claim(r) PROVE PlaceInv'
  BY <1>3 DEF Claim, Goto
<1>4. ASSUME NEW r \in Requests, RedisFails(r) PROVE PlaceInv'
  BY <1>4 DEF RedisFails, Goto
<1>5. ASSUME NEW r \in Requests, DedupeFind(r) PROVE PlaceInv'
  BY <1>5 DEF DedupeFind, Goto, Leave, AfterKyc
<1>6. ASSUME NEW r \in Requests, CreateApplicant(r) PROVE PlaceInv'
  BY <1>6 DEF CreateApplicant, Goto, Leave, AfterKyc
<1>7. ASSUME NEW r \in Requests, CreateApplication(r) PROVE PlaceInv'
  BY <1>7 DEF CreateApplication, Goto
<1>8. ASSUME NEW r \in Requests, RunStages(r) PROVE PlaceInv'
  BY <1>8 DEF RunStages, Goto
<1>9. ASSUME NEW r \in Requests, SubmitFails(r) PROVE PlaceInv'
  BY <1>9 DEF SubmitFails, Goto, Leave
<1>10. ASSUME NEW r \in Requests, Persist(r) PROVE PlaceInv'
  BY <1>10 DEF Persist, Goto
<1>11. ASSUME NEW r \in Requests, PersistUnacknowledged(r) PROVE PlaceInv'
  BY <1>11 DEF PersistUnacknowledged, Goto, Leave, Expose
<1>12. ASSUME NEW r \in Requests, PutCache(r) PROVE PlaceInv'
  BY <1>12 DEF PutCache, Goto
<1>13. ASSUME NEW r \in Requests, PutFails(r) PROVE PlaceInv'
  BY <1>13 DEF PutFails, Goto, Expose
<1>14. ASSUME NEW r \in Requests, ReleaseClaim(r) PROVE PlaceInv'
  BY <1>14 DEF ReleaseClaim, Goto
<1>15. ASSUME NEW r \in Requests, ReleaseFails(r) PROVE PlaceInv'
  BY <1>15 DEF ReleaseFails, Goto
<1>16. ASSUME NEW r \in Requests, Crash(r) PROVE PlaceInv'
  BY <1>16 DEF Crash, Goto, Expose
<1>17. ASSUME NEW k \in Keys, ExpireClaim(k) PROVE PlaceInv'
  BY <1>17 DEF ExpireClaim
<1>18. CASE UNCHANGED vars
  BY <1>18 DEF vars
<1> QED
  BY <1>1, <1>2, <1>3, <1>4, <1>5, <1>6, <1>7, <1>8, <1>9,
     <1>10, <1>11, <1>12, <1>13, <1>14, <1>15, <1>16, <1>17, <1>18 DEF Next, Handle

LEMMA Count ==
    ASSUME NEW S \in SUBSET Requests
    PROVE  IsFiniteSet(S) /\ Cardinality(S) \in Nat
BY FS_Subset, FS_CardinalityType

(* How the holders of a key may change: nobody comes in while the key is   *)
(* claimed, and its claim is deleted by one who leaves, or expires.        *)
Kept(k) ==
    /\ Holders(k)' \subseteq Holders(k) /\ (k \in claims => k \in claims')
    /\ expiries'[k] = expiries[k]
Entered(k) ==
    /\ \E r \in Requests : Holders(k)' = Holders(k) \union {r}
    /\ k \notin claims /\ k \in claims' /\ expiries'[k] = expiries[k]
Left(k) ==
    /\ \E r \in Holders(k) : Holders(k)' = Holders(k) \ {r}
    /\ expiries'[k] = expiries[k]
Expired(k) ==
    /\ Holders(k)' = Holders(k)
    /\ \/ Holders(k) = {} /\ expiries'[k] = expiries[k]
       \/ expiries'[k] = expiries[k] + 1

LEMMA HoldersStep ==
    ASSUME TypeOK, PlaceInv, [Next]_vars, NEW k \in Keys
    PROVE  Kept(k) \/ Entered(k) \/ Left(k) \/ Expired(k)
<1> DEFINE Goal == Kept(k) \/ Entered(k) \/ Left(k) \/ Expired(k)
<1> USE KeysOf DEF TypeOK, PlaceInv, Holders, Holding, Kept, Entered, Left, Expired,
            database, redis, auxiliary, Ended, Pipeline, Window
<1>1. ASSUME NEW r \in Requests, Arrive(r) PROVE Goal
  BY <1>1 DEF Arrive, Goto
<1>2. ASSUME NEW r \in Requests, GetCached(r) PROVE Goal
  BY <1>2 DEF GetCached, Goto
<1>3. ASSUME NEW r \in Requests, Claim(r) PROVE Goal
  BY <1>3 DEF Claim, Goto
<1>4. ASSUME NEW r \in Requests, RedisFails(r) PROVE Goal
  BY <1>4 DEF RedisFails, Goto
<1>5. ASSUME NEW r \in Requests, DedupeFind(r) PROVE Goal
  BY <1>5 DEF DedupeFind, Goto, Leave, AfterKyc
<1>6. ASSUME NEW r \in Requests, CreateApplicant(r) PROVE Goal
  BY <1>6 DEF CreateApplicant, Goto, Leave, AfterKyc
<1>7. ASSUME NEW r \in Requests, CreateApplication(r) PROVE Goal
  BY <1>7 DEF CreateApplication, Goto
<1>8. ASSUME NEW r \in Requests, RunStages(r) PROVE Goal
  BY <1>8 DEF RunStages, Goto
<1>9. ASSUME NEW r \in Requests, SubmitFails(r) PROVE Goal
  BY <1>9 DEF SubmitFails, Goto, Leave
<1>10. ASSUME NEW r \in Requests, Persist(r) PROVE Goal
  BY <1>10 DEF Persist, Goto
<1>11. ASSUME NEW r \in Requests, PersistUnacknowledged(r) PROVE Goal
  BY <1>11 DEF PersistUnacknowledged, Goto, Leave, Expose
<1>12. ASSUME NEW r \in Requests, PutCache(r) PROVE Goal
  BY <1>12 DEF PutCache, Goto
<1>13. ASSUME NEW r \in Requests, PutFails(r) PROVE Goal
  BY <1>13 DEF PutFails, Goto, Expose
<1>14. ASSUME NEW r \in Requests, ReleaseClaim(r) PROVE Goal
  BY <1>14 DEF ReleaseClaim, Goto
<1>15. ASSUME NEW r \in Requests, ReleaseFails(r) PROVE Goal
  BY <1>15 DEF ReleaseFails, Goto
<1>16. ASSUME NEW r \in Requests, Crash(r) PROVE Goal
  BY <1>16 DEF Crash, Goto, Expose
<1>17. ASSUME NEW l \in Keys, ExpireClaim(l) PROVE Goal
  BY <1>17 DEF ExpireClaim
<1>18. CASE UNCHANGED vars
  BY <1>18 DEF vars
<1> QED
  BY <1>1, <1>2, <1>3, <1>4, <1>5, <1>6, <1>7, <1>8, <1>9,
     <1>10, <1>11, <1>12, <1>13, <1>14, <1>15, <1>16, <1>17, <1>18 DEF Next, Handle

LEMMA ClaimStep == TypeOK /\ PlaceInv /\ ClaimInv /\ [Next]_vars => ClaimInv'
<1> SUFFICES ASSUME TypeOK, PlaceInv, ClaimInv, [Next]_vars, NEW k \in Keys
             PROVE  Cardinality(Holders(k)') <= (IF k \in claims' THEN 1 ELSE 0) + expiries'[k]
  BY DEF ClaimInv
<1> DEFINE H == Holders(k)
           H1 == Holders(k)'
<1>1. /\ IsFiniteSet(H) /\ Cardinality(H) \in Nat
      /\ IsFiniteSet(H1) /\ Cardinality(H1) \in Nat
      /\ expiries[k] \in Nat
      /\ Cardinality(H) <= (IF k \in claims THEN 1 ELSE 0) + expiries[k]
  <2>1. H \in SUBSET Requests /\ H1 \in SUBSET Requests
    BY DEF Holders
  <2> HIDE DEF H, H1
  <2>2. IsFiniteSet(H) /\ Cardinality(H) \in Nat /\ IsFiniteSet(H1) /\ Cardinality(H1) \in Nat
    BY <2>1, Count
  <2> QED BY <2>2 DEF H, TypeOK, ClaimInv
<1>2. Kept(k) \/ Entered(k) \/ Left(k) \/ Expired(k)
  BY HoldersStep
<1>3. CASE Kept(k)
  <2>1. H1 \in SUBSET H
    BY <1>3 DEF Kept
  <2> HIDE DEF H, H1
  <2>2. Cardinality(H1) <= Cardinality(H)
    BY <1>1, <2>1, FS_Subset
  <2> QED BY <1>1, <1>3, <2>2 DEF Kept, H1
<1>4. CASE Entered(k)
  <2>1. PICK r \in Requests : H1 = H \union {r}
    BY <1>4 DEF Entered
  <2> HIDE DEF H, H1
  <2>2. Cardinality(H1) <= Cardinality(H) + 1
    BY <1>1, <2>1, FS_AddElement
  <2> QED BY <1>1, <1>4, <2>2 DEF Entered, H1
<1>5. CASE Left(k)
  <2>1. PICK r \in H : H1 = H \ {r}
    BY <1>5 DEF Left
  <2> HIDE DEF H, H1
  <2>2. Cardinality(H1) = Cardinality(H) - 1
    BY <1>1, <2>1, FS_RemoveElement
  <2> QED BY <1>1, <1>5, <2>2 DEF Left, H1
<1>6. CASE Expired(k)
  <2>1. H1 = H
    BY <1>6 DEF Expired
  <2> HIDE DEF H, H1
  <2>2. H1 = {} => Cardinality(H1) = 0
    BY FS_EmptySet
  <2> QED BY <1>1, <1>6, <2>1, <2>2 DEF Expired, H, H1
<1> QED BY <1>2, <1>3, <1>4, <1>5, <1>6

(* Rows keep referring to an applicant row of the same person. *)
LEMMA OwnerStep == TypeOK /\ PlaceInv /\ OwnerInv /\ [Next]_vars => OwnerInv'
<1> SUFFICES ASSUME TypeOK, PlaceInv, OwnerInv, [Next]_vars PROVE OwnerInv'
  OBVIOUS
<1> USE DEF TypeOK, PlaceInv, OwnerInv, database, redis, auxiliary, Ended, Pipeline, Window
<1>1. ASSUME NEW r \in Requests, Arrive(r) PROVE OwnerInv'
  BY <1>1 DEF Arrive, Goto
<1>2. ASSUME NEW r \in Requests, GetCached(r) PROVE OwnerInv'
  BY <1>2 DEF GetCached, Goto
<1>3. ASSUME NEW r \in Requests, Claim(r) PROVE OwnerInv'
  BY <1>3 DEF Claim, Goto
<1>4. ASSUME NEW r \in Requests, RedisFails(r) PROVE OwnerInv'
  BY <1>4 DEF RedisFails, Goto
<1>5. ASSUME NEW r \in Requests, DedupeFind(r) PROVE OwnerInv'
  BY <1>5 DEF DedupeFind, Goto, Leave, AfterKyc
<1>6. ASSUME NEW r \in Requests, CreateApplicant(r) PROVE OwnerInv'
  BY <1>6 DEF CreateApplicant, Goto, Leave, AfterKyc
<1>7. ASSUME NEW r \in Requests, CreateApplication(r) PROVE OwnerInv'
  BY <1>7 DEF CreateApplication, Goto
<1>8. ASSUME NEW r \in Requests, RunStages(r) PROVE OwnerInv'
  BY <1>8 DEF RunStages, Goto
<1>9. ASSUME NEW r \in Requests, SubmitFails(r) PROVE OwnerInv'
  BY <1>9 DEF SubmitFails, Goto, Leave
<1>10. ASSUME NEW r \in Requests, Persist(r) PROVE OwnerInv'
  BY <1>10 DEF Persist, Goto
<1>11. ASSUME NEW r \in Requests, PersistUnacknowledged(r) PROVE OwnerInv'
  BY <1>11 DEF PersistUnacknowledged, Goto, Leave, Expose
<1>12. ASSUME NEW r \in Requests, PutCache(r) PROVE OwnerInv'
  BY <1>12 DEF PutCache, Goto
<1>13. ASSUME NEW r \in Requests, PutFails(r) PROVE OwnerInv'
  BY <1>13 DEF PutFails, Goto, Expose
<1>14. ASSUME NEW r \in Requests, ReleaseClaim(r) PROVE OwnerInv'
  BY <1>14 DEF ReleaseClaim, Goto
<1>15. ASSUME NEW r \in Requests, ReleaseFails(r) PROVE OwnerInv'
  BY <1>15 DEF ReleaseFails, Goto
<1>16. ASSUME NEW r \in Requests, Crash(r) PROVE OwnerInv'
  BY <1>16 DEF Crash, Goto, Expose
<1>17. ASSUME NEW k \in Keys, ExpireClaim(k) PROVE OwnerInv'
  BY <1>17 DEF ExpireClaim
<1>18. CASE UNCHANGED vars
  BY <1>18 DEF vars
<1> QED
  BY <1>1, <1>2, <1>3, <1>4, <1>5, <1>6, <1>7, <1>8, <1>9,
     <1>10, <1>11, <1>12, <1>13, <1>14, <1>15, <1>16, <1>17, <1>18 DEF Next, Handle

(* A window that overlapped no other keeps what its query found. *)
LEMMA WindowStep ==
    TypeOK /\ PlaceInv /\ OwnerInv /\ WindowInv /\ DedupeWithoutOverlap /\ [Next]_vars
    => WindowInv'
<1> SUFFICES ASSUME TypeOK, PlaceInv, OwnerInv, WindowInv, DedupeWithoutOverlap, [Next]_vars
             PROVE  WindowInv'
  OBVIOUS
<1> USE PersonsOf
    DEF TypeOK, PlaceInv, OwnerInv, WindowInv, DedupeWithoutOverlap, Open,
        database, redis, auxiliary, Ended, Pipeline, Window
<1>1. ASSUME NEW r \in Requests, Arrive(r) PROVE WindowInv'
  BY <1>1 DEF Arrive, Goto
<1>2. ASSUME NEW r \in Requests, GetCached(r) PROVE WindowInv'
  BY <1>2 DEF GetCached, Goto
<1>3. ASSUME NEW r \in Requests, Claim(r) PROVE WindowInv'
  BY <1>3 DEF Claim, Goto
<1>4. ASSUME NEW r \in Requests, RedisFails(r) PROVE WindowInv'
  BY <1>4 DEF RedisFails, Goto
<1>5. ASSUME NEW r \in Requests, DedupeFind(r) PROVE WindowInv'
  BY <1>5 DEF DedupeFind, Goto, Leave, AfterKyc
<1>6. ASSUME NEW r \in Requests, CreateApplicant(r) PROVE WindowInv'
  BY <1>6 DEF CreateApplicant, Goto, Leave, AfterKyc
<1>7. ASSUME NEW r \in Requests, CreateApplication(r) PROVE WindowInv'
  BY <1>7 DEF CreateApplication, Goto
<1>8. ASSUME NEW r \in Requests, RunStages(r) PROVE WindowInv'
  BY <1>8 DEF RunStages, Goto
<1>9. ASSUME NEW r \in Requests, SubmitFails(r) PROVE WindowInv'
  BY <1>9 DEF SubmitFails, Goto, Leave
<1>10. ASSUME NEW r \in Requests, Persist(r) PROVE WindowInv'
  BY <1>10 DEF Persist, Goto
<1>11. ASSUME NEW r \in Requests, PersistUnacknowledged(r) PROVE WindowInv'
  BY <1>11 DEF PersistUnacknowledged, Goto, Leave, Expose
<1>12. ASSUME NEW r \in Requests, PutCache(r) PROVE WindowInv'
  BY <1>12 DEF PutCache, Goto
<1>13. ASSUME NEW r \in Requests, PutFails(r) PROVE WindowInv'
  BY <1>13 DEF PutFails, Goto, Expose
<1>14. ASSUME NEW r \in Requests, ReleaseClaim(r) PROVE WindowInv'
  BY <1>14 DEF ReleaseClaim, Goto
<1>15. ASSUME NEW r \in Requests, ReleaseFails(r) PROVE WindowInv'
  BY <1>15 DEF ReleaseFails, Goto
<1>16. ASSUME NEW r \in Requests, Crash(r) PROVE WindowInv'
  BY <1>16 DEF Crash, Goto, Expose
<1>17. ASSUME NEW k \in Keys, ExpireClaim(k) PROVE WindowInv'
  BY <1>17 DEF ExpireClaim
<1>18. CASE UNCHANGED vars
  BY <1>18 DEF vars
<1> QED
  BY <1>1, <1>2, <1>3, <1>4, <1>5, <1>6, <1>7, <1>8, <1>9,
     <1>10, <1>11, <1>12, <1>13, <1>14, <1>15, <1>16, <1>17, <1>18 DEF Next, Handle

(* One applicant row and one open application, per person without overlap. *)
LEMMA DedupeStep ==
    TypeOK /\ PlaceInv /\ OwnerInv /\ WindowInv /\ DedupeWithoutOverlap /\ [Next]_vars
    => DedupeWithoutOverlap'
<1> SUFFICES ASSUME TypeOK, PlaceInv, OwnerInv, WindowInv, DedupeWithoutOverlap, [Next]_vars
             PROVE  DedupeWithoutOverlap'
  OBVIOUS
<1> USE PersonsOf
    DEF TypeOK, PlaceInv, OwnerInv, WindowInv, DedupeWithoutOverlap, Open,
        database, redis, auxiliary, Ended, Pipeline, Window
<1>1. ASSUME NEW r \in Requests, Arrive(r) PROVE DedupeWithoutOverlap'
  BY <1>1 DEF Arrive, Goto
<1>2. ASSUME NEW r \in Requests, GetCached(r) PROVE DedupeWithoutOverlap'
  BY <1>2 DEF GetCached, Goto
<1>3. ASSUME NEW r \in Requests, Claim(r) PROVE DedupeWithoutOverlap'
  BY <1>3 DEF Claim, Goto
<1>4. ASSUME NEW r \in Requests, RedisFails(r) PROVE DedupeWithoutOverlap'
  BY <1>4 DEF RedisFails, Goto
<1>5. ASSUME NEW r \in Requests, DedupeFind(r) PROVE DedupeWithoutOverlap'
  BY <1>5 DEF DedupeFind, Goto, Leave, AfterKyc
<1>6. ASSUME NEW r \in Requests, CreateApplicant(r) PROVE DedupeWithoutOverlap'
  BY <1>6 DEF CreateApplicant, Goto, Leave, AfterKyc
<1>7. ASSUME NEW r \in Requests, CreateApplication(r) PROVE DedupeWithoutOverlap'
  BY <1>7 DEF CreateApplication, Goto
<1>8. ASSUME NEW r \in Requests, RunStages(r) PROVE DedupeWithoutOverlap'
  BY <1>8 DEF RunStages, Goto
<1>9. ASSUME NEW r \in Requests, SubmitFails(r) PROVE DedupeWithoutOverlap'
  BY <1>9 DEF SubmitFails, Goto, Leave
<1>10. ASSUME NEW r \in Requests, Persist(r) PROVE DedupeWithoutOverlap'
  BY <1>10 DEF Persist, Goto
<1>11. ASSUME NEW r \in Requests, PersistUnacknowledged(r) PROVE DedupeWithoutOverlap'
  BY <1>11 DEF PersistUnacknowledged, Goto, Leave, Expose
<1>12. ASSUME NEW r \in Requests, PutCache(r) PROVE DedupeWithoutOverlap'
  BY <1>12 DEF PutCache, Goto
<1>13. ASSUME NEW r \in Requests, PutFails(r) PROVE DedupeWithoutOverlap'
  BY <1>13 DEF PutFails, Goto, Expose
<1>14. ASSUME NEW r \in Requests, ReleaseClaim(r) PROVE DedupeWithoutOverlap'
  BY <1>14 DEF ReleaseClaim, Goto
<1>15. ASSUME NEW r \in Requests, ReleaseFails(r) PROVE DedupeWithoutOverlap'
  BY <1>15 DEF ReleaseFails, Goto
<1>16. ASSUME NEW r \in Requests, Crash(r) PROVE DedupeWithoutOverlap'
  BY <1>16 DEF Crash, Goto, Expose
<1>17. ASSUME NEW k \in Keys, ExpireClaim(k) PROVE DedupeWithoutOverlap'
  BY <1>17 DEF ExpireClaim
<1>18. CASE UNCHANGED vars
  BY <1>18 DEF vars
<1> QED
  BY <1>1, <1>2, <1>3, <1>4, <1>5, <1>6, <1>7, <1>8, <1>9,
     <1>10, <1>11, <1>12, <1>13, <1>14, <1>15, <1>16, <1>17, <1>18 DEF Next, Handle

(* What was answered and what is cached stays DECIDED. *)
LEMMA AnswerStep ==
    TypeOK /\ PlaceInv /\ AnswersAreDurable /\ [Next]_vars => AnswersAreDurable'
<1> SUFFICES ASSUME TypeOK, PlaceInv, AnswersAreDurable, [Next]_vars
             PROVE  AnswersAreDurable'
  OBVIOUS
<1> USE KeysOf DEF TypeOK, PlaceInv, AnswersAreDurable,
        database, redis, auxiliary, Ended, Pipeline, Window
<1>1. ASSUME NEW r \in Requests, Arrive(r) PROVE AnswersAreDurable'
  BY <1>1 DEF Arrive, Goto
<1>2. ASSUME NEW r \in Requests, GetCached(r) PROVE AnswersAreDurable'
  BY <1>2 DEF GetCached, Goto
<1>3. ASSUME NEW r \in Requests, Claim(r) PROVE AnswersAreDurable'
  BY <1>3 DEF Claim, Goto
<1>4. ASSUME NEW r \in Requests, RedisFails(r) PROVE AnswersAreDurable'
  BY <1>4 DEF RedisFails, Goto
<1>5. ASSUME NEW r \in Requests, DedupeFind(r) PROVE AnswersAreDurable'
  BY <1>5 DEF DedupeFind, Goto, Leave, AfterKyc
<1>6. ASSUME NEW r \in Requests, CreateApplicant(r) PROVE AnswersAreDurable'
  BY <1>6 DEF CreateApplicant, Goto, Leave, AfterKyc
<1>7. ASSUME NEW r \in Requests, CreateApplication(r) PROVE AnswersAreDurable'
  BY <1>7 DEF CreateApplication, Goto
<1>8. ASSUME NEW r \in Requests, RunStages(r) PROVE AnswersAreDurable'
  BY <1>8 DEF RunStages, Goto
<1>9. ASSUME NEW r \in Requests, SubmitFails(r) PROVE AnswersAreDurable'
  BY <1>9 DEF SubmitFails, Goto, Leave
<1>10. ASSUME NEW r \in Requests, Persist(r) PROVE AnswersAreDurable'
  BY <1>10 DEF Persist, Goto
<1>11. ASSUME NEW r \in Requests, PersistUnacknowledged(r) PROVE AnswersAreDurable'
  BY <1>11 DEF PersistUnacknowledged, Goto, Leave, Expose
<1>12. ASSUME NEW r \in Requests, PutCache(r) PROVE AnswersAreDurable'
  BY <1>12 DEF PutCache, Goto
<1>13. ASSUME NEW r \in Requests, PutFails(r) PROVE AnswersAreDurable'
  BY <1>13 DEF PutFails, Goto, Expose
<1>14. ASSUME NEW r \in Requests, ReleaseClaim(r) PROVE AnswersAreDurable'
  BY <1>14 DEF ReleaseClaim, Goto
<1>15. ASSUME NEW r \in Requests, ReleaseFails(r) PROVE AnswersAreDurable'
  BY <1>15 DEF ReleaseFails, Goto
<1>16. ASSUME NEW r \in Requests, Crash(r) PROVE AnswersAreDurable'
  BY <1>16 DEF Crash, Goto, Expose
<1>17. ASSUME NEW k \in Keys, ExpireClaim(k) PROVE AnswersAreDurable'
  BY <1>17 DEF ExpireClaim
<1>18. CASE UNCHANGED vars
  BY <1>18 DEF vars
<1> QED
  BY <1>1, <1>2, <1>3, <1>4, <1>5, <1>6, <1>7, <1>8, <1>9,
     <1>10, <1>11, <1>12, <1>13, <1>14, <1>15, <1>16, <1>17, <1>18 DEF Next, Handle

(* A commit under a key is in the cache, or about to be put there. *)
LEMMA PutStep == TypeOK /\ PlaceInv /\ PutInv /\ [Next]_vars => PutInv'
<1> SUFFICES ASSUME TypeOK, PlaceInv, PutInv, [Next]_vars PROVE PutInv'
  OBVIOUS
<1> USE KeysOf DEF TypeOK, PlaceInv, PutInv, Loans,
            database, redis, auxiliary, Ended, Pipeline, Window
<1>1. ASSUME NEW r \in Requests, Arrive(r) PROVE PutInv'
  BY <1>1 DEF Arrive, Goto
<1>2. ASSUME NEW r \in Requests, GetCached(r) PROVE PutInv'
  BY <1>2 DEF GetCached, Goto
<1>3. ASSUME NEW r \in Requests, Claim(r) PROVE PutInv'
  BY <1>3 DEF Claim, Goto
<1>4. ASSUME NEW r \in Requests, RedisFails(r) PROVE PutInv'
  BY <1>4 DEF RedisFails, Goto
<1>5. ASSUME NEW r \in Requests, DedupeFind(r) PROVE PutInv'
  BY <1>5 DEF DedupeFind, Goto, Leave, AfterKyc
<1>6. ASSUME NEW r \in Requests, CreateApplicant(r) PROVE PutInv'
  BY <1>6 DEF CreateApplicant, Goto, Leave, AfterKyc
<1>7. ASSUME NEW r \in Requests, CreateApplication(r) PROVE PutInv'
  BY <1>7 DEF CreateApplication, Goto
<1>8. ASSUME NEW r \in Requests, RunStages(r) PROVE PutInv'
  BY <1>8 DEF RunStages, Goto
<1>9. ASSUME NEW r \in Requests, SubmitFails(r) PROVE PutInv'
  BY <1>9 DEF SubmitFails, Goto, Leave
<1>10. ASSUME NEW r \in Requests, Persist(r) PROVE PutInv'
  BY <1>10 DEF Persist, Goto
<1>11. ASSUME NEW r \in Requests, PersistUnacknowledged(r) PROVE PutInv'
  BY <1>11 DEF PersistUnacknowledged, Goto, Leave, Expose
<1>12. ASSUME NEW r \in Requests, PutCache(r) PROVE PutInv'
  BY <1>12 DEF PutCache, Goto
<1>13. ASSUME NEW r \in Requests, PutFails(r) PROVE PutInv'
  BY <1>13 DEF PutFails, Goto, Expose
<1>14. ASSUME NEW r \in Requests, ReleaseClaim(r) PROVE PutInv'
  BY <1>14 DEF ReleaseClaim, Goto
<1>15. ASSUME NEW r \in Requests, ReleaseFails(r) PROVE PutInv'
  BY <1>15 DEF ReleaseFails, Goto
<1>16. ASSUME NEW r \in Requests, Crash(r) PROVE PutInv'
  BY <1>16 DEF Crash, Goto, Expose
<1>17. ASSUME NEW l \in Keys, ExpireClaim(l) PROVE PutInv'
  BY <1>17 DEF ExpireClaim
<1>18. CASE UNCHANGED vars
  BY <1>18 DEF vars
<1> QED
  BY <1>1, <1>2, <1>3, <1>4, <1>5, <1>6, <1>7, <1>8, <1>9,
     <1>10, <1>11, <1>12, <1>13, <1>14, <1>15, <1>16, <1>17, <1>18 DEF Next, Handle

(* Whoever may still make a loan of a key was let in before its first put. *)
LEMMA TakersStep ==
    ASSUME TypeOK, PlaceInv, PutInv, [Next]_vars, NEW k \in Keys, k \notin exposed'
    PROVE  /\ k \notin exposed
           /\ expiries'[k] \in {expiries[k], expiries[k] + 1}
           /\ Takers(k)' \subseteq Takers(k) \/ Takers(k)' \subseteq Holders(k)'
<1> DEFINE Goal == /\ k \notin exposed
                   /\ expiries'[k] \in {expiries[k], expiries[k] + 1}
                   /\ Takers(k)' \subseteq Takers(k) \/ Takers(k)' \subseteq Holders(k)'
<1> USE KeysOf DEF TypeOK, PlaceInv, PutInv, Takers, Loans, Holders, Holding,
            database, redis, auxiliary, Ended, Pipeline, Window
<1>1. ASSUME NEW r \in Requests, Arrive(r) PROVE Goal
  BY <1>1 DEF Arrive, Goto
<1>2. ASSUME NEW r \in Requests, GetCached(r) PROVE Goal
  BY <1>2 DEF GetCached, Goto
<1>3. ASSUME NEW r \in Requests, Claim(r) PROVE Goal
  BY <1>3 DEF Claim, Goto
<1>4. ASSUME NEW r \in Requests, RedisFails(r) PROVE Goal
  BY <1>4 DEF RedisFails, Goto
<1>5. ASSUME NEW r \in Requests, DedupeFind(r) PROVE Goal
  BY <1>5 DEF DedupeFind, Goto, Leave, AfterKyc
<1>6. ASSUME NEW r \in Requests, CreateApplicant(r) PROVE Goal
  BY <1>6 DEF CreateApplicant, Goto, Leave, AfterKyc
<1>7. ASSUME NEW r \in Requests, CreateApplication(r) PROVE Goal
  BY <1>7 DEF CreateApplication, Goto
<1>8. ASSUME NEW r \in Requests, RunStages(r) PROVE Goal
  BY <1>8 DEF RunStages, Goto
<1>9. ASSUME NEW r \in Requests, SubmitFails(r) PROVE Goal
  BY <1>9 DEF SubmitFails, Goto, Leave
<1>10. ASSUME NEW r \in Requests, Persist(r) PROVE Goal
  BY <1>10 DEF Persist, Goto
<1>11. ASSUME NEW r \in Requests, PersistUnacknowledged(r) PROVE Goal
  BY <1>11 DEF PersistUnacknowledged, Goto, Leave, Expose
<1>12. ASSUME NEW r \in Requests, PutCache(r) PROVE Goal
  BY <1>12 DEF PutCache, Goto
<1>13. ASSUME NEW r \in Requests, PutFails(r) PROVE Goal
  BY <1>13 DEF PutFails, Goto, Expose
<1>14. ASSUME NEW r \in Requests, ReleaseClaim(r) PROVE Goal
  BY <1>14 DEF ReleaseClaim, Goto
<1>15. ASSUME NEW r \in Requests, ReleaseFails(r) PROVE Goal
  BY <1>15 DEF ReleaseFails, Goto
<1>16. ASSUME NEW r \in Requests, Crash(r) PROVE Goal
  BY <1>16 DEF Crash, Goto, Expose
<1>17. ASSUME NEW l \in Keys, ExpireClaim(l) PROVE Goal
  BY <1>17 DEF ExpireClaim
<1>18. CASE UNCHANGED vars
  BY <1>18 DEF vars
<1> QED
  BY <1>1, <1>2, <1>3, <1>4, <1>5, <1>6, <1>7, <1>8, <1>9,
     <1>10, <1>11, <1>12, <1>13, <1>14, <1>15, <1>16, <1>17, <1>18 DEF Next, Handle

LEMMA TakerStep ==
    TypeOK /\ PlaceInv /\ PutInv /\ TakerInv /\ ClaimInv' /\ TypeOK' /\ [Next]_vars => TakerInv'
<1> SUFFICES ASSUME TypeOK, PlaceInv, PutInv, TakerInv, ClaimInv', TypeOK', [Next]_vars,
                    NEW k \in Keys, k \notin exposed'
             PROVE  Cardinality(Takers(k)') <= 1 + expiries'[k]
  BY DEF TakerInv
<1> DEFINE T == Takers(k)
           T1 == Takers(k)'
           H1 == Holders(k)'
<1>1. /\ T \in SUBSET Requests /\ T1 \in SUBSET Requests /\ H1 \in SUBSET Requests
      /\ expiries[k] \in Nat /\ expiries'[k] \in Nat
  BY DEF Takers, Loans, Holders, TypeOK
<1>2. /\ k \notin exposed /\ expiries'[k] \in {expiries[k], expiries[k] + 1}
      /\ T1 \subseteq T \/ T1 \subseteq H1
  BY TakersStep
<1>3. Cardinality(T) <= 1 + expiries[k]
  BY <1>2 DEF TakerInv
<1>4. Cardinality(H1) <= (IF k \in claims' THEN 1 ELSE 0) + expiries'[k]
  BY DEF ClaimInv
<1> HIDE DEF T, T1, H1
<1>5. /\ IsFiniteSet(T) /\ Cardinality(T) \in Nat /\ Cardinality(T1) \in Nat
      /\ IsFiniteSet(H1) /\ Cardinality(H1) \in Nat
  BY <1>1, Count
<1>6. CASE T1 \subseteq T
  <2>1. Cardinality(T1) <= Cardinality(T)
    BY <1>5, <1>6, FS_Subset
  <2> QED BY <1>1, <1>2, <1>3, <1>5, <2>1 DEF T1
<1>7. CASE T1 \subseteq H1
  <2>1. Cardinality(T1) <= Cardinality(H1)
    BY <1>5, <1>7, FS_Subset
  <2> QED BY <1>1, <1>4, <1>5, <2>1 DEF T1
<1> QED BY <1>2, <1>6, <1>7

-----------------------------------------------------------------------------
(* Everything together. *)
SubmissionInv ==
    /\ TypeOK
    /\ PlaceInv
    /\ OwnerInv
    /\ WindowInv
    /\ DedupeWithoutOverlap
    /\ AnswersAreDurable
    /\ ClaimInv
    /\ PutInv
    /\ TakerInv

LEMMA InitInv == Init => SubmissionInv
<1> SUFFICES ASSUME Init PROVE SubmissionInv
  OBVIOUS
<1>1. TypeOK /\ PlaceInv /\ OwnerInv /\ WindowInv /\ DedupeWithoutOverlap /\ AnswersAreDurable
  BY DEF Init, TypeOK, PlaceInv, OwnerInv, WindowInv, Locations, Window,
         DedupeWithoutOverlap, AnswersAreDurable
<1>2. PutInv
  BY DEF Init, PutInv, Loans
<1>3. ASSUME NEW k \in Keys PROVE Holders(k) = {} /\ Takers(k) = {} /\ expiries[k] = 0
  BY DEF Init, Holders, Holding, Takers, Loans, Pipeline, Window
<1>4. Cardinality({}) = 0
  BY FS_EmptySet
<1>5. ASSUME NEW k \in Keys
      PROVE  /\ Cardinality(Holders(k)) <= (IF k \in claims THEN 1 ELSE 0) + expiries[k]
             /\ Cardinality(Takers(k)) <= 1 + expiries[k]
  BY <1>3, <1>4
<1>6. ClaimInv /\ TakerInv
  BY <1>5 DEF ClaimInv, TakerInv
<1> QED BY <1>1, <1>2, <1>6 DEF SubmissionInv

LEMMA SubmissionInductive == Spec => []SubmissionInv
<1>1. SubmissionInv /\ [Next]_vars => SubmissionInv'
  BY TypeStep, PlaceStep, OwnerStep, WindowStep, DedupeStep, AnswerStep, ClaimStep, PutStep,
     TakerStep
     DEF SubmissionInv
<1> QED BY InitInv, <1>1, PTL DEF Spec

(* The stores and the handlers keep their types. *)
THEOREM TypeCorrect == Spec => []TypeOK
BY SubmissionInductive, PTL DEF SubmissionInv

(* One request of a key runs submit at a time, and one more for each time  *)
(* that a claim ran out under its holder: for every number of requests and *)
(* keys, every failure of Redis, and every crash.                          *)
THEOREM ClaimExcludes == Spec => []ClaimExclusion
<1>1. SubmissionInv => ClaimExclusion
  <2> SUFFICES ASSUME SubmissionInv, NEW k \in Keys
               PROVE  Cardinality(Holders(k)) <= 1 + expiries[k]
    BY DEF ClaimExclusion
  <2>1. Holders(k) \in SUBSET Requests /\ expiries[k] \in Nat
    BY DEF Holders, SubmissionInv, TypeOK
  <2>2. Cardinality(Holders(k)) \in Nat
    BY <2>1, Count
  <2>3. Cardinality(Holders(k)) <= (IF k \in claims THEN 1 ELSE 0) + expiries[k]
    BY DEF SubmissionInv, ClaimInv
  <2> QED BY <2>1, <2>2, <2>3
<1> QED BY <1>1, SubmissionInductive, PTL

(* A person whose dedupe windows never overlapped has one applicant row    *)
(* and at most one open application, for every history of submissions.     *)
THEOREM DedupeCorrect == Spec => []DedupeWithoutOverlap
BY SubmissionInductive, PTL DEF SubmissionInv

(* No answer, given or cached, names an application that can be lost.      *)
THEOREM AnswersDurable == Spec => []AnswersAreDurable
BY SubmissionInductive, PTL DEF SubmissionInv

(* One loan per key, and one more for each time that its claim ran out, but *)
(* for the two gaps that expose it, for every number of resends and every  *)
(* failure.                                                                *)
THEOREM OneLoanPerKey == Spec => []LoanPerKey
<1>1. SubmissionInv => LoanPerKey
  <2> SUFFICES ASSUME SubmissionInv, NEW k \in Keys, k \notin exposed
               PROVE  Cardinality(Loans(k)) <= 1 + expiries[k]
    BY DEF LoanPerKey
  <2>1. /\ Takers(k) \in SUBSET Requests /\ Loans(k) \in SUBSET Takers(k)
        /\ expiries[k] \in Nat
    BY DEF Takers, Loans, SubmissionInv, TypeOK
  <2>2. /\ IsFiniteSet(Takers(k)) /\ Cardinality(Takers(k)) \in Nat
        /\ Cardinality(Loans(k)) \in Nat
    BY <2>1, Count
  <2>3. Cardinality(Loans(k)) <= Cardinality(Takers(k))
    BY <2>1, <2>2, FS_Subset
  <2>4. Cardinality(Takers(k)) <= 1 + expiries[k]
    BY DEF SubmissionInv, TakerInv
  <2> QED BY <2>1, <2>2, <2>3, <2>4
<1> QED BY <1>1, SubmissionInductive, PTL
=============================================================================
