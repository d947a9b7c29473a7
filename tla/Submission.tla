----------------------------- MODULE Submission -----------------------------
(***************************************************************************)
(* POST /applications: the idempotency wrapper of ApplicationsController,  *)
(* the deduplication of DedupeService and the order of the effects of      *)
(* ApplicationsService.submit.                                             *)
(*                                                                         *)
(* Each request is a process that runs the handler once.  A step is what   *)
(* happens between two awaits: one command to Redis or one to Postgres     *)
(* with the synchronous code around it.  An application row, and an        *)
(* applicant row, is named by the request that inserts it.                 *)
(***************************************************************************)
EXTENDS Integers, FiniteSets

CONSTANTS
    Requests,       \* the POSTs that clients send
    Person,         \* Person[r]: who applies, the identity that panHash digests
    Key,            \* Key[r]: the Idempotency-Key header, or NoKey
    NoKey,
    KycValid,       \* the persons whose PAN, mobile and date of birth KYC accepts
    NoApplication,  \* stands for the absence of a row or an answer
    Faults,         \* which failures can happen: "stage", "commit", "redis", "crash"
    ClaimsExpire    \* whether the 60 s of a claim may pass under its holder

ASSUME RequestAssumption == IsFiniteSet(Requests) /\ NoApplication \notin Requests
ASSUME FaultAssumption == Faults \subseteq {"stage", "commit", "redis", "crash"}

Persons == {Person[r] : r \in Requests}
Keys == {Key[r] : r \in Requests} \ {NoKey}

VARIABLES
    pc,          \* where the handler of each request is
    owner,       \* owner[r]: the applicant row that r writes its application for
    answer,      \* answer[r]: the application named by the response of r
    applicants,  \* Postgres: the applicant rows
    status,      \* Postgres: status of the application row of each request
    cache,       \* Redis: key -> the application of the cached response
    claims,      \* Redis: the keys whose ":lock" entry exists
    overlapped,  \* auxiliary: persons for whom two dedupe windows overlapped
    exposed,     \* auxiliary: keys claimed on a cache miss gone stale, or whose
                 \* commit was not followed by the put
    expiries     \* auxiliary: how often the claim of a key ran out under a holder

vars == <<pc, owner, answer, applicants, status, cache, claims, overlapped, exposed, expiries>>
database == <<applicants, status>>
redis == <<cache, claims>>
auxiliary == <<overlapped, exposed, expiries>>

\* Between the dedupe query of a request and the insert of its application.
Window == {"newApplicant", "newApplication"}
\* Inside submit.
Pipeline == Window \union {"find", "stages", "persist"}
Ended == {"answered", "rejected", "crashed"}
Locations == Pipeline \union Ended \union {"idle", "get", "claim", "put", "release"}

TypeOK ==
    /\ pc \in [Requests -> Locations]
    /\ owner \in [Requests -> Requests \union {NoApplication}]
    /\ answer \in [Requests -> Requests \union {NoApplication}]
    /\ applicants \subseteq Requests
    /\ status \in [Requests -> {"none", "PROCESSING", "DECIDED"}]
    /\ cache \in [Keys -> Requests \union {NoApplication}]
    /\ claims \subseteq Keys
    /\ overlapped \subseteq Persons
    /\ exposed \subseteq Keys
    /\ expiries \in [Keys -> Nat]

Init ==
    /\ pc = [r \in Requests |-> "idle"]
    /\ owner = [r \in Requests |-> NoApplication]
    /\ answer = [r \in Requests |-> NoApplication]
    /\ applicants = {}
    /\ status = [r \in Requests |-> "none"]
    /\ cache = [k \in Keys |-> NoApplication]
    /\ claims = {}
    /\ overlapped = {}
    /\ exposed = {}
    /\ expiries = [k \in Keys |-> 0]

Goto(r, l) == pc' = [pc EXCEPT ![r] = l]

\* The exception leaves submit: the finally block runs first if a key was claimed.
Leave(r) == Goto(r, IF Key[r] = NoKey THEN "rejected" ELSE "release")

\* The request owns its claim, as it believes.
Holding(r) == Key[r] # NoKey /\ pc[r] \in Pipeline \union {"put", "release"}
Holders(k) == {r \in Requests : Key[r] = k /\ Holding(r)}

\* What the request commits can no longer be found under its key.
Expose(r) == exposed' = exposed \union ({Key[r]} \ {NoKey})

-----------------------------------------------------------------------------
(* ApplicationsController.create up to submit.                             *)

Arrive(r) ==
    /\ pc[r] = "idle"
    /\ Goto(r, IF Key[r] = NoKey THEN "find" ELSE "get")
    /\ UNCHANGED <<owner, answer, database, redis, auxiliary>>

GetCached(r) ==
    /\ pc[r] = "get"
    /\ IF cache[Key[r]] # NoApplication
       THEN /\ answer' = [answer EXCEPT ![r] = cache[Key[r]]]
            /\ Goto(r, "answered")
       ELSE /\ Goto(r, "claim")
            /\ UNCHANGED answer
    /\ UNCHANGED <<owner, database, redis, auxiliary>>

\* Mutant: SET without NX, so that every caller gets the claim.
ClaimAlways(r) ==
    /\ pc[r] = "claim"
    /\ claims' = claims \union {Key[r]}
    /\ Goto(r, "find")
    /\ UNCHANGED <<owner, answer, database, cache, auxiliary>>

\* Mutant: the lock entry is named by the prefix alone, not by the key.
ClaimUnkeyed(r) ==
    /\ pc[r] = "claim"
    /\ claims' = claims \union {NoKey}
    /\ Goto(r, IF NoKey \in claims THEN "rejected" ELSE "find")
    /\ UNCHANGED <<owner, answer, database, cache, auxiliary>>

\* SET NX: the loser is answered 409 outside the try, and releases nothing.
Claim(r) ==
    /\ pc[r] = "claim"
    /\ claims' = claims \union {Key[r]}
    /\ Goto(r, IF Key[r] \in claims THEN "rejected" ELSE "find")
    /\ exposed' = IF Key[r] \notin claims /\ cache[Key[r]] # NoApplication
                  THEN exposed \union {Key[r]} ELSE exposed
    /\ UNCHANGED <<owner, answer, database, cache, overlapped, expiries>>

\* Redis fails a get, or a claim that it may have carried out all the same.
RedisFails(r) ==
    /\ "redis" \in Faults
    /\ \/ pc[r] = "get" /\ UNCHANGED claims
       \/ pc[r] = "claim" /\ claims' \in {claims, claims \union {Key[r]}}
    /\ Goto(r, "rejected")
    /\ UNCHANGED <<owner, answer, database, cache, auxiliary>>

-----------------------------------------------------------------------------
(* submit: DedupeService.run, KycService.run, the Application row.         *)

Open(a) == {q \in Requests : status[q] = "PROCESSING" /\ owner[q] = a}

\* kyc.run follows dedupe without an await, after any applicant row is written.
AfterKyc(r) == IF Person[r] \in KycValid THEN Goto(r, "newApplication") ELSE Leave(r)

\* Mutant: open applications do not stop the submission.
DedupeFindAdmitsAll(r) ==
    /\ pc[r] = "find"
    /\ LET rows == {a \in applicants : Person[a] = Person[r]}
       IN  \/ /\ rows = {}
              /\ Goto(r, "newApplicant")
              /\ UNCHANGED owner
           \/ \E a \in rows : /\ owner' = [owner EXCEPT ![r] = a]
                              /\ AfterKyc(r)
    /\ overlapped' = IF \E q \in Requests \ {r} : Person[q] = Person[r] /\ pc[q] \in Window
                     THEN overlapped \union {Person[r]} ELSE overlapped
    /\ UNCHANGED <<answer, database, redis, exposed, expiries>>

\* findFirst by panHash, which is not unique and not ordered: any of the
\* person's rows, and only the open applications of that row.
DedupeFind(r) ==
    /\ pc[r] = "find"
    /\ LET rows == {a \in applicants : Person[a] = Person[r]}
       IN  \/ /\ rows = {}
              /\ Goto(r, "newApplicant")
              /\ UNCHANGED owner
           \/ \E a \in rows :
                 IF Open(a) # {}
                 THEN Leave(r) /\ UNCHANGED owner
                 ELSE /\ owner' = [owner EXCEPT ![r] = a]
                      /\ AfterKyc(r)
    /\ overlapped' = IF \E q \in Requests \ {r} : Person[q] = Person[r] /\ pc[q] \in Window
                     THEN overlapped \union {Person[r]} ELSE overlapped
    /\ UNCHANGED <<answer, database, redis, exposed, expiries>>

CreateApplicant(r) ==
    /\ pc[r] = "newApplicant"
    /\ applicants' = applicants \union {r}
    /\ owner' = [owner EXCEPT ![r] = r]
    /\ AfterKyc(r)
    /\ UNCHANGED <<answer, status, redis, auxiliary>>

CreateApplication(r) ==
    /\ pc[r] = "newApplication"
    /\ status' = [status EXCEPT ![r] = "PROCESSING"]
    /\ Goto(r, "stages")
    /\ UNCHANGED <<owner, answer, applicants, redis, auxiliary>>

\* Bureau, score, active policy, rules, limit and price: they write nothing here.
RunStages(r) ==
    /\ pc[r] = "stages"
    /\ Goto(r, "persist")
    /\ UNCHANGED <<owner, answer, database, redis, auxiliary>>

\* A stage or a query throws: the scoring service is unreachable, no policy is
\* active, a rule does not evaluate, the transaction is rolled back.  Nothing
\* undoes the rows written so far.
SubmitFails(r) ==
    /\ "stage" \in Faults
    /\ pc[r] \in Pipeline
    /\ Leave(r)
    /\ UNCHANGED <<owner, answer, database, redis, auxiliary>>

-----------------------------------------------------------------------------
(* The PERSIST transaction, the cached response and the release.           *)

\* Mutant: the transaction is not awaited, and rolls back later.
PersistNotAwaited(r) ==
    /\ pc[r] = "persist"
    /\ answer' = [answer EXCEPT ![r] = r]
    /\ Goto(r, IF Key[r] = NoKey THEN "answered" ELSE "put")
    /\ UNCHANGED <<owner, database, redis, auxiliary>>

Persist(r) ==
    /\ pc[r] = "persist"
    /\ status' = [status EXCEPT ![r] = "DECIDED"]
    /\ answer' = [answer EXCEPT ![r] = r]
    /\ Goto(r, IF Key[r] = NoKey THEN "answered" ELSE "put")
    /\ UNCHANGED <<owner, applicants, redis, auxiliary>>

\* The commit takes effect and its acknowledgement is lost.
PersistUnacknowledged(r) ==
    /\ "commit" \in Faults
    /\ pc[r] = "persist"
    /\ status' = [status EXCEPT ![r] = "DECIDED"]
    /\ Leave(r)
    /\ Expose(r)
    /\ UNCHANGED <<owner, answer, applicants, redis, overlapped, expiries>>

\* Mutant: the answer is returned before it is put.
PutCacheSkipped(r) ==
    /\ pc[r] = "put"
    /\ Goto(r, "release")
    /\ UNCHANGED <<owner, answer, database, redis, auxiliary>>

PutCache(r) ==
    /\ pc[r] = "put"
    /\ cache' = [cache EXCEPT ![Key[r]] = answer[r]]
    /\ Goto(r, "release")
    /\ UNCHANGED <<owner, answer, database, claims, auxiliary>>

\* The put throws, carried out or not: the client is not told of the application.
PutFails(r) ==
    /\ "redis" \in Faults
    /\ pc[r] = "put"
    /\ \/ cache' = [cache EXCEPT ![Key[r]] = answer[r]] /\ UNCHANGED exposed
       \/ Expose(r) /\ UNCHANGED cache
    /\ answer' = [answer EXCEPT ![r] = NoApplication]
    /\ Goto(r, "release")
    /\ UNCHANGED <<owner, database, claims, overlapped, expiries>>

\* The finally block: DEL of the claim, whoever holds it by now.
ReleaseClaim(r) ==
    /\ pc[r] = "release"
    /\ claims' = claims \ {Key[r]}
    /\ Goto(r, IF answer[r] = NoApplication THEN "rejected" ELSE "answered")
    /\ UNCHANGED <<owner, answer, database, cache, auxiliary>>

\* DEL fails, carried out or not, and its exception replaces the response.
ReleaseFails(r) ==
    /\ "redis" \in Faults
    /\ pc[r] = "release"
    /\ claims' \in {claims, claims \ {Key[r]}}
    /\ answer' = [answer EXCEPT ![r] = NoApplication]
    /\ Goto(r, "rejected")
    /\ UNCHANGED <<owner, database, cache, auxiliary>>

-----------------------------------------------------------------------------
(* What happens around the handler.                                        *)

\* The process dies in the middle of the request; rows and claim remain.
Crash(r) ==
    /\ "crash" \in Faults
    /\ pc[r] \notin Ended \union {"idle"}
    /\ answer' = [answer EXCEPT ![r] = NoApplication]
    /\ Goto(r, "crashed")
    /\ IF pc[r] = "put" THEN Expose(r) ELSE UNCHANGED exposed
    /\ UNCHANGED <<owner, database, redis, overlapped, expiries>>

\* Mutant: a claim set without EX.
ExpireClaimNever(k) == k \in claims /\ FALSE /\ UNCHANGED vars

\* EX 60.  Unless ClaimsExpire, a handler takes less than that.
ExpireClaim(k) ==
    /\ k \in claims
    /\ claims' = claims \ {k}
    /\ \/ Holders(k) = {} /\ UNCHANGED expiries
       \/ /\ ClaimsExpire /\ Holders(k) # {}
          /\ expiries' = [expiries EXCEPT ![k] = @ + 1]
    /\ UNCHANGED <<pc, owner, answer, database, cache, overlapped, exposed>>

Handle(r) ==
    \/ GetCached(r) \/ Claim(r) \/ RedisFails(r)
    \/ DedupeFind(r) \/ CreateApplicant(r) \/ CreateApplication(r)
    \/ RunStages(r) \/ SubmitFails(r)
    \/ Persist(r) \/ PersistUnacknowledged(r)
    \/ PutCache(r) \/ PutFails(r)
    \/ ReleaseClaim(r) \/ ReleaseFails(r)

Next ==
    \/ \E r \in Requests : Arrive(r) \/ Handle(r) \/ Crash(r)
    \/ \E k \in Keys : ExpireClaim(k)

\* The event loop runs every handler on, and Redis expires what nobody deletes.
Fairness ==
    /\ \A r \in Requests : WF_vars(Handle(r))
    /\ \A k \in Keys : WF_vars(Holders(k) = {} /\ ExpireClaim(k))

Spec == Init /\ [][Next]_vars

FairSpec == Spec /\ Fairness

-----------------------------------------------------------------------------
(* Properties that hold.                                                   *)

(* The claim of idempotency.service.ts:26-27 lets one request of a key run *)
(* submit at a time, and each time that a claim runs out under its holder  *)
(* it lets in one more and no more than one, although the first to release *)
(* deletes the claim of another, and so on from one to the next.  Neither  *)
(* a lost answer of Redis nor a crash lets anyone in.                      *)
ClaimExclusion == \A k \in Keys : Cardinality(Holders(k)) <= 1 + expiries[k]

(* Deduplication does its work for every person whose windows never        *)
(* overlapped: one applicant row, and at most one open application, after  *)
(* any number of failures, crashes and retries.  Overlap within the window *)
(* of applications.service.ts:59-63 is the only way to a second one.       *)
DedupeWithoutOverlap ==
    \A p \in Persons \ overlapped :
        /\ \A a, b \in applicants : Person[a] = p /\ Person[b] = p => a = b
        /\ \A q, r \in Requests :
              /\ Person[q] = p /\ status[q] = "PROCESSING"
              /\ Person[r] = p /\ status[r] = "PROCESSING"
              => q = r

(* A client is never told of an application that a rollback or a crash can *)
(* still take away, nor of one made under another key: what is answered,   *)
(* and what is cached to be answered again, is DECIDED in the database.    *)
AnswersAreDurable ==
    /\ \A r \in Requests :
          answer[r] # NoApplication =>
              /\ status[answer[r]] = "DECIDED"
              /\ Key[answer[r]] = Key[r]
    /\ \A k \in Keys :
          cache[k] # NoApplication =>
              /\ status[cache[k]] = "DECIDED"
              /\ Key[cache[k]] = k

(* No claim stays for good, so no key is refused with 409 for ever: the    *)
(* finally block or the expiry removes it, a crash notwithstanding.        *)
ClaimsEnd == \A k \in Keys : []<>(k \notin claims)

(* One loan per key, whatever is sent again and whatever fails, and one    *)
(* more for each time that its claim ran out under a holder, but for the   *)
(* two gaps of create: the cache is not looked at again once the key is    *)
(* claimed, and the put comes after the commit.                            *)
Loans(k) == {r \in Requests : Key[r] = k /\ status[r] = "DECIDED"}
LoanPerKey == \A k \in Keys \ exposed : Cardinality(Loans(k)) <= 1 + expiries[k]

-----------------------------------------------------------------------------
(* Properties that the comments promise and the code does not keep.        *)

(* idempotency.service.ts:8-9: "A mobile client retrying POST /applications *)
(* on a flaky network must not create a second loan".  A resend that looks *)
(* at the cache before the first answer is put, and claims the key after   *)
(* the first request has released it, does.                                *)
NoSecondLoan ==
    \A q, r \in Requests :
        /\ Key[q] = Key[r] /\ Key[r] # NoKey
        /\ status[q] = "DECIDED" /\ status[r] = "DECIDED"
        => q = r

(* dedupe.service.ts:12: an open application is "one still in flight".  A  *)
(* submission that fails after its row is written leaves the row open, and *)
(* deduplication then refuses the person for ever.                         *)
OpenIsInFlight ==
    \A r \in Requests : status[r] = "PROCESSING" => pc[r] \in Pipeline
=============================================================================
