---------------------------- MODULE ConsoleProofs ----------------------------
(***************************************************************************)
(* The four pages of the console, for any number of decisions, versions    *)
(* and requests under way, whatever order the answers come in: each page   *)
(* ends up showing what was asked for, and a case never goes back.         *)
(*                                                                         *)
(* Page by page, what is inductive says which requests may be under way    *)
(* together and what the one to be answered last will bring.               *)
(***************************************************************************)
EXTENDS Console, FiniteSetTheorems, TLAPS

OutcomeSet == {"none", "APPROVE", "REFER", "DECLINE"}
Policies == [Versions -> [status : {"none", "DRAFT", "ACTIVE", "RETIRED"},
                          rules : RuleTexts \union {"none"}]]
Totals == {Cardinality(S) : S \in SUBSET Decisions} \union {0}

RequestRecords ==
    [call : {"queue", "dashboard", "application", "replay", "override", "policies", "simulate",
             "create", "activate"},
     arg : Filters \union Overrides \union Versions,
     state : {"sent", "found", "counted", "checked", "served", "rejected"},
     asked : Nat, rules : RuleTexts \union {"none"}, rows : SUBSET Decisions, total : Totals,
     result : OutcomeSet \union {"matches", "diverged"} \union Policies]

(* The requests that a page sends, and the state that it has. *)
CallsOf(p) ==
    IF p = "case" THEN {"application", "replay", "override"}
    ELSE IF p = "policy" THEN {"policies", "simulate", "create", "activate"} ELSE {p}

DataRecords == [filter : Filters \union Overrides \union Versions \union {"none"},
                rows : SUBSET Decisions, total : Totals, asked : Nat]

UiOf(p) ==
    IF p = "case"
    THEN [shown : OutcomeSet \union {"nothing"}, asked : Nat, error : BOOLEAN,
          replay : OutcomeSet \union {"matches", "diverged", "error"} \union Policies,
          replaying : BOOLEAN, submitting : BOOLEAN, formError : BOOLEAN,
          overtaken : BOOLEAN, lost : BOOLEAN]
    ELSE IF p = "policy"
    THEN [list : Policies, rules : RuleTexts \union {"none"},
          simulated : RuleTexts \union {"none"}, busy : {"no", "simulate", "save", "activate"},
          error : BOOLEAN, overtaken : BOOLEAN, lost : BOOLEAN]
    ELSE [filter : Filters, data : DataRecords, loading : BOOLEAN, error : BOOLEAN,
          overtaken : BOOLEAN, lost : BOOLEAN]

(* What a request of each call can be like. *)
Fits(r) ==
    /\ r.call = "override" => r.arg \in Overrides
    /\ r.call = "application" => r.result \in OutcomeSet
    /\ r.call = "policies" /\ r.state = "served" => r.result \in Policies
    /\ r.call \in {"application", "policies", "simulate"} => r.state \in {"sent", "served"}

TypeInv ==
    /\ TypeOK
    /\ requests \in Seq(RequestRecords)
    /\ changes \in Nat
    /\ ui \in UiOf(page)
    /\ \A n \in DOMAIN requests : requests[n].call \in CallsOf(page) /\ Fits(requests[n])

-----------------------------------------------------------------------------
(* What is inductive, page by page.                                        *)

(* Matching, of given outcomes. *)
MatchingIn(o, f) == {d \in Decisions : o[d] # "none" /\ (f = "" \/ o[d] = f)}

(* What has been read for a request of the queue or the dashboard is what  *)
(* matches, unless somebody decided after it was sent.                     *)
UpToDate(r, o, c) ==
    /\ r.asked <= c
    /\ r.asked = c =>
          /\ r.state \in {"found", "served"} => r.rows = MatchingIn(o, r.arg)
          /\ r.state \in {"counted", "served"} => r.total = Cardinality(MatchingIn(o, r.arg))

DataUpToDate(data, o, c) ==
    /\ data.asked <= c
    /\ data.asked = c => /\ data.rows = MatchingIn(o, data.filter)
                         /\ data.total = Cardinality(MatchingIn(o, data.filter))

(* The newest request is the one for the filter that is set. *)
FilterInv ==
    ~ui.overtaken => IF Len(requests) = 0 THEN ui.error \/ ui.data.filter = ui.filter
                     ELSE requests[Len(requests)].arg = ui.filter

ViewInv ==
    page \in {"queue", "dashboard"} =>
        /\ \A n \in DOMAIN requests : UpToDate(requests[n], outcome, changes)
        /\ DataUpToDate(ui.data, outcome, changes)
        /\ FilterInv

(* Something is under way that makes the list be loaded again, or the last *)
(* list under way will be that of the database, or the one shown is.       *)
WillReload(n) == requests[n].call \in {"create", "activate"} /\ requests[n].state = "served"
Reloads(n) ==
    /\ requests[n].call = "policies" /\ (requests[n].state = "sent" \/ requests[n].result = policy)
    /\ \A m \in DOMAIN requests : m > n => requests[m].call # "policies"
Reloaded == ui.list = policy /\ \A n \in DOMAIN requests : requests[n].call # "policies"

PolicyInv ==
    page = "policy" /\ ~ui.overtaken /\ ~ui.lost =>
        Reloaded \/ \E n \in DOMAIN requests : WillReload(n) \/ Reloads(n)

(* A load after the first is sent when the case has been overridden, and   *)
(* an override that goes through is sent when no load is under way.        *)
IsLoad(n) == requests[n].call = "application"
IsOverride(n) == requests[n].call = "override"

OneOfEach ==
    \A m, n \in DOMAIN requests :
        \/ m = n
        \/ ~(IsLoad(m) /\ IsLoad(n)) /\ ~(IsOverride(m) /\ IsOverride(n))
LoadsAfterOverride ==
    \A n \in DOMAIN requests : IsLoad(n) /\ ui.shown # "nothing" =>
        /\ outcome[Case] # "REFER"
        /\ requests[n].state = "served" => requests[n].result # "REFER"
        /\ \A m \in DOMAIN requests : IsOverride(m) => requests[m].state \in {"sent", "rejected"}
OverridesSubmitted ==
    \A n \in DOMAIN requests : IsOverride(n) =>
        /\ ui.submitting /\ ui.shown # "nothing"
        /\ requests[n].state = "served" => outcome[Case] # "REFER"
AskedInOrder ==
    /\ ui.asked <= changes
    /\ \A n \in DOMAIN requests : IsLoad(n) =>
          ui.asked <= requests[n].asked /\ requests[n].asked <= changes

CaseInv ==
    page = "case" =>
        /\ outcome[Case] # "none"
        /\ OneOfEach /\ LoadsAfterOverride /\ OverridesSubmitted /\ AskedInOrder

-----------------------------------------------------------------------------
(* What is left of the requests when request n is settled. *)
Kept(n, i) == IF i < n THEN i ELSE i + 1

LEMMA RemoveRequest ==
    ASSUME NEW R, NEW s \in Seq(R), NEW n \in DOMAIN s
    PROVE  /\ RemoveAt(s, n) \in Seq(R) /\ Len(RemoveAt(s, n)) = Len(s) - 1
           /\ \A i \in 1..(Len(s) - 1) : RemoveAt(s, n)[i] = s[Kept(n, i)]
<1> DEFINE a == SubSeq(s, 1, n - 1)
           b == SubSeq(s, n + 1, Len(s))
<1>1. Len(s) \in Nat /\ n \in 1..Len(s)
  OBVIOUS
<1>2. a \in Seq(R) /\ Len(a) = n - 1 /\ \A i \in 1..(n - 1) : a[i] = s[i]
  BY <1>1
<1>3. b \in Seq(R) /\ Len(b) = Len(s) - n /\ \A i \in 1..(Len(s) - n) : b[i] = s[n + i]
  BY <1>1
<1>4. RemoveAt(s, n) = a \o b
  BY DEF RemoveAt
<1> HIDE DEF a, b
<1>5. /\ a \o b \in Seq(R) /\ Len(a \o b) = Len(s) - 1
      /\ \A i \in 1..(Len(s) - 1) : (a \o b)[i] = IF i <= n - 1 THEN a[i] ELSE b[i - (n - 1)]
  BY <1>1, <1>2, <1>3
<1>6. ASSUME NEW i \in 1..(Len(s) - 1) PROVE (a \o b)[i] = s[Kept(n, i)]
  <2>1. CASE i < n
    BY <1>1, <1>2, <1>5, <2>1 DEF Kept
  <2>2. CASE ~(i < n)
    <3>1. i - (n - 1) \in 1..(Len(s) - n) /\ n + (i - (n - 1)) = i + 1
      BY <1>1, <2>2
    <3> QED BY <1>1, <1>3, <1>5, <2>2, <3>1 DEF Kept
  <2> QED BY <2>1, <2>2
<1> QED BY <1>4, <1>5, <1>6

LEMMA SettlesOnly ==
    ASSUME TypeInv, NEW n \in DOMAIN requests, Settles(n, <<>>)
    PROVE  /\ requests' \in Seq(RequestRecords) /\ Len(requests') = Len(requests) - 1
           /\ DOMAIN requests' = 1..(Len(requests) - 1)
           /\ \A i \in 1..(Len(requests) - 1) :
                 Kept(n, i) \in DOMAIN requests \ {n} /\ requests'[i] = requests[Kept(n, i)]
           /\ Len(requests) \in Nat /\ n \in 1..Len(requests) /\ DOMAIN requests = 1..Len(requests)
<1>1. requests \in Seq(RequestRecords) /\ n \in 1..Len(requests) /\ Len(requests) \in Nat
  BY DEF TypeInv
<1> DEFINE left == RemoveAt(requests, n)
<1>2. /\ left \in Seq(RequestRecords) /\ Len(left) = Len(requests) - 1
      /\ \A i \in 1..(Len(requests) - 1) : left[i] = requests[Kept(n, i)]
  BY <1>1, RemoveRequest
<1>3. requests' = left \o <<>>
  BY DEF Settles
<1> HIDE DEF left
<1>4. requests' = left
  BY <1>2, <1>3
<1>5. \A i \in 1..(Len(requests) - 1) : Kept(n, i) \in DOMAIN requests \ {n}
  BY <1>1 DEF Kept
<1>6. /\ requests' \in Seq(RequestRecords)
      /\ DOMAIN requests' = 1..Len(requests') /\ DOMAIN requests = 1..Len(requests)
  BY <1>2, <1>4 DEF TypeInv
<1> QED BY <1>1, <1>2, <1>4, <1>5, <1>6

LEMMA SettlesAndSends ==
    ASSUME TypeInv, NEW n \in DOMAIN requests, NEW r \in RequestRecords, Settles(n, <<r>>)
    PROVE  /\ requests' \in Seq(RequestRecords) /\ Len(requests') = Len(requests)
           /\ DOMAIN requests' = 1..Len(requests) /\ requests'[Len(requests)] = r
           /\ \A i \in 1..(Len(requests) - 1) :
                 Kept(n, i) \in DOMAIN requests \ {n} /\ requests'[i] = requests[Kept(n, i)]
           /\ Len(requests) \in Nat /\ n \in 1..Len(requests) /\ DOMAIN requests = 1..Len(requests)
<1>1. requests \in Seq(RequestRecords) /\ n \in 1..Len(requests) /\ Len(requests) \in Nat
  BY DEF TypeInv
<1> DEFINE left == RemoveAt(requests, n)
<1>2. /\ left \in Seq(RequestRecords) /\ Len(left) = Len(requests) - 1
      /\ \A i \in 1..(Len(requests) - 1) : left[i] = requests[Kept(n, i)]
  BY <1>1, RemoveRequest
<1>3. requests' = left \o <<r>>
  BY DEF Settles
<1> HIDE DEF left
<1>4. /\ requests' \in Seq(RequestRecords) /\ Len(requests') = Len(requests)
      /\ requests'[Len(requests)] = r
      /\ \A i \in 1..(Len(requests) - 1) : requests'[i] = left[i]
  BY <1>1, <1>2, <1>3
<1>5. \A i \in 1..(Len(requests) - 1) : Kept(n, i) \in DOMAIN requests \ {n}
  BY <1>1 DEF Kept
<1>6. /\ requests' \in Seq(RequestRecords)
      /\ DOMAIN requests' = 1..Len(requests') /\ DOMAIN requests = 1..Len(requests)
  BY <1>2, <1>4 DEF TypeInv
<1> QED BY <1>1, <1>2, <1>4, <1>5, <1>6

LEMMA SendsAppends ==
    ASSUME TypeInv, NEW r \in RequestRecords, Sends(r)
    PROVE  /\ requests' \in Seq(RequestRecords) /\ Len(requests') = Len(requests) + 1
           /\ Len(requests') <= MaxRequests
           /\ DOMAIN requests' = 1..(Len(requests) + 1) /\ requests'[Len(requests) + 1] = r
           /\ \A i \in DOMAIN requests : requests'[i] = requests[i]
BY RequestsAssumption DEF TypeInv, Sends

-----------------------------------------------------------------------------
(* Type correctness.                                                       *)

LEMMA PlainRequestType ==
    ASSUME TypeInv, NEW call \in CallsOf(page), NEW arg \in Filters \union Overrides \union Versions,
           call = "override" => arg \in Overrides
    PROVE  /\ Request(call, arg) \in RequestRecords /\ Fits(Request(call, arg))
           /\ Request(call, arg).call = call /\ Request(call, arg).state = "sent"
           /\ Request(call, arg).arg = arg /\ Request(call, arg).asked = changes
<1>1. call \in {"queue", "dashboard", "application", "replay", "override", "policies", "simulate",
                "create", "activate"}
  BY DEF TypeInv, TypeOK, CallsOf
<1>2. 0 \in Totals /\ changes \in Nat
  BY DEF Totals, TypeInv
<1>3. Request(call, arg) \in RequestRecords
  BY <1>1, <1>2 DEF Request, RequestRecords, OutcomeSet
<1> QED BY <1>3 DEF Request, Fits, OutcomeSet

LEMMA BlankRequestType ==
    ASSUME TypeInv, NEW call \in CallsOf(page), call # "override"
    PROVE  /\ Request(call, "") \in RequestRecords /\ Fits(Request(call, ""))
           /\ Request(call, "").call = call /\ Request(call, "").state = "sent"
           /\ Request(call, "").asked = changes
<1>1. ASSUME NEW arg, arg = ""
      PROVE  /\ Request(call, arg) \in RequestRecords /\ Fits(Request(call, arg))
             /\ Request(call, arg).call = call /\ Request(call, arg).state = "sent"
             /\ Request(call, arg).asked = changes
  <2>1. arg \in Filters \union Overrides \union Versions
    BY <1>1, FiltersAssumption
  <2> QED BY <2>1, PlainRequestType
<1> QED BY <1>1, Zenon

LEMMA TypeAfterSend ==
    ASSUME TypeInv, NEW r \in RequestRecords, r.call \in CallsOf(page), Fits(r), r.state = "sent",
           Sends(r), ui' \in UiOf(page), UNCHANGED <<page, server>>
    PROVE  TypeInv'
<1>1. page' = page /\ outcome' = outcome /\ policy' = policy /\ changes' = changes
  BY DEF server
<1>2. /\ requests' \in Seq(RequestRecords) /\ Len(requests') <= MaxRequests
      /\ DOMAIN requests' = 1..(Len(requests) + 1) /\ requests'[Len(requests) + 1] = r
      /\ \A i \in DOMAIN requests : requests'[i] = requests[i]
  BY SendsAppends
<1>3. DOMAIN requests = 1..Len(requests) /\ Len(requests) \in Nat
  BY DEF TypeInv
<1>4. \A n \in DOMAIN requests' : n \in DOMAIN requests \/ requests'[n] = r
  BY <1>2, <1>3
<1>5. \A n \in DOMAIN requests' : requests'[n].call \in CallsOf(page) /\ Fits(requests'[n])
  BY <1>2, <1>4 DEF TypeInv
<1>6. TypeOK'
  BY <1>1, <1>2, <1>4 DEF TypeInv, TypeOK
<1> QED BY <1>1, <1>2, <1>5, <1>6 DEF TypeInv

LEMMA TypeAfterSettle ==
    ASSUME TypeInv, NEW n \in DOMAIN requests, NEW r \in RequestRecords, r.call \in CallsOf(page),
           Fits(r), Settles(n, <<>>) \/ Settles(n, <<r>>),
           ui' \in UiOf(page), UNCHANGED <<page, server>>
    PROVE  TypeInv'
<1>1. page' = page /\ outcome' = outcome /\ policy' = policy /\ changes' = changes
  BY DEF server
<1>2. Len(requests) \in Nat /\ Len(requests) <= MaxRequests /\ MaxRequests \in Nat
      /\ DOMAIN requests = 1..Len(requests)
  BY RequestsAssumption DEF TypeInv, TypeOK
<1>3. /\ requests' \in Seq(RequestRecords) /\ Len(requests') <= MaxRequests
      /\ \A i \in DOMAIN requests' : \/ requests'[i] = r
                                     \/ \E j \in DOMAIN requests : requests'[i] = requests[j]
  <2>1. CASE Settles(n, <<>>)
    <3>1. /\ requests' \in Seq(RequestRecords) /\ Len(requests') = Len(requests) - 1
          /\ DOMAIN requests' = 1..(Len(requests) - 1)
          /\ \A i \in 1..(Len(requests) - 1) :
                Kept(n, i) \in DOMAIN requests /\ requests'[i] = requests[Kept(n, i)]
      BY <2>1, SettlesOnly
    <3>2. Len(requests') <= MaxRequests
      BY <1>2, <3>1
    <3> QED BY <3>1, <3>2
  <2>2. CASE Settles(n, <<r>>)
    <3>1. /\ requests' \in Seq(RequestRecords) /\ Len(requests') = Len(requests)
          /\ DOMAIN requests' = 1..Len(requests) /\ requests'[Len(requests)] = r
          /\ \A i \in 1..(Len(requests) - 1) :
                Kept(n, i) \in DOMAIN requests /\ requests'[i] = requests[Kept(n, i)]
      BY <2>2, SettlesAndSends
    <3>2. \A k \in Nat : \A i \in 1..k : i = k \/ i \in 1..(k - 1)
      OBVIOUS
    <3>3. \A i \in 1..Len(requests) : i = Len(requests) \/ i \in 1..(Len(requests) - 1)
      BY <1>2, <3>2
    <3> QED BY <1>2, <3>1, <3>3
  <2> QED BY <2>1, <2>2
<1>4. \A i \in DOMAIN requests' : requests'[i].call \in CallsOf(page) /\ Fits(requests'[i])
  BY <1>3 DEF TypeInv
<1>5. TypeOK'
  <2>1. \A i \in DOMAIN requests' : requests'[i] \in RequestRecords
    BY <1>3
  <2> QED BY <1>1, <1>3, <2>1 DEF TypeInv, TypeOK, RequestRecords
<1> QED BY <1>1, <1>3, <1>4, <1>5 DEF TypeInv

LEMMA TypeAfterServe ==
    ASSUME TypeInv, NEW n \in DOMAIN requests, NEW r \in RequestRecords,
           r.call = requests[n].call, Fits(r), requests' = [requests EXCEPT ![n] = r],
           page' = page, ui' = ui, outcome' \in [Decisions -> OutcomeSet], policy' \in Policies,
           changes' \in Nat
    PROVE  TypeInv'
<1>1. requests' \in Seq(RequestRecords) /\ Len(requests') = Len(requests)
      /\ DOMAIN requests' = DOMAIN requests
      /\ \A i \in DOMAIN requests : requests'[i] = IF i = n THEN r ELSE requests[i]
  BY DEF TypeInv
<1>2. \A i \in DOMAIN requests' : requests'[i].call \in CallsOf(page) /\ Fits(requests'[i])
  BY <1>1 DEF TypeInv
<1>3. TypeOK'
  <2>1. \A i \in DOMAIN requests' : requests'[i] \in RequestRecords
    BY <1>1
  <2> QED BY <1>1, <2>1 DEF TypeInv, TypeOK, RequestRecords, OutcomeSet, Policies
<1> QED BY <1>1, <1>2, <1>3 DEF TypeInv

LEMMA InitType == Init => TypeInv
<1> SUFFICES ASSUME Init PROVE TypeInv
  OBVIOUS
<1>1. \A call, arg : Request(call, arg) = [call |-> call, arg |-> arg, state |-> "sent", asked |-> 0,
                       rules |-> "none", rows |-> {}, total |-> 0, result |-> "none"]
  BY DEF Init, Request
<1>2. 0 \in Totals /\ "" \in Filters
  BY FiltersAssumption DEF Totals
<1>3. outcome \in [Decisions -> OutcomeSet] /\ policy \in Policies /\ changes = 0
  BY DEF Init, OutcomeSet, Policies, NoVersion
<1>4. page \in {"queue", "dashboard", "case", "policy"}
  BY DEF Init, InitView, InitCase, InitPolicy
<1>5. ui \in UiOf(page)
  <2>1. CASE InitView
    BY <1>2, <2>1 DEF InitView, UiOf, DataRecords, NoData
  <2>2. CASE InitCase
    BY <1>3, <2>2 DEF InitCase, UiOf, OutcomeSet
  <2>3. CASE InitPolicy
    BY <2>3, RulesAssumption DEF InitPolicy, UiOf, Policies, NoVersion
  <2> QED BY <2>1, <2>2, <2>3 DEF Init
<1>6. PICK call \in CallsOf(page) : requests = <<Request(call, "")>> /\ call # "override"
  BY DEF Init, InitView, InitCase, InitPolicy, CallsOf
<1>7. Request(call, "") \in RequestRecords /\ Fits(Request(call, ""))
      /\ Request(call, "").call = call
  BY <1>1, <1>2, <1>4, <1>6 DEF RequestRecords, Fits, OutcomeSet, CallsOf
<1>8. \A r \in RequestRecords :
         <<r>> \in Seq(RequestRecords) /\ Len(<<r>>) = 1 /\ \A n \in DOMAIN <<r>> : <<r>>[n] = r
  OBVIOUS
<1>9. requests \in Seq(RequestRecords) /\ Len(requests) = 1
  BY <1>6, <1>7, <1>8
<1>10. \A n \in DOMAIN requests : requests[n] = Request(call, "")
  BY <1>6, <1>7, <1>8
<1>11. TypeOK
  <2>1. Request(call, "").state = "sent"
    BY DEF Request
  <2>2. Len(requests) <= MaxRequests
    BY <1>9, RequestsAssumption
  <2> QED BY <1>3, <1>4, <1>10, <2>1, <2>2 DEF TypeOK, OutcomeSet, Policies
<1> QED BY <1>3, <1>5, <1>6, <1>7, <1>9, <1>10, <1>11 DEF TypeInv

LEMMA ServeType ==
    ASSUME TypeInv, NEW n \in DOMAIN requests, Serve(n)
    PROVE  TypeInv'
<1> DEFINE r == requests[n]
<1>1. /\ requests \in Seq(RequestRecords) /\ r \in RequestRecords /\ Fits(r)
      /\ changes \in Nat /\ changes + 1 \in Nat
      /\ outcome \in [Decisions -> OutcomeSet] /\ policy \in Policies
      /\ Case \in Decisions
  BY CaseAssumption DEF TypeInv, TypeOK, OutcomeSet, Policies
<1>2. \A f : Matching(f) \in SUBSET Decisions /\ Cardinality(Matching(f)) \in Totals
  BY DEF Matching, Totals
<1>3. CASE QueueFind(n)
  <2> DEFINE q == [r EXCEPT !.rows = Matching(r.arg), !.state = IF @ = "sent" THEN "found" ELSE "served"]
  <2>1. requests' = [requests EXCEPT ![n] = q]
    BY <1>1, <1>3 DEF QueueFind
  <2>2. q \in RequestRecords /\ q.call = r.call /\ Fits(q)
    BY <1>1, <1>2, <1>3 DEF QueueFind, RequestRecords, Fits
  <2> QED BY <1>1, <1>3, <2>1, <2>2, TypeAfterServe DEF QueueFind, server
<1>4. CASE QueueCount(n)
  <2> DEFINE q == [r EXCEPT !.total = Cardinality(Matching(r.arg)),
                            !.state = IF @ = "sent" THEN "counted" ELSE "served"]
  <2>1. requests' = [requests EXCEPT ![n] = q]
    BY <1>1, <1>4 DEF QueueCount
  <2>2. q \in RequestRecords /\ q.call = r.call /\ Fits(q)
    BY <1>1, <1>2, <1>4 DEF QueueCount, RequestRecords, Fits
  <2> QED BY <1>1, <1>4, <2>1, <2>2, TypeAfterServe DEF QueueCount, server
<1>5. CASE Stats(n)
  <2> DEFINE q == [r EXCEPT !.rows = Matching(r.arg), !.total = Cardinality(Matching(r.arg)),
                            !.state = "served"]
  <2>1. requests' = [requests EXCEPT ![n] = q]
    BY <1>1, <1>5 DEF Stats
  <2>2. q \in RequestRecords /\ q.call = r.call /\ Fits(q)
    BY <1>1, <1>2, <1>5 DEF Stats, RequestRecords, Fits
  <2> QED BY <1>1, <1>5, <2>1, <2>2, TypeAfterServe DEF Stats, server
<1>6. CASE Read(n)
  <2> DEFINE q(result) == [r EXCEPT !.result = result, !.state = "served"]
             replayed == IF outcome[Case] = "REFER" THEN "matches" ELSE "diverged"
  <2>1. \/ r.call = "application" /\ requests' = [requests EXCEPT ![n] = q(outcome[Case])]
        \/ r.call = "replay" /\ requests' = [requests EXCEPT ![n] = q(replayed)]
        \/ r.call \in {"policies", "simulate"} /\ requests' = [requests EXCEPT ![n] = q(policy)]
    BY <1>1, <1>6 DEF Read
  <2>2. \A x \in OutcomeSet \union {"matches", "diverged"} \union Policies :
           q(x) \in RequestRecords /\ q(x).call = r.call /\ q(x).result = x
           /\ q(x).state = "served" /\ q(x).arg = r.arg
    BY <1>1 DEF RequestRecords
  <2>3. r.call = "application" => Fits(q(outcome[Case]))
    <3>1. outcome[Case] \in OutcomeSet
      BY <1>1
    <3> HIDE DEF q
    <3>2. /\ q(outcome[Case]).call = r.call /\ q(outcome[Case]).result = outcome[Case]
          /\ q(outcome[Case]).state = "served"
      BY <2>2, <3>1
    <3> QED BY <3>1, <3>2 DEF Fits
  <2>4. r.call = "replay" => Fits(q(replayed))
    BY <1>1, <2>2 DEF Fits
  <2>5. r.call \in {"policies", "simulate"} => Fits(q(policy))
    BY <1>1, <2>2 DEF Fits
  <2>6. outcome[Case] \in OutcomeSet /\ replayed \in {"matches", "diverged"}
    BY <1>1
  <2> HIDE DEF q, replayed
  <2> QED BY <1>1, <1>6, <2>1, <2>2, <2>3, <2>4, <2>5, <2>6, TypeAfterServe DEF Read, server
<1>7. CASE OverrideCheck(n)
  <2> DEFINE q == [r EXCEPT !.state = IF outcome[Case] = "REFER" THEN "checked" ELSE "rejected"]
  <2>1. requests' = [requests EXCEPT ![n] = q]
    BY <1>1, <1>7 DEF OverrideCheck
  <2>2. q \in RequestRecords /\ q.call = r.call /\ Fits(q)
    BY <1>1, <1>7 DEF OverrideCheck, RequestRecords, Fits
  <2> QED BY <1>1, <1>7, <2>1, <2>2, TypeAfterServe DEF OverrideCheck, server
<1> DEFINE done == [r EXCEPT !.state = "served"]
           refused == [r EXCEPT !.state = "rejected"]
<1>8. CASE OverrideCommit(n)
  <2>1. requests' = [requests EXCEPT ![n] = done]
    BY <1>1, <1>8 DEF OverrideCommit
  <2>2. done \in RequestRecords /\ done.call = r.call /\ Fits(done)
    BY <1>1, <1>8 DEF OverrideCommit, RequestRecords, Fits
  <2>3. r.arg \in OutcomeSet
    BY <1>1, <1>8, OverridesAssumption DEF OverrideCommit, Fits, OutcomeSet
  <2>4. outcome' \in [Decisions -> OutcomeSet]
    BY <1>1, <1>8, <2>3 DEF OverrideCommit
  <2> QED BY <1>1, <1>8, <2>1, <2>2, <2>4, TypeAfterServe DEF OverrideCommit
<1>9. CASE CreateDraft(n)
  <2>1. requests' = [requests EXCEPT ![n] = done] \/ requests' = [requests EXCEPT ![n] = refused]
    BY <1>1, <1>9 DEF CreateDraft
  <2>2. done \in RequestRecords /\ done.call = r.call /\ Fits(done)
        /\ refused \in RequestRecords /\ refused.call = r.call /\ Fits(refused)
    BY <1>1, <1>9 DEF CreateDraft, RequestRecords, Fits
  <2>3. r.rules \in RuleTexts \union {"none"}
    BY <1>1 DEF RequestRecords
  <2>4. policy' \in Policies /\ changes' \in Nat
    BY <1>1, <1>9, <2>3 DEF CreateDraft, Policies
  <2> HIDE DEF done, refused
  <2> QED BY <1>1, <1>9, <2>1, <2>2, <2>4, TypeAfterServe DEF CreateDraft
<1>10. CASE ActivateDraft(n)
  <2>1. requests' = [requests EXCEPT ![n] = done] \/ requests' = [requests EXCEPT ![n] = refused]
    BY <1>1, <1>10 DEF ActivateDraft
  <2>2. done \in RequestRecords /\ done.call = r.call /\ Fits(done)
        /\ refused \in RequestRecords /\ refused.call = r.call /\ Fits(refused)
    BY <1>1, <1>10 DEF ActivateDraft, RequestRecords, Fits
  <2>4. policy' \in Policies /\ changes' \in Nat
    BY <1>1, <1>10 DEF ActivateDraft, Policies
  <2> HIDE DEF done, refused
  <2> QED BY <1>1, <1>10, <2>1, <2>2, <2>4, TypeAfterServe DEF ActivateDraft
<1> QED BY <1>3, <1>4, <1>5, <1>6, <1>7, <1>8, <1>9, <1>10 DEF Serve

LEMMA UserType ==
    ASSUME TypeInv, User
    PROVE  TypeInv'
<1>1. /\ ui \in UiOf(page) /\ requests \in Seq(RequestRecords) /\ changes \in Nat
      /\ page \in {"queue", "dashboard", "case", "policy"}
  BY DEF TypeInv, TypeOK
<1>2. ASSUME UNCHANGED <<page, requests, server>>, ui' \in UiOf(page) PROVE TypeInv'
  BY <1>2 DEF server, TypeInv, TypeOK, Policies
<1>3. ASSUME NEW f \in Filters, ChangeFilter(f) PROVE TypeInv'
  <2>1. ui' \in UiOf(page)
    BY <1>1, <1>3 DEF ChangeFilter, UiOf
  <2>2. page \in CallsOf(page) /\ page # "override" /\ f \in Filters \union Overrides \union Versions
    BY <1>3 DEF ChangeFilter, CallsOf
  <2> DEFINE r == Request(page, f)
  <2>3. r \in RequestRecords /\ Fits(r) /\ r.call = page /\ r.state = "sent"
    BY <1>1, <2>2, PlainRequestType
  <2> HIDE DEF r
  <2> QED BY <1>3, <2>1, <2>2, <2>3, TypeAfterSend DEF ChangeFilter, r
<1>4. ASSUME ClickReplay PROVE TypeInv'
  <2>1. ui' \in UiOf(page)
    BY <1>1, <1>4 DEF ClickReplay, CaseRendered, UiOf
  <2>2. "replay" \in CallsOf(page)
    BY <1>4 DEF ClickReplay, CaseRendered, CallsOf
  <2> DEFINE r == Request("replay", "")
  <2>3. r \in RequestRecords /\ Fits(r) /\ r.call = "replay" /\ r.state = "sent"
    BY <2>2, BlankRequestType
  <2> HIDE DEF r
  <2> QED BY <1>4, <2>1, <2>2, <2>3, TypeAfterSend DEF ClickReplay, r
<1>5. ASSUME NEW o \in Overrides, SubmitOverride(o) PROVE TypeInv'
  <2>1. ui' \in UiOf(page)
    BY <1>1, <1>5 DEF SubmitOverride, CaseRendered, UiOf
  <2>2. "override" \in CallsOf(page)
    BY <1>5 DEF SubmitOverride, CaseRendered, CallsOf
  <2> DEFINE r == Request("override", o)
  <2>3. r \in RequestRecords /\ Fits(r) /\ r.call = "override" /\ r.state = "sent"
    BY <1>1, <2>2, PlainRequestType
  <2> HIDE DEF r
  <2> QED BY <1>5, <2>1, <2>2, <2>3, TypeAfterSend DEF SubmitOverride, r
<1>6. ASSUME NEW t \in RuleTexts, EditRules(t) PROVE TypeInv'
  <2>1. ui' \in UiOf(page)
    BY <1>1, <1>6 DEF EditRules, UiOf
  <2> QED BY <1>2, <1>6, <2>1 DEF EditRules
<1>7. ASSUME NEW v \in Versions, LoadIntoEditor(v) PROVE TypeInv'
  <2>1. ui.list \in Policies
    BY <1>1, <1>7 DEF LoadIntoEditor, UiOf
  <2>2. ui.list[v].rules \in RuleTexts \union {"none"}
    BY <2>1 DEF Policies
  <2>3. ui' \in UiOf(page)
    BY <1>1, <1>7, <2>2 DEF LoadIntoEditor, UiOf
  <2> QED BY <1>2, <1>7, <2>3 DEF LoadIntoEditor
<1>8. ASSUME RejectInput PROVE TypeInv'
  <2>1. ui' \in UiOf(page)
    BY <1>1, <1>8 DEF RejectInput, UiOf
  <2> QED BY <1>2, <1>8, <2>1 DEF RejectInput
<1>9. ASSUME RunSimulation PROVE TypeInv'
  <2>1. ui' \in UiOf(page) /\ ui.rules \in RuleTexts \union {"none"}
    BY <1>1, <1>9 DEF RunSimulation, UiOf
  <2>2. "simulate" \in CallsOf(page) \ {"override"}
    BY <1>9 DEF RunSimulation, CallsOf
  <2> DEFINE r == [Request("simulate", "") EXCEPT !.rules = ui.rules]
  <2>3. /\ Request("simulate", "") \in RequestRecords /\ Fits(Request("simulate", ""))
        /\ Request("simulate", "").call = "simulate" /\ Request("simulate", "").state = "sent"
    BY <2>2, BlankRequestType
  <2>4. r \in RequestRecords /\ Fits(r) /\ r.call = "simulate" /\ r.state = "sent"
    BY <2>1, <2>3 DEF RequestRecords, Fits
  <2> HIDE DEF r
  <2> QED BY <1>9, <2>1, <2>2, <2>4, TypeAfterSend DEF RunSimulation, r
<1>10. ASSUME NEW v \in Versions, SaveDraft(v) PROVE TypeInv'
  <2>1. ui' \in UiOf(page) /\ ui.rules \in RuleTexts \union {"none"}
    BY <1>1, <1>10 DEF SaveDraft, UiOf
  <2>2. "create" \in CallsOf(page)
    BY <1>10 DEF SaveDraft, CallsOf
  <2> DEFINE r == [Request("create", v) EXCEPT !.rules = ui.rules]
  <2>3. /\ Request("create", v) \in RequestRecords /\ Fits(Request("create", v))
        /\ Request("create", v).call = "create" /\ Request("create", v).state = "sent"
    BY <2>2, PlainRequestType
  <2>4. r \in RequestRecords /\ Fits(r) /\ r.call = "create" /\ r.state = "sent"
    BY <2>1, <2>3 DEF RequestRecords, Fits
  <2> HIDE DEF r
  <2> QED BY <1>10, <2>1, <2>2, <2>4, TypeAfterSend DEF SaveDraft, r
<1>11. ASSUME NEW v \in Versions, ClickActivate(v) PROVE TypeInv'
  <2>1. ui' \in UiOf(page)
    BY <1>1, <1>11 DEF ClickActivate, UiOf
  <2>2. "activate" \in CallsOf(page)
    BY <1>11 DEF ClickActivate, CallsOf
  <2> DEFINE r == Request("activate", v)
  <2>3. r \in RequestRecords /\ Fits(r) /\ r.call = "activate" /\ r.state = "sent"
    BY <1>1, <2>2, PlainRequestType
  <2> HIDE DEF r
  <2> QED BY <1>11, <2>1, <2>2, <2>3, TypeAfterSend DEF ClickActivate, r
<1> QED BY <1>3, <1>4, <1>5, <1>6, <1>7, <1>8, <1>9, <1>10, <1>11 DEF User

(* The page that a request belongs to. *)
LEMMA PageOfCall ==
    ASSUME TypeInv, NEW n \in DOMAIN requests
    PROVE  /\ requests[n].call \in {"queue", "dashboard"} => page = requests[n].call
           /\ requests[n].call \in {"application", "replay", "override"} => page = "case"
           /\ requests[n].call \in {"policies", "simulate", "create", "activate"} => page = "policy"
BY DEF TypeInv, TypeOK, CallsOf

LEMMA ArriveType ==
    ASSUME TypeInv, NEW n \in DOMAIN requests, Arrive(n)
    PROVE  TypeInv'
<1> DEFINE r == requests[n]
           older == \E m \in 1..(n - 1) : requests[m].call = requests[n].call
<1>1. /\ ui \in UiOf(page) /\ r \in RequestRecords /\ Fits(r)
      /\ page \in {"queue", "dashboard", "case", "policy"}
  BY DEF TypeInv, TypeOK
<1>2. older \in BOOLEAN
  OBVIOUS
<1>3. r.call \in CallsOf(page)
  BY DEF TypeInv
<1>4. ASSUME Settles(n, <<>>), ui' \in UiOf(page), UNCHANGED <<page, server>> PROVE TypeInv'
  BY <1>1, <1>3, <1>4, TypeAfterSettle
<1>5. ASSUME NEW c \in CallsOf(page) \ {"override"}, Settles(n, <<Request(c, "")>>),
             ui' \in UiOf(page), UNCHANGED <<page, server>>
      PROVE  TypeInv'
  <2> DEFINE q == Request(c, "")
  <2>1. q \in RequestRecords /\ q.call \in CallsOf(page) /\ Fits(q)
    <3>1. c \in CallsOf(page) /\ c # "override"
      OBVIOUS
    <3> QED BY <3>1, BlankRequestType
  <2>2. Settles(n, <<q>>)
    BY <1>5
  <2> HIDE DEF q
  <2> QED BY <1>5, <2>1, <2>2, TypeAfterSettle
<1>6. ASSUME NEW s, s \in UiOf(page), Shows(n, s) PROVE ui' \in UiOf(page)
  BY <1>1, <1>2, <1>6 DEF Shows, UiOf
<1>7. ASSUME NEW s, s \in UiOf(page), ShowsFailure(n, s) PROVE ui' \in UiOf(page)
  <2>1. [s EXCEPT !.lost = @ \/ requests[n].state # "rejected"] \in UiOf(page)
    BY <1>1, <1>7 DEF UiOf
  <2> QED BY <1>6, <1>7, <2>1 DEF ShowsFailure
<1>8. ASSUME ViewArrives(n) PROVE TypeInv'
  <2>1. page \in {"queue", "dashboard"}
    BY <1>8, PageOfCall DEF ViewArrives
  <2>2. [filter |-> r.arg, rows |-> r.rows, total |-> r.total, asked |-> r.asked] \in DataRecords
    BY <1>1 DEF RequestRecords, DataRecords
  <2>3. [ui EXCEPT !.data = [filter |-> r.arg, rows |-> r.rows, total |-> r.total, asked |-> r.asked],
                   !.loading = FALSE] \in UiOf(page)
    BY <1>1, <2>1, <2>2 DEF UiOf
  <2> QED BY <1>4, <1>6, <1>8, <2>3 DEF ViewArrives
<1>9. ASSUME ViewFails(n) PROVE TypeInv'
  <2>1. page \in {"queue", "dashboard"}
    BY <1>9, PageOfCall DEF ViewFails
  <2>2. [ui EXCEPT !.error = TRUE, !.loading = FALSE] \in UiOf(page)
    BY <1>1, <2>1 DEF UiOf
  <2> QED BY <1>4, <1>7, <1>9, <2>2 DEF ViewFails
<1>10. ASSUME CaseArrives(n) PROVE TypeInv'
  <2>1. page = "case" /\ "application" \in CallsOf(page) \ {"override"}
    BY <1>10, PageOfCall DEF CaseArrives, CallsOf
  <2>2. r.asked \in Nat /\ r.result \in OutcomeSet \union {"matches", "diverged"} \union Policies
    BY <1>1 DEF RequestRecords
  <2>3. r.call = "application" => [ui EXCEPT !.shown = r.result, !.asked = r.asked] \in UiOf(page)
    <3>1. r.call = "application" => r.result \in OutcomeSet
      BY <1>1 DEF Fits
    <3> QED BY <1>1, <2>1, <2>2, <3>1 DEF UiOf
  <2>4. /\ [ui EXCEPT !.replay = r.result, !.replaying = FALSE] \in UiOf(page)
        /\ [ui EXCEPT !.submitting = FALSE, !.error = FALSE] \in UiOf(page)
    BY <1>1, <2>1, <2>2 DEF UiOf
  <2> QED BY <1>4, <1>5, <1>6, <1>10, <2>1, <2>3, <2>4 DEF CaseArrives
<1>11. ASSUME CaseFails(n) PROVE TypeInv'
  <2>1. page = "case"
    BY <1>11, PageOfCall DEF CaseFails
  <2>2. /\ [ui EXCEPT !.error = TRUE] \in UiOf(page)
        /\ [ui EXCEPT !.replay = "error", !.replaying = FALSE] \in UiOf(page)
        /\ [ui EXCEPT !.formError = TRUE, !.submitting = FALSE] \in UiOf(page)
    BY <1>1, <2>1 DEF UiOf
  <2> QED BY <1>4, <1>7, <1>11, <2>2 DEF CaseFails
<1>12. ASSUME PolicyArrives(n) PROVE TypeInv'
  <2>1. page = "policy" /\ "policies" \in CallsOf(page) \ {"override"}
    BY <1>12, PageOfCall DEF PolicyArrives, CallsOf
  <2>2. r.rules \in RuleTexts \union {"none"}
    BY <1>1 DEF RequestRecords
  <2>3. r.call = "policies" /\ r.state = "served" => [ui EXCEPT !.list = r.result] \in UiOf(page)
    BY <1>1, <2>1 DEF UiOf, Fits
  <2>4. /\ [ui EXCEPT !.simulated = r.rules, !.busy = "no"] \in UiOf(page)
        /\ [ui EXCEPT !.busy = "no"] \in UiOf(page)
    BY <1>1, <2>1, <2>2 DEF UiOf
  <2> QED BY <1>4, <1>5, <1>6, <1>12, <2>1, <2>3, <2>4 DEF PolicyArrives, Succeeds
<1>13. ASSUME PolicyFails(n) PROVE TypeInv'
  <2>1. page = "policy"
    BY <1>13, PageOfCall DEF PolicyFails
  <2>2. [ui EXCEPT !.error = TRUE] \in UiOf(page) /\ [ui EXCEPT !.error = TRUE, !.busy = "no"] \in UiOf(page)
    BY <1>1, <2>1 DEF UiOf
  <2> QED BY <1>4, <1>7, <1>13, <2>2 DEF PolicyFails
<1> QED BY <1>8, <1>9, <1>10, <1>11, <1>12, <1>13 DEF Arrive

LEMMA OthersType ==
    ASSUME TypeInv, Others
    PROVE  TypeInv'
<1>1. outcome \in [Decisions -> OutcomeSet] /\ changes + 1 \in Nat
  BY DEF TypeInv, TypeOK, OutcomeSet
<1>2. PICK d \in Decisions, o \in Engine \union Overrides :
          Decide(d, o) \/ OverrideElsewhere(d, o)
  BY DEF Others
<1>3. o \in OutcomeSet
  BY FiltersAssumption, OverridesAssumption DEF OutcomeSet
<1>4. outcome' \in [Decisions -> OutcomeSet] /\ changes' = changes + 1
      /\ page' = page /\ ui' = ui /\ requests' = requests /\ policy' = policy
  BY <1>1, <1>2, <1>3 DEF Decide, OverrideElsewhere
<1> QED BY <1>1, <1>4 DEF TypeInv, TypeOK, OutcomeSet

LEMMA TypeStep == TypeInv /\ [Next]_vars => TypeInv'
<1>1. ASSUME TypeInv, UNCHANGED vars PROVE TypeInv'
  BY <1>1 DEF vars, TypeInv, TypeOK, Policies
<1> QED BY <1>1, UserType, OthersType, ServeType, ArriveType DEF Next

LEMMA TypeInductive == Spec => []TypeInv
BY InitType, TypeStep, PTL DEF Spec

(* Type correctness of the console (the four pages and api.ts): whatever   *)
(* the order of the answers, a decision has one of three outcomes, a policy *)
(* version one of three statuses, and no request is in a state unknown.    *)
THEOREM TypeCorrect == Spec => []TypeOK
<1>1. TypeInv => TypeOK
  BY DEF TypeInv
<1> QED BY <1>1, TypeInductive, PTL

-----------------------------------------------------------------------------
(* The queue and the dashboard.                                            *)

LEMMA PageStays == [Next]_vars => page' = page
BY DEF Next, vars, User, Others, Serve, Arrive, ChangeFilter, ClickReplay, SubmitOverride,
       RejectInput, RunSimulation, EditRules, LoadIntoEditor, SaveDraft, ClickActivate, Decide,
       OverrideElsewhere, QueueFind, QueueCount, Stats, Read, OverrideCheck, OverrideCommit,
       CreateDraft, ActivateDraft, ViewArrives, ViewFails, CaseArrives, CaseFails, PolicyArrives,
       PolicyFails

LEMMA ViewNext ==
    ASSUME TypeInv, page \in {"queue", "dashboard"}, Next
    PROVE  \/ \E f \in Filters : ChangeFilter(f)
           \/ \E d \in Decisions, o \in Engine \union Overrides : Decide(d, o) \/ OverrideElsewhere(d, o)
           \/ \E n \in DOMAIN requests : QueueFind(n) \/ QueueCount(n) \/ Stats(n)
                                         \/ ViewArrives(n) \/ ViewFails(n)
<1>1. ASSUME NEW n \in DOMAIN requests, Serve(n) \/ Arrive(n)
      PROVE  QueueFind(n) \/ QueueCount(n) \/ Stats(n) \/ ViewArrives(n) \/ ViewFails(n)
  <2>1. requests[n].call \in {"queue", "dashboard"}
    BY DEF TypeInv, CallsOf
  <2> QED BY <1>1, <2>1 DEF Serve, Arrive, Read, OverrideCheck, OverrideCommit, CreateDraft,
                            ActivateDraft, CaseArrives, CaseFails, PolicyArrives, PolicyFails
<1>2. ASSUME User PROVE \E f \in Filters : ChangeFilter(f)
  BY <1>2 DEF User, ClickReplay, SubmitOverride, CaseRendered, RejectInput, RunSimulation,
              EditRules, LoadIntoEditor, SaveDraft, ClickActivate
<1>3. ASSUME Others
      PROVE  \E d \in Decisions, o \in Engine \union Overrides : Decide(d, o) \/ OverrideElsewhere(d, o)
  BY <1>3 DEF Others
<1> QED BY <1>1, <1>2, <1>3 DEF Next

LEMMA ViewServed ==
    ASSUME TypeInv, ViewInv, page \in {"queue", "dashboard"},
           NEW n \in DOMAIN requests, NEW q \in RequestRecords, requests' = [requests EXCEPT ![n] = q],
           q.arg = requests[n].arg, UpToDate(q, outcome, changes), UNCHANGED <<page, ui, server>>
    PROVE  ViewInv'
<1>1. /\ requests' \in Seq(RequestRecords) /\ Len(requests') = Len(requests)
      /\ DOMAIN requests' = DOMAIN requests /\ Len(requests) \in Nat /\ n \in 1..Len(requests)
      /\ \A i \in DOMAIN requests : requests'[i] = IF i = n THEN q ELSE requests[i]
      /\ DOMAIN requests = 1..Len(requests)
  BY DEF TypeInv
<1>2. outcome' = outcome /\ changes' = changes /\ ui' = ui /\ page' = page
  BY DEF server
<1>3. \A i \in DOMAIN requests' : UpToDate(requests'[i], outcome', changes')
  BY <1>1, <1>2 DEF ViewInv
<1>4. requests'[Len(requests)].arg = requests[Len(requests)].arg
  BY <1>1
<1>5. FilterInv'
  BY <1>1, <1>2, <1>4 DEF FilterInv, ViewInv
<1> QED BY <1>2, <1>3, <1>5 DEF ViewInv

LEMMA ViewSettled ==
    ASSUME TypeInv, ViewInv, page \in {"queue", "dashboard"},
           NEW n \in DOMAIN requests, Settles(n, <<>>), UNCHANGED <<page, server>>,
           DataUpToDate(ui'.data, outcome, changes), ui'.filter = ui.filter,
           ui'.overtaken = (ui.overtaken \/ \E m \in 1..(n - 1) : requests[m].call = requests[n].call),
           ui'.error \/ ui'.data.filter = requests[n].arg
    PROVE  ViewInv'
<1>1. /\ requests' \in Seq(RequestRecords) /\ Len(requests') = Len(requests) - 1
      /\ DOMAIN requests' = 1..(Len(requests) - 1)
      /\ \A i \in 1..(Len(requests) - 1) :
            Kept(n, i) \in DOMAIN requests /\ requests'[i] = requests[Kept(n, i)]
      /\ Len(requests) \in Nat /\ n \in 1..Len(requests) /\ DOMAIN requests = 1..Len(requests)
  BY SettlesOnly
<1>2. outcome' = outcome /\ changes' = changes /\ page' = page
  BY DEF server
<1>3. \A i \in DOMAIN requests' : UpToDate(requests'[i], outcome', changes')
  BY <1>1, <1>2 DEF ViewInv
<1>4. FilterInv'
  <2> SUFFICES ASSUME ~ui'.overtaken
               PROVE  IF Len(requests') = 0 THEN ui'.error \/ ui'.data.filter = ui'.filter
                      ELSE requests'[Len(requests')].arg = ui'.filter
    BY DEF FilterInv
  <2>1. requests[Len(requests)].arg = ui.filter
    <3>1. ~ui.overtaken
      OBVIOUS
    <3> QED BY <1>1, <3>1 DEF ViewInv, FilterInv
  <2>2. n = 1
    <3>1. 1 \in DOMAIN requests /\ requests[1].call = page /\ requests[n].call = page
      BY <1>1 DEF TypeInv, CallsOf
    <3>2. n # 1 => 1 \in 1..(n - 1)
      BY <1>1
    <3> QED BY <3>1, <3>2
  <2>3. CASE Len(requests) = 1
    BY <1>1, <2>1, <2>2, <2>3
  <2>4. CASE Len(requests) # 1
    <3>1. Kept(n, Len(requests) - 1) = Len(requests) /\ Len(requests) - 1 \in 1..(Len(requests) - 1)
      BY <1>1, <2>2, <2>4 DEF Kept
    <3> QED BY <1>1, <2>1, <2>4, <3>1
  <2> QED BY <2>3, <2>4
<1> QED BY <1>2, <1>3, <1>4 DEF ViewInv

LEMMA ViewStep == TypeInv /\ ViewInv /\ [Next]_vars => ViewInv'
<1> SUFFICES ASSUME TypeInv, ViewInv, [Next]_vars, page \in {"queue", "dashboard"} PROVE ViewInv'
  BY PageStays DEF ViewInv
<1>1. /\ requests \in Seq(RequestRecords) /\ changes \in Nat /\ ui \in UiOf(page)
      /\ \A n \in DOMAIN requests : requests[n] \in RequestRecords
                                    /\ UpToDate(requests[n], outcome, changes)
      /\ DataUpToDate(ui.data, outcome, changes) /\ ui.data.asked \in Nat
      /\ \A f : Matching(f) = MatchingIn(outcome, f)
  BY DEF TypeInv, ViewInv, UiOf, DataRecords, Matching, MatchingIn
<1>2. ASSUME UNCHANGED vars PROVE ViewInv'
  BY <1>2 DEF vars, ViewInv, FilterInv
<1>3. ASSUME NEW f \in Filters, ChangeFilter(f) PROVE ViewInv'
  <2> DEFINE r == Request(page, f)
  <2>1. /\ r \in RequestRecords /\ r.state = "sent" /\ r.arg = f /\ r.asked = changes
    <3>1. page \in CallsOf(page) /\ page # "override" /\ f \in Filters \union Overrides \union Versions
      BY DEF CallsOf
    <3> QED BY <3>1, PlainRequestType
  <2>2. UpToDate(r, outcome, changes)
    BY <1>1, <2>1 DEF UpToDate
  <2>3. Sends(r) /\ UNCHANGED <<page, server>>
    BY <1>3 DEF ChangeFilter
  <2> HIDE DEF r
  <2>4. /\ Len(requests') = Len(requests) + 1 /\ DOMAIN requests' = 1..(Len(requests) + 1)
        /\ requests'[Len(requests) + 1] = r /\ \A i \in DOMAIN requests : requests'[i] = requests[i]
        /\ Len(requests) \in Nat /\ DOMAIN requests = 1..Len(requests)
    BY <1>1, <2>1, <2>3, SendsAppends
  <2>5. \A i \in DOMAIN requests' : i \in DOMAIN requests \/ requests'[i] = r
    BY <2>4
  <2>6. \A i \in DOMAIN requests' : UpToDate(requests'[i], outcome, changes)
    BY <1>1, <2>2, <2>4, <2>5
  <2>7. ui'.filter = f /\ ui'.data = ui.data
    BY <1>1, <1>3 DEF ChangeFilter, UiOf
  <2>8. FilterInv'
    BY <2>1, <2>4, <2>7 DEF FilterInv
  <2> QED BY <1>1, <2>3, <2>6, <2>7, <2>8 DEF ViewInv, server
<1>4. ASSUME NEW d \in Decisions, NEW o \in Engine \union Overrides,
             Decide(d, o) \/ OverrideElsewhere(d, o)
      PROVE  ViewInv'
  <2>1. changes' = changes + 1 /\ UNCHANGED <<page, ui, requests>>
    BY <1>4 DEF Decide, OverrideElsewhere
  <2>2. \A i \in DOMAIN requests : requests[i].asked \in Nat /\ requests[i].asked <= changes
    BY <1>1 DEF RequestRecords, UpToDate
  <2>3. \A i \in DOMAIN requests : UpToDate(requests[i], outcome', changes')
    BY <1>1, <2>1, <2>2 DEF UpToDate
  <2>4. DataUpToDate(ui.data, outcome', changes')
    BY <1>1, <2>1 DEF DataUpToDate
  <2> QED BY <2>1, <2>3, <2>4 DEF ViewInv, FilterInv
<1>5. ASSUME NEW n \in DOMAIN requests, QueueFind(n) PROVE ViewInv'
  <2> DEFINE r == requests[n]
             q == [r EXCEPT !.rows = Matching(r.arg), !.state = IF @ = "sent" THEN "found" ELSE "served"]
  <2>1. requests' = [requests EXCEPT ![n] = q]
    BY <1>1, <1>5 DEF QueueFind
  <2>2. r \in RequestRecords /\ UpToDate(r, outcome, changes) /\ r.state \in {"sent", "counted"}
        /\ Matching(r.arg) = MatchingIn(outcome, r.arg) /\ Matching(r.arg) \in SUBSET Decisions
    BY <1>1, <1>5 DEF QueueFind, MatchingIn
  <2>3. q \in RequestRecords /\ q.arg = r.arg /\ UpToDate(q, outcome, changes)
    BY <2>2 DEF RequestRecords, UpToDate
  <2> HIDE DEF q
  <2> QED BY <1>5, <2>1, <2>3, ViewServed DEF QueueFind
<1>6. ASSUME NEW n \in DOMAIN requests, QueueCount(n) PROVE ViewInv'
  <2> DEFINE r == requests[n]
             q == [r EXCEPT !.total = Cardinality(Matching(r.arg)),
                            !.state = IF @ = "sent" THEN "counted" ELSE "served"]
  <2>1. requests' = [requests EXCEPT ![n] = q]
    BY <1>1, <1>6 DEF QueueCount
  <2>2. r \in RequestRecords /\ UpToDate(r, outcome, changes) /\ r.state \in {"sent", "found"}
        /\ Matching(r.arg) = MatchingIn(outcome, r.arg) /\ Cardinality(Matching(r.arg)) \in Totals
    BY <1>1, <1>6 DEF QueueCount, MatchingIn, Totals
  <2>3. q \in RequestRecords /\ q.arg = r.arg /\ UpToDate(q, outcome, changes)
    BY <2>2 DEF RequestRecords, UpToDate
  <2> HIDE DEF q
  <2> QED BY <1>6, <2>1, <2>3, ViewServed DEF QueueCount
<1>7. ASSUME NEW n \in DOMAIN requests, Stats(n) PROVE ViewInv'
  <2> DEFINE r == requests[n]
             q == [r EXCEPT !.rows = Matching(r.arg), !.total = Cardinality(Matching(r.arg)),
                            !.state = "served"]
  <2>1. requests' = [requests EXCEPT ![n] = q]
    BY <1>1, <1>7 DEF Stats
  <2>2. r \in RequestRecords /\ UpToDate(r, outcome, changes)
        /\ Matching(r.arg) = MatchingIn(outcome, r.arg) /\ Matching(r.arg) \in SUBSET Decisions
        /\ Cardinality(Matching(r.arg)) \in Totals
    BY <1>1 DEF MatchingIn, Totals
  <2>3. q \in RequestRecords /\ q.arg = r.arg /\ UpToDate(q, outcome, changes)
    BY <2>2 DEF RequestRecords, UpToDate
  <2> HIDE DEF q
  <2> QED BY <1>7, <2>1, <2>3, ViewServed DEF Stats
<1>8. ASSUME NEW n \in DOMAIN requests, ViewArrives(n) PROVE ViewInv'
  <2> DEFINE r == requests[n]
  <2>1. ui'.data = [filter |-> r.arg, rows |-> r.rows, total |-> r.total, asked |-> r.asked]
        /\ ui'.filter = ui.filter
        /\ ui'.overtaken = (ui.overtaken \/ \E m \in 1..(n - 1) : requests[m].call = requests[n].call)
    BY <1>1, <1>8 DEF ViewArrives, Shows, UiOf
  <2>2. UpToDate(r, outcome, changes) /\ r.state = "served"
    BY <1>1, <1>8 DEF ViewArrives, Succeeds
  <2>3. DataUpToDate(ui'.data, outcome, changes)
    BY <2>1, <2>2 DEF UpToDate, DataUpToDate
  <2> QED BY <1>8, <2>1, <2>3, ViewSettled DEF ViewArrives
<1>9. ASSUME NEW n \in DOMAIN requests, ViewFails(n) PROVE ViewInv'
  <2>1. ui'.data = ui.data /\ ui'.error /\ ui'.filter = ui.filter
        /\ ui'.overtaken = (ui.overtaken \/ \E m \in 1..(n - 1) : requests[m].call = requests[n].call)
    BY <1>1, <1>9 DEF ViewFails, ShowsFailure, Shows, UiOf
  <2> QED BY <1>1, <1>9, <2>1, ViewSettled DEF ViewFails
<1> QED BY <1>2, <1>3, <1>4, <1>5, <1>6, <1>7, <1>8, <1>9, ViewNext

LEMMA ViewInit == Init => ViewInv
<1> SUFFICES ASSUME Init, page \in {"queue", "dashboard"} PROVE ViewInv
  BY DEF ViewInv
<1>1. InitView /\ changes = 0 /\ outcome = [d \in Decisions |-> IF d = Case THEN "REFER" ELSE "none"]
  BY DEF Init, InitCase, InitPolicy
<1>2. \A r : Len(<<r>>) = 1 /\ DOMAIN <<r>> = {1} /\ <<r>>[1] = r
  OBVIOUS
<1>3. Len(requests) = 1 /\ DOMAIN requests = {1} /\ requests[1] = Request(page, "")
  BY <1>1, <1>2 DEF InitView
<1>4. UpToDate(Request(page, ""), outcome, changes) /\ Request(page, "").arg = ""
  BY <1>1 DEF Request, UpToDate
<1>5. MatchingIn(outcome, "none") = {}
  BY <1>1 DEF MatchingIn
<1>6. DataUpToDate(ui.data, outcome, changes)
  <2>1. Cardinality({}) = 0
    BY FS_EmptySet
  <2>2. ui.data = NoData
    BY <1>1 DEF InitView
  <2>3. NoData.asked = 0 /\ NoData.filter = "none" /\ NoData.rows = {} /\ NoData.total = 0
    BY DEF NoData
  <2> QED BY <1>1, <1>5, <2>1, <2>2, <2>3 DEF DataUpToDate
<1>7. FilterInv
  <2>1. ui.filter = ""
    BY <1>1 DEF InitView
  <2>2. Len(requests) = 1
    BY <1>3
  <2>3. requests[1].arg = ""
    BY <1>3, <1>4
  <2>4. requests[1].arg = ui.filter
    BY <2>1, <2>3
  <2> QED BY <2>2, <2>4 DEF FilterInv
<1> QED BY <1>3, <1>4, <1>6, <1>7 DEF ViewInv

LEMMA ViewInductive == Spec => []ViewInv
BY TypeInductive, ViewInit, ViewStep, PTL DEF Spec

(* Whatever the number of requests under way and of decisions taken        *)
(* meanwhile: once all answers are in and none overtook another, the queue *)
(* and the dashboard show an error or what their filters ask for.          *)
THEOREM FiltersFollowed == Spec => []ViewFollowsFilter
<1>1. TypeInv /\ ViewInv => ViewFollowsFilter
  <2> SUFFICES ASSUME TypeInv, ViewInv, page \in {"queue", "dashboard"}, Quiet, ~ui.overtaken, ~ui.error
               PROVE  /\ ui.data.filter = ui.filter
                      /\ ui.data.asked = changes => /\ ui.data.rows = Matching(ui.filter)
                                                    /\ ui.data.total = Cardinality(ui.data.rows)
    BY DEF ViewFollowsFilter
  <2>1. ui.data.filter = ui.filter
    <3>1. Len(requests) = 0
      BY DEF Quiet
    <3> QED BY <3>1 DEF ViewInv, FilterInv
  <2>2. Matching(ui.filter) = MatchingIn(outcome, ui.filter)
    BY DEF Matching, MatchingIn
  <2> QED BY <2>1, <2>2 DEF ViewInv, DataUpToDate
<1> QED BY <1>1, TypeInductive, ViewInductive, PTL

-----------------------------------------------------------------------------
(* The policy editor.                                                      *)

LEMMA PolicyNext ==
    ASSUME TypeInv, page = "policy", Next
    PROVE  \/ RejectInput \/ RunSimulation
           \/ \E t \in RuleTexts : EditRules(t)
           \/ \E v \in Versions : LoadIntoEditor(v) \/ SaveDraft(v) \/ ClickActivate(v)
           \/ \E n \in DOMAIN requests : Read(n) \/ CreateDraft(n) \/ ActivateDraft(n)
                                         \/ PolicyArrives(n) \/ PolicyFails(n)
<1>1. ASSUME NEW n \in DOMAIN requests, Serve(n) \/ Arrive(n)
      PROVE  Read(n) \/ CreateDraft(n) \/ ActivateDraft(n) \/ PolicyArrives(n) \/ PolicyFails(n)
  <2>1. requests[n].call \in {"policies", "simulate", "create", "activate"}
    BY DEF TypeInv, CallsOf
  <2> QED BY <1>1, <2>1 DEF Serve, Arrive, QueueFind, QueueCount, Stats, OverrideCheck,
                            OverrideCommit, CaseArrives, CaseFails, ViewArrives, ViewFails
<1> QED BY <1>1 DEF Next, User, Others, ClickReplay, SubmitOverride, CaseRendered, ChangeFilter

(* Sending anything, to make the list be loaded or not, loses nothing. *)
LEMMA PolicySent ==
    ASSUME TypeInv, PolicyInv, page = "policy", NEW r \in RequestRecords, Sends(r),
           r.call # "policies", UNCHANGED <<page, server>>,
           ui'.list = ui.list, ui'.overtaken = ui.overtaken, ui'.lost = ui.lost
    PROVE  PolicyInv'
<1>1. /\ Len(requests') = Len(requests) + 1 /\ DOMAIN requests' = 1..(Len(requests) + 1)
      /\ requests'[Len(requests) + 1] = r /\ \A i \in DOMAIN requests : requests'[i] = requests[i]
      /\ Len(requests) \in Nat /\ DOMAIN requests = 1..Len(requests)
  BY SendsAppends DEF TypeInv
<1>2. policy' = policy /\ page' = page
  BY DEF server
<1>3. \A i \in DOMAIN requests' : i \in DOMAIN requests \/ requests'[i].call # "policies"
  BY <1>1
<1> SUFFICES ASSUME ~ui.overtaken, ~ui.lost
             PROVE  (Reloaded \/ \E n \in DOMAIN requests : WillReload(n) \/ Reloads(n))'
  BY DEF PolicyInv
<1>4. Reloaded \/ \E n \in DOMAIN requests : WillReload(n) \/ Reloads(n)
  BY DEF PolicyInv
<1>5. ASSUME Reloaded PROVE Reloaded'
  BY <1>1, <1>2, <1>3, <1>5 DEF Reloaded
<1>6. ASSUME NEW n \in DOMAIN requests, WillReload(n) PROVE n \in DOMAIN requests' /\ WillReload(n)'
  BY <1>1, <1>6 DEF WillReload
<1>7. ASSUME NEW n \in DOMAIN requests, Reloads(n) PROVE n \in DOMAIN requests' /\ Reloads(n)'
  BY <1>1, <1>2, <1>3, <1>7 DEF Reloads
<1> QED BY <1>4, <1>5, <1>6, <1>7

LEMMA PolicyServed ==
    ASSUME TypeInv, PolicyInv, page = "policy", NEW n \in DOMAIN requests, NEW q,
           requests' = [requests EXCEPT ![n] = q], UNCHANGED <<page, ui>>,
           q.call = requests[n].call, requests[n].state = "sent",
           \/ policy' = policy /\ (q.call = "policies" => q.result = policy)
           \/ q.call \in {"create", "activate"} /\ q.state = "served"
    PROVE  PolicyInv'
<1>1. /\ DOMAIN requests' = DOMAIN requests
      /\ \A i \in DOMAIN requests : requests'[i] = IF i = n THEN q ELSE requests[i]
      /\ \A i \in DOMAIN requests : requests'[i].call = requests[i].call
  BY DEF TypeInv
<1> SUFFICES ASSUME ~ui.overtaken, ~ui.lost
             PROVE  (Reloaded \/ \E m \in DOMAIN requests : WillReload(m) \/ Reloads(m))'
  BY DEF PolicyInv
<1>2. CASE q.call \in {"create", "activate"} /\ q.state = "served"
  <2>1. WillReload(n)'
    BY <1>1, <1>2 DEF WillReload
  <2> QED BY <1>1, <2>1
<1>3. CASE policy' = policy /\ (q.call = "policies" => q.result = policy)
  <2>1. Reloaded \/ \E m \in DOMAIN requests : WillReload(m) \/ Reloads(m)
    BY DEF PolicyInv
  <2>2. ASSUME Reloaded PROVE Reloaded'
    BY <1>1, <1>3, <2>2 DEF Reloaded
  <2>3. ASSUME NEW m \in DOMAIN requests, WillReload(m) PROVE WillReload(m)'
    <3>1. m # n
      BY <2>3 DEF WillReload
    <3> QED BY <1>1, <2>3, <3>1 DEF WillReload
  <2>4. ASSUME NEW m \in DOMAIN requests, Reloads(m) PROVE Reloads(m)'
    BY <1>1, <1>3, <2>4 DEF Reloads
  <2> QED BY <1>1, <2>1, <2>2, <2>3, <2>4
<1> QED BY <1>2, <1>3

(* Request n is settled without another one being sent. *)
LEMMA PolicySettled ==
    ASSUME TypeInv, PolicyInv, page = "policy", NEW n \in DOMAIN requests, Settles(n, <<>>),
           UNCHANGED <<page, server>>, ui'.lost = ui.lost, ~WillReload(n),
           ui'.overtaken = (ui.overtaken \/ \E m \in 1..(n - 1) : requests[m].call = requests[n].call),
           ui'.list = IF requests[n].call = "policies" THEN requests[n].result ELSE ui.list,
           requests[n].call = "policies" => requests[n].state = "served"
    PROVE  PolicyInv'
<1>1. /\ DOMAIN requests' = 1..(Len(requests) - 1)
      /\ \A i \in 1..(Len(requests) - 1) :
            Kept(n, i) \in DOMAIN requests \ {n} /\ requests'[i] = requests[Kept(n, i)]
      /\ Len(requests) \in Nat /\ n \in 1..Len(requests) /\ DOMAIN requests = 1..Len(requests)
  BY SettlesOnly
<1>2. policy' = policy /\ page' = page
  BY DEF server
<1> SUFFICES ASSUME ~ui'.overtaken, ~ui'.lost
             PROVE  (Reloaded \/ \E m \in DOMAIN requests : WillReload(m) \/ Reloads(m))'
  BY DEF PolicyInv
<1>3. ~ui.overtaken /\ ~ui.lost /\ \A m \in 1..(n - 1) : requests[m].call # requests[n].call
  OBVIOUS
<1>4. Reloaded \/ \E m \in DOMAIN requests : WillReload(m) \/ Reloads(m)
  BY <1>3 DEF PolicyInv
<1>5. \A m \in DOMAIN requests : m # n => \E i \in DOMAIN requests' : Kept(n, i) = m
  <2> SUFFICES ASSUME NEW m \in DOMAIN requests, m # n PROVE \E i \in DOMAIN requests' : Kept(n, i) = m
    OBVIOUS
  <2> DEFINE i == IF m < n THEN m ELSE m - 1
  <2>1. i \in 1..(Len(requests) - 1) /\ Kept(n, i) = m
    BY <1>1 DEF Kept
  <2> QED BY <1>1, <2>1
<1>6. \A i, j \in DOMAIN requests' : i < j => Kept(n, i) < Kept(n, j)
  BY <1>1 DEF Kept
<1>7. CASE Reloaded
  <2>1. requests[n].call # "policies" /\ \A i \in DOMAIN requests' : requests'[i].call # "policies"
    BY <1>1, <1>7 DEF Reloaded
  <2>2. Reloaded'
    BY <1>2, <1>7, <2>1 DEF Reloaded
  <2> QED BY <2>2
<1>8. ASSUME NEW m \in DOMAIN requests, WillReload(m)
      PROVE  \E i \in DOMAIN requests' : WillReload(i)'
  <2>1. m # n
    BY <1>8
  <2>2. PICK i \in DOMAIN requests' : Kept(n, i) = m
    BY <1>5, <2>1
  <2>3. WillReload(i)'
    BY <1>1, <1>8, <2>2 DEF WillReload
  <2> QED BY <2>3
<1>9. ASSUME NEW m \in DOMAIN requests, Reloads(m)
      PROVE  Reloaded' \/ \E i \in DOMAIN requests' : Reloads(i)'
  <2>1. CASE m = n
    <3>1. requests[n].call = "policies" /\ requests[n].result = policy
      BY <1>9, <2>1 DEF Reloads
    <3>2. \A k \in DOMAIN requests : k # n => requests[k].call # "policies"
      BY <1>1, <1>3, <1>9, <2>1, <3>1 DEF Reloads
    <3>3. Reloaded'
      BY <1>1, <1>2, <3>1, <3>2 DEF Reloaded
    <3> QED BY <3>3
  <2>2. CASE m # n
    <3>1. PICK i \in DOMAIN requests' : Kept(n, i) = m
      BY <1>5, <2>2
    <3>2. requests'[i] = requests[m]
      BY <1>1, <3>1
    <3>3. \A j \in DOMAIN requests' : j > i => requests'[j].call # "policies"
      <4> SUFFICES ASSUME NEW j \in DOMAIN requests', j > i PROVE requests'[j].call # "policies"
        OBVIOUS
      <4>1. Kept(n, j) > m /\ Kept(n, j) \in DOMAIN requests
        BY <1>1, <1>6, <3>1 DEF Kept
      <4> QED BY <1>1, <1>9, <4>1 DEF Reloads
    <3>4. Reloads(i)'
      BY <1>2, <1>9, <3>2, <3>3 DEF Reloads
    <3> QED BY <3>4
  <2> QED BY <2>1, <2>2
<1> QED BY <1>4, <1>7, <1>8, <1>9

LEMMA PolicyStep == TypeInv /\ PolicyInv /\ [Next]_vars => PolicyInv'
<1> SUFFICES ASSUME TypeInv, PolicyInv, [Next]_vars, page = "policy" PROVE PolicyInv'
  BY PageStays DEF PolicyInv
<1>1. /\ requests \in Seq(RequestRecords) /\ ui \in UiOf(page)
      /\ \A n \in DOMAIN requests : requests[n] \in RequestRecords /\ Fits(requests[n])
  BY DEF TypeInv
<1>2. ASSUME UNCHANGED <<page, requests, server>>, ui'.list = ui.list,
             ui'.overtaken = ui.overtaken, ui'.lost = ui.lost
      PROVE  PolicyInv'
  BY <1>2 DEF PolicyInv, Reloaded, WillReload, Reloads, server
<1>3. CASE UNCHANGED vars
  BY <1>2, <1>3 DEF vars, server
<1>4. CASE RejectInput \/ (\E t \in RuleTexts : EditRules(t)) \/ \E v \in Versions : LoadIntoEditor(v)
  <2>1. ui'.list = ui.list /\ ui'.overtaken = ui.overtaken /\ ui'.lost = ui.lost
    BY <1>1, <1>4 DEF RejectInput, EditRules, LoadIntoEditor, UiOf
  <2> QED BY <1>2, <1>4, <2>1 DEF RejectInput, EditRules, LoadIntoEditor
<1>5. ASSUME RunSimulation \/ \E v \in Versions : SaveDraft(v) \/ ClickActivate(v) PROVE PolicyInv'
  <2>1. ui'.list = ui.list /\ ui'.overtaken = ui.overtaken /\ ui'.lost = ui.lost
        /\ ui.rules \in RuleTexts \union {"none"}
    BY <1>1, <1>5 DEF RunSimulation, SaveDraft, ClickActivate, UiOf
  <2>2. PICK call \in {"simulate", "create", "activate"}, arg \in Filters \union Overrides \union Versions :
            Sends(Request(call, arg)) \/ Sends([Request(call, arg) EXCEPT !.rules = ui.rules])
    BY <1>5, FiltersAssumption DEF RunSimulation, SaveDraft, ClickActivate
  <2>3. Request(call, arg) \in RequestRecords /\ Request(call, arg).call = call
    <3>1. call \in CallsOf(page) /\ call # "override"
      BY DEF CallsOf
    <3> QED BY <3>1, PlainRequestType
  <2> DEFINE r == Request(call, arg)
             edited == [r EXCEPT !.rules = ui.rules]
  <2>4. edited \in RequestRecords /\ edited.call = call
    BY <2>1, <2>3 DEF RequestRecords
  <2>5. UNCHANGED <<page, server>>
    BY <1>5 DEF RunSimulation, SaveDraft, ClickActivate
  <2>6. Sends(r) \/ Sends(edited)
    BY <2>2
  <2> HIDE DEF r, edited
  <2>7. r \in RequestRecords /\ r.call # "policies" /\ edited.call # "policies"
    BY <2>3, <2>4 DEF r
  <2> QED BY <2>1, <2>4, <2>5, <2>6, <2>7, PolicySent
<1>6. ASSUME NEW n \in DOMAIN requests, Read(n) PROVE PolicyInv'
  <2>1. requests[n].call \in {"policies", "simulate"}
    BY <1>6 DEF Read, TypeInv, CallsOf
  <2> DEFINE q == [requests[n] EXCEPT !.result = policy, !.state = "served"]
  <2>2. requests' = [requests EXCEPT ![n] = q] /\ requests[n].state = "sent"
    BY <1>1, <1>6, <2>1 DEF Read
  <2>3. q.call = requests[n].call /\ q.result = policy
    BY <1>1 DEF RequestRecords
  <2> HIDE DEF q
  <2> QED BY <1>6, <2>2, <2>3, PolicyServed DEF Read, server
<1>7. ASSUME NEW n \in DOMAIN requests, CreateDraft(n) \/ ActivateDraft(n) PROVE PolicyInv'
  <2> DEFINE done == [requests[n] EXCEPT !.state = "served"]
             refused == [requests[n] EXCEPT !.state = "rejected"]
  <2>1. \/ requests' = [requests EXCEPT ![n] = done]
        \/ requests' = [requests EXCEPT ![n] = refused] /\ policy' = policy
    BY <1>1, <1>7 DEF CreateDraft, ActivateDraft
  <2>2. requests[n].call \in {"create", "activate"} /\ requests[n].state = "sent"
        /\ UNCHANGED <<page, ui>>
    BY <1>7 DEF CreateDraft, ActivateDraft
  <2>3. done.call = requests[n].call /\ done.state = "served" /\ refused.call = requests[n].call
    BY <1>1 DEF RequestRecords
  <2> HIDE DEF done, refused
  <2> QED BY <2>1, <2>2, <2>3, PolicyServed
<1> DEFINE older(n) == \E m \in 1..(n - 1) : requests[m].call = requests[n].call
<1>8. ASSUME NEW n \in DOMAIN requests, PolicyArrives(n) PROVE PolicyInv'
  <2>1. UNCHANGED <<page, server>> /\ requests[n].state = "served"
    BY <1>8 DEF PolicyArrives, Succeeds
  <2>2. CASE requests[n].call \in {"policies", "simulate"}
    <3>1. /\ Settles(n, <<>>) /\ ui'.lost = ui.lost
          /\ ui'.overtaken = (ui.overtaken \/ older(n))
          /\ ui'.list = IF requests[n].call = "policies" THEN requests[n].result ELSE ui.list
      BY <1>1, <1>8, <2>2 DEF PolicyArrives, Shows, UiOf
    <3>2. ~WillReload(n)
      BY <2>2 DEF WillReload
    <3> QED BY <2>1, <3>1, <3>2, PolicySettled
  <2>3. CASE requests[n].call \in {"create", "activate"}
    <3> DEFINE r == Request("policies", "")
    <3>1. Settles(n, <<r>>)
      BY <1>8, <2>3 DEF PolicyArrives
    <3>2. r \in RequestRecords /\ r.call = "policies" /\ r.state = "sent"
      <4>1. "policies" \in CallsOf(page)
        BY DEF CallsOf
      <4> QED BY <4>1, BlankRequestType
    <3> HIDE DEF r
    <3>3. Len(requests) \in DOMAIN requests' /\ requests'[Len(requests)] = r
          /\ DOMAIN requests' = 1..Len(requests)
      BY <1>1, <3>1, <3>2, SettlesAndSends
    <3>4. PICK k \in DOMAIN requests' : k = Len(requests)
      BY <3>3
    <3>5. Reloads(k)'
      BY <1>1, <3>2, <3>3, <3>4 DEF Reloads
    <3> QED BY <3>5 DEF PolicyInv
  <2>4. requests[n].call \in {"policies", "simulate", "create", "activate"}
    BY <1>8 DEF PolicyArrives
  <2> QED BY <2>2, <2>3, <2>4
<1>9. ASSUME NEW n \in DOMAIN requests, PolicyFails(n) PROVE PolicyInv'
  <2>1. /\ Settles(n, <<>>) /\ UNCHANGED <<page, server>>
        /\ ui'.lost = (ui.lost \/ requests[n].state # "rejected")
        /\ ui'.overtaken = (ui.overtaken \/ older(n)) /\ ui'.list = ui.list
    BY <1>1, <1>9 DEF PolicyFails, ShowsFailure, Shows, UiOf
  <2> SUFFICES ASSUME ~ui'.lost PROVE PolicyInv'
    BY DEF PolicyInv
  <2>2. requests[n].state = "rejected" /\ ~ui.lost
    BY <2>1
  <2>3. requests[n].call # "policies" /\ ~WillReload(n)
    BY <1>1, <2>2 DEF Fits, WillReload
  <2>4. ui'.lost = ui.lost
    BY <1>1, <2>1, <2>2 DEF UiOf
  <2> QED BY <2>1, <2>3, <2>4, PolicySettled
<1> QED BY <1>3, <1>4, <1>5, <1>6, <1>7, <1>8, <1>9, PolicyNext

LEMMA PolicyInit == Init => PolicyInv
<1> SUFFICES ASSUME Init, page = "policy" PROVE PolicyInv
  BY DEF PolicyInv
<1>1. requests = <<Request("policies", "")>>
  BY DEF Init, InitView, InitCase, InitPolicy
<1>2. \A r : DOMAIN <<r>> = {1} /\ <<r>>[1] = r
  OBVIOUS
<1>3. DOMAIN requests = {1} /\ requests[1] = Request("policies", "")
  BY <1>1, <1>2
<1>4. Request("policies", "").call = "policies" /\ Request("policies", "").state = "sent"
  BY DEF Request
<1>5. requests[1].call = "policies" /\ requests[1].state = "sent"
  BY <1>3, <1>4
<1>6. Reloads(1)
  <2>1. DOMAIN requests = {1}
    BY <1>3
  <2>2. \A m \in DOMAIN requests : ~(m > 1)
    BY <2>1
  <2> QED BY <1>5, <2>2 DEF Reloads
<1> QED BY <1>3, <1>6 DEF PolicyInv

LEMMA PolicyInductive == Spec => []PolicyInv
BY TypeInductive, PolicyInit, PolicyStep, PTL DEF Spec

(* Saves and activations that overlap in any number, each with its own     *)
(* reload: once all answers are in, the list is that of the database,      *)
(* unless an answer was lost or a list overtook another.                   *)
THEOREM ListCatchesUp == Spec => []PoliciesCatchUp
<1>1. PolicyInv => PoliciesCatchUp
  <2> SUFFICES ASSUME PolicyInv, page = "policy", Quiet, ~ui.overtaken, ~ui.lost
               PROVE  ui.list = policy
    BY DEF PoliciesCatchUp
  <2>1. DOMAIN requests = {}
    BY DEF Quiet
  <2> QED BY <2>1 DEF PolicyInv, Reloaded
<1> QED BY <1>1, PolicyInductive, PTL

-----------------------------------------------------------------------------
(* The page of a case.                                                     *)

LEMMA CaseNext ==
    ASSUME TypeInv, page = "case", Next
    PROVE  \/ ClickReplay \/ \E o \in Overrides : SubmitOverride(o)
           \/ \E d \in Decisions, o \in Engine \union Overrides :
              Decide(d, o) \/ (OverrideElsewhere(d, o) /\ o \in Overrides)
           \/ \E n \in DOMAIN requests : \/ Read(n) \/ OverrideCheck(n) \/ OverrideCommit(n)
                                         \/ CaseArrives(n) \/ CaseFails(n)
<1>1. ASSUME NEW n \in DOMAIN requests, Serve(n) \/ Arrive(n)
      PROVE  Read(n) \/ OverrideCheck(n) \/ OverrideCommit(n) \/ CaseArrives(n) \/ CaseFails(n)
  <2>1. requests[n].call \in {"application", "replay", "override"}
    BY DEF TypeInv, CallsOf
  <2> QED BY <1>1, <2>1 DEF Serve, Arrive, QueueFind, QueueCount, Stats, CreateDraft, ActivateDraft,
                            PolicyArrives, PolicyFails, ViewArrives, ViewFails
<1>2. ASSUME User PROVE ClickReplay \/ \E o \in Overrides : SubmitOverride(o)
  BY <1>2 DEF User, ChangeFilter, RejectInput, RunSimulation, EditRules, LoadIntoEditor,
              SaveDraft, ClickActivate
<1>3. ASSUME Others
      PROVE  \E d \in Decisions, o \in Engine \union Overrides :
              Decide(d, o) \/ (OverrideElsewhere(d, o) /\ o \in Overrides)
  <2>1. PICK d \in Decisions : \/ \E o \in Engine : Decide(d, o)
                               \/ \E o \in Overrides : OverrideElsewhere(d, o)
    BY <1>3 DEF Others
  <2> QED BY <2>1
<1> QED BY <1>1, <1>2, <1>3 DEF Next

LEMMA CaseSent ==
    ASSUME TypeInv, CaseInv, page = "case", NEW r \in RequestRecords, Sends(r),
           r.call # "application", r.state = "sent", UNCHANGED <<page, server>>,
           ui'.shown = ui.shown, ui'.asked = ui.asked,
           r.call = "override" => ~ui.submitting /\ ui'.submitting /\ ui.shown # "nothing",
           r.call # "override" => ui'.submitting = ui.submitting
    PROVE  CaseInv'
<1>1. /\ DOMAIN requests' = 1..(Len(requests) + 1)
      /\ requests'[Len(requests) + 1] = r /\ \A i \in DOMAIN requests : requests'[i] = requests[i]
      /\ Len(requests) \in Nat /\ DOMAIN requests = 1..Len(requests)
  BY SendsAppends DEF TypeInv
<1>2. PICK last : last = Len(requests) + 1
  OBVIOUS
<1>3. outcome' = outcome /\ changes' = changes
  BY DEF server
<1>4. /\ outcome[Case] # "none" /\ OneOfEach /\ LoadsAfterOverride /\ OverridesSubmitted
      /\ AskedInOrder
  BY DEF CaseInv
<1>5. /\ \A i \in DOMAIN requests' : i \in DOMAIN requests \/ i = last
      /\ requests'[last] = r /\ DOMAIN requests \subseteq DOMAIN requests'
  BY <1>2, <1>1
<1>6. ~IsLoad(last)'
  BY <1>5 DEF IsLoad
<1>7. IsOverride(last)' => /\ r.call = "override"
                           /\ \A i \in DOMAIN requests : ~IsOverride(i)
  BY <1>4, <1>5 DEF IsOverride, OverridesSubmitted
<1>8. \A i \in DOMAIN requests : (IsLoad(i)' <=> IsLoad(i)) /\ (IsOverride(i)' <=> IsOverride(i))
  BY <1>1 DEF IsLoad, IsOverride
<1>9. OneOfEach'
  BY <1>4, <1>5, <1>6, <1>7, <1>8 DEF OneOfEach
<1>10. LoadsAfterOverride'
  <2> SUFFICES ASSUME NEW i \in DOMAIN requests', IsLoad(i)', ui.shown # "nothing"
               PROVE  /\ outcome[Case] # "REFER"
                      /\ requests'[i].state = "served" => requests'[i].result # "REFER"
                      /\ \A m \in DOMAIN requests' : IsOverride(m)' =>
                            requests'[m].state \in {"sent", "rejected"}
    BY <1>3 DEF LoadsAfterOverride
  <2>1. i \in DOMAIN requests /\ IsLoad(i) /\ requests'[i] = requests[i]
    BY <1>1, <1>5, <1>6, <1>8
  <2>2. requests'[last].state = "sent"
    BY <1>5
  <2> QED BY <1>1, <1>4, <1>5, <1>8, <2>1, <2>2 DEF LoadsAfterOverride
<1>11. OverridesSubmitted'
  <2> SUFFICES ASSUME NEW i \in DOMAIN requests', IsOverride(i)'
               PROVE  /\ ui'.submitting /\ ui.shown # "nothing"
                      /\ requests'[i].state = "served" => outcome[Case] # "REFER"
    BY <1>3 DEF OverridesSubmitted
  <2>1. CASE i \in DOMAIN requests
    <3>1. IsOverride(i) /\ requests'[i] = requests[i]
      BY <1>1, <1>8, <2>1
    <3>2. ui.submitting /\ ui.shown # "nothing" /\ (requests[i].state = "served" => outcome[Case] # "REFER")
      BY <1>4, <2>1, <3>1 DEF OverridesSubmitted
    <3>3. ui'.submitting
      BY <3>2
    <3> QED BY <3>1, <3>2, <3>3
  <2>2. CASE i = last
    <3>1. requests'[i].state = "sent"
      BY <1>5, <2>2
    <3> QED BY <1>7, <2>2, <3>1
  <2> QED BY <1>5, <2>1, <2>2
<1>12. AskedInOrder'
  BY <1>1, <1>3, <1>4, <1>5, <1>6, <1>8 DEF AskedInOrder
<1> QED BY <1>3, <1>4, <1>9, <1>10, <1>11, <1>12 DEF CaseInv

LEMMA CaseServed ==
    ASSUME TypeInv, CaseInv, page = "case", NEW n \in DOMAIN requests, NEW q,
           requests' = [requests EXCEPT ![n] = q], UNCHANGED <<page, ui>>,
           q.call = requests[n].call, q.asked = requests[n].asked, changes' >= changes, changes' \in Nat,
           outcome'[Case] # "none", outcome[Case] # "REFER" => outcome'[Case] # "REFER",
           q.call = "application" => q.result = outcome[Case],
           q.call = "override" =>
               /\ q.state = "served" => outcome'[Case] # "REFER"
               /\ q.state = "rejected" \/ \A m \in DOMAIN requests : ~IsLoad(m)
    PROVE  CaseInv'
<1>1. /\ DOMAIN requests' = DOMAIN requests
      /\ \A i \in DOMAIN requests : requests'[i] = IF i = n THEN q ELSE requests[i]
      /\ \A i \in DOMAIN requests : /\ requests'[i].call = requests[i].call
                                    /\ requests'[i].asked = requests[i].asked
  BY DEF TypeInv
<1>2. /\ changes \in Nat /\ ui.asked \in Nat
      /\ \A i \in DOMAIN requests : requests[i].asked \in Nat
  <2>1. ui \in UiOf(page)
    BY DEF TypeInv
  <2>2. ui.asked \in Nat
    BY <2>1 DEF UiOf
  <2>3. \A i \in DOMAIN requests : requests[i] \in RequestRecords
    BY DEF TypeInv
  <2> QED BY <2>2, <2>3 DEF TypeInv, RequestRecords
<1>3. /\ OneOfEach /\ LoadsAfterOverride /\ OverridesSubmitted /\ AskedInOrder
  BY DEF CaseInv
<1>4. \A i \in DOMAIN requests : (IsLoad(i)' <=> IsLoad(i)) /\ (IsOverride(i)' <=> IsOverride(i))
  BY <1>1 DEF IsLoad, IsOverride
<1>5. OneOfEach'
  BY <1>1, <1>3, <1>4 DEF OneOfEach
<1>6. LoadsAfterOverride'
  <2> SUFFICES ASSUME NEW i \in DOMAIN requests, IsLoad(i)', ui.shown # "nothing"
               PROVE  /\ outcome'[Case] # "REFER"
                      /\ requests'[i].state = "served" => requests'[i].result # "REFER"
                      /\ \A m \in DOMAIN requests : IsOverride(m)' =>
                            requests'[m].state \in {"sent", "rejected"}
    BY <1>1 DEF LoadsAfterOverride
  <2>1. IsLoad(i)
    BY <1>4
  <2>2. outcome[Case] # "REFER" /\ (requests[i].state = "served" => requests[i].result # "REFER")
        /\ \A m \in DOMAIN requests : IsOverride(m) => requests[m].state \in {"sent", "rejected"}
    BY <1>3, <2>1 DEF LoadsAfterOverride
  <2>3. i = n => q.call = "application"
    BY <2>1 DEF IsLoad
  <2>4. requests'[i].state = "served" => requests'[i].result # "REFER"
    BY <1>1, <2>2, <2>3
  <2>5. ASSUME NEW m \in DOMAIN requests, IsOverride(m)' PROVE requests'[m].state \in {"sent", "rejected"}
    <3>1. IsOverride(m)
      BY <1>4, <2>5
    <3>2. m = n => q.state = "rejected"
      BY <2>1, <3>1 DEF IsOverride
    <3> QED BY <1>1, <2>2, <3>1, <3>2
  <2> QED BY <2>2, <2>4, <2>5
<1>7. OverridesSubmitted'
  <2> SUFFICES ASSUME NEW i \in DOMAIN requests, IsOverride(i)'
               PROVE  /\ ui.submitting /\ ui.shown # "nothing"
                      /\ requests'[i].state = "served" => outcome'[Case] # "REFER"
    BY <1>1 DEF OverridesSubmitted
  <2>1. IsOverride(i)
    BY <1>4
  <2>2. i = n => q.call = "override"
    BY <2>1 DEF IsOverride
  <2> QED BY <1>1, <1>3, <2>1, <2>2 DEF OverridesSubmitted
<1>8. AskedInOrder'
  BY <1>1, <1>3, <1>4, <1>2 DEF AskedInOrder
<1> QED BY <1>5, <1>6, <1>7, <1>8 DEF CaseInv

LEMMA CaseSettled ==
    ASSUME TypeInv, CaseInv, page = "case", NEW n \in DOMAIN requests, Settles(n, <<>>),
           UNCHANGED <<page, server>>,
           ~IsOverride(n) => ui'.submitting = ui.submitting,
           \/ ui'.shown = ui.shown /\ ui'.asked = ui.asked
           \/ IsLoad(n) /\ ui'.shown # "nothing" /\ ui'.asked = requests[n].asked
    PROVE  CaseInv'
<1>1. /\ DOMAIN requests' = 1..(Len(requests) - 1)
      /\ \A i \in 1..(Len(requests) - 1) :
            Kept(n, i) \in DOMAIN requests \ {n} /\ requests'[i] = requests[Kept(n, i)]
      /\ Len(requests) \in Nat /\ n \in 1..Len(requests) /\ DOMAIN requests = 1..Len(requests)
  BY SettlesOnly
<1>2. outcome' = outcome /\ changes' = changes
  BY DEF server
<1>3. /\ outcome[Case] # "none" /\ OneOfEach /\ LoadsAfterOverride /\ OverridesSubmitted
      /\ AskedInOrder
  BY DEF CaseInv
<1>4. \A i \in DOMAIN requests' : (IsLoad(i)' <=> IsLoad(Kept(n, i)))
                                  /\ (IsOverride(i)' <=> IsOverride(Kept(n, i)))
  BY <1>1 DEF IsLoad, IsOverride
<1>5. \A i, j \in DOMAIN requests' : Kept(n, i) = Kept(n, j) => i = j
  BY <1>1 DEF Kept
<1>6. /\ IsLoad(n) => \A i \in DOMAIN requests' : ~IsLoad(i)'
      /\ IsOverride(n) => \A i \in DOMAIN requests' : ~IsOverride(i)'
  BY <1>1, <1>3, <1>4 DEF OneOfEach
<1>7. OneOfEach'
  BY <1>1, <1>3, <1>4, <1>5 DEF OneOfEach
<1>8. LoadsAfterOverride'
  <2> SUFFICES ASSUME NEW i \in DOMAIN requests', IsLoad(i)', ui'.shown # "nothing"
               PROVE  /\ outcome[Case] # "REFER"
                      /\ requests'[i].state = "served" => requests'[i].result # "REFER"
                      /\ \A m \in DOMAIN requests' : IsOverride(m)' =>
                            requests'[m].state \in {"sent", "rejected"}
    BY <1>2 DEF LoadsAfterOverride
  <2>1. ui.shown # "nothing" /\ IsLoad(Kept(n, i)) /\ Kept(n, i) \in DOMAIN requests
    BY <1>1, <1>4, <1>6
  <2> QED BY <1>1, <1>3, <1>4, <2>1 DEF LoadsAfterOverride
<1>9. OverridesSubmitted'
  <2> SUFFICES ASSUME NEW i \in DOMAIN requests', IsOverride(i)'
               PROVE  /\ ui'.submitting /\ ui'.shown # "nothing"
                      /\ requests'[i].state = "served" => outcome[Case] # "REFER"
    BY <1>2 DEF OverridesSubmitted
  <2>1. IsOverride(Kept(n, i)) /\ Kept(n, i) \in DOMAIN requests /\ ~IsOverride(n)
        /\ requests'[i] = requests[Kept(n, i)]
    BY <1>1, <1>4, <1>6
  <2>2. /\ ui.submitting /\ ui.shown # "nothing"
        /\ requests[Kept(n, i)].state = "served" => outcome[Case] # "REFER"
    BY <1>3, <2>1 DEF OverridesSubmitted
  <2>3. ui'.submitting
    BY <2>1, <2>2
  <2> QED BY <2>1, <2>2, <2>3
<1>10. AskedInOrder'
  BY <1>1, <1>2, <1>3, <1>4, <1>6 DEF AskedInOrder
<1> QED BY <1>2, <1>3, <1>7, <1>8, <1>9, <1>10 DEF CaseInv

(* The load that follows an override. *)
LEMMA CaseReload ==
    ASSUME TypeInv, CaseInv, page = "case", NEW n \in DOMAIN requests, NEW r \in RequestRecords,
           IsOverride(n), requests[n].state = "served", Settles(n, <<r>>),
           r.call = "application", r.state = "sent", r.asked = changes, UNCHANGED <<page, server>>,
           ui'.shown = ui.shown, ui'.asked = ui.asked
    PROVE  CaseInv'
<1> DEFINE last == Len(requests)
<1>1. /\ DOMAIN requests' = 1..last /\ requests'[last] = r
      /\ \A i \in 1..(last - 1) :
            Kept(n, i) \in DOMAIN requests \ {n} /\ requests'[i] = requests[Kept(n, i)]
      /\ last \in Nat /\ n \in 1..last /\ DOMAIN requests = 1..last
  BY SettlesAndSends
<1>2. outcome' = outcome /\ changes' = changes /\ changes \in Nat
  BY DEF server, TypeInv
<1>3. /\ outcome[Case] # "none" /\ OneOfEach /\ LoadsAfterOverride /\ OverridesSubmitted
      /\ AskedInOrder
  BY DEF CaseInv
<1>4. ui.shown # "nothing" /\ outcome[Case] # "REFER"
  BY <1>3 DEF OverridesSubmitted
<1>5. \A i \in DOMAIN requests : ~IsLoad(i)
  <2> SUFFICES ASSUME NEW i \in DOMAIN requests, IsLoad(i) PROVE FALSE
    OBVIOUS
  <2>1. requests[n].state \in {"sent", "rejected"}
    BY <1>3, <1>4 DEF LoadsAfterOverride
  <2> QED BY <2>1
<1>6. \A i \in DOMAIN requests : i # n => ~IsOverride(i)
  BY <1>3 DEF OneOfEach
<1>7. \A i \in DOMAIN requests' : i = last \/ i \in 1..(last - 1)
  BY <1>1
<1>8. \A i \in DOMAIN requests' : ~IsOverride(i)' /\ (IsLoad(i)' => i = last)
  <2> SUFFICES ASSUME NEW i \in DOMAIN requests' PROVE ~IsOverride(i)' /\ (IsLoad(i)' => i = last)
    OBVIOUS
  <2>1. CASE i = last
    BY <1>1, <2>1 DEF IsOverride
  <2>2. CASE i \in 1..(last - 1)
    <3>1. Kept(n, i) \in DOMAIN requests /\ Kept(n, i) # n /\ requests'[i] = requests[Kept(n, i)]
      BY <1>1, <2>2
    <3>2. ~IsOverride(Kept(n, i)) /\ ~IsLoad(Kept(n, i))
      BY <1>5, <1>6, <3>1
    <3> QED BY <3>1, <3>2 DEF IsOverride, IsLoad
  <2> QED BY <1>7, <2>1, <2>2
<1> HIDE DEF last
<1>9. OneOfEach'
  BY <1>8 DEF OneOfEach
<1>10. LoadsAfterOverride'
  BY <1>1, <1>2, <1>4, <1>8 DEF LoadsAfterOverride
<1>11. OverridesSubmitted'
  BY <1>8 DEF OverridesSubmitted
<1>12. AskedInOrder'
  BY <1>1, <1>2, <1>3, <1>8 DEF AskedInOrder
<1> QED BY <1>2, <1>3, <1>9, <1>10, <1>11, <1>12 DEF CaseInv

(* What the page of a case may never do, as an action of its state. *)
CaseForward ==
    /\ ui'.asked >= ui.asked
    /\ ui.shown \in {"APPROVE", "DECLINE"} => ui'.shown # "REFER"

LEMMA CaseStep ==
    ASSUME TypeInv, CaseInv, [Next]_vars, page = "case"
    PROVE  CaseInv' /\ CaseForward
<1>1. /\ requests \in Seq(RequestRecords) /\ changes \in Nat /\ ui.asked \in Nat
      /\ \A n \in DOMAIN requests : requests[n] \in RequestRecords /\ Fits(requests[n])
      /\ outcome \in [Decisions -> OutcomeSet] /\ Case \in Decisions
  <2>1. ui \in UiOf(page)
    BY DEF TypeInv
  <2>2. ui.asked \in Nat
    BY <2>1 DEF UiOf
  <2> QED BY <2>2, CaseAssumption DEF TypeInv, TypeOK, OutcomeSet
<1>2. /\ outcome[Case] # "none" /\ OneOfEach /\ LoadsAfterOverride /\ OverridesSubmitted
      /\ AskedInOrder
  BY DEF CaseInv
<1>3. ASSUME ui'.shown = ui.shown, ui'.asked = ui.asked PROVE CaseForward
  BY <1>1, <1>3 DEF CaseForward
<1>4. CASE UNCHANGED vars
  <2>1. CaseInv'
    BY <1>2, <1>4 DEF vars, CaseInv, OneOfEach, LoadsAfterOverride, OverridesSubmitted, AskedInOrder,
                      IsLoad, IsOverride
  <2> QED BY <1>3, <1>4, <2>1 DEF vars
<1>5. ui \in UiOf("case")
  BY DEF TypeInv
<1>6. CASE ClickReplay
  <2> DEFINE r == Request("replay", "")
  <2>1. r \in RequestRecords /\ r.call = "replay" /\ r.state = "sent"
    <3>1. "replay" \in CallsOf(page)
      BY DEF CallsOf
    <3> QED BY <3>1, BlankRequestType
  <2>2. Sends(r) /\ UNCHANGED <<page, server>>
    BY <1>6 DEF ClickReplay
  <2>3. ui'.shown = ui.shown /\ ui'.asked = ui.asked /\ ui'.submitting = ui.submitting
    BY <1>5, <1>6 DEF ClickReplay, UiOf
  <2> HIDE DEF r
  <2> QED BY <1>3, <2>1, <2>2, <2>3, CaseSent
<1>7. ASSUME NEW o \in Overrides, SubmitOverride(o) PROVE CaseInv' /\ CaseForward
  <2> DEFINE r == Request("override", o)
  <2>1. r \in RequestRecords /\ r.call = "override" /\ r.state = "sent"
    <3>1. "override" \in CallsOf(page)
      BY DEF CallsOf
    <3> QED BY <3>1, PlainRequestType
  <2>2. Sends(r) /\ UNCHANGED <<page, server>> /\ ~ui.submitting /\ ui.shown # "nothing"
    BY <1>7 DEF SubmitOverride, CaseRendered
  <2>3. ui'.shown = ui.shown /\ ui'.asked = ui.asked /\ ui'.submitting
    BY <1>5, <1>7 DEF SubmitOverride, UiOf
  <2> HIDE DEF r
  <2> QED BY <1>3, <2>1, <2>2, <2>3, CaseSent
<1>8. ASSUME NEW d \in Decisions, NEW o \in Engine \union Overrides,
             Decide(d, o) \/ (OverrideElsewhere(d, o) /\ o \in Overrides)
      PROVE  CaseInv' /\ CaseForward
  <2>1. UNCHANGED <<page, ui, requests>> /\ changes' = changes + 1
        /\ outcome' = [outcome EXCEPT ![d] = o]
    BY <1>8 DEF Decide, OverrideElsewhere
  <2>2. outcome'[Case] # "none" /\ (outcome[Case] # "REFER" => outcome'[Case] # "REFER")
    <3>1. CASE Decide(d, o)
      BY <1>1, <1>2, <2>1, <3>1 DEF Decide
    <3>2. CASE o \in Overrides
      BY <1>1, <1>2, <2>1, <3>2, OverridesAssumption
    <3> QED BY <1>8, <3>1, <3>2
  <2>3. LoadsAfterOverride' /\ OneOfEach' /\ OverridesSubmitted'
    BY <1>2, <2>1, <2>2 DEF LoadsAfterOverride, OneOfEach, OverridesSubmitted, IsLoad, IsOverride
  <2>4. AskedInOrder'
    <3>1. \A i \in DOMAIN requests : requests[i].asked \in Nat
      BY <1>1 DEF RequestRecords
    <3> QED BY <1>1, <1>2, <2>1, <3>1 DEF AskedInOrder, IsLoad
  <2> QED BY <1>3, <2>1, <2>2, <2>3, <2>4 DEF CaseInv
<1>9. ASSUME NEW n \in DOMAIN requests, Read(n) PROVE CaseInv' /\ CaseForward
  <2> DEFINE q(result) == [requests[n] EXCEPT !.result = result, !.state = "served"]
  <2>1. requests[n].call \in {"application", "replay"}
    BY <1>9 DEF Read, TypeInv, CallsOf
  <2> DEFINE replayed == IF outcome[Case] = "REFER" THEN "matches" ELSE "diverged"
  <2>2. PICK x : /\ requests' = [requests EXCEPT ![n] = q(x)]
                 /\ requests[n].call = "application" => x = outcome[Case]
    <3>1. \/ requests[n].call = "application" /\ requests' = [requests EXCEPT ![n] = q(outcome[Case])]
          \/ requests[n].call # "application" /\ requests' = [requests EXCEPT ![n] = q(replayed)]
      BY <1>1, <1>9, <2>1 DEF Read
    <3> HIDE DEF q, replayed
    <3> QED BY <3>1
  <2>3. q(x).call = requests[n].call /\ q(x).asked = requests[n].asked /\ q(x).result = x
    BY <1>1 DEF RequestRecords
  <2>4. UNCHANGED <<page, ui>> /\ outcome' = outcome /\ changes' >= changes /\ changes' \in Nat
    BY <1>1, <1>9 DEF Read, server
  <2> HIDE DEF q
  <2>5. CaseInv'
    BY <1>1, <1>2, <2>1, <2>2, <2>3, <2>4, CaseServed
  <2> QED BY <1>3, <2>4, <2>5
<1>10. ASSUME NEW n \in DOMAIN requests, OverrideCheck(n) PROVE CaseInv' /\ CaseForward
  <2> DEFINE q == [requests[n] EXCEPT !.state = IF outcome[Case] = "REFER" THEN "checked" ELSE "rejected"]
  <2>1. requests' = [requests EXCEPT ![n] = q] /\ UNCHANGED <<page, ui, server>>
        /\ requests[n].call = "override"
    BY <1>1, <1>10 DEF OverrideCheck
  <2>2. q.call = requests[n].call /\ q.asked = requests[n].asked
        /\ q.state = IF outcome[Case] = "REFER" THEN "checked" ELSE "rejected"
    BY <1>1 DEF RequestRecords
  <2>3. ui.shown # "nothing"
    BY <1>2, <2>1 DEF OverridesSubmitted, IsOverride
  <2>4. outcome[Case] = "REFER" => \A m \in DOMAIN requests : ~IsLoad(m)
    BY <1>2, <2>3 DEF LoadsAfterOverride
  <2> HIDE DEF q
  <2>5. UNCHANGED <<page, ui>> /\ outcome' = outcome /\ changes' >= changes /\ changes' \in Nat
    BY <1>1, <2>1 DEF server
  <2>6. q.state # "served" /\ (q.state = "rejected" \/ \A m \in DOMAIN requests : ~IsLoad(m))
    BY <2>2, <2>4
  <2>7. CaseInv'
    BY <1>2, <2>1, <2>2, <2>5, <2>6, CaseServed
  <2> QED BY <1>3, <2>1, <2>7
<1>11. ASSUME NEW n \in DOMAIN requests, OverrideCommit(n) PROVE CaseInv' /\ CaseForward
  <2> DEFINE q == [requests[n] EXCEPT !.state = "served"]
  <2>1. requests' = [requests EXCEPT ![n] = q] /\ UNCHANGED <<page, ui>> /\ changes' = changes + 1
        /\ requests[n].call = "override" /\ requests[n].state = "checked"
        /\ outcome' = [outcome EXCEPT ![Case] = requests[n].arg]
    BY <1>1, <1>11 DEF OverrideCommit
  <2>2. q.call = requests[n].call /\ q.asked = requests[n].asked /\ q.state = "served"
    BY <1>1 DEF RequestRecords
  <2>3. ui.shown # "nothing"
    BY <1>2, <2>1 DEF OverridesSubmitted, IsOverride
  <2>4. \A m \in DOMAIN requests : ~IsLoad(m)
    <3> SUFFICES ASSUME NEW m \in DOMAIN requests, IsLoad(m) PROVE FALSE
      OBVIOUS
    <3>1. requests[n].state \in {"sent", "rejected"}
      BY <1>2, <2>1, <2>3 DEF LoadsAfterOverride, IsOverride
    <3> QED BY <2>1, <3>1
  <2>5. outcome'[Case] \notin {"none", "REFER"}
    BY <1>1, <2>1, OverridesAssumption DEF Fits
  <2>6. changes' >= changes /\ changes' \in Nat
    BY <1>1, <2>1
  <2> HIDE DEF q
  <2>7. CaseInv'
    BY <2>1, <2>2, <2>4, <2>5, <2>6, CaseServed
  <2> QED BY <1>3, <2>1, <2>7
<1>12. ASSUME NEW n \in DOMAIN requests, CaseArrives(n) PROVE CaseInv' /\ CaseForward
  <2>1. UNCHANGED <<page, server>> /\ requests[n].state = "served"
    BY <1>12 DEF CaseArrives, Succeeds
  <2>2. CASE requests[n].call = "application"
    <3>1. Settles(n, <<>>) /\ IsLoad(n)
      BY <1>12, <2>2 DEF CaseArrives, IsLoad
    <3>2. /\ ui'.shown = requests[n].result /\ ui'.asked = requests[n].asked
          /\ ui'.submitting = ui.submitting
      BY <1>5, <1>12, <2>2 DEF CaseArrives, Shows, UiOf
    <3>3. requests[n].result # "nothing"
      BY <1>1, <2>2 DEF Fits, OutcomeSet
    <3>4. CaseInv'
      BY <2>1, <3>1, <3>2, <3>3, CaseSettled
    <3>5. ui'.asked >= ui.asked
      <4>1. requests[n].asked \in Nat
        BY <1>1 DEF RequestRecords
      <4> QED BY <1>1, <1>2, <3>1, <3>2, <4>1 DEF AskedInOrder
    <3>6. ui.shown # "nothing" => requests[n].result # "REFER"
      BY <1>2, <2>1, <3>1 DEF LoadsAfterOverride
    <3> QED BY <3>2, <3>4, <3>5, <3>6 DEF CaseForward
  <2>3. CASE requests[n].call = "replay"
    <3>1. Settles(n, <<>>)
      BY <1>12, <2>3 DEF CaseArrives
    <3>2. ui'.shown = ui.shown /\ ui'.asked = ui.asked /\ ui'.submitting = ui.submitting
      BY <1>5, <1>12, <2>3 DEF CaseArrives, Shows, UiOf
    <3> QED BY <1>3, <2>1, <3>1, <3>2, CaseSettled
  <2>4. CASE requests[n].call = "override"
    <3> DEFINE r == Request("application", "")
    <3>1. Settles(n, <<r>>) /\ IsOverride(n)
      BY <1>12, <2>4 DEF CaseArrives, IsOverride
    <3>2. r \in RequestRecords /\ r.call = "application" /\ r.state = "sent" /\ r.asked = changes
      <4>1. "application" \in CallsOf(page)
        BY DEF CallsOf
      <4> QED BY <4>1, BlankRequestType
    <3>3. ui'.shown = ui.shown /\ ui'.asked = ui.asked
      BY <1>5, <1>12, <2>4 DEF CaseArrives, Shows, UiOf
    <3> HIDE DEF r
    <3> QED BY <1>3, <2>1, <3>1, <3>2, <3>3, CaseReload
  <2> QED BY <1>12, <2>2, <2>3, <2>4 DEF CaseArrives
<1>13. ASSUME NEW n \in DOMAIN requests, CaseFails(n) PROVE CaseInv' /\ CaseForward
  <2>1. UNCHANGED <<page, server>> /\ Settles(n, <<>>)
        /\ ui'.shown = ui.shown /\ ui'.asked = ui.asked
        /\ (requests[n].call # "override" => ui'.submitting = ui.submitting)
    BY <1>5, <1>13 DEF CaseFails, ShowsFailure, Shows, UiOf
  <2> QED BY <1>3, <2>1, CaseSettled DEF IsOverride
<1> QED BY <1>4, <1>6, <1>7, <1>8, <1>9, <1>10, <1>11, <1>12, <1>13, CaseNext

LEMMA CaseInit == Init => CaseInv
<1> SUFFICES ASSUME Init, page = "case" PROVE CaseInv
  BY DEF CaseInv
<1>1. InitCase /\ changes = 0 /\ outcome = [d \in Decisions |-> IF d = Case THEN "REFER" ELSE "none"]
  BY DEF Init, InitView, InitPolicy
<1>2. \A r : DOMAIN <<r>> = {1} /\ <<r>>[1] = r
  OBVIOUS
<1>3. DOMAIN requests = {1} /\ requests[1] = Request("application", "")
  BY <1>1, <1>2 DEF InitCase
<1>4. DOMAIN requests = {1}
  BY <1>3
<1>5. requests[1].call = "application" /\ requests[1].asked = 0
  <2>1. Request("application", "").call = "application" /\ Request("application", "").asked = changes
    BY DEF Request
  <2>2. changes = 0
    BY <1>1
  <2> QED BY <1>3, <2>1, <2>2
<1>6. ui.shown = "nothing" /\ ui.asked = 0
  BY <1>1 DEF InitCase
<1>7. outcome[Case] # "none"
  BY <1>1, CaseAssumption
<1>8. OneOfEach /\ LoadsAfterOverride
  BY <1>4, <1>6 DEF OneOfEach, LoadsAfterOverride
<1>9. OverridesSubmitted
  BY <1>4, <1>5 DEF OverridesSubmitted, IsOverride
<1>10. AskedInOrder
  <2>1. changes = 0
    BY <1>1
  <2> QED BY <1>4, <1>5, <1>6, <2>1 DEF AskedInOrder
<1> QED BY <1>7, <1>8, <1>9, <1>10 DEF CaseInv

LEMMA CaseInductive == Spec => []CaseInv
<1>1. TypeInv /\ CaseInv /\ [Next]_vars => CaseInv'
  <2>1. CASE page = "case"
    BY <2>1, CaseStep
  <2>2. CASE page # "case"
    BY <2>2, PageStays DEF CaseInv
  <2> QED BY <2>1, <2>2
<1> QED BY <1>1, TypeInductive, CaseInit, PTL DEF Spec

(* A case never goes back to an older view, and never from a decision to   *)
(* REFER: the loads that overrides cause are never under way together,     *)
(* although the form is there for a second override while the first one's  *)
(* load is, and others override the case meanwhile.                        *)
THEOREM NeverGoesBack == Spec => CaseNeverGoesBack
<1>1. TypeInv /\ CaseInv /\ [Next]_vars =>
          [page = "case" =>
              /\ ui'.asked >= ui.asked
              /\ ui.shown \in {"APPROVE", "DECLINE"} => ui'.shown # "REFER"]_vars
  BY CaseStep DEF CaseForward
<1> QED BY <1>1, TypeInductive, CaseInductive, PTL DEF Spec, CaseNeverGoesBack
=============================================================================
