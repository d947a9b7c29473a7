------------------------------- MODULE Console -------------------------------
(***************************************************************************)
(* The underwriter console: the queue, a case, the dashboard and the       *)
(* policy editor, each a React page that sends requests to the             *)
(* orchestrator and shows whatever comes back.                             *)
(*                                                                         *)
(* One page is mounted.  A request is sent, carried out by the server and  *)
(* answered in steps of their own: answers may overtake each other, may be *)
(* lost after the server has acted, and find the page in a state that the  *)
(* user has changed meanwhile.  Other underwriters decide at any time.     *)
(***************************************************************************)
EXTENDS Naturals, Sequences, SequencesExt, FiniteSets

CONSTANTS
    Decisions,
    Case,           \* the decision of the page applications/[id]
    Filters,        \* values of the outcome filter, "" for any; the product and the days
                    \* of the dashboard select in the same way
    Engine,         \* what the engine decides of the others
    Overrides,      \* what underwriters decide: APPROVE, DECLINE or both
    Versions,       \* policy versions of one product
    RuleTexts,      \* contents of the rules editor
    BadRules,       \* the contents that are no JSON array
    MaxRequests     \* bound: requests that are under way

ASSUME CaseAssumption == Case \in Decisions
ASSUME FiltersAssumption == "" \in Filters /\ Engine \subseteq {"APPROVE", "REFER", "DECLINE"}
ASSUME OverridesAssumption == Overrides \subseteq {"APPROVE", "DECLINE"}
ASSUME RulesAssumption == BadRules \subseteq RuleTexts /\ "default" \in RuleTexts \ BadRules
ASSUME RequestsAssumption == MaxRequests \in Nat \ {0}

VARIABLES
    page,       \* the page that is mounted
    ui,         \* its React state, with the ghosts overtaken and lost
    requests,   \* those that are under way, in the order of sending
    outcome,    \* Decision.outcome, "none" until decided
    policy,     \* PolicyVersion rows: status, "none" until created, and rules
    changes     \* ghost: how often the server's data have changed

vars == <<page, ui, requests, outcome, policy, changes>>
server == <<outcome, policy, changes>>

NoData == [filter |-> "none", rows |-> {}, total |-> 0, asked |-> 0]
NoVersion == [status |-> "none", rules |-> "none"]

TypeOK ==
    /\ page \in {"queue", "dashboard", "case", "policy"}
    /\ outcome \in [Decisions -> {"none", "APPROVE", "REFER", "DECLINE"}]
    /\ policy \in [Versions -> [status : {"none", "DRAFT", "ACTIVE", "RETIRED"},
                                rules : RuleTexts \union {"none"}]]
    /\ Len(requests) <= MaxRequests
    /\ \A n \in DOMAIN requests :
          requests[n].state \in {"sent", "found", "counted", "checked",
                                 "served", "rejected"}

-----------------------------------------------------------------------------
(* api.ts: request.                                                        *)

Request(call, arg) == [call |-> call, arg |-> arg, state |-> "sent", asked |-> changes,
                       rules |-> "none", rows |-> {}, total |-> 0, result |-> "none"]

Sends(request) ==
    /\ Len(requests) < MaxRequests
    /\ requests' = Append(requests, request)

Quiet == requests = <<>>

\* Mutant: the answer may be delivered again.
SettlesAgain(n, more) == requests' = requests \o more

\* Request n is settled, and its handler sends those of more.
Settles(n, more) == requests' = RemoveAt(requests, n) \o more

\* The handler of request n sets the state of the page to s; noted is whether it
\* overtakes an older request of the same kind.
Shows(n, s) ==
    ui' = [s EXCEPT !.overtaken = @ \/ \E m \in 1..(n - 1) : requests[m].call = requests[n].call]

\* What is no success throws, and may do so whatever the server has done by then:
\* it refuses, or fails, or the answer is lost.
Succeeds(n) == requests[n].state = "served"
ShowsFailure(n, s) == Shows(n, [s EXCEPT !.lost = @ \/ requests[n].state # "rejected"])

\* Each page fetches when it is mounted.
InitView ==
    /\ page \in {"queue", "dashboard"}
    /\ ui = [filter |-> "", data |-> NoData, loading |-> page = "queue", error |-> FALSE,
             overtaken |-> FALSE, lost |-> FALSE]
    /\ requests = <<Request(page, "")>>

InitCase ==
    /\ page = "case"
    /\ ui = [shown |-> "nothing", asked |-> 0, error |-> FALSE, replay |-> "none",
             replaying |-> FALSE, submitting |-> FALSE, formError |-> FALSE,
             overtaken |-> FALSE, lost |-> FALSE]
    /\ requests = <<Request("application", "")>>

InitPolicy ==
    /\ page = "policy"
    /\ ui = [list |-> [v \in Versions |-> NoVersion], rules |-> "default",
             simulated |-> "none", busy |-> "no", error |-> FALSE,
             overtaken |-> FALSE, lost |-> FALSE]
    /\ requests = <<Request("policies", "")>>

Init ==
    /\ outcome = [d \in Decisions |-> IF d = Case THEN "REFER" ELSE "none"]
    /\ policy = [v \in Versions |-> NoVersion]
    /\ changes = 0
    /\ InitView \/ InitCase \/ InitPolicy

-----------------------------------------------------------------------------
(* The server, with the other users.                                       *)

Matching(f) == {d \in Decisions : outcome[d] # "none" /\ (f = "" \/ outcome[d] = f)}

Decide(d, o) ==
    /\ outcome[d] = "none"
    /\ outcome' = [outcome EXCEPT ![d] = o]
    /\ changes' = changes + 1
    /\ UNCHANGED <<page, ui, requests, policy>>

\* By another underwriter; AuditChain has the race of two overrides.
OverrideElsewhere(d, o) ==
    /\ outcome[d] = "REFER"
    /\ outcome' = [outcome EXCEPT ![d] = o]
    /\ changes' = changes + 1
    /\ UNCHANGED <<page, ui, requests, policy>>

\* DecisionsService.queue: findMany and count run side by side.
QueueFind(n) ==
    /\ requests[n].call = "queue" /\ requests[n].state \in {"sent", "counted"}
    /\ requests' = [requests EXCEPT ![n].rows = Matching(requests[n].arg),
                       ![n].state = IF @ = "sent" THEN "found" ELSE "served"]
    /\ UNCHANGED <<page, ui, server>>

QueueCount(n) ==
    /\ requests[n].call = "queue" /\ requests[n].state \in {"sent", "found"}
    /\ requests' = [requests EXCEPT ![n].total = Cardinality(Matching(requests[n].arg)),
                       ![n].state = IF @ = "sent" THEN "counted" ELSE "served"]
    /\ UNCHANGED <<page, ui, server>>

\* DecisionsService.stats: one findMany, and the figures of what it found.
Stats(n) ==
    /\ requests[n].call = "dashboard" /\ requests[n].state = "sent"
    /\ requests' = [requests EXCEPT ![n].rows = Matching(requests[n].arg),
                       ![n].total = Cardinality(Matching(requests[n].arg)),
                       ![n].state = "served"]
    /\ UNCHANGED <<page, ui, server>>

\* ApplicationsService.findById, and replay, which agrees with a decision for as
\* long as it is the engine's.
Read(n) ==
    /\ requests[n].state = "sent"
    /\ \/ requests[n].call = "application"
          /\ requests' = [requests EXCEPT ![n].result = outcome[Case], ![n].state = "served"]
       \/ requests[n].call = "replay"
          /\ requests' = [requests EXCEPT ![n].state = "served",
                             ![n].result = IF outcome[Case] = "REFER" THEN "matches" ELSE "diverged"]
       \/ requests[n].call \in {"policies", "simulate"}
          /\ requests' = [requests EXCEPT ![n].result = policy, ![n].state = "served"]
    /\ UNCHANGED <<page, ui, server>>

\* Mutant: the outcome is not checked.
OverrideUnchecked(n) ==
    /\ requests[n].call = "override" /\ requests[n].state = "sent"
    /\ requests' = [requests EXCEPT ![n].state = "checked"]
    /\ UNCHANGED <<page, ui, server>>

\* DecisionsService.override reads and checks before its transaction.
OverrideCheck(n) ==
    /\ requests[n].call = "override" /\ requests[n].state = "sent"
    /\ requests' = [requests EXCEPT ![n].state =
                       IF outcome[Case] = "REFER" THEN "checked" ELSE "rejected"]
    /\ UNCHANGED <<page, ui, server>>

OverrideCommit(n) ==
    /\ requests[n].call = "override" /\ requests[n].state = "checked"
    /\ requests' = [requests EXCEPT ![n].state = "served"]
    /\ outcome' = [outcome EXCEPT ![Case] = requests[n].arg]
    /\ changes' = changes + 1
    /\ UNCHANGED <<page, ui, policy>>

\* PolicyService.createDraft and activate, of one product.
CreateDraft(n) ==
    /\ requests[n].call = "create" /\ requests[n].state = "sent"
    /\ LET v == requests[n].arg
       IN  IF policy[v] = NoVersion
           THEN /\ policy' = [policy EXCEPT ![v] = [status |-> "DRAFT", rules |-> requests[n].rules]]
                /\ changes' = changes + 1
                /\ requests' = [requests EXCEPT ![n].state = "served"]
           ELSE /\ requests' = [requests EXCEPT ![n].state = "rejected"]
                /\ UNCHANGED <<policy, changes>>
    /\ UNCHANGED <<page, ui, outcome>>

ActivateDraft(n) ==
    /\ requests[n].call = "activate" /\ requests[n].state = "sent"
    /\ LET v == requests[n].arg
       IN  IF policy[v].status = "DRAFT"
           THEN /\ policy' = [w \in Versions |->
                      IF w = v THEN [policy[w] EXCEPT !.status = "ACTIVE"]
                      ELSE IF policy[w].status = "ACTIVE" THEN [policy[w] EXCEPT !.status = "RETIRED"]
                      ELSE policy[w]]
                /\ changes' = changes + 1
                /\ requests' = [requests EXCEPT ![n].state = "served"]
           ELSE /\ requests' = [requests EXCEPT ![n].state = "rejected"]
                /\ UNCHANGED <<policy, changes>>
    /\ UNCHANGED <<page, ui, outcome>>

Serve(n) ==
    \/ QueueFind(n) \/ QueueCount(n) \/ Stats(n) \/ Read(n)
    \/ OverrideCheck(n) \/ OverrideCommit(n) \/ CreateDraft(n) \/ ActivateDraft(n)

-----------------------------------------------------------------------------
(* app/page.tsx and app/dashboard/page.tsx: an effect of the filter fetches *)
(* again, and whichever answer comes last is shown.                        *)

\* Mutant: the effect does not depend on the filter.
ChangeFilterOnly(f) ==
    /\ page \in {"queue", "dashboard"} /\ f # ui.filter
    /\ ui' = [ui EXCEPT !.filter = f]
    /\ UNCHANGED <<page, requests, server>>

\* The dashboard has no loading flag, and never clears its error.
ChangeFilter(f) ==
    /\ page \in {"queue", "dashboard"} /\ f # ui.filter
    /\ ui' = [ui EXCEPT !.filter = f, !.loading = (page = "queue"),
                        !.error = @ /\ page = "dashboard"]
    /\ Sends(Request(page, f))
    /\ UNCHANGED <<page, server>>

ViewArrives(n) ==
    LET r == requests[n]
    IN  /\ r.call \in {"queue", "dashboard"} /\ Succeeds(n)
        /\ Settles(n, <<>>)
        /\ Shows(n, [ui EXCEPT !.data = [filter |-> r.arg, rows |-> r.rows, total |-> r.total,
                                         asked |-> r.asked],
                               !.loading = FALSE])
        /\ UNCHANGED <<page, server>>

\* Mutant: loading is reset by the success alone.
ViewFailsLoading(n) ==
    /\ requests[n].call \in {"queue", "dashboard"}
    /\ Settles(n, <<>>)
    /\ ShowsFailure(n, [ui EXCEPT !.error = TRUE])
    /\ UNCHANGED <<page, server>>

ViewFails(n) ==
    /\ requests[n].call \in {"queue", "dashboard"}
    /\ Settles(n, <<>>)
    /\ ShowsFailure(n, [ui EXCEPT !.error = TRUE, !.loading = FALSE])
    /\ UNCHANGED <<page, server>>

-----------------------------------------------------------------------------
(* app/applications/[id]/page.tsx.  With an error nothing else is rendered. *)

CaseRendered == page = "case" /\ ~ui.error /\ ui.shown # "nothing"

ClickReplay ==
    /\ CaseRendered /\ ui.shown # "none" /\ ~ui.replaying
    /\ ui' = [ui EXCEPT !.replaying = TRUE]
    /\ Sends(Request("replay", ""))
    /\ UNCHANGED <<page, server>>

\* ManualReview is rendered for a REFER; its required fields are filled in.
SubmitOverride(o) ==
    /\ CaseRendered /\ ui.shown = "REFER" /\ ~ui.submitting
    /\ ui' = [ui EXCEPT !.submitting = TRUE, !.formError = FALSE]
    /\ Sends(Request("override", o))
    /\ UNCHANGED <<page, server>>

CaseArrives(n) ==
    /\ Succeeds(n)
    /\ \/ /\ requests[n].call = "application"
          /\ Settles(n, <<>>)
          /\ Shows(n, [ui EXCEPT !.shown = requests[n].result, !.asked = requests[n].asked])
       \/ /\ requests[n].call = "replay"
          /\ Settles(n, <<>>)
          /\ Shows(n, [ui EXCEPT !.replay = requests[n].result, !.replaying = FALSE])
       \/ /\ requests[n].call = "override"      \* onDone is load
          /\ Settles(n, <<Request("application", "")>>)
          /\ Shows(n, [ui EXCEPT !.submitting = FALSE, !.error = FALSE])
    /\ UNCHANGED <<page, server>>

CaseFails(n) ==
    /\ Settles(n, <<>>)
    /\ \/ /\ requests[n].call = "application"
          /\ ShowsFailure(n, [ui EXCEPT !.error = TRUE])
       \/ /\ requests[n].call = "replay"
          /\ ShowsFailure(n, [ui EXCEPT !.replay = "error", !.replaying = FALSE])
       \/ /\ requests[n].call = "override"
          /\ ShowsFailure(n, [ui EXCEPT !.formError = TRUE, !.submitting = FALSE])
    /\ UNCHANGED <<page, server>>

-----------------------------------------------------------------------------
(* app/policy/page.tsx.                                                    *)

EditRules(text) ==
    /\ page = "policy" /\ text # ui.rules
    /\ ui' = [ui EXCEPT !.rules = text]
    /\ UNCHANGED <<page, requests, server>>

LoadIntoEditor(v) ==
    /\ page = "policy" /\ ui.list[v] # NoVersion
    /\ ui' = [ui EXCEPT !.rules = ui.list[v].rules, !.simulated = "none"]
    /\ UNCHANGED <<page, requests, server>>

\* parseRules, or a field that is left empty, whichever button it is.
RejectInput ==
    /\ page = "policy"
    /\ ui.busy = "no" \/ \E v \in Versions : ui.list[v].status = "DRAFT"
    /\ ui' = [ui EXCEPT !.error = TRUE]
    /\ UNCHANGED <<page, requests, server>>

RunSimulation ==
    /\ page = "policy" /\ ui.busy = "no" /\ ui.rules \notin BadRules
    /\ ui' = [ui EXCEPT !.error = FALSE, !.busy = "simulate"]
    /\ Sends([Request("simulate", "") EXCEPT !.rules = ui.rules])
    /\ UNCHANGED <<page, server>>

SaveDraft(v) ==
    /\ page = "policy" /\ ui.busy = "no" /\ ui.rules \notin BadRules
    /\ ui' = [ui EXCEPT !.error = FALSE, !.busy = "save"]
    /\ Sends([Request("create", v) EXCEPT !.rules = ui.rules])
    /\ UNCHANGED <<page, server>>

\* The button is there for every DRAFT of the list, busy or not.
ClickActivate(v) ==
    /\ page = "policy" /\ ui.list[v].status = "DRAFT"
    /\ ui' = [ui EXCEPT !.error = FALSE, !.busy = "activate"]
    /\ Sends(Request("activate", v))
    /\ UNCHANGED <<page, server>>

\* Mutant: the list is not loaded again after an activation.
PolicyArrivesNoReload(n) ==
    /\ Succeeds(n)
    /\ \/ /\ requests[n].call = "policies"
          /\ Settles(n, <<>>)
          /\ Shows(n, [ui EXCEPT !.list = requests[n].result])
       \/ /\ requests[n].call = "simulate"
          /\ Settles(n, <<>>)
          /\ Shows(n, [ui EXCEPT !.simulated = requests[n].rules, !.busy = "no"])
       \/ /\ requests[n].call \in {"create", "activate"}
          /\ Settles(n, IF requests[n].call = "create" THEN <<Request("policies", "")>> ELSE <<>>)
          /\ Shows(n, [ui EXCEPT !.busy = "no"])
    /\ UNCHANGED <<page, server>>

PolicyArrives(n) ==
    /\ Succeeds(n)
    /\ \/ /\ requests[n].call = "policies"
          /\ Settles(n, <<>>)
          /\ Shows(n, [ui EXCEPT !.list = requests[n].result])
       \/ /\ requests[n].call = "simulate"
          /\ Settles(n, <<>>)
          /\ Shows(n, [ui EXCEPT !.simulated = requests[n].rules, !.busy = "no"])
       \/ /\ requests[n].call \in {"create", "activate"}    \* loadPolicies
          /\ Settles(n, <<Request("policies", "")>>)
          /\ Shows(n, [ui EXCEPT !.busy = "no"])
    /\ UNCHANGED <<page, server>>

PolicyFails(n) ==
    /\ Settles(n, <<>>)
    /\ \/ /\ requests[n].call = "policies"
          /\ ShowsFailure(n, [ui EXCEPT !.error = TRUE])
       \/ /\ requests[n].call \in {"simulate", "create", "activate"}
          /\ ShowsFailure(n, [ui EXCEPT !.error = TRUE, !.busy = "no"])
    /\ UNCHANGED <<page, server>>

-----------------------------------------------------------------------------

Arrive(n) ==
    \/ ViewArrives(n) \/ ViewFails(n)
    \/ CaseArrives(n) \/ CaseFails(n)
    \/ PolicyArrives(n) \/ PolicyFails(n)

User ==
    \/ \E f \in Filters : ChangeFilter(f)
    \/ ClickReplay \/ \E o \in Overrides : SubmitOverride(o)
    \/ RejectInput \/ RunSimulation
    \/ \E t \in RuleTexts : EditRules(t)
    \/ \E v \in Versions : LoadIntoEditor(v) \/ SaveDraft(v) \/ ClickActivate(v)

\* Of decisions the policy editor shows nothing.
Others == page # "policy" /\ \E d \in Decisions :
    \/ \E o \in Engine : Decide(d, o)
    \/ \E o \in Overrides : OverrideElsewhere(d, o)

Next == User \/ Others \/ \E n \in DOMAIN requests : Serve(n) \/ Arrive(n)

Spec == Init /\ [][Next]_vars

\* Every request comes to an end, in an answer or in a failure: the browser gives
\* up a connection that is dead.  Nothing obliges the user or the others to act.
FairSpec == Spec /\ \A n \in 1..MaxRequests :
                       WF_vars(n \in DOMAIN requests /\ (Serve(n) \/ Arrive(n)))

-----------------------------------------------------------------------------
(* Properties.                                                             *)

(* Once every answer is in, the queue and the dashboard show what was      *)
(* asked for by the filters that are set, or an error; and if nobody has   *)
(* decided since, exactly the decisions that match, with their number,     *)
(* although rows and count are read by two statements.  It takes answers   *)
(* that overtake each other to show the rows of other filters.             *)
ViewFollowsFilter ==
    page \in {"queue", "dashboard"} /\ Quiet /\ ~ui.overtaken /\ ~ui.error =>
        /\ ui.data.filter = ui.filter
        /\ ui.data.asked = changes => /\ ui.data.rows = Matching(ui.filter)
                                      /\ ui.data.total = Cardinality(ui.data.rows)

(* A case never goes back to an older view: although load is called again  *)
(* after an override, with the form still there for a second one, no two   *)
(* loads that could overtake each other are ever under way, because the    *)
(* server refuses what the form still offers.                              *)
CaseNeverGoesBack ==
    [][page = "case" =>
          /\ ui'.asked >= ui.asked
          /\ ui.shown \in {"APPROVE", "DECLINE"} => ui'.shown # "REFER"]_vars

(* Once every answer is in, the list of policies is that of the database,  *)
(* and so are the buttons that it offers: a save and an activation that    *)
(* overlap, which busy does not prevent, both bring it up to date, unless  *)
(* an answer was lost or one list overtook another.                        *)
PoliciesCatchUp ==
    page = "policy" /\ Quiet /\ ~ui.overtaken /\ ~ui.lost => ui.list = policy

(* No page is left loading, submitting or busy: whatever fails and in      *)
(* whatever order the answers come, every button is enabled again.         *)
SpinnersEnd ==
    /\ []<>(page \in {"queue", "dashboard"} => ~ui.loading)
    /\ []<>(page = "case" => ~ui.replaying)
    /\ []<>(page = "case" => ~ui.submitting)
    /\ []<>(page = "policy" => ui.busy = "no")
=============================================================================
