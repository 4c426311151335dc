----------------------------- MODULE AdminPages -----------------------------
(***************************************************************************)
(* The administration pages of the frontend (src/frontend/src/pages) in    *)
(* one browser tab: the lists they show, their dialogs and buttons, and    *)
(* the requests these send.  A list is a query of TanStack Query: it is    *)
(* read from the backend when a page is mounted, when it is invalidated,   *)
(* by a timer or because it has become stale, and the answer can be        *)
(* overtaken by changes.  A dialog keeps what has been typed (its draft)   *)
(* for as long as its component is mounted, open or not.                   *)
(*                                                                         *)
(* The backend is reduced to what the pages tell apart: the stations and   *)
(* the state of one test run.  Whether a list lacks a change of the page's *)
(* own is noted in the list.  One form stands for all the dialogs of its   *)
(* kind: every LocationCard has dialogs of its own, and only one of them   *)
(* is used.                                                                *)
(***************************************************************************)
EXTENDS Naturals, FiniteSets

CONSTANTS
  Ids,         \* the ids of stations
  None,        \* nothing: no data, no dialog open, no draft
  MaxCalls,    \* bound: requests for a change in flight, all of one component
  MaxTyped     \* bound: drafts typed

ASSUME ConstantsAssumption ==
  /\ Ids \subseteq Nat
  /\ None \notin Nat
  /\ {MaxCalls, MaxTyped} \subseteq Nat

VARIABLES
  area,        \* the area of the frontend the administrator uses
  page,        \* the page or tab that is mounted
  query,       \* the cache: the state of each query
  form,        \* the state of each dialog: its target and its draft
  calls,       \* the requests for a change in flight
  typed,       \* how many drafts have been typed
  created,     \* history variable: the creations confirmed for each draft
  stations,    \* the backend's stations
  run          \* the backend's test run

backend == <<stations, run>>
vars == <<area, page, query, form, calls, typed, created, backend>>

-----------------------------------------------------------------------------
(* Pages and their queries.                                                *)

Queries == {"locations", "unknown-chargers", "users", "settings", "runs",
            "run", "ops"}

(* LocationsPage has two tabs and both queries in either.  RunDetail       *)
(* replaces the list of TestSuitePage, which stays mounted around it.  The *)
(* areas share no query and no component: a behaviour stays in one of them *)
(* and visits "elsewhere", which stands for all the other pages.           *)
LocationsPage == [tabs |-> {"locations", "unknownChargers"},
                  reads |-> {"locations", "unknown-chargers"}]
UsersPage == [tabs |-> {"users"}, reads |-> {"users"}]
SettingsPage == [tabs |-> {"settings"}, reads |-> {"settings"}]
TestSuitePage == [tabs |-> {"testsuite", "run"}, reads |-> {"runs", "run"}]
OpsPage == [tabs |-> {"ops"}, reads |-> {"ops"}]

Areas == {LocationsPage, UsersPage, SettingsPage, TestSuitePage, OpsPage}
Reads(p) == IF p = "elsewhere" THEN {}
            ELSE IF p = "testsuite" THEN {"runs"}
            ELSE (CHOOSE a \in Areas : p \in a.tabs).reads
Active(q) == q \in Reads(page)

(* Mutant: the timer runs once the run is no longer running.               *)
PolledWhenDone(q) ==
  \/ q \in {"runs", "ops"}
  \/ q = "run" /\ query[q].data # None /\ query[q].data.rows # {"running"}

(* Queries that a timer reads again: the list of runs every 5 seconds, a   *)
(* run every 2 seconds while it is shown as running, the state of a        *)
(* container every 15 seconds.                                             *)
Polled(q) ==
  \/ q \in {"runs", "ops"}
  \/ q = "run" /\ query[q].data # None /\ query[q].data.rows = {"running"}

-----------------------------------------------------------------------------
(* Dialogs and buttons.  A record says on which pages the component is     *)
(* mounted, whether it must be opened (a dialog), stands open (a form) or  *)
(* is just pressed (a button), whether it needs a draft to be submitted,   *)
(* and what its onSuccess does beside closing it: the queries it           *)
(* invalidates and whether it clears the draft.                            *)

CreateLocationDialog ==
  [on |-> {"locations", "unknownChargers"}, kind |-> "dialog", needsDraft |-> TRUE,
   invalidates |-> {"locations"}, clears |-> TRUE]
CreateStationDialog ==
  [on |-> {"locations"}, kind |-> "dialog", needsDraft |-> TRUE,
   invalidates |-> {"locations"}, clears |-> TRUE]
CreateConnectorDialog ==
  [on |-> {"locations"}, kind |-> "dialog", needsDraft |-> TRUE,
   invalidates |-> {"locations"}, clears |-> TRUE]
LocationCard ==      \* its delete button
  [on |-> {"locations"}, kind |-> "button", needsDraft |-> FALSE,
   invalidates |-> {"locations"}, clears |-> FALSE]

AssignUnknownChargerDialog ==
  [on |-> {"unknownChargers"}, kind |-> "dialog", needsDraft |-> TRUE,
   invalidates |-> {"locations", "unknown-chargers"}, clears |-> FALSE]
UnknownChargersTab ==      \* its dismiss button
  [on |-> {"unknownChargers"}, kind |-> "button", needsDraft |-> FALSE,
   invalidates |-> {"unknown-chargers"}, clears |-> FALSE]

CreateUserDialog ==
  [on |-> {"users"}, kind |-> "dialog", needsDraft |-> TRUE,
   invalidates |-> {"users"}, clears |-> TRUE]
ToggleActive ==
  [on |-> {"users"}, kind |-> "button", needsDraft |-> FALSE,
   invalidates |-> {"users"}, clears |-> FALSE]
EditSettingDialog ==
  [on |-> {"settings"}, kind |-> "dialog", needsDraft |-> FALSE,
   invalidates |-> {"settings"}, clears |-> FALSE]
AddSettingDialog ==
  [on |-> {"settings"}, kind |-> "dialog", needsDraft |-> TRUE,
   invalidates |-> {"settings"}, clears |-> TRUE]
StartRunForm ==
  [on |-> {"testsuite"}, kind |-> "form", needsDraft |-> TRUE,
   invalidates |-> {"runs"}, clears |-> FALSE]
ServiceCard ==      \* its restart button
  [on |-> {"ops"}, kind |-> "button", needsDraft |-> FALSE,
   invalidates |-> {"ops"}, clears |-> FALSE]

Component ==
  [createLocation |-> CreateLocationDialog, createStation |-> CreateStationDialog,
   createConnector |-> CreateConnectorDialog, removeLocation |-> LocationCard,
   assign |-> AssignUnknownChargerDialog, dismiss |-> UnknownChargersTab,
   createUser |-> CreateUserDialog, toggleActive |-> ToggleActive,
   editSetting |-> EditSettingDialog, addSetting |-> AddSettingDialog,
   startRun |-> StartRunForm, restart |-> ServiceCard]
Forms == DOMAIN Component
Mounted(f, p) == p \in Component[f].on

(* What a component can be opened or pressed for, as far as the page       *)
(* shows it; New stands for a row that does not exist yet, and for the one *)
(* row of a list whose rows are not told apart.                            *)
New == 0
Shown(q) == IF query[q].data = None THEN {} ELSE query[q].data.rows
Loaded(q) == query[q].data # None
Targets(f) ==
  CASE f \in {"createLocation", "createUser", "addSetting"} -> {New}
    [] f = "startRun" -> {New}
    [] f = "createStation" -> IF Loaded("locations") THEN {New} ELSE {}
    [] f = "createConnector" -> Shown("locations")
    [] f = "removeLocation" ->
         IF Loaded("locations") /\ Shown("locations") = {} THEN {New} ELSE {}
    [] f = "assign" ->
         IF Loaded("unknown-chargers") /\ Shown("locations") # {} THEN {New} ELSE {}
    [] f = "dismiss" -> IF Loaded("unknown-chargers") THEN {New} ELSE {}
    [] f = "toggleActive" -> IF Loaded("users") THEN {New} ELSE {}
    [] f = "editSetting" -> IF Loaded("settings") THEN {New} ELSE {}
    [] f = "restart" -> IF Loaded("ops") THEN {New} ELSE {}

(* useState's initial value when the component is mounted: the assignment  *)
(* starts with the first station, if the stations are known by then.       *)
InitialDraft(f) ==
  IF f = "assign" /\ Shown("locations") # {}
  THEN CHOOSE s \in Shown("locations") : \A t \in Shown("locations") : s <= t
  ELSE None

Fresh(f) ==
  [target |-> IF Component[f].kind = "form" THEN New ELSE None,
   draft |-> InitialDraft(f)]
Unmounted == [target |-> None, draft |-> None]

(* A component's mutation is pending until its answer has been handled.    *)
(* The button is disabled by the next rendering; it is taken to be so at   *)
(* once.                                                                   *)
Pending(f) == \E c \in calls : c.form = f /\ c.alive

-----------------------------------------------------------------------------
(* The query cache.                                                        *)

Rows(q) == CASE q = "locations" -> stations
             [] q = "runs" -> IF run = "none" THEN {} ELSE {New}
             [] q = "run" -> {run}
             [] OTHER -> {}

(* What a list lacks: nothing, a change that the backend has committed     *)
(* since it was read, or one of which the page has been told since.  The   *)
(* page holds such a list, or it is the answer of a read under way when    *)
(* the page was told.  The last two are history variables.                 *)
Read(q) == [rows |-> Rows(q), lacks |-> "nothing"]

NoFetch == [state |-> "idle", answer |-> None]
NewFetch == [state |-> "sent", answer |-> None]
Fetching(q) == query[q].fetch.state # "idle"

NoData == [data |-> None, invalid |-> FALSE, fetch |-> NoFetch]

(* Mutant: a read that is under way is joined (cancelRefetch: false).      *)
JoinsOldRead(e) ==
  IF e.fetch.state # "idle" THEN e ELSE [e EXCEPT !.fetch = NewFetch]

(* A fetch that is in flight is cancelled and replaced when there is data, *)
(* and joined when there is none yet.                                      *)
Refetched(e) ==
  IF e.fetch.state # "idle" /\ e.data = None THEN e
  ELSE [e EXCEPT !.fetch = NewFetch]

(* invalidateQueries: a query that is shown is read again at once, another *)
(* one when it is next shown.                                              *)
Invalidated(q, entry) ==
  LET e == [entry EXCEPT !.invalid = Loaded(q)] IN
  IF Active(q) THEN Refetched(e) ELSE e

Init ==
  /\ area \in Areas
  /\ page = "elsewhere"
  /\ query = [q \in Queries |-> NoData]
  /\ form = [f \in Forms |-> Unmounted]
  /\ calls = {}
  /\ typed = 0
  /\ created = [d \in 1..MaxTyped |-> 0]
  /\ stations = {}
  /\ run = "none"

(* The timer, a window that gets the focus again, or a request for data    *)
(* that has become stale.                                                  *)
Fetch(q) ==
  /\ Active(q) /\ ~Fetching(q)
  /\ query' = [query EXCEPT ![q].fetch = NewFetch]
  /\ UNCHANGED <<area, page, form, calls, typed, created, backend>>

ServeFetch(q) ==
  /\ query[q].fetch.state = "sent"
  /\ query' = [query EXCEPT ![q].fetch.state = "served", ![q].fetch.answer = Read(q)]
  /\ UNCHANGED <<area, page, form, calls, typed, created, backend>>

FetchAnswered(q) ==
  /\ query[q].fetch.state = "served"
  /\ query' = [query EXCEPT ![q] = [data |-> query[q].fetch.answer, invalid |-> FALSE,
                                    fetch |-> NoFetch]]
  /\ UNCHANGED <<area, page, form, calls, typed, created, backend>>

(* A query that is shown may be tried again.                               *)
FetchFails(q) ==
  /\ Fetching(q)
  /\ query' \in {[query EXCEPT ![q].fetch = f] :
                   f \in {NoFetch} \cup (IF Active(q) THEN {NewFetch} ELSE {})}
  /\ UNCHANGED <<area, page, form, calls, typed, created, backend>>

-----------------------------------------------------------------------------
(* The administrator.                                                      *)

(* Mutant: a component that leaves the page is only hidden.                *)
HiddenInstead(f, p) ==
  IF Mounted(f, p) /\ ~Mounted(f, page) THEN Fresh(f) ELSE form[f]

Remounted(f, p) ==
  IF ~Mounted(f, p) THEN Unmounted
  ELSE IF Mounted(f, page) THEN form[f] ELSE Fresh(f)

(* Components that leave the page lose their state, and nobody waits for   *)
(* their requests any more; the ones that come in start afresh.  A query   *)
(* of the new page is read again if it has no data or is invalid; if it is *)
(* stale, by a step Fetch.                                                 *)
Show(p, cache, sent) ==
  /\ page' = p
  /\ form' = [f \in Forms |-> Remounted(f, p)]
  /\ calls' = {[c EXCEPT !.alive = @ /\ Mounted(c.form, p)] : c \in sent}
  /\ query' = [q \in Queries |->
                 IF /\ q \in Reads(p) /\ cache[q].fetch.state = "idle"
                    /\ cache[q].data = None \/ cache[q].invalid
                 THEN [cache[q] EXCEPT !.fetch = NewFetch] ELSE cache[q]]

(* A run is opened from the list that shows it.                            *)
Navigate(p) ==
  /\ p # page
  /\ p = "run" => page = "testsuite" /\ Shown("runs") # {}
  /\ Show(p, query, calls)
  /\ UNCHANGED <<area, typed, created, backend>>

(* A dialog is modal: nothing else can be used while it is open.           *)
Unobstructed == \A f \in Forms : Component[f].kind = "dialog" => form[f].target = None

Open(f) ==
  /\ Component[f].kind = "dialog"
  /\ Mounted(f, page)
  /\ f = "createLocation" => page = "locations"
  /\ Unobstructed
  /\ \E t \in Targets(f) : form' = [form EXCEPT ![f].target = t]
  /\ UNCHANGED <<area, page, query, calls, typed, created, backend>>

Close(f) ==
  /\ Component[f].kind = "dialog" /\ form[f].target # None
  /\ form' = [form EXCEPT ![f].target = None]
  /\ UNCHANGED <<area, page, query, calls, typed, created, backend>>

(* Typing replaces the draft by a new one; the station of an assignment is *)
(* chosen from the list.                                                   *)
Type(f) ==
  /\ Component[f].kind # "button" /\ form[f].target # None
  /\ IF f = "assign"
     THEN /\ \E s \in Shown("locations") : form' = [form EXCEPT ![f].draft = s]
          /\ UNCHANGED typed
     ELSE /\ typed < MaxTyped
          /\ typed' = typed + 1
          /\ form' = [form EXCEPT ![f].draft = typed + 1]
  /\ UNCHANGED <<area, page, query, calls, created, backend>>

Send(f, t) ==
  /\ Cardinality(calls) < MaxCalls /\ \A c \in calls : c.form = f
  /\ calls' = calls \cup {[form |-> f, target |-> t, draft |-> form[f].draft,
                           state |-> "sent", alive |-> TRUE]}
  /\ UNCHANGED <<area, page, query, form, typed, created, backend>>

(* Mutant: the button of a dialog is not disabled while it is pending.     *)
SubmitAgain(f) ==
  /\ Component[f].kind # "button" /\ form[f].target # None
  /\ Component[f].needsDraft => form[f].draft # None
  /\ Send(f, form[f].target)

Submit(f) ==
  /\ Component[f].kind # "button" /\ form[f].target # None
  /\ Component[f].needsDraft => form[f].draft # None
  /\ ~Pending(f)
  /\ Send(f, form[f].target)

Press(f) ==
  /\ Component[f].kind = "button" /\ Mounted(f, page) /\ Unobstructed
  /\ ~Pending(f)
  /\ \E t \in Targets(f) : Send(f, t)

-----------------------------------------------------------------------------
(* The backend, reached over a network that may lose an answer.            *)

Acceptable(c) ==
  /\ c.form = "removeLocation" => stations = {}
  /\ c.form = "startRun" => run = "none"      \* bound: one run

(* The lists that show what a request has changed.                         *)
ShownIn(f) ==
  CASE f \in {"createLocation", "createStation", "createConnector", "removeLocation"}
         -> {"locations"}
    [] f = "assign" -> {"locations", "unknown-chargers"}
    [] f = "dismiss" -> {"unknown-chargers"}
    [] f \in {"createUser", "toggleActive"} -> {"users"}
    [] f \in {"editSetting", "addSetting"} -> {"settings"}
    [] f = "startRun" -> {"runs"}
    [] f = "restart" -> {"ops"}

Lacking(snapshot) ==
  IF snapshot = None \/ snapshot.lacks # "nothing" THEN snapshot
  ELSE [snapshot EXCEPT !.lacks = "a change"]

Commit(c) ==
  /\ c.state = "sent" /\ Acceptable(c)
  /\ calls' = (calls \ {c}) \cup {[c EXCEPT !.state = "done"]}
  /\ IF c.form = "createStation" /\ stations # Ids
     THEN \E s \in Ids \ stations : stations' = stations \cup {s}
     ELSE UNCHANGED stations
  /\ run' = IF c.form = "startRun" THEN "running" ELSE run
  /\ query' = [q \in Queries |->
                 IF q \notin ShownIn(c.form) THEN query[q]
                 ELSE [query[q] EXCEPT !.data = Lacking(@), !.fetch.answer = Lacking(@)]]
  /\ UNCHANGED <<area, page, form, typed, created>>

(* Another administrator plans a station.                                  *)
OthersChange ==
  /\ \E s \in Ids \ stations : stations' = stations \cup {s}
  /\ UNCHANGED <<area, page, query, form, calls, typed, created, run>>

RunEnds ==
  /\ run = "running"
  /\ run' = "completed"
  /\ UNCHANGED <<area, page, query, form, calls, typed, created, stations>>

-----------------------------------------------------------------------------
(* onSuccess and onError.  They run even if the component has gone; what   *)
(* they then set is not seen by anyone.                                    *)

(* The creating components.                                                *)
Creates == {"createLocation", "createStation", "createConnector", "createUser", "addSetting"}

CountCreated(c) ==
  created' = IF c.form \in Creates THEN [created EXCEPT ![c.draft] = @ + 1] ELSE created

(* The page is told: what it shows without the change is out of date now,  *)
(* and so is what a read under way brings it without the change.           *)
OutOfDate(snapshot) ==
  IF snapshot = None \/ snapshot.lacks = "nothing" THEN snapshot
  ELSE [snapshot EXCEPT !.lacks = "a confirmed change"]

Told(q) ==
  IF Active(q) /\ Loaded(q)
  THEN [query[q] EXCEPT !.data = OutOfDate(@), !.fetch.answer = OutOfDate(@)]
  ELSE query[q]

AfterInvalidation(f) ==
  [q \in Queries |->
     LET told == IF q \in ShownIn(f) THEN Told(q) ELSE query[q]
     IN IF q \in Component[f].invalidates THEN Invalidated(q, told) ELSE told]

(* The dialog is closed whatever it shows by now.                          *)
Succeeds(c) ==
  /\ c.state = "done"
  /\ ~(c.form = "startRun" /\ c.alive)
  /\ calls' = calls \ {c}
  /\ query' = AfterInvalidation(c.form)
  /\ form' = IF ~c.alive THEN form
             ELSE [form EXCEPT ![c.form] =
                     [target |-> None,
                      draft |-> IF Component[c.form].clears THEN None ELSE @.draft]]
  /\ CountCreated(c)
  /\ UNCHANGED <<area, page, typed, backend>>

(* A run that has been started is shown.                                   *)
RunStarted(c) ==
  /\ c.state = "done" /\ c.form = "startRun" /\ c.alive
  /\ Show("run", AfterInvalidation("startRun"), calls \ {c})
  /\ CountCreated(c)
  /\ UNCHANGED <<area, typed, backend>>

(* The request is refused, or the network loses it or its answer.  A       *)
(* dialog stays open with its draft.                                       *)
Fails(c) ==
  /\ calls' = calls \ {c}
  /\ UNCHANGED <<area, page, query, form, typed, created, backend>>

-----------------------------------------------------------------------------
Next ==
  \/ \E q \in Queries :
       Fetch(q) \/ ServeFetch(q) \/ FetchAnswered(q) \/ FetchFails(q)
  \/ \E p \in area.tabs \cup {"elsewhere"} : Navigate(p)
  \/ \E f \in Forms : Open(f) \/ Close(f) \/ Type(f) \/ Submit(f) \/ Press(f)
  \/ \E c \in calls : Commit(c) \/ Succeeds(c) \/ RunStarted(c) \/ Fails(c)
  \/ OthersChange
  \/ RunEnds

(* The timer of a run that is shown fires, and a request that is repeated  *)
(* for ever is served and answered at some time.  Nothing is said of the   *)
(* backend's run: one whose process has died stays running.                *)
Poll(q) == Polled(q) /\ Fetch(q)
Fairness ==
  /\ WF_vars(Poll("run"))
  /\ SF_vars(ServeFetch("run"))
  /\ SF_vars(FetchAnswered("run"))

Spec == Init /\ [][Next]_vars /\ Fairness

-----------------------------------------------------------------------------
Snapshots(q) ==
  [lacks : {"nothing", "a change", "a confirmed change"},
   rows : CASE q = "locations" -> SUBSET Ids
            [] q = "runs" -> {{}, {New}}
            [] q = "run" -> {{"none"}, {"running"}, {"completed"}}
            [] OTHER -> {{}}]

ASSUME NoneIsNoList == \A q \in Queries : None \notin Snapshots(q)

Entries(q) ==
  [data : Snapshots(q) \cup {None}, invalid : BOOLEAN,
   fetch : [state : {"idle", "sent", "served"}, answer : Snapshots(q) \cup {None}]]
Calls ==
  [form : Forms, target : Ids \cup {New, None}, draft : Nat \cup {None},
   state : {"sent", "done"}, alive : BOOLEAN]

(* Every variable has its type; no cached list is of the future, and no    *)
(* component that is not mounted has a dialog open or a draft (what        *)
(* useState held is gone) or waits for an answer.                          *)
TypeOK ==
  /\ area \in Areas
  /\ page \in area.tabs \cup {"elsewhere"}
  /\ query = [q \in Queries |-> query[q]]
  /\ \A q \in Queries : query[q] \in Entries(q)
  /\ form \in [Forms -> [target : Ids \cup {New, None}, draft : Nat \cup {None}]]
  /\ \A f \in Forms : ~Mounted(f, page) => form[f] = Unmounted
  /\ calls \subseteq Calls
  /\ IsFiniteSet(calls) /\ Cardinality(calls) <= MaxCalls
  /\ \A c \in calls : c.alive => Mounted(c.form, page)
  /\ typed \in 0..MaxTyped
  /\ stations \subseteq Ids
  /\ run \in {"none", "running", "completed"}
  /\ created \in [1..MaxTyped -> Nat]

(* Once the administrator has been told that a change has succeeded, a     *)
(* list that was on the screen by then is not presented as up to date      *)
(* without that change: it shows it, is marked as invalid, or is being     *)
(* read.  In particular a read that the backend had served before it made  *)
(* the change, and that is answered after the page was told, does not      *)
(* bring the old list back.  (The onSuccess handlers of the pages and the  *)
(* invalidation they call, which gives up the reads that are under way.)   *)
ListsShowConfirmedChanges ==
  \A q \in Queries :
    Loaded(q) /\ query[q].data.lacks = "a confirmed change"
      => query[q].invalid \/ Fetching(q)

(* One draft of a create dialog is confirmed at most once: a second press, *)
(* a reopened dialog or a slow answer does not create the row twice.       *)
(* (CreateLocationDialog, CreateStationDialog, CreateConnectorDialog,      *)
(* CreateUserDialog and AddSettingDialog.)                                 *)
DraftConfirmedOnce == \A d \in DOMAIN created : created[d] <= 1

(* A list that lacks a change the page was told of is marked as invalid,   *)
(* and none is on its way: every onSuccess invalidates the lists that show *)
(* its change, which gives up the reads that may bring the old list, and   *)
(* only an answer takes the mark away.                                     *)
ConfirmedIsInvalid ==
  \A q \in Queries :
    /\ Loaded(q) /\ query[q].data.lacks = "a confirmed change" => query[q].invalid
    /\ query[q].fetch.answer # None =>
         query[q].fetch.answer.lacks # "a confirmed change"

(* The drafts in the create dialogs, and those their requests carry, have  *)
(* been typed and are all different; a dialog and a request share a draft  *)
(* only while the dialog waits for this request.                           *)
DraftsApart ==
  /\ \A f \in Creates : form[f].draft \in 1..typed \cup {None}
  /\ \A f, g \in Creates :
       form[f].draft = form[g].draft /\ form[f].draft # None => f = g
  /\ \A c \in calls : c.form \in Creates =>
       /\ c.draft \in 1..typed
       /\ \A f \in Creates : form[f].draft = c.draft => c.alive /\ c.form = f
       /\ \A b \in calls : b.form \in Creates /\ b.draft = c.draft => b = c

(* No creation has been confirmed for a draft that is still in a dialog or *)
(* in a request, or has yet to be typed.                                   *)
OpenDraftsUnconfirmed ==
  \A d \in 1..MaxTyped :
    \/ d > typed
    \/ \E f \in Creates : form[f].draft = d
    \/ \E c \in calls : c.form \in Creates /\ c.draft = d
    => created[d] = 0

(* The inductive invariant: ListsShowConfirmedChanges follows from         *)
(* ConfirmedIsInvalid.                                                     *)
IInv ==
  /\ TypeOK
  /\ ConfirmedIsInvalid
  /\ DraftsApart
  /\ OpenDraftsUnconfirmed
  /\ DraftConfirmedOnce

(* Whoever watches a run that is still shown as running when it has ended  *)
(* comes to see its end, unless he leaves the page; single requests may    *)
(* fail, and answers that were served before the end may come after it.    *)
(* (RunDetail polls for as long as the run it shows is running.)           *)
RunDetailSettles ==
  (page = "run" /\ Shown("run") = {"running"} /\ run = "completed")
    ~> (page # "run" \/ Shown("run") = {"completed"})
=============================================================================
