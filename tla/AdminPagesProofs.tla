--------------------------- MODULE AdminPagesProofs ---------------------------
(***************************************************************************)
(* Theorems about AdminPages, for any set of stations and any bounds:      *)
(* IInv is an inductive invariant, so every list on the screen shows the   *)
(* changes its page was told of or is marked as invalid, no read under way *)
(* brings back a list without them, and one draft is confirmed at most     *)
(* once.                                                                   *)
(***************************************************************************)
EXTENDS AdminPages, FiniteSetTheorems, FunctionTheorems, WellFoundedInduction,
        NaturalsInduction, TLAPS

-----------------------------------------------------------------------------
(* Components, queries and drafts *)

\* The components there are.
LEMMA FormNames ==
  Forms = {"createLocation", "createStation", "createConnector", "removeLocation",
           "assign", "dismiss", "createUser", "toggleActive", "editSetting",
           "addSetting", "startRun", "restart"}
BY DEF Forms, Component

\* The creating components are dialogs that need a draft and clear it.
LEMMA CreatingComponents ==
  ASSUME NEW f \in Creates
  PROVE  /\ f \in Forms /\ f \notin {"assign", "startRun"}
         /\ Component[f].kind = "dialog"
         /\ Component[f].needsDraft
         /\ Component[f].clears
BY FormNames
DEF Creates, Component, CreateLocationDialog, CreateStationDialog, CreateConnectorDialog,
    CreateUserDialog, AddSettingDialog

\* Every onSuccess invalidates the lists that show what it has changed.
LEMMA InvalidatesWhatIsShown ==
  ASSUME NEW f \in Forms
  PROVE  ShownIn(f) \subseteq Component[f].invalidates
BY FormNames
DEF ShownIn, Component, CreateLocationDialog, CreateStationDialog, CreateConnectorDialog,
    LocationCard, AssignUnknownChargerDialog, UnknownChargersTab, CreateUserDialog,
    ToggleActive, EditSettingDialog, AddSettingDialog, StartRunForm, ServiceCard

\* StartRunForm is on the page of the test suite only.
LEMMA StartRunIsOnTestsuite ==
  ASSUME NEW p, Mounted("startRun", p)
  PROVE  p = "testsuite"
BY DEF Mounted, Component, StartRunForm

\* A run is shown in the area of the test suite.
LEMMA RunIsInItsArea ==
  ASSUME NEW a \in Areas, "testsuite" \in a.tabs \cup {"elsewhere"}
  PROVE  "run" \in a.tabs
BY DEF Areas, LocationsPage, UsersPage, SettingsPage, TestSuitePage, OpsPage

\* A set of stations that is not empty has a first one.
LEMMA FirstStation ==
  ASSUME NEW S \in SUBSET Nat, S # {}
  PROVE  (CHOOSE s \in S : \A t \in S : s <= t) \in S
<1>1. PICK s \in S : \A t \in S : <<t, s>> \notin OpToRel(<, Nat)
  BY WFMin, NatLessThanWellFounded, Zenon
<1>2. \A t \in S : ~(t < s)
  BY <1>1, Zenon DEF OpToRel
<1>3. \A t \in S : s <= t
  BY <1>2
<1> QED
  BY <1>3

\* What a list shows are rows of its kind; the stations are ids.
LEMMA ShownStations ==
  ASSUME TypeOK
  PROVE  Shown("locations") \in SUBSET Ids
<1>1. query["locations"] \in Entries("locations")
  BY DEF TypeOK, Queries
<1>2. query["locations"].data \in Snapshots("locations") \cup {None}
  BY <1>1 DEF Entries
<1> QED
  BY <1>2 DEF Shown, Snapshots

\* What useState starts with.
LEMMA InitialDraftType ==
  ASSUME TypeOK, NEW f \in Forms
  PROVE  /\ InitialDraft(f) \in Nat \cup {None}
         /\ f # "assign" => InitialDraft(f) = None
<1>1. Shown("locations") \in SUBSET Nat
  BY ShownStations, ConstantsAssumption
<1>2. ASSUME Shown("locations") # {}
      PROVE  (CHOOSE s \in Shown("locations") : \A t \in Shown("locations") : s <= t) \in Nat
  BY <1>1, <1>2, FirstStation
<1> QED
  BY <1>2 DEF InitialDraft

\* What a component can be opened or pressed for.
LEMMA TargetsType ==
  ASSUME TypeOK, NEW f \in Forms
  PROVE  Targets(f) \subseteq Ids \cup {New}
BY ShownStations, FormNames DEF Targets

-----------------------------------------------------------------------------
(* The cache *)

\* A cache that has its type and in which whatever lacks a confirmed change
\* is marked as invalid.
Marked(e) ==
  /\ e.data # None /\ e.data.lacks = "a confirmed change" => e.invalid
  /\ e.fetch.answer # None => e.fetch.answer.lacks # "a confirmed change"
GoodCache(c) ==
  /\ c = [q \in Queries |-> c[q]]
  /\ \A q \in Queries : c[q] \in Entries(q) /\ Marked(c[q])

\* TypeOK and ConfirmedIsInvalid say so of the pages' cache.
LEMMA CacheIsGood ==
  ASSUME TypeOK, ConfirmedIsInvalid
  PROVE  GoodCache(query)
BY DEF TypeOK, ConfirmedIsInvalid, GoodCache, Marked, Loaded

\* One entry of a good cache is replaced by a good one.
LEMMA EntryReplaced ==
  ASSUME NEW c, GoodCache(c), NEW q \in Queries, NEW e \in Entries(q), Marked(e)
  PROVE  GoodCache([c EXCEPT ![q] = e])
BY DEF GoodCache

\* A read that is sent or given up leaves an entry good.
LEMMA FetchReplaced ==
  ASSUME NEW q \in Queries, NEW e \in Entries(q), Marked(e), NEW f \in {NoFetch, NewFetch}
  PROVE  [e EXCEPT !.fetch = f] \in Entries(q) /\ Marked([e EXCEPT !.fetch = f])
<1>1. /\ f \in [state : {"idle", "sent", "served"}, answer : Snapshots(q) \cup {None}]
      /\ f.answer = None
  BY DEF NoFetch, NewFetch
<1>2. [e EXCEPT !.fetch = f] \in Entries(q)
  BY <1>1 DEF Entries
<1>3. /\ [e EXCEPT !.fetch = f].fetch = f
      /\ [e EXCEPT !.fetch = f].data = e.data
      /\ [e EXCEPT !.fetch = f].invalid = e.invalid
  BY DEF Entries
<1> QED
  BY <1>1, <1>2, <1>3 DEF Marked

\* What the backend answers is a list of its kind that lacks nothing.
LEMMA ReadType ==
  ASSUME TypeOK, NEW q \in Queries
  PROVE  Read(q) \in Snapshots(q) /\ Read(q).lacks = "nothing"
BY DEF TypeOK, Queries, Read, Rows, Snapshots

\* A list overtaken by a change is a list of its kind, and not yet one that
\* lacks a confirmed change unless it was.
LEMMA LackingType ==
  ASSUME NEW q \in Queries, NEW x \in Snapshots(q) \cup {None}
  PROVE  /\ Lacking(x) \in Snapshots(q) \cup {None}
         /\ Lacking(x) # None /\ Lacking(x).lacks = "a confirmed change" =>
              x # None /\ x.lacks = "a confirmed change"
BY DEF Lacking, Snapshots

\* A change that the backend commits leaves an entry good.
LEMMA OvertakenEntry ==
  ASSUME NEW q \in Queries, NEW e \in Entries(q), Marked(e)
  PROVE  LET o == [e EXCEPT !.data = Lacking(@), !.fetch.answer = Lacking(@)]
         IN  o \in Entries(q) /\ Marked(o)
<1>1. /\ e.data \in Snapshots(q) \cup {None}
      /\ e.fetch.answer \in Snapshots(q) \cup {None}
  BY DEF Entries
<1>2. /\ Lacking(e.data) \in Snapshots(q) \cup {None}
      /\ Lacking(e.fetch.answer) \in Snapshots(q) \cup {None}
      /\ Lacking(e.data) # None /\ Lacking(e.data).lacks = "a confirmed change" =>
           e.data # None /\ e.data.lacks = "a confirmed change"
      /\ Lacking(e.fetch.answer) # None /\ Lacking(e.fetch.answer).lacks = "a confirmed change" =>
           e.fetch.answer # None /\ e.fetch.answer.lacks = "a confirmed change"
  BY <1>1, LackingType
<1> QED
  BY <1>2 DEF Entries, Marked

\* What is out of date for the page is a list of its kind.
LEMMA OutOfDateType ==
  ASSUME NEW q \in Queries, NEW x \in Snapshots(q) \cup {None}
  PROVE  /\ OutOfDate(x) \in Snapshots(q) \cup {None}
         /\ OutOfDate(x) = None <=> x = None
<1>1. CASE x = None \/ x.lacks = "nothing"
  BY <1>1 DEF OutOfDate
<1>2. CASE ~(x = None \/ x.lacks = "nothing")
  <2>1. OutOfDate(x) = [x EXCEPT !.lacks = "a confirmed change"]
    BY <1>2 DEF OutOfDate
  <2>2. OutOfDate(x) \in Snapshots(q)
    BY <1>2, <2>1 DEF Snapshots
  <2> QED
    BY <1>2, <2>2, NoneIsNoList
<1> QED
  BY <1>1, <1>2

\* An entry of which the page has been told keeps its type, and its data.
LEMMA ToldType ==
  ASSUME NEW q \in Queries, query[q] \in Entries(q)
  PROVE  /\ Told(q) \in Entries(q)
         /\ Told(q).data = None <=> query[q].data = None
<1> DEFINE e == query[q]
           d == OutOfDate(e.data)
           a == OutOfDate(e.fetch.answer)
<1>1. /\ d \in Snapshots(q) \cup {None} /\ (d = None <=> e.data = None)
      /\ a \in Snapshots(q) \cup {None}
  BY OutOfDateType DEF Entries
<1>2. CASE Told(q) = e
  BY <1>2
<1>3. CASE Told(q) = [e EXCEPT !.data = d, !.fetch.answer = a]
  <2> HIDE DEF d, a
  <2>1. [e.fetch EXCEPT !.answer = a]
          \in [state : {"idle", "sent", "served"}, answer : Snapshots(q) \cup {None}]
    BY <1>1 DEF Entries
  <2> DEFINE g == [e.fetch EXCEPT !.answer = a]
             x == [e EXCEPT !.data = d]
  <2>2. Told(q) = [x EXCEPT !.fetch = g]
    BY <1>3 DEF Entries
  <2>3. x \in Entries(q) /\ x.data = d
    BY <1>1 DEF Entries
  <2> HIDE DEF g, x
  <2> QED
    BY <1>1, <2>1, <2>2, <2>3 DEF Entries, g
<1> QED
  BY <1>2, <1>3 DEF Told

\* Being told of a change and invalidated leaves the cache good, whatever the
\* component.  What it tells of, it invalidates; and the list in question, if it
\* is shown, is read afresh: a read that may bring the old list is given up.
LEMMA AfterInvalidationIsGood ==
  ASSUME GoodCache(query), NEW f \in Forms
  PROVE  GoodCache(AfterInvalidation(f))
<1> DEFINE told(q) == IF q \in ShownIn(f) THEN Told(q) ELSE query[q]
           after(q) == IF q \in Component[f].invalidates THEN Invalidated(q, told(q)) ELSE told(q)
<1>1. AfterInvalidation(f) = [q \in Queries |-> after(q)]
  BY DEF AfterInvalidation
<1>2. ASSUME NEW q \in Queries PROVE after(q) \in Entries(q) /\ Marked(after(q))
  <2>1. query[q] \in Entries(q) /\ Marked(query[q])
    BY DEF GoodCache
  <2>2. CASE q \notin ShownIn(f) /\ q \notin Component[f].invalidates
    BY <2>1, <2>2
  <2>3. CASE q \in Component[f].invalidates
    <3>1. told(q) \in Entries(q) /\ (told(q).data = None <=> ~Loaded(q))
      BY <2>1, ToldType DEF Loaded
    <3> DEFINE e == [told(q) EXCEPT !.invalid = Loaded(q)]
    <3>2. e \in Entries(q) /\ (e.data # None => e.invalid) /\ (e.data = None <=> ~Loaded(q))
      BY <3>1 DEF Entries, Loaded
    <3>3. CASE Active(q) /\ Loaded(q)
      <4>1. after(q) = [e EXCEPT !.fetch = NewFetch]
        BY <2>3, <3>2, <3>3 DEF Invalidated, Refetched
      <4> HIDE DEF e, after
      <4>2. after(q).data = e.data /\ after(q).invalid = e.invalid /\ after(q).fetch = NewFetch
        BY <4>1, <3>2 DEF Entries
      <4>3. NewFetch \in [state : {"idle", "sent", "served"}, answer : Snapshots(q) \cup {None}]
        BY DEF NewFetch
      <4>4. after(q) \in Entries(q)
        BY <4>1, <4>3, <3>2 DEF Entries
      <4>5. NewFetch.answer = None
        BY DEF NewFetch
      <4> QED
        BY <4>2, <4>4, <4>5, <3>2 DEF Marked
    <3>4. CASE ~(Active(q) /\ Loaded(q))
      <4>1. told(q) = query[q]
        BY <3>4 DEF Told
      <4>2. Marked(e)
        BY <4>1, <2>1, <3>2 DEF Marked, Entries
      <4>3. after(q) \in {e, [e EXCEPT !.fetch = NewFetch]}
        BY <2>3 DEF Invalidated, Refetched
      <4> HIDE DEF e, after
      <4> QED
        BY <3>2, <4>2, <4>3, FetchReplaced
    <3> QED
      BY <3>3, <3>4
  <2> QED
    BY <2>2, <2>3, InvalidatesWhatIsShown
<1> QED
  BY <1>1, <1>2 DEF GoodCache

-----------------------------------------------------------------------------
(* The inductive invariant *)

LEMMA InvInit == Init => IInv
<1> SUFFICES ASSUME Init PROVE IInv
  OBVIOUS
<1>1. Cardinality(calls) = 0 /\ IsFiniteSet(calls) /\ MaxCalls \in Nat /\ MaxTyped \in Nat
  BY FS_EmptySet, ConstantsAssumption DEF Init
<1>2. \A q \in Queries : query[q] = NoData /\ NoData \in Entries(q) /\ Marked(NoData)
  BY DEF Init, NoData, NoFetch, Entries, Marked
<1>3. /\ query = [q \in Queries |-> query[q]]
      /\ \A q \in Queries : query[q] \in Entries(q)
      /\ ConfirmedIsInvalid
  BY <1>2 DEF Init, ConfirmedIsInvalid, Marked, Loaded
<1>4. created \in [1..MaxTyped -> Nat] /\ \A d \in 1..MaxTyped : created[d] = 0
  BY DEF Init
<1>5. \A f \in Forms : form[f] = Unmounted
  BY DEF Init
<1>6. form \in [Forms -> [target : Ids \cup {New, None}, draft : Nat \cup {None}]]
  BY DEF Init, Unmounted
<1>7. TypeOK
  BY <1>1, <1>3, <1>4, <1>5, <1>6 DEF TypeOK, Init
<1>8. \A f \in Creates : form[f].draft = None
  BY <1>5, CreatingComponents DEF Unmounted
<1>9. DraftsApart
  BY <1>8 DEF DraftsApart, Init
<1>10. OpenDraftsUnconfirmed /\ DraftConfirmedOnce
  BY <1>4 DEF OpenDraftsUnconfirmed, DraftConfirmedOnce
<1> QED
  BY <1>3, <1>7, <1>9, <1>10 DEF IInv

\* A step that changes only the cache, and leaves it good.
LEMMA CacheStep ==
  ASSUME IInv, UNCHANGED <<area, page, form, calls, typed, created, backend>>, GoodCache(query')
  PROVE  IInv'
<1>1. TypeOK'
  BY DEF IInv, TypeOK, GoodCache, backend, Mounted
<1>2. ConfirmedIsInvalid'
  BY DEF GoodCache, Marked, ConfirmedIsInvalid, Loaded
<1>3. DraftsApart' /\ OpenDraftsUnconfirmed' /\ DraftConfirmedOnce'
  BY DEF IInv, DraftsApart, OpenDraftsUnconfirmed, DraftConfirmedOnce
<1> QED
  BY <1>1, <1>2, <1>3 DEF IInv

LEMMA QueryStep ==
  ASSUME IInv, NEW q \in Queries,
         Fetch(q) \/ ServeFetch(q) \/ FetchAnswered(q) \/ FetchFails(q)
  PROVE  IInv'
<1>1. GoodCache(query) /\ query[q] \in Entries(q) /\ Marked(query[q])
  BY CacheIsGood DEF IInv, GoodCache
<1>2. UNCHANGED <<area, page, form, calls, typed, created, backend>>
  BY DEF Fetch, ServeFetch, FetchAnswered, FetchFails
<1>3. PICK e \in Entries(q) : Marked(e) /\ query' = [query EXCEPT ![q] = e]
  <2>1. CASE Fetch(q) \/ FetchFails(q)
    <3>1. PICK f \in {NoFetch, NewFetch} : query' = [query EXCEPT ![q].fetch = f]
      BY <2>1 DEF Fetch, FetchFails
    <3>2. query' = [query EXCEPT ![q] = [query[q] EXCEPT !.fetch = f]]
      BY <3>1
    <3> QED
      BY <1>1, <3>2, FetchReplaced
  <2>2. CASE ServeFetch(q)
    <3> DEFINE e == [query[q] EXCEPT !.fetch = [state |-> "served", answer |-> Read(q)]]
    <3>1. query' = [query EXCEPT ![q] = e]
      <4> DEFINE r == Read(q)
      <4>1. query' = [query EXCEPT ![q].fetch.state = "served", ![q].fetch.answer = r]
        BY <2>2 DEF ServeFetch
      <4> HIDE DEF r
      <4>2. query[q].fetch \in [state : {"idle", "sent", "served"},
                                answer : Snapshots(q) \cup {None}]
        BY <1>1 DEF Entries
      <4>3. [query[q].fetch EXCEPT !.state = "served", !.answer = r] =
              [state |-> "served", answer |-> r]
        <5> DEFINE x == [query[q].fetch EXCEPT !.state = "served"]
        <5>1. x \in [state : {"served"}, answer : Snapshots(q) \cup {None}]
          BY <4>2
        <5> DEFINE y == [x EXCEPT !.answer = r]
        <5>2. y \in [state : {"served"}, answer : {r}]
          BY <5>1
        <5>3. y = [query[q].fetch EXCEPT !.state = "served", !.answer = r]
          OBVIOUS
        <5> HIDE DEF y
        <5>4. y = [state |-> "served", answer |-> r]
          BY <5>2
        <5> QED
          BY <5>3, <5>4
      <4>4. query' = [query EXCEPT ![q] =
                        [query[q] EXCEPT !.fetch =
                           [query[q].fetch EXCEPT !.state = "served", !.answer = r]]]
        BY <4>1, <1>1 DEF GoodCache, Entries
      <4> QED
        BY <4>3, <4>4 DEF r
    <3>2. Read(q) \in Snapshots(q) /\ Read(q).lacks = "nothing"
      BY ReadType DEF IInv
    <3>3. e \in Entries(q) /\ Marked(e)
      BY <1>1, <3>2 DEF Entries, Marked
    <3> QED
      BY <3>1, <3>3
  <2>3. CASE FetchAnswered(q)
    <3> DEFINE e == [data |-> query[q].fetch.answer, invalid |-> FALSE, fetch |-> NoFetch]
    <3>1. query' = [query EXCEPT ![q] = e]
      BY <2>3 DEF FetchAnswered
    <3>2. e \in Entries(q) /\ Marked(e)
      BY <1>1 DEF Entries, Marked, NoFetch
    <3> QED
      BY <3>1, <3>2
  <2> QED
    BY <2>1, <2>2, <2>3
<1>4. GoodCache(query')
  BY <1>1, <1>3, EntryReplaced
<1> QED
  BY <1>2, <1>4, CacheStep

\* A step that changes the dialogs on the page, and leaves the drafts of the
\* creating ones apart and unconfirmed.
LEMMA FormStep ==
  ASSUME IInv, UNCHANGED <<area, page, query, calls, created, backend>>,
         typed' \in 0..MaxTyped, typed <= typed',
         form' \in [Forms -> [target : Ids \cup {New, None}, draft : Nat \cup {None}]],
         NEW f \in Forms, Mounted(f, page),
         \A g \in Forms \ {f} : form'[g] = form[g],
         \/ form'[f].draft = form[f].draft
         \/ f \notin Creates
         \/ typed' = typed + 1 /\ form'[f].draft = typed'
  PROVE  IInv'
<1> USE ConstantsAssumption
<1>0. typed \in Nat /\ typed' \in Nat /\ MaxTyped \in Nat
  BY DEF IInv, TypeOK
<1>1. TypeOK'
  BY DEF IInv, TypeOK, backend, Mounted
<1>2. ConfirmedIsInvalid' /\ DraftConfirmedOnce'
  BY DEF IInv, ConfirmedIsInvalid, DraftConfirmedOnce, Loaded
<1>3. \A g \in Creates : g \in Forms
  BY CreatingComponents
<1>4. ASSUME NEW g \in Creates
      PROVE  \/ form'[g].draft = form[g].draft
             \/ g = f /\ typed' = typed + 1 /\ form'[g].draft = typed'
  BY <1>3
<1>5. DraftsApart'
  <2>1. \A g \in Creates : form'[g].draft \in 1..typed' \cup {None}
    BY <1>0, <1>4 DEF IInv, DraftsApart
  <2>2. \A g, h \in Creates :
          form'[g].draft = form'[h].draft /\ form'[g].draft # None => g = h
    BY <1>0, <1>4 DEF IInv, DraftsApart
  <2>3. \A c \in calls : c.form \in Creates =>
          /\ c.draft \in 1..typed'
          /\ \A g \in Creates : form'[g].draft = c.draft => c.alive /\ c.form = g
          /\ \A b \in calls : b.form \in Creates /\ b.draft = c.draft => b = c
    BY <1>0, <1>4 DEF IInv, DraftsApart
  <2> QED
    BY <2>1, <2>2, <2>3 DEF DraftsApart
<1>6. OpenDraftsUnconfirmed'
  BY <1>0, <1>4 DEF IInv, OpenDraftsUnconfirmed
<1> QED
  BY <1>1, <1>2, <1>5, <1>6 DEF IInv

\* Only a component on the page can have anything open.
LEMMA OpenIsMounted ==
  ASSUME TypeOK, NEW f \in Forms, form[f].target # None
  PROVE  Mounted(f, page)
BY DEF TypeOK, Unmounted

LEMMA DialogStep ==
  ASSUME IInv, NEW f \in Forms, Open(f) \/ Close(f) \/ Type(f)
  PROVE  IInv'
<1> USE ConstantsAssumption
<1>1. form \in [Forms -> [target : Ids \cup {New, None}, draft : Nat \cup {None}]]
  BY DEF IInv, TypeOK
<1>2. typed \in 0..MaxTyped
  BY DEF IInv, TypeOK
<1>3. CASE Open(f)
  <2>1. PICK t \in Ids \cup {New} : form' = [form EXCEPT ![f].target = t]
    BY <1>3, TargetsType DEF Open, IInv
  <2>2. form' \in [Forms -> [target : Ids \cup {New, None}, draft : Nat \cup {None}]]
    BY <1>1, <2>1
  <2> QED
    BY <1>1, <1>2, <1>3, <2>1, <2>2, FormStep DEF Open
<1>4. CASE Close(f)
  <2>1. form' \in [Forms -> [target : Ids \cup {New, None}, draft : Nat \cup {None}]]
    BY <1>1, <1>4 DEF Close
  <2>2. Mounted(f, page)
    BY <1>4, OpenIsMounted DEF Close, IInv
  <2> QED
    BY <1>1, <1>2, <1>4, <2>1, <2>2, FormStep DEF Close
<1>5. CASE Type(f) /\ f = "assign"
  <2>1. PICK s \in Ids : form' = [form EXCEPT ![f].draft = s]
    BY <1>5, ShownStations DEF Type, IInv
  <2>2. form' \in [Forms -> [target : Ids \cup {New, None}, draft : Nat \cup {None}]]
    BY <1>1, <2>1
  <2>3. Mounted(f, page) /\ f \notin Creates
    BY <1>5, OpenIsMounted DEF Type, IInv, Creates
  <2> QED
    BY <1>1, <1>2, <1>5, <2>1, <2>2, <2>3, FormStep DEF Type
<1>6. CASE Type(f) /\ f # "assign"
  <2>1. /\ typed' = typed + 1 /\ typed < MaxTyped
        /\ form' = [form EXCEPT ![f].draft = typed + 1]
    BY <1>6 DEF Type
  <2>2. /\ form' \in [Forms -> [target : Ids \cup {New, None}, draft : Nat \cup {None}]]
        /\ form'[f].draft = typed'
    BY <1>1, <1>2, <2>1
  <2>3. Mounted(f, page)
    BY <1>6, OpenIsMounted DEF Type, IInv
  <2>4. typed' \in 0..MaxTyped /\ typed <= typed'
    BY <1>2, <2>1
  <2> QED
    BY <1>1, <1>6, <2>1, <2>2, <2>3, <2>4, FormStep DEF Type
<1> QED
  BY <1>3, <1>4, <1>5, <1>6

\* A request is sent by a component on the page; a creating one has a draft
\* and no request pending.
LEMMA SendStep ==
  ASSUME IInv, NEW f \in Forms, NEW t \in Ids \cup {New, None}, Send(f, t), Mounted(f, page),
         f \in Creates => form[f].draft # None /\ ~Pending(f)
  PROVE  IInv'
<1> DEFINE n == [form |-> f, target |-> t, draft |-> form[f].draft,
                 state |-> "sent", alive |-> TRUE]
<1>1. /\ calls' = calls \cup {n}
      /\ Cardinality(calls) < MaxCalls
      /\ UNCHANGED <<area, page, query, form, typed, created, backend>>
  BY DEF Send
<1>2. n \in Calls
  BY DEF IInv, TypeOK, Calls
<1>3. n.form = f /\ n.draft = form[f].draft /\ n.alive
  OBVIOUS
<1> HIDE DEF n
<1>4. IsFiniteSet(calls') /\ Cardinality(calls') <= MaxCalls
  <2>1. IsFiniteSet(calls) /\ Cardinality(calls) \in Nat
    BY FS_CardinalityType DEF IInv, TypeOK
  <2>2. Cardinality(calls') \in {Cardinality(calls), Cardinality(calls) + 1} /\ IsFiniteSet(calls')
    BY <1>1, <2>1, FS_AddElement
  <2> QED
    BY <1>1, <2>1, <2>2, ConstantsAssumption
<1>5. TypeOK'
  BY <1>1, <1>2, <1>3, <1>4 DEF IInv, TypeOK, backend, Mounted
<1>6. ConfirmedIsInvalid' /\ DraftConfirmedOnce'
  BY <1>1 DEF IInv, ConfirmedIsInvalid, DraftConfirmedOnce, Loaded
<1>7. DraftsApart'
  <2>1. ASSUME f \in Creates
        PROVE  /\ n.draft \in 1..typed
               /\ \A g \in Creates : form[g].draft = n.draft => g = f
               /\ \A b \in calls : b.form \in Creates => b.draft # n.draft
    BY <1>3, <2>1 DEF IInv, DraftsApart, Pending
  <2> QED
    BY <1>1, <1>3, <2>1 DEF IInv, DraftsApart
<1>8. OpenDraftsUnconfirmed'
  BY <1>1, <1>3 DEF IInv, OpenDraftsUnconfirmed
<1> QED
  BY <1>5, <1>6, <1>7, <1>8 DEF IInv

LEMMA SubmitStep ==
  ASSUME IInv, NEW f \in Forms, Submit(f) \/ Press(f)
  PROVE  IInv'
<1>1. CASE Submit(f)
  <2>1. form[f].target \in Ids \cup {New, None} /\ Mounted(f, page)
    BY <1>1, OpenIsMounted DEF Submit, IInv, TypeOK
  <2>2. f \in Creates => form[f].draft # None
    BY <1>1, CreatingComponents DEF Submit
  <2> QED
    BY <1>1, <2>1, <2>2, SendStep DEF Submit
<1>2. CASE Press(f)
  <2>1. f \notin Creates
    BY <1>2, CreatingComponents DEF Press
  <2>2. PICK t \in Ids \cup {New} : Send(f, t)
    BY <1>2, TargetsType DEF Press, IInv
  <2> QED
    BY <1>2, <2>1, <2>2, SendStep DEF Press
<1> QED
  BY <1>1, <1>2

\* Without a request the calls keep their type and are no more than before.
LEMMA CallRemoved ==
  ASSUME TypeOK, NEW c \in calls
  PROVE  /\ calls \ {c} \subseteq Calls
         /\ IsFiniteSet(calls \ {c})
         /\ Cardinality(calls \ {c}) = Cardinality(calls) - 1
         /\ Cardinality(calls) \in Nat
         /\ Cardinality(calls \ {c}) <= MaxCalls
<1>1. /\ calls \subseteq Calls /\ IsFiniteSet(calls)
      /\ Cardinality(calls) <= MaxCalls /\ MaxCalls \in Nat
  BY ConstantsAssumption DEF TypeOK
<1>2. Cardinality(calls) \in Nat
  BY <1>1, FS_CardinalityType
<1>3. IsFiniteSet(calls \ {c}) /\ Cardinality(calls \ {c}) = Cardinality(calls) - 1
  BY <1>1, FS_RemoveElement
<1> QED
  BY <1>1, <1>2, <1>3

LEMMA FailsStep ==
  ASSUME IInv, NEW c \in calls, Fails(c)
  PROVE  IInv'
<1> USE DEF IInv, Fails
<1>1. /\ calls \ {c} \subseteq Calls /\ IsFiniteSet(calls \ {c})
      /\ Cardinality(calls \ {c}) <= MaxCalls
  BY CallRemoved
<1>2. TypeOK'
  BY <1>1 DEF TypeOK, backend, Mounted
<1>3. ConfirmedIsInvalid' /\ DraftConfirmedOnce'
  BY DEF ConfirmedIsInvalid, DraftConfirmedOnce, Loaded
<1>4. DraftsApart' /\ OpenDraftsUnconfirmed'
  BY DEF DraftsApart, OpenDraftsUnconfirmed
<1> QED
  BY <1>2, <1>3, <1>4

\* The backend commits a change: the request is answered, and the lists that
\* show the change, in the cache or on their way, are overtaken.
LEMMA CommitStep ==
  ASSUME IInv, NEW c \in calls, Commit(c)
  PROVE  IInv'
<1> DEFINE n == [c EXCEPT !.state = "done"]
<1>1. /\ calls' = (calls \ {c}) \cup {n}
      /\ UNCHANGED <<area, page, form, typed, created>>
  BY DEF Commit
<1>2. c \in Calls
  BY DEF IInv, TypeOK
<1>3. n \in Calls /\ n.form = c.form /\ n.draft = c.draft /\ n.alive = c.alive
  BY <1>2 DEF Calls
<1> HIDE DEF n
<1>4. IsFiniteSet(calls') /\ Cardinality(calls') <= MaxCalls
  <2>1. /\ IsFiniteSet(calls \ {c})
        /\ Cardinality(calls \ {c}) = Cardinality(calls) - 1
        /\ Cardinality(calls) \in Nat
    BY CallRemoved DEF IInv
  <2>2. /\ IsFiniteSet(calls')
        /\ Cardinality(calls') \in {Cardinality(calls) - 1, Cardinality(calls)}
    BY <1>1, <2>1, FS_AddElement
  <2> QED
    BY <2>1, <2>2, ConstantsAssumption DEF IInv, TypeOK
<1>5. stations' \subseteq Ids /\ run' \in {"none", "running", "completed"}
  BY DEF Commit, IInv, TypeOK
<1>6. GoodCache(query')
  <2>1. GoodCache(query)
    BY CacheIsGood DEF IInv
  <2>2. \A q \in Queries :
          query'[q] \in {query[q], [query[q] EXCEPT !.data = Lacking(@),
                                                   !.fetch.answer = Lacking(@)]}
    BY DEF Commit
  <2> QED
    BY <2>1, <2>2, OvertakenEntry DEF GoodCache, Commit
<1>7. TypeOK'
  BY <1>1, <1>3, <1>4, <1>5, <1>6 DEF IInv, TypeOK, GoodCache, Mounted
<1>8. ConfirmedIsInvalid'
  BY <1>6 DEF GoodCache, Marked, ConfirmedIsInvalid, Loaded
<1>9. DraftsApart'
  BY <1>1, <1>3 DEF IInv, DraftsApart
<1>10. OpenDraftsUnconfirmed' /\ DraftConfirmedOnce'
  BY <1>1, <1>3 DEF IInv, OpenDraftsUnconfirmed, DraftConfirmedOnce
<1> QED
  BY <1>7, <1>8, <1>9, <1>10 DEF IInv

\* onSuccess of a creating component: the draft it confirms is in no dialog
\* and no other request any more, so it is confirmed for the first time and
\* for the last.
LEMMA ConfirmStep ==
  ASSUME IInv, NEW c \in calls, c.form \in Creates,
         UNCHANGED typed,
         created' = [created EXCEPT ![c.draft] = @ + 1],
         calls' \subseteq calls \ {c},
         \A f \in Creates : form'[f].draft \in {form[f].draft, None},
         c.alive => form'[c.form].draft = None
  PROVE  OpenDraftsUnconfirmed' /\ DraftConfirmedOnce'
<1> USE ConstantsAssumption
<1>1. /\ created \in [1..MaxTyped -> Nat] /\ typed \in Nat /\ typed <= MaxTyped
      /\ MaxTyped \in Nat
  BY DEF IInv, TypeOK
<1>2. c.draft \in 1..typed /\ c.draft \in 1..MaxTyped
  BY <1>1 DEF IInv, DraftsApart
<1>3. created[c.draft] = 0
  BY <1>2 DEF IInv, OpenDraftsUnconfirmed
<1>4. \A f \in Creates : form'[f].draft # c.draft
  BY <1>2 DEF IInv, DraftsApart
<1>5. \A b \in calls' : b.form \in Creates => b.draft # c.draft
  BY DEF IInv, DraftsApart
<1>6. created'[c.draft] = 1 /\ \A d \in 1..MaxTyped \ {c.draft} : created'[d] = created[d]
  BY <1>1, <1>2, <1>3
<1>7. DOMAIN created = 1..MaxTyped /\ DOMAIN created' = 1..MaxTyped
  BY <1>1
<1>8. DraftConfirmedOnce'
  BY <1>6, <1>7 DEF IInv, DraftConfirmedOnce
<1>9. OpenDraftsUnconfirmed'
  <2> SUFFICES ASSUME NEW d \in 1..MaxTyped,
                      \/ d > typed
                      \/ \E f \in Creates : form'[f].draft = d
                      \/ \E b \in calls' : b.form \in Creates /\ b.draft = d
               PROVE  created'[d] = 0
    BY DEF OpenDraftsUnconfirmed
  <2>1. d # c.draft
    BY <1>1, <1>2, <1>4, <1>5
  <2>2. \/ d > typed
        \/ \E f \in Creates : form[f].draft = d
        \/ \E b \in calls : b.form \in Creates /\ b.draft = d
    <3>1. d # None
      BY ConstantsAssumption
    <3> QED
      BY <3>1
  <2>3. created[d] = 0
    BY <2>2 DEF IInv, OpenDraftsUnconfirmed
  <2> QED
    BY <1>6, <2>1, <2>3
<1> QED
  BY <1>8, <1>9

LEMMA SucceedsStep ==
  ASSUME IInv, NEW c \in calls, Succeeds(c)
  PROVE  IInv'
<1> USE ConstantsAssumption
<1>1. /\ calls' = calls \ {c}
      /\ UNCHANGED <<area, page, typed, backend>>
      /\ query' = AfterInvalidation(c.form)
      /\ CountCreated(c)
  BY DEF Succeeds
<1>2. c \in Calls /\ c.form \in Forms /\ (c.alive => Mounted(c.form, page))
  BY DEF IInv, TypeOK, Calls
<1>3. GoodCache(query')
  BY <1>1, <1>2, CacheIsGood, AfterInvalidationIsGood DEF IInv
<1>4. /\ form' \in [Forms -> [target : Ids \cup {New, None}, draft : Nat \cup {None}]]
      /\ \A f \in Forms : f # c.form \/ ~c.alive => form'[f] = form[f]
      /\ c.alive => form'[c.form].draft =
                      IF Component[c.form].clears THEN None ELSE form[c.form].draft
  <2>1. form \in [Forms -> [target : Ids \cup {New, None}, draft : Nat \cup {None}]]
    BY DEF IInv, TypeOK
  <2>2. CASE ~c.alive
    BY <2>1, <2>2 DEF Succeeds
  <2>3. CASE c.alive
    <3> DEFINE n == [target |-> None,
                     draft |-> IF Component[c.form].clears THEN None ELSE form[c.form].draft]
    <3>1. form' = [form EXCEPT ![c.form] = n]
      BY <2>3 DEF Succeeds
    <3>2. n \in [target : Ids \cup {New, None}, draft : Nat \cup {None}]
      BY <1>2, <2>1
    <3> QED
      BY <1>2, <2>1, <2>3, <3>1, <3>2
  <2> QED
    BY <2>2, <2>3
<1>5. \A f \in Creates : f \in Forms /\ Component[f].clears
  BY CreatingComponents
<1>6. /\ \A f \in Creates : form'[f].draft \in {form[f].draft, None}
      /\ c.form \in Creates /\ c.alive => form'[c.form].draft = None
  BY <1>4, <1>5
<1>7. created' \in [1..MaxTyped -> Nat]
  <2>1. created \in [1..MaxTyped -> Nat] /\ typed \in 0..MaxTyped
    BY DEF IInv, TypeOK
  <2>2. c.form \in Creates => c.draft \in 1..MaxTyped
    BY <2>1 DEF IInv, DraftsApart
  <2> QED
    BY <1>1, <2>1, <2>2 DEF CountCreated
<1>8. TypeOK'
  <2>1. /\ calls' \subseteq Calls /\ IsFiniteSet(calls')
        /\ Cardinality(calls') <= MaxCalls
    BY <1>1, CallRemoved DEF IInv
  <2>2. \A f \in Forms : ~Mounted(f, page) => form'[f] = Unmounted
    BY <1>2, <1>4 DEF IInv, TypeOK
  <2> QED
    BY <1>1, <1>3, <1>4, <1>7, <2>1, <2>2 DEF IInv, TypeOK, GoodCache, backend, Mounted
<1>9. ConfirmedIsInvalid'
  BY <1>3 DEF GoodCache, Marked, ConfirmedIsInvalid, Loaded
<1>10. DraftsApart'
  BY <1>1, <1>6 DEF IInv, DraftsApart
<1>11. OpenDraftsUnconfirmed' /\ DraftConfirmedOnce'
  <2>1. CASE c.form \in Creates
    BY <1>1, <1>6, <2>1, ConfirmStep DEF CountCreated
  <2>2. CASE c.form \notin Creates
    BY <1>1, <1>6, <2>2 DEF CountCreated, IInv, OpenDraftsUnconfirmed, DraftConfirmedOnce
  <2> QED
    BY <2>1, <2>2
<1> QED
  BY <1>8, <1>9, <1>10, <1>11 DEF IInv

\* A change of page: what leaves it loses its state and its requests are not
\* waited for; what comes in starts without the drafts of before.
LEMMA ShowStep ==
  ASSUME IInv, NEW p \in area.tabs \cup {"elsewhere"}, NEW cache, GoodCache(cache),
         NEW sent \in SUBSET calls, Show(p, cache, sent),
         UNCHANGED <<area, typed, created, backend>>
  PROVE  IInv'
<1> DEFINE left(c) == [c EXCEPT !.alive = @ /\ Mounted(c.form, p)]
<1>1. page' = p /\ calls' = {left(c) : c \in sent}
  BY DEF Show
<1>2. \A c \in sent :
        /\ left(c) \in Calls
        /\ left(c).form = c.form /\ left(c).draft = c.draft
        /\ left(c).alive = (c.alive /\ Mounted(c.form, p))
  <2> SUFFICES ASSUME NEW c \in sent
               PROVE  /\ left(c) \in Calls
                      /\ left(c).form = c.form /\ left(c).draft = c.draft
                      /\ left(c).alive = (c.alive /\ Mounted(c.form, p))
    OBVIOUS
  <2>1. c \in Calls
    BY DEF IInv, TypeOK
  <2>2. PICK b \in BOOLEAN : b = (c.alive /\ Mounted(c.form, p))
    OBVIOUS
  <2>3. left(c) = [c EXCEPT !.alive = b]
    BY <2>1, <2>2 DEF Calls
  <2> QED
    BY <2>1, <2>2, <2>3 DEF Calls
<1>3. IsFiniteSet(calls') /\ Cardinality(calls') <= MaxCalls
  <2> DEFINE g == [c \in sent |-> left(c)]
  <2>1. g \in Surjection(sent, calls')
    BY <1>1 DEF Surjection
  <2>2. IsFiniteSet(sent) /\ Cardinality(sent) <= Cardinality(calls)
    BY FS_Subset DEF IInv, TypeOK
  <2>3. IsFiniteSet(calls') /\ Cardinality(calls') <= Cardinality(sent)
    BY <2>1, <2>2, FS_Surjection
  <2>4. Cardinality(calls') \in Nat /\ Cardinality(sent) \in Nat /\ Cardinality(calls) \in Nat
    BY <2>2, <2>3, FS_CardinalityType DEF IInv, TypeOK
  <2> QED
    BY <2>2, <2>3, <2>4, ConstantsAssumption DEF IInv, TypeOK
<1> HIDE DEF left
<1>4. /\ form' \in [Forms -> [target : Ids \cup {New, None}, draft : Nat \cup {None}]]
      /\ \A f \in Forms : ~Mounted(f, p) => form'[f] = Unmounted
      /\ \A f \in Forms : Mounted(f, p) /\ Mounted(f, page) => form'[f] = form[f]
      /\ \A f \in Forms : ~(Mounted(f, p) /\ Mounted(f, page)) /\ f # "assign" =>
           form'[f].draft = None
  <2>1. form' = [f \in Forms |-> Remounted(f, p)]
    BY DEF Show
  <2>2. ASSUME NEW f \in Forms
        PROVE  /\ Unmounted \in [target : Ids \cup {New, None}, draft : Nat \cup {None}]
               /\ Fresh(f) \in [target : Ids \cup {New, None}, draft : Nat \cup {None}]
               /\ Unmounted.draft = None
               /\ f # "assign" => Fresh(f).draft = None
    BY InitialDraftType DEF Unmounted, Fresh, IInv
  <2>3. form \in [Forms -> [target : Ids \cup {New, None}, draft : Nat \cup {None}]]
    BY DEF IInv, TypeOK
  <2> QED
    BY <2>1, <2>2, <2>3 DEF Remounted
<1>5. GoodCache(query')
  <2>1. query' = [q \in Queries |->
                    IF /\ q \in Reads(p) /\ cache[q].fetch.state = "idle"
                       /\ cache[q].data = None \/ cache[q].invalid
                    THEN [cache[q] EXCEPT !.fetch = NewFetch] ELSE cache[q]]
    BY DEF Show
  <2> QED
    BY <2>1, FetchReplaced DEF GoodCache
<1>6. \A c \in calls' : c \in Calls /\ (c.alive => Mounted(c.form, p))
  BY <1>1, <1>2
<1>7. TypeOK'
  <2>1. calls' \subseteq Calls /\ \A c \in calls' : c.alive => Mounted(c.form, page')
    BY <1>1, <1>6
  <2> QED
    BY <1>1, <1>3, <1>4, <1>5, <2>1 DEF IInv, TypeOK, GoodCache, backend, Mounted
<1>8. ConfirmedIsInvalid'
  BY <1>5 DEF GoodCache, Marked, ConfirmedIsInvalid, Loaded
<1>9. \A f \in Creates : /\ f \in Forms
                         /\ form'[f].draft \in {form[f].draft, None}
                         /\ form'[f].draft # None => Mounted(f, p)
  BY <1>4, CreatingComponents
<1>10. DraftsApart'
  <2>1. /\ \A f \in Creates : form'[f].draft \in 1..typed \cup {None}
        /\ \A f, g \in Creates :
             form'[f].draft = form'[g].draft /\ form'[f].draft # None => f = g
    BY <1>9 DEF IInv, DraftsApart
  <2>2. ASSUME NEW c \in sent, c.form \in Creates
        PROVE  /\ left(c).draft \in 1..typed
               /\ \A f \in Creates : form'[f].draft = left(c).draft =>
                    left(c).alive /\ left(c).form = f
               /\ \A b \in sent : b.form \in Creates /\ b.draft = c.draft => left(b) = left(c)
    <3>1. c.draft \in 1..typed /\ c.draft # None
      BY <2>2, ConstantsAssumption DEF IInv, DraftsApart, TypeOK
    <3> QED
      <4>1. left(c).draft = c.draft /\ left(c).form = c.form
        BY <1>2
      <4>2. ASSUME NEW f \in Creates, form'[f].draft = c.draft
            PROVE  left(c).alive /\ c.form = f
        <5>1. form[f].draft = c.draft /\ Mounted(f, p)
          BY <1>9, <3>1, <4>2
        <5>2. c.alive /\ c.form = f
          BY <2>2, <5>1 DEF IInv, DraftsApart
        <5> QED
          BY <1>2, <5>1, <5>2
      <4>3. \A b \in sent : b.form \in Creates /\ b.draft = c.draft => b = c
        BY <2>2 DEF IInv, DraftsApart
      <4> QED
        BY <3>1, <4>1, <4>2, <4>3
  <2>3. \A c \in calls' : c.form \in Creates =>
          /\ c.draft \in 1..typed
          /\ \A f \in Creates : form'[f].draft = c.draft => c.alive /\ c.form = f
          /\ \A b \in calls' : b.form \in Creates /\ b.draft = c.draft => b = c
    BY <1>1, <1>2, <2>2
  <2> QED
    BY <2>1, <2>3 DEF DraftsApart
<1>11. OpenDraftsUnconfirmed' /\ DraftConfirmedOnce'
  <2>1. \A c \in calls' : \E b \in calls : b.form = c.form /\ b.draft = c.draft
    BY <1>1, <1>2
  <2>2. ASSUME NEW d \in 1..MaxTyped, NEW f \in Creates, form'[f].draft = d
        PROVE  form[f].draft = d
    BY <1>9, <2>2, ConstantsAssumption
  <2> QED
    BY <2>1, <2>2 DEF IInv, OpenDraftsUnconfirmed, DraftConfirmedOnce
<1> QED
  BY <1>7, <1>8, <1>10, <1>11 DEF IInv

LEMMA NavigateStep ==
  ASSUME IInv, NEW p \in area.tabs \cup {"elsewhere"}, Navigate(p)
  PROVE  IInv'
<1>1. GoodCache(query)
  BY CacheIsGood DEF IInv
<1> QED
  BY <1>1, ShowStep DEF Navigate

\* A run that has been started is shown if its form is still there, and then
\* the page is that of the test suite.
LEMMA RunStartedStep ==
  ASSUME IInv, NEW c \in calls, RunStarted(c)
  PROVE  IInv'
<1>1. Mounted("startRun", page)
  BY DEF RunStarted, IInv, TypeOK
<1>2. page = "testsuite"
  BY <1>1, StartRunIsOnTestsuite
<1>3. "run" \in area.tabs \cup {"elsewhere"}
  BY <1>2, RunIsInItsArea DEF IInv, TypeOK
<1>4. GoodCache(AfterInvalidation("startRun"))
  BY CacheIsGood, AfterInvalidationIsGood, FormNames DEF IInv
<1>5. UNCHANGED <<area, typed, created, backend>>
  BY DEF RunStarted, CountCreated, Creates
<1>6. Show("run", AfterInvalidation("startRun"), calls \ {c})
  BY DEF RunStarted
<1> QED
  BY <1>3, <1>4, <1>5, <1>6, ShowStep

\* Neither another administrator nor the backend's run touches the pages.
LEMMA BackendStep ==
  ASSUME IInv, OthersChange \/ RunEnds
  PROVE  IInv'
<1>1. /\ UNCHANGED <<area, page, query, form, calls, typed, created>>
      /\ stations' \subseteq Ids /\ run' \in {"none", "running", "completed"}
  BY DEF IInv, TypeOK, OthersChange, RunEnds
<1>2. TypeOK'
  BY <1>1 DEF IInv, TypeOK, Mounted
<1> QED
  BY <1>1, <1>2 DEF IInv, ConfirmedIsInvalid, Loaded, DraftsApart, OpenDraftsUnconfirmed,
                    DraftConfirmedOnce

LEMMA InvStep == IInv /\ [Next]_vars => IInv'
<1> SUFFICES ASSUME IInv, [Next]_vars PROVE IInv'
  OBVIOUS
<1>1. ASSUME NEW q \in Queries,
             Fetch(q) \/ ServeFetch(q) \/ FetchAnswered(q) \/ FetchFails(q)
      PROVE  IInv'
  BY <1>1, QueryStep
<1>2. ASSUME NEW p \in area.tabs \cup {"elsewhere"}, Navigate(p) PROVE IInv'
  BY <1>2, NavigateStep
<1>3. ASSUME NEW f \in Forms, Open(f) \/ Close(f) \/ Type(f) PROVE IInv'
  BY <1>3, DialogStep
<1>4. ASSUME NEW f \in Forms, Submit(f) \/ Press(f) PROVE IInv'
  BY <1>4, SubmitStep
<1>5. ASSUME NEW c \in calls, Commit(c) \/ Succeeds(c) \/ RunStarted(c) \/ Fails(c)
      PROVE  IInv'
  BY <1>5, CommitStep, SucceedsStep, RunStartedStep, FailsStep
<1>6. CASE OthersChange \/ RunEnds
  BY <1>6, BackendStep
<1>7. CASE UNCHANGED vars
  <2>1. UNCHANGED <<area, page, query, form, calls, typed, created, stations, run>>
    BY <1>7 DEF vars, backend
  <2>2. TypeOK'
    BY <2>1 DEF IInv, TypeOK, Mounted
  <2> QED
    BY <2>1, <2>2 DEF IInv, ConfirmedIsInvalid, Loaded, DraftsApart, OpenDraftsUnconfirmed,
                      DraftConfirmedOnce
<1> QED
  BY <1>1, <1>2, <1>3, <1>4, <1>5, <1>6, <1>7 DEF Next

\* IInv, the inductive invariant of the pages.
THEOREM InvCorrect == Spec => []IInv
  BY InvInit, InvStep, PTL DEF Spec

\* A list that was on the screen when its page was told of a change is never
\* presented as up to date without it, not even when the answer of a read that
\* was under way by then arrives (ListsShowConfirmedChanges).
THEOREM ListsCorrect == Spec => []ListsShowConfirmedChanges
<1>1. IInv => ListsShowConfirmedChanges
  BY DEF IInv, ConfirmedIsInvalid, ListsShowConfirmedChanges
<1> QED
  BY <1>1, InvCorrect, PTL

\* One draft of a create dialog is confirmed at most once (DraftConfirmedOnce).
THEOREM DraftCorrect == Spec => []DraftConfirmedOnce
<1>1. IInv => DraftConfirmedOnce
  BY DEF IInv
<1> QED
  BY <1>1, InvCorrect, PTL

=============================================================================
