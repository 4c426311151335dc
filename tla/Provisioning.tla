---------------------------- MODULE Provisioning ----------------------------
(***************************************************************************)
(* Provisioning of one tenant (backend/src/locations and                   *)
(* backend/src/unknown-chargers): administrators plan stations under a     *)
(* chargeboxId, CitrineOS reports through the webhook which chargeboxIds   *)
(* really connect, and the two are reconciled, either by linking the       *)
(* planned station or by listing the charger as unknown.                   *)
(*                                                                         *)
(* No operation uses a transaction: every database call is an action, and  *)
(* requests interleave between any two of them.                            *)
(***************************************************************************)
EXTENDS Integers

CONSTANTS
  Boxes,      \* chargeboxIds, the OCPP identities of chargers
  Stations,   \* ids of the planned stations that may be created
  Locations,  \* ids of the locations that may be created
  Connectors, \* connectors that may be planned: station, EVSE and number
  Requests,   \* HTTP requests the backend handles at the same time
  MaxRows,    \* bound: unknown-charger rows ever created per chargeboxId
  MayFail     \* whether database calls may throw and the process may end

ASSUME ProvisioningAssumption ==
  /\ MaxRows \in Nat
  /\ MayFail \in BOOLEAN
  /\ Connectors \subseteq Stations \X Nat

VARIABLES
  locations,  \* rows of locations
  planned,    \* planned[s]: row of planned_stations, or NoStation
  connectors, \* connectors[c]: how many rows planned_connectors has for c
  unknown,    \* unknown[b]: row of unknown_chargers; id counts the rows b has had
  connected,  \* history: chargeboxIds that ever sent a BootNotification
  request     \* request[q]: the request in progress, or Idle

rows    == <<locations, planned, connectors, unknown>>
vars    == <<rows, connected, request>>

NoStation == [status |-> "none"]
Idle == [pc |-> "idle"]

StationRow == [status : {"Planned", "Linked"}, box : Boxes, location : Locations]

UnknownRow == [listed : BOOLEAN, dismissed : BOOLEAN, id : 0..MaxRows]

\* box, station, location and row are the locals of the request that are set.
InProgress ==
  [pc : {"lookup", "upsert", "failed"}, box : Boxes]
    \cup [pc : {"link"}, box : Boxes, station : Stations]
    \cup [pc : {"checkBox", "create"}, box : Boxes, station : Stations, location : Locations]
    \cup [pc : {"checkUnknown", "checkClash", "setBox", "markLinked", "clear"},
          box : Boxes, station : Stations]
    \cup [pc : {"dismiss"}, box : Boxes, row : 1..MaxRows]
    \cup [pc : {"delete"}, location : Locations]
    \cup [pc : {"checkConnector", "createConnector"}, connector : Connectors]

TypeOK ==
  /\ locations \subseteq Locations
  /\ planned \in [Stations -> StationRow \cup {NoStation}]
  /\ connectors \in [Connectors -> Nat]
  /\ unknown \in [Boxes -> UnknownRow]
  /\ connected \subseteq Boxes
  /\ request \in [Requests -> InProgress \cup {Idle}]

Init ==
  /\ locations = {}
  /\ planned = [s \in Stations |-> NoStation]
  /\ connectors = [c \in Connectors |-> 0]
  /\ unknown = [b \in Boxes |-> [listed |-> FALSE, dismissed |-> FALSE, id |-> 0]]
  /\ connected = {}
  /\ request = [q \in Requests |-> Idle]

-----------------------------------------------------------------------------
(* Rows and requests *)

Exists(s) == planned[s] # NoStation

\* The station planned under chargeboxId b, the unique index's lookup.
PlannedAs(s, b) == Exists(s) /\ planned[s].box = b
Taken(b) == \E s \in Stations : PlannedAs(s, b)

At(q, label) == request[q].pc = label
Begin(q, r) == request[q] = Idle /\ request' = [request EXCEPT ![q] = r]
Become(q, r) == request' = [request EXCEPT ![q] = r]
Goto(q, label) == request' = [request EXCEPT ![q].pc = label]
Return(q) == request' = [request EXCEPT ![q] = Idle]

SetStatus(s, v) == planned' = [planned EXCEPT ![s].status = v]

-----------------------------------------------------------------------------
(* The webhook: a charger has sent a BootNotification *)

\* The event is authenticated and recorded in the message log.
BootNotification(q, b) ==
  /\ Begin(q, [pc |-> "lookup", box |-> b])
  /\ connected' = connected \cup {b}
  /\ UNCHANGED rows

\* Mutant: a charger already listed as unknown is left to the administrator.
LookUpNewStation(q) ==
  /\ At(q, "lookup")
  /\ LET b == request[q].box
     IN \/ \E s \in Stations :
             /\ PlannedAs(s, b)
             /\ IF planned[s].status = "Planned" /\ ~unknown[b].listed
                THEN Become(q, [pc |-> "link", box |-> b, station |-> s])
                ELSE Return(q)
        \/ ~Taken(b) /\ Goto(q, "upsert")
  /\ UNCHANGED <<rows, connected>>

\* reconcileIncomingConnection: a planned station, a linked one, or none.
LookUpStation(q) ==
  /\ At(q, "lookup")
  /\ LET b == request[q].box
     IN \/ \E s \in Stations :
             /\ PlannedAs(s, b)
             /\ IF planned[s].status = "Planned"
                THEN Become(q, [pc |-> "link", box |-> b, station |-> s])
                ELSE Return(q)
        \/ ~Taken(b) /\ Goto(q, "upsert")
  /\ UNCHANGED <<rows, connected>>

\* The update is by the id read before, whatever its chargeboxId is by now.
LinkStation(q) ==
  /\ At(q, "link")
  /\ SetStatus(request[q].station, "Linked")
  /\ Return(q)
  /\ UNCHANGED <<locations, connectors, unknown, connected>>

UpsertUnknown(q) ==
  LET b == request[q].box
      row == unknown[b]
  IN /\ At(q, "upsert")
     /\ row.listed \/ row.id < MaxRows
     /\ unknown' = [unknown EXCEPT ![b] =
                      [listed |-> TRUE, dismissed |-> FALSE,
                       id |-> IF row.listed THEN row.id ELSE row.id + 1]]
     /\ Return(q)
     /\ UNCHANGED <<locations, planned, connectors, connected>>

-----------------------------------------------------------------------------
(* Locations *)

CreateLocation(l) ==
  /\ l \notin locations
  /\ locations' = locations \cup {l}
  /\ UNCHANGED <<planned, connectors, unknown, connected, request>>

\* remove: counts the stations ...
CountStations(q, l) ==
  /\ l \in locations
  /\ ~\E s \in Stations : Exists(s) /\ planned[s].location = l
  /\ Begin(q, [pc |-> "delete", location |-> l])
  /\ UNCHANGED <<rows, connected>>

\* Mutant: planned_stations has no foreign key.
NeverReferenced(l) == FALSE

\* ... and deletes; the foreign key of planned_stations restricts.
Referenced(l) == \E s \in Stations : Exists(s) /\ planned[s].location = l

DeleteLocation(q) ==
  LET l == request[q].location
  IN /\ At(q, "delete")
     /\ locations' = IF Referenced(l) THEN locations ELSE locations \ {l}
     /\ Return(q)
     /\ UNCHANGED <<planned, connectors, unknown, connected>>

-----------------------------------------------------------------------------
(* createStation *)

FindLocation(q, s, l, b) ==
  /\ ~Exists(s)
  /\ \A p \in Requests : At(p, "checkBox") \/ At(p, "create") => request[p].station # s
  /\ l \in locations
  /\ Begin(q, [pc |-> "checkBox", box |-> b, station |-> s, location |-> l])
  /\ UNCHANGED <<rows, connected>>

CheckBox(q) ==
  /\ At(q, "checkBox")
  /\ IF Taken(request[q].box) THEN Return(q) ELSE Goto(q, "create")
  /\ UNCHANGED <<rows, connected>>

\* Mutant: the chargeboxId has no unique index.
CreateStationUnindexed(q) ==
  LET r == request[q]
  IN /\ At(q, "create")
     /\ IF r.location \notin locations
        THEN /\ Return(q)
             /\ UNCHANGED planned
        ELSE /\ planned' = [planned EXCEPT ![r.station] =
                              [status |-> "Planned", box |-> r.box, location |-> r.location]]
             /\ Become(q, [pc |-> "checkUnknown", box |-> r.box, station |-> r.station])
     /\ UNCHANGED <<locations, connectors, unknown, connected>>

\* The insert throws on the unique index and on the foreign key.
CreateStation(q) ==
  LET r == request[q]
  IN /\ At(q, "create")
     /\ IF Taken(r.box) \/ r.location \notin locations
        THEN /\ Return(q)
             /\ UNCHANGED planned
        ELSE /\ planned' = [planned EXCEPT ![r.station] =
                              [status |-> "Planned", box |-> r.box, location |-> r.location]]
             /\ Become(q, [pc |-> "checkUnknown", box |-> r.box, station |-> r.station])
     /\ UNCHANGED <<locations, connectors, unknown, connected>>

\* Mutant: the new station is linked whether or not its charger is known.
LinkUnchecked(q) ==
  /\ At(q, "checkUnknown")
  /\ Goto(q, "markLinked")
  /\ UNCHANGED <<rows, connected>>

\* Is there a charger waiting under the chargeboxId of the new station?
CheckUnknown(q) ==
  /\ At(q, "checkUnknown")
  /\ IF unknown[request[q].box].listed THEN Goto(q, "markLinked") ELSE Return(q)
  /\ UNCHANGED <<rows, connected>>

-----------------------------------------------------------------------------
(* createConnector *)

FindStation(q, c) ==
  /\ Exists(c[1])
  /\ Begin(q, [pc |-> "checkConnector", connector |-> c])
  /\ UNCHANGED <<rows, connected>>

CheckConnector(q) ==
  /\ At(q, "checkConnector")
  /\ IF connectors[request[q].connector] > 0 THEN Return(q)
     ELSE Goto(q, "createConnector")
  /\ UNCHANGED <<rows, connected>>

\* Mutant: EVSE and connector number have no unique index.
CreateConnectorUnindexed(q) ==
  /\ At(q, "createConnector")
  /\ connectors' = [connectors EXCEPT ![request[q].connector] = @ + 1]
  /\ Return(q)
  /\ UNCHANGED <<locations, planned, unknown, connected>>

\* The insert throws on the unique index.
CreateConnector(q) ==
  LET c == request[q].connector
  IN /\ At(q, "createConnector")
     /\ connectors' = IF connectors[c] > 0 THEN connectors
                      ELSE [connectors EXCEPT ![c] = @ + 1]
     /\ Return(q)
     /\ UNCHANGED <<locations, planned, unknown, connected>>

-----------------------------------------------------------------------------
(* assignToStation, and what it shares with createStation *)

\* The unknown charger and then the station are found; nothing the request
\* reads of the station changes later.
FindUnknown(q, b, s) ==
  /\ unknown[b].listed
  /\ Exists(s)
  /\ Begin(q, [pc |-> "checkClash", box |-> b, station |-> s])
  /\ UNCHANGED <<rows, connected>>

CheckClash(q) ==
  /\ At(q, "checkClash")
  /\ IF \E s \in Stations \ {request[q].station} : PlannedAs(s, request[q].box)
     THEN Return(q)
     ELSE Goto(q, "setBox")
  /\ UNCHANGED <<rows, connected>>

\* The update throws on the unique index.
SetChargeboxId(q) ==
  LET r == request[q]
  IN /\ At(q, "setBox")
     /\ IF \E s \in Stations \ {r.station} : PlannedAs(s, r.box)
        THEN /\ Return(q)
             /\ UNCHANGED planned
        ELSE /\ planned' = [planned EXCEPT ![r.station].box = r.box]
             /\ Goto(q, "markLinked")
     /\ UNCHANGED <<locations, connectors, unknown, connected>>

\* markLinkedAndClearUnknown: two writes.
MarkLinked(q) ==
  /\ At(q, "markLinked")
  /\ SetStatus(request[q].station, "Linked")
  /\ Goto(q, "clear")
  /\ UNCHANGED <<locations, connectors, unknown, connected>>

ClearUnknown(q) ==
  /\ At(q, "clear")
  /\ unknown' = [unknown EXCEPT ![request[q].box].listed = FALSE,
                                ![request[q].box].dismissed = FALSE]
  /\ Return(q)
  /\ UNCHANGED <<locations, planned, connectors, connected>>

-----------------------------------------------------------------------------
(* dismiss *)

\* The row is found, 404 otherwise.
FindDismissed(q, b) ==
  /\ unknown[b].listed
  /\ Begin(q, [pc |-> "dismiss", box |-> b, row |-> unknown[b].id])
  /\ UNCHANGED <<rows, connected>>

\* The update is by row id and throws when that row is gone.
Dismiss(q) ==
  LET r == request[q]
  IN /\ At(q, "dismiss")
     /\ unknown' = IF unknown[r.box].listed /\ unknown[r.box].id = r.row
                   THEN [unknown EXCEPT ![r.box].dismissed = TRUE]
                   ELSE unknown
     /\ Return(q)
     /\ UNCHANGED <<locations, planned, connectors, connected>>

-----------------------------------------------------------------------------
\* A database call throws, or the process ends under the request; the answer
\* to a webhook request is then a 500 or none.
RequestFails(q) ==
  /\ MayFail
  /\ request[q].pc \notin {"idle", "failed"}
  /\ IF request[q].pc \in {"lookup", "link", "upsert"}
     THEN Become(q, [pc |-> "failed", box |-> request[q].box])
     ELSE Return(q)
  /\ UNCHANGED <<rows, connected>>

AnswerFailure(q) ==
  /\ At(q, "failed")
  /\ Return(q)
  /\ UNCHANGED <<rows, connected>>

Proceed(q) ==
  \/ LookUpStation(q) \/ LinkStation(q) \/ UpsertUnknown(q) \/ AnswerFailure(q)
  \/ DeleteLocation(q)
  \/ CheckBox(q) \/ CreateStation(q) \/ CheckUnknown(q)
  \/ CheckConnector(q) \/ CreateConnector(q)
  \/ CheckClash(q) \/ SetChargeboxId(q) \/ MarkLinked(q) \/ ClearUnknown(q)
  \/ Dismiss(q)

Arrive(q) ==
  \/ \E b \in Boxes : BootNotification(q, b) \/ FindDismissed(q, b)
  \/ \E l \in Locations : CountStations(q, l)
  \/ \E s \in Stations, l \in Locations, b \in Boxes : FindLocation(q, s, l, b)
  \/ \E s \in Stations, b \in Boxes : FindUnknown(q, b, s)
  \/ \E c \in Connectors : FindStation(q, c)

Next ==
  \/ \E q \in Requests : Arrive(q) \/ Proceed(q) \/ RequestFails(q)
  \/ \E l \in Locations : CreateLocation(l)

Spec == Init /\ [][Next]_vars

\* Every request the backend has accepted goes on.
Fairness == \A q \in Requests : WF_vars(Proceed(q))

FairSpec == Spec /\ Fairness

-----------------------------------------------------------------------------
(* Properties *)

\* Nothing is shown as live that never connected: a station is Linked, and a
\* charger is listed as unknown, only under a chargeboxId that has sent a
\* BootNotification, although links are written by station id and the
\* chargeboxId may be corrected at any moment.
OnlyLiveChargers ==
  /\ \A s \in Stations : planned[s].status = "Linked" => planned[s].box \in connected
  /\ \A b \in Boxes : unknown[b].listed => b \in connected

\* A station always has its location, even when remove counted no stations
\* just before one was created.
StationHasLocation == \A s \in Stations : Exists(s) => planned[s].location \in locations

\* One chargeboxId is never planned on two stations, although createStation
\* and assignToStation check first and write later.
OneStationPerBox ==
  \A s, t \in Stations : \A b \in Boxes : PlannedAs(s, b) /\ PlannedAs(t, b) => s = t

\* A charger that boots while a station is planned for it gets that station
\* linked, unless the request fails or the station is given another charger.
BootLinksStation ==
  \A s \in Stations : \A b \in Boxes :
    (PlannedAs(s, b) /\ \E q \in Requests : At(q, "lookup") /\ request[q].box = b)
      ~> \/ planned[s].status = "Linked" \/ ~PlannedAs(s, b)
         \/ \E q \in Requests : At(q, "failed") /\ request[q].box = b

\* No two rows for one connector of a station, although createConnector
\* checks first and writes later.
OneConnectorPerSlot == \A c \in Connectors : connectors[c] <= 1

\* What a request may still rely on when it goes on: the charger it is about
\* has connected, the station it links still stands for a charger that has
\* connected, and the station it creates is its own.
Creates(r) == r.pc \in {"checkBox", "create"}

Holds(r) ==
  /\ r.pc \in {"lookup", "link", "upsert", "failed", "checkClash", "setBox", "markLinked", "clear"}
       => r.box \in connected
  /\ r.pc \in {"link", "checkUnknown", "checkClash", "setBox", "markLinked", "clear"}
       => Exists(r.station)
  /\ r.pc \in {"link", "markLinked", "clear"} => planned[r.station].box \in connected
  /\ r.pc = "checkUnknown" => planned[r.station].box \in connected \cup {r.box}
  /\ Creates(r) => ~Exists(r.station)

HeldRows ==
  \A q \in Requests :
    /\ Holds(request[q])
    /\ \A p \in Requests \ {q} :
         Creates(request[p]) /\ Creates(request[q])
           => request[p].station # request[q].station

\* A row that is listed has an id.
RowIds == \A b \in Boxes : unknown[b].listed => unknown[b].id \in 1..MaxRows

\* The inductive invariant.
IInv ==
  /\ TypeOK
  /\ RowIds
  /\ OnlyLiveChargers
  /\ StationHasLocation
  /\ OneStationPerBox
  /\ OneConnectorPerSlot
  /\ HeldRows

=============================================================================
