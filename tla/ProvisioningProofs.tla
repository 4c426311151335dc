------------------------- MODULE ProvisioningProofs -------------------------
(* Proofs about Provisioning, for every number of chargers, stations,      *)
(* locations, connectors and concurrent requests.                          *)
EXTENDS Provisioning, TLAPS

LEMMA InvInit == Init => IInv
  BY ProvisioningAssumption
  DEF Init, IInv, TypeOK, OnlyLiveChargers, StationHasLocation, OneStationPerBox,
      OneConnectorPerSlot, HeldRows, Holds, Creates, Exists, PlannedAs, NoStation, Idle,
      UnknownRow, RowIds

\* A step of one request that writes nothing: all depends on what the request
\* holds from then on.
LEMMA RequestStep ==
  ASSUME IInv, NEW q \in Requests, NEW r \in InProgress \cup {Idle},
         UNCHANGED <<rows, connected>>,
         request' = [request EXCEPT ![q] = r],
         Holds(r),
         \A p \in Requests \ {q} :
           Creates(request[p]) /\ Creates(r) => request[p].station # r.station
  PROVE  IInv'
<1>1. TypeOK'
  BY DEF IInv, TypeOK, rows
<1>2. HeldRows'
  BY DEF IInv, TypeOK, HeldRows, Holds, Creates, Exists, rows
<1>3. RowIds' /\ OnlyLiveChargers' /\ StationHasLocation' /\ OneStationPerBox' /\ OneConnectorPerSlot'
  BY DEF IInv, RowIds, OnlyLiveChargers, StationHasLocation, OneStationPerBox, OneConnectorPerSlot,
         Exists, PlannedAs, rows
<1> QED
  BY <1>1, <1>2, <1>3 DEF IInv

LEMMA ReturnStep ==
  ASSUME IInv, NEW q \in Requests, UNCHANGED <<rows, connected>>, Return(q)
  PROVE  IInv'
<1>1. Holds(Idle) /\ ~Creates(Idle)
  BY DEF Holds, Creates, Idle
<1> QED
  BY <1>1, RequestStep DEF Return

LEMMA LookUpStep ==
  ASSUME IInv, NEW q \in Requests, LookUpStation(q)
  PROVE  IInv'
<1> DEFINE b == request[q].box
<1>1. b \in Boxes /\ b \in connected
  BY DEF IInv, TypeOK, HeldRows, Holds, LookUpStation, At, InProgress, Idle
<1>2. CASE Return(q)
  BY <1>2, ReturnStep DEF LookUpStation
<1>3. ASSUME NEW s \in Stations, PlannedAs(s, b),
             Become(q, [pc |-> "link", box |-> b, station |-> s])
      PROVE  IInv'
  <2> DEFINE r == [pc |-> "link", box |-> b, station |-> s]
  <2>1. r \in InProgress /\ Holds(r) /\ ~Creates(r)
    BY <1>1, <1>3 DEF InProgress, Holds, Creates, PlannedAs
  <2> QED
    BY <1>3, <2>1, RequestStep DEF Become, LookUpStation
<1>4. CASE Goto(q, "upsert")
  <2> DEFINE r == [pc |-> "upsert", box |-> b]
  <2>1. [request[q] EXCEPT !.pc = "upsert"] = r
    BY DEF IInv, TypeOK, LookUpStation, At, InProgress, Idle
  <2>2. r \in InProgress /\ Holds(r) /\ ~Creates(r)
    BY <1>1 DEF InProgress, Holds, Creates
  <2> QED
    BY <1>4, <2>1, <2>2, RequestStep DEF Goto, LookUpStation
<1> QED
  BY <1>2, <1>3, <1>4 DEF LookUpStation

LEMMA CheckBoxStep ==
  ASSUME IInv, NEW q \in Requests, CheckBox(q)
  PROVE  IInv'
<1> DEFINE r == [request[q] EXCEPT !.pc = "create"]
<1>1. CASE Return(q)
  BY <1>1, ReturnStep DEF CheckBox
<1>2. CASE Goto(q, "create")
  <2>1. /\ request[q] \in [pc : {"checkBox", "create"}, box : Boxes,
                           station : Stations, location : Locations]
        /\ At(q, "checkBox")
    BY DEF IInv, TypeOK, CheckBox, At, InProgress, Idle
  <2>2. r \in InProgress /\ r.pc = "create" /\ r.station = request[q].station
    BY <2>1 DEF InProgress
  <2>3. Holds(r)
    BY <2>1, <2>2 DEF IInv, HeldRows, Holds, Creates, At
  <2>4. \A p \in Requests \ {q} :
          Creates(request[p]) /\ Creates(r) => request[p].station # r.station
    BY <2>1, <2>2 DEF IInv, HeldRows, Creates, At
  <2> QED
    BY <1>2, <2>2, <2>3, <2>4, RequestStep DEF Goto, CheckBox
<1> QED
  BY <1>1, <1>2 DEF CheckBox

LEMMA CheckUnknownStep ==
  ASSUME IInv, NEW q \in Requests, CheckUnknown(q)
  PROVE  IInv'
<1> DEFINE r == [request[q] EXCEPT !.pc = "markLinked"]
<1>1. CASE Return(q)
  BY <1>1, ReturnStep DEF CheckUnknown
<1>2. CASE unknown[request[q].box].listed /\ Goto(q, "markLinked")
  <2>1. /\ request[q] \in [pc : {"checkUnknown", "checkClash", "setBox", "markLinked", "clear"},
                           box : Boxes, station : Stations]
        /\ At(q, "checkUnknown")
    BY DEF IInv, TypeOK, CheckUnknown, At, InProgress, Idle
  <2>2. /\ r \in InProgress
        /\ r.pc = "markLinked"
        /\ r.station = request[q].station
        /\ r.box = request[q].box
    BY <2>1 DEF InProgress
  <2>3. request[q].box \in connected
    BY <1>2, <2>1 DEF IInv, OnlyLiveChargers
  <2>4. Holds(r) /\ ~Creates(r)
    BY <2>1, <2>2, <2>3 DEF IInv, HeldRows, Holds, Creates, At
  <2> QED
    BY <1>2, <2>2, <2>4, RequestStep DEF Goto, CheckUnknown
<1> QED
  BY <1>1, <1>2 DEF CheckUnknown

LEMMA CheckClashStep ==
  ASSUME IInv, NEW q \in Requests, CheckClash(q)
  PROVE  IInv'
<1> DEFINE r == [request[q] EXCEPT !.pc = "setBox"]
<1>1. CASE Return(q)
  BY <1>1, ReturnStep DEF CheckClash
<1>2. CASE Goto(q, "setBox")
  <2>1. /\ request[q] \in [pc : {"checkUnknown", "checkClash", "setBox", "markLinked", "clear"},
                           box : Boxes, station : Stations]
        /\ At(q, "checkClash")
    BY DEF IInv, TypeOK, CheckClash, At, InProgress, Idle
  <2>2. /\ r \in InProgress
        /\ r.pc = "setBox"
        /\ r.station = request[q].station
        /\ r.box = request[q].box
    BY <2>1 DEF InProgress
  <2>3. Holds(r) /\ ~Creates(r)
    BY <2>1, <2>2 DEF IInv, HeldRows, Holds, Creates, At
  <2> QED
    BY <1>2, <2>2, <2>3, RequestStep DEF Goto, CheckClash
<1> QED
  BY <1>1, <1>2 DEF CheckClash

LEMMA CheckConnectorStep ==
  ASSUME IInv, NEW q \in Requests, CheckConnector(q)
  PROVE  IInv'
<1> DEFINE r == [request[q] EXCEPT !.pc = "createConnector"]
<1>1. CASE Return(q)
  BY <1>1, ReturnStep DEF CheckConnector
<1>2. CASE Goto(q, "createConnector")
  <2>1. request[q] \in [pc : {"checkConnector", "createConnector"}, connector : Connectors]
    BY DEF IInv, TypeOK, CheckConnector, At, InProgress, Idle
  <2>2. r \in InProgress /\ r.pc = "createConnector"
    BY <2>1 DEF InProgress
  <2>3. Holds(r) /\ ~Creates(r)
    BY <2>2 DEF Holds, Creates
  <2> QED
    BY <1>2, <2>2, <2>3, RequestStep DEF Goto, CheckConnector
<1> QED
  BY <1>1, <1>2 DEF CheckConnector

\* The steps that start a request, but for the webhook's.
LEMMA ArriveStep ==
  ASSUME IInv, NEW q \in Requests,
         \/ \E l \in Locations : CountStations(q, l)
         \/ \E s \in Stations, l \in Locations, b \in Boxes : FindLocation(q, s, l, b)
         \/ \E s \in Stations, b \in Boxes : FindUnknown(q, b, s)
         \/ \E b \in Boxes : FindDismissed(q, b)
         \/ \E c \in Connectors : FindStation(q, c)
  PROVE  IInv'
<1>1. ASSUME NEW l \in Locations, CountStations(q, l) PROVE IInv'
  <2> DEFINE r == [pc |-> "delete", location |-> l]
  <2>1. r \in InProgress /\ Holds(r) /\ ~Creates(r)
    BY DEF InProgress, Holds, Creates
  <2> QED
    BY <1>1, <2>1, RequestStep DEF CountStations, Begin
<1>2. ASSUME NEW s \in Stations, NEW l \in Locations, NEW b \in Boxes, FindLocation(q, s, l, b)
      PROVE  IInv'
  <2> DEFINE r == [pc |-> "checkBox", box |-> b, station |-> s, location |-> l]
  <2>1. r \in InProgress /\ Holds(r)
    BY <1>2 DEF InProgress, Holds, Creates, FindLocation
  <2>2. \A p \in Requests \ {q} : Creates(request[p]) => request[p].station # r.station
    BY <1>2 DEF FindLocation, Creates, At
  <2> QED
    BY <1>2, <2>1, <2>2, RequestStep DEF FindLocation, Begin
<1>3. ASSUME NEW s \in Stations, NEW b \in Boxes, FindUnknown(q, b, s) PROVE IInv'
  <2> DEFINE r == [pc |-> "checkClash", box |-> b, station |-> s]
  <2>1. b \in connected
    BY <1>3 DEF IInv, OnlyLiveChargers, FindUnknown
  <2>2. r \in InProgress /\ Holds(r) /\ ~Creates(r)
    BY <1>3, <2>1 DEF InProgress, Holds, Creates, FindUnknown
  <2> QED
    BY <1>3, <2>2, RequestStep DEF FindUnknown, Begin
<1>4. ASSUME NEW b \in Boxes, FindDismissed(q, b) PROVE IInv'
  <2> DEFINE r == [pc |-> "dismiss", box |-> b, row |-> unknown[b].id]
  <2>1. unknown[b].id \in 1..MaxRows
    BY <1>4, ProvisioningAssumption DEF IInv, TypeOK, RowIds, UnknownRow, FindDismissed
  <2>2. r \in InProgress /\ Holds(r) /\ ~Creates(r)
    BY <2>1 DEF InProgress, Holds, Creates
  <2> QED
    BY <1>4, <2>2, RequestStep DEF FindDismissed, Begin
<1>5. ASSUME NEW c \in Connectors, FindStation(q, c) PROVE IInv'
  <2> DEFINE r == [pc |-> "checkConnector", connector |-> c]
  <2>1. r \in InProgress /\ Holds(r) /\ ~Creates(r)
    BY DEF InProgress, Holds, Creates
  <2> QED
    BY <1>5, <2>1, RequestStep DEF FindStation, Begin
<1> QED
  BY <1>1, <1>2, <1>3, <1>4, <1>5

LEMMA FailureStep ==
  ASSUME IInv, NEW q \in Requests, RequestFails(q) \/ AnswerFailure(q)
  PROVE  IInv'
<1>1. CASE Return(q)
  BY <1>1, ReturnStep DEF RequestFails, AnswerFailure
<1>2. CASE /\ request[q].pc \in {"lookup", "link", "upsert"}
           /\ Become(q, [pc |-> "failed", box |-> request[q].box])
  <2> DEFINE r == [pc |-> "failed", box |-> request[q].box]
  <2>1. request[q].box \in Boxes /\ request[q].box \in connected
    BY <1>2 DEF IInv, TypeOK, HeldRows, Holds, InProgress, Idle
  <2>2. r \in InProgress /\ Holds(r) /\ ~Creates(r)
    BY <2>1 DEF InProgress, Holds, Creates
  <2> QED
    BY <1>2, <2>2, RequestStep DEF Become, RequestFails, AnswerFailure
<1> QED
  BY <1>1, <1>2 DEF RequestFails, AnswerFailure

LEMMA BootStep ==
  ASSUME IInv, NEW q \in Requests, NEW b \in Boxes, BootNotification(q, b)
  PROVE  IInv'
<1> DEFINE r == [pc |-> "lookup", box |-> b]
<1>1. r \in InProgress /\ r.pc = "lookup" /\ r.box = b /\ ~Creates(r)
  BY DEF InProgress, Creates
<1>2. connected' = connected \cup {b} /\ request' = [request EXCEPT ![q] = r]
  BY DEF BootNotification, Begin
<1>3. TypeOK'
  BY <1>1, <1>2 DEF IInv, TypeOK, BootNotification, rows
<1>4. HeldRows'
  BY <1>1, <1>2 DEF IInv, TypeOK, HeldRows, Holds, Creates, Exists, BootNotification, rows
<1>5. RowIds' /\ OnlyLiveChargers' /\ StationHasLocation' /\ OneStationPerBox' /\ OneConnectorPerSlot'
  BY <1>2 DEF IInv, RowIds, OnlyLiveChargers, StationHasLocation, OneStationPerBox,
     OneConnectorPerSlot, Exists, PlannedAs, BootNotification, rows
<1> QED
  BY <1>3, <1>4, <1>5 DEF IInv

LEMMA CreateLocationStep ==
  ASSUME IInv, NEW l \in Locations, CreateLocation(l)
  PROVE  IInv'
<1>1. TypeOK'
  BY DEF IInv, TypeOK, CreateLocation
<1>2. HeldRows'
  BY DEF IInv, HeldRows, Holds, Creates, Exists, CreateLocation
<1>3. RowIds' /\ OnlyLiveChargers' /\ StationHasLocation' /\ OneStationPerBox' /\ OneConnectorPerSlot'
  BY DEF IInv, RowIds, OnlyLiveChargers, StationHasLocation, OneStationPerBox,
     OneConnectorPerSlot, Exists, PlannedAs, CreateLocation
<1> QED
  BY <1>1, <1>2, <1>3 DEF IInv

LEMMA DeleteLocationStep ==
  ASSUME IInv, NEW q \in Requests, DeleteLocation(q)
  PROVE  IInv'
<1>1. TypeOK'
  BY DEF IInv, TypeOK, DeleteLocation, Return
<1>2. HeldRows'
  BY DEF IInv, TypeOK, HeldRows, Holds, Creates, Exists, DeleteLocation, Return, Idle
<1>3. StationHasLocation'
  BY DEF IInv, StationHasLocation, Exists, Referenced, DeleteLocation
<1>4. RowIds' /\ OnlyLiveChargers' /\ OneStationPerBox' /\ OneConnectorPerSlot'
  BY DEF IInv, RowIds, OnlyLiveChargers, OneStationPerBox, OneConnectorPerSlot, Exists, PlannedAs,
     DeleteLocation
<1> QED
  BY <1>1, <1>2, <1>3, <1>4 DEF IInv

\* The steps that write one row of unknown_chargers and are then done.
LEMMA UnknownStep ==
  ASSUME IInv, NEW q \in Requests, UpsertUnknown(q) \/ ClearUnknown(q) \/ Dismiss(q)
  PROVE  IInv'
<1> DEFINE b == request[q].box
<1>1. b \in Boxes
  BY DEF IInv, TypeOK, UpsertUnknown, ClearUnknown, Dismiss, At, InProgress, Idle
<1>2. /\ UNCHANGED <<locations, planned, connectors, connected>>
      /\ Return(q)
  BY DEF UpsertUnknown, ClearUnknown, Dismiss
<1>3. PICK row \in UnknownRow :
        /\ unknown' = [unknown EXCEPT ![b] = row]
        /\ row.listed => b \in connected /\ row.id \in 1..MaxRows
  <2>1. unknown[b] \in UnknownRow
    BY <1>1 DEF IInv, TypeOK
  <2>2. CASE UpsertUnknown(q)
    <3> DEFINE row == [listed |-> TRUE, dismissed |-> FALSE,
                       id |-> IF unknown[b].listed THEN unknown[b].id ELSE unknown[b].id + 1]
    <3>1. b \in connected
      BY <2>2 DEF IInv, HeldRows, Holds, UpsertUnknown, At
    <3>2. row \in UnknownRow /\ row.id \in 1..MaxRows
      BY <1>1, <2>1, <2>2, ProvisioningAssumption DEF IInv, RowIds, UnknownRow, UpsertUnknown
    <3> QED
      BY <2>2, <3>1, <3>2 DEF UpsertUnknown
  <2>3. CASE ClearUnknown(q)
    <3> DEFINE row == [unknown[b] EXCEPT !.listed = FALSE, !.dismissed = FALSE]
    <3>1. row \in UnknownRow /\ ~row.listed
      BY <2>1 DEF UnknownRow
    <3>2. unknown' = [unknown EXCEPT ![b] = row]
      BY <1>1, <2>1, <2>3 DEF IInv, TypeOK, ClearUnknown, UnknownRow
    <3> QED
      BY <3>1, <3>2
  <2>4. CASE Dismiss(q)
    <3> DEFINE row == IF unknown[b].listed /\ unknown[b].id = request[q].row
                      THEN [unknown[b] EXCEPT !.dismissed = TRUE]
                      ELSE unknown[b]
    <3>1. row \in UnknownRow /\ row.listed = unknown[b].listed /\ row.id = unknown[b].id
      BY <2>1 DEF UnknownRow
    <3>2. unknown' = [unknown EXCEPT ![b] = row]
      BY <1>1, <2>1, <2>4 DEF IInv, TypeOK, Dismiss, UnknownRow
    <3>3. row.listed => b \in connected /\ row.id \in 1..MaxRows
      BY <1>1, <3>1 DEF IInv, OnlyLiveChargers, RowIds
    <3> QED
      BY <3>1, <3>2, <3>3
  <2> QED
    BY <2>2, <2>3, <2>4
<1>4. TypeOK'
  BY <1>1, <1>2, <1>3 DEF IInv, TypeOK, Return
<1>5. HeldRows'
  BY <1>2 DEF IInv, TypeOK, HeldRows, Holds, Creates, Exists, Return, Idle
<1>6. RowIds' /\ OnlyLiveChargers'
  BY <1>1, <1>2, <1>3 DEF IInv, TypeOK, RowIds, OnlyLiveChargers
<1>7. StationHasLocation' /\ OneStationPerBox' /\ OneConnectorPerSlot'
  BY <1>2 DEF IInv, StationHasLocation, OneStationPerBox, OneConnectorPerSlot, Exists, PlannedAs
<1> QED
  BY <1>4, <1>5, <1>6, <1>7 DEF IInv

\* A linked station keeps its chargeboxId, which has connected.
LEMMA LinkStep ==
  ASSUME IInv, NEW q \in Requests, LinkStation(q) \/ MarkLinked(q)
  PROVE  IInv'
<1> DEFINE s == request[q].station
           row == [planned[s] EXCEPT !.status = "Linked"]
<1>1. s \in Stations
  BY DEF IInv, TypeOK, LinkStation, MarkLinked, At, InProgress, Idle
<1>2. Exists(s) /\ planned[s].box \in connected
  BY DEF IInv, HeldRows, Holds, LinkStation, MarkLinked, At
<1>3. planned[s] \in StationRow
  BY <1>1, <1>2 DEF IInv, TypeOK, Exists
<1>4. /\ row \in StationRow
      /\ row # NoStation
      /\ row.box = planned[s].box
      /\ row.location = planned[s].location
  BY <1>3 DEF StationRow, NoStation
<1>5. /\ planned' = [planned EXCEPT ![s] = row]
      /\ UNCHANGED <<locations, connectors, unknown, connected>>
  BY <1>1 DEF IInv, TypeOK, LinkStation, MarkLinked, SetStatus
<1>6. PICK r \in InProgress \cup {Idle} :
        /\ request' = [request EXCEPT ![q] = r]
        /\ ~Creates(r)
        /\ \/ r = Idle
           \/ r.pc = "clear" /\ r.station = s /\ r.box = request[q].box /\ r.box \in connected
  <2>1. CASE LinkStation(q)
    <3>1. request' = [request EXCEPT ![q] = Idle]
      BY <2>1 DEF LinkStation, Return
    <3>2. ~Creates(Idle)
      BY DEF Creates, Idle
    <3> WITNESS Idle \in InProgress \cup {Idle}
    <3> QED
      BY <3>1, <3>2
  <2>2. CASE MarkLinked(q)
    <3> DEFINE r == [request[q] EXCEPT !.pc = "clear"]
    <3>1. /\ request[q] \in [pc : {"checkUnknown", "checkClash", "setBox", "markLinked", "clear"},
                             box : Boxes, station : Stations]
          /\ At(q, "markLinked")
      BY <2>2 DEF IInv, TypeOK, MarkLinked, At, InProgress, Idle
    <3>2. r \in InProgress /\ r.pc = "clear" /\ r.station = s /\ r.box = request[q].box
      BY <3>1 DEF InProgress
    <3>3. request[q].box \in connected
      BY <3>1 DEF IInv, HeldRows, Holds, At
    <3> QED
      BY <2>2, <3>2, <3>3 DEF MarkLinked, Goto, Creates
  <2> QED
    BY <2>1, <2>2
<1>7. TypeOK'
  BY <1>1, <1>4, <1>5, <1>6 DEF IInv, TypeOK
<1>8. \A t \in Stations :
        /\ Exists(t)' = Exists(t)
        /\ planned[t].box = planned'[t].box
        /\ planned[t].location = planned'[t].location
  BY <1>1, <1>2, <1>4, <1>5 DEF IInv, TypeOK, Exists
<1>9. HeldRows'
  <2>1. ASSUME NEW p \in Requests PROVE Holds(request[p])'
    <3>1. CASE p = q
      BY <1>1, <1>2, <1>5, <1>6, <1>8, <3>1 DEF IInv, TypeOK, Holds, Idle, Creates
    <3>2. CASE p # q
      <4>1. request'[p] = request[p] /\ Holds(request[p])
        BY <1>6, <3>2 DEF IInv, TypeOK, HeldRows
      <4>2. CASE request[p] \in [pc : {"link"}, box : Boxes, station : Stations]
                   \cup [pc : {"checkBox", "create"}, box : Boxes, station : Stations,
                         location : Locations]
                   \cup [pc : {"checkUnknown", "checkClash", "setBox", "markLinked", "clear"},
                         box : Boxes, station : Stations]
        BY <1>5, <1>8, <4>1, <4>2 DEF Holds, Creates
      <4>3. CASE request[p] \in [pc : {"lookup", "upsert", "failed"}, box : Boxes]
                   \cup [pc : {"dismiss"}, box : Boxes, row : 1..MaxRows]
                   \cup [pc : {"delete"}, location : Locations]
                   \cup [pc : {"checkConnector", "createConnector"}, connector : Connectors]
                   \cup {Idle}
        BY <1>5, <4>1, <4>3 DEF Holds, Creates, Idle
      <4> QED
        BY <4>2, <4>3 DEF IInv, TypeOK, InProgress
    <3> QED
      BY <3>1, <3>2
  <2>2. ASSUME NEW p \in Requests, NEW p2 \in Requests \ {p},
               Creates(request'[p2]), Creates(request'[p])
        PROVE  request'[p2].station # request'[p].station
    BY <1>6, <2>2 DEF IInv, TypeOK, HeldRows, Creates
  <2> QED
    BY <2>1, <2>2 DEF HeldRows, Creates
<1>10. OnlyLiveChargers'
  BY <1>2, <1>5, <1>8 DEF IInv, TypeOK, OnlyLiveChargers
<1>11. StationHasLocation' /\ OneStationPerBox'
  BY <1>5, <1>8 DEF IInv, StationHasLocation, OneStationPerBox, Exists, PlannedAs
<1>12. RowIds' /\ OneConnectorPerSlot'
  BY <1>5 DEF IInv, RowIds, OneConnectorPerSlot
<1> QED
  BY <1>7, <1>9, <1>10, <1>11, <1>12 DEF IInv

\* createStation: the new row stands for no charger but the one it names, and
\* the request that inserts it is the only one to create that station.
LEMMA CreateStationStep ==
  ASSUME IInv, NEW q \in Requests, CreateStation(q)
  PROVE  IInv'
<1> DEFINE o == request[q]
           row == [status |-> "Planned", box |-> o.box, location |-> o.location]
           r == [pc |-> "checkUnknown", box |-> o.box, station |-> o.station]
<1>1. CASE Return(q) /\ UNCHANGED planned
  BY <1>1, ReturnStep DEF CreateStation, rows
<1>2. CASE /\ ~Taken(o.box)
           /\ o.location \in locations
           /\ planned' = [planned EXCEPT ![o.station] = row]
           /\ Become(q, r)
  <2>1. /\ o \in [pc : {"checkBox", "create"}, box : Boxes,
                   station : Stations, location : Locations]
        /\ Creates(o)
    BY DEF IInv, TypeOK, CreateStation, At, InProgress, Idle, Creates
  <2>2. row \in StationRow /\ row # NoStation /\ row.status # "Linked"
    BY <2>1 DEF StationRow, NoStation
  <2>3. r \in InProgress /\ ~Creates(r)
    BY <2>1 DEF InProgress, Creates
  <2>4. UNCHANGED <<locations, connectors, unknown, connected>>
    BY DEF CreateStation
  <2>5. request' = [request EXCEPT ![q] = r]
    BY <1>2 DEF Become
  <2>6. TypeOK'
    BY <1>2, <2>1, <2>2, <2>3, <2>4, <2>5 DEF IInv, TypeOK
  <2>7. ~Exists(o.station)
    BY <2>1 DEF IInv, HeldRows, Holds
  <2>8. \A s \in Stations \ {o.station} : planned'[s] = planned[s]
    BY <1>2 DEF IInv, TypeOK
  <2>9. planned'[o.station] = row
    BY <1>2, <2>1 DEF IInv, TypeOK
  <2>10. HeldRows'
    <3>1. ASSUME NEW p \in Requests PROVE Holds(request[p])'
      <4>1. CASE p = q
        BY <2>1, <2>2, <2>5, <2>9, <4>1 DEF IInv, TypeOK, Holds, Creates, Exists
      <4>2. CASE p # q /\ request[p] \in
                 [pc : {"link"}, box : Boxes, station : Stations]
                   \cup [pc : {"checkUnknown", "checkClash", "setBox", "markLinked", "clear"},
                         box : Boxes, station : Stations]
        <5>1. request'[p] = request[p] /\ Holds(request[p])
          BY <2>5, <4>2 DEF IInv, TypeOK, HeldRows
        <5>2. Exists(request[p].station) /\ request[p].station \in Stations
          BY <4>2, <5>1 DEF Holds
        <5>3. planned'[request[p].station] = planned[request[p].station]
          BY <2>7, <2>8, <5>2
        <5> QED
          BY <2>4, <4>2, <5>1, <5>2, <5>3 DEF Holds, Creates, Exists
      <4>3. CASE p # q /\ request[p] \in
                 [pc : {"checkBox", "create"}, box : Boxes, station : Stations,
                  location : Locations]
        <5>1. request'[p] = request[p] /\ Holds(request[p])
          BY <2>5, <4>3 DEF IInv, TypeOK, HeldRows
        <5>2. request[p].station # o.station /\ request[p].station \in Stations
          BY <2>1, <4>3 DEF IInv, HeldRows, Creates
        <5>3. planned'[request[p].station] = planned[request[p].station]
          BY <2>8, <5>2
        <5> QED
          BY <2>4, <4>3, <5>1, <5>3 DEF Holds, Creates, Exists
      <4>4. CASE p # q /\ request[p] \in
                 [pc : {"lookup", "upsert", "failed"}, box : Boxes]
                   \cup [pc : {"dismiss"}, box : Boxes, row : 1..MaxRows]
                   \cup [pc : {"delete"}, location : Locations]
                   \cup [pc : {"checkConnector", "createConnector"}, connector : Connectors]
                   \cup {Idle}
        <5>1. request'[p] = request[p] /\ Holds(request[p])
          BY <2>5, <4>4 DEF IInv, TypeOK, HeldRows
        <5> QED
          BY <2>4, <4>4, <5>1 DEF Holds, Creates, Idle
      <4> QED
        BY <4>1, <4>2, <4>3, <4>4 DEF IInv, TypeOK, InProgress
    <3>2. ASSUME NEW p \in Requests, NEW p2 \in Requests \ {p},
                 Creates(request'[p2]), Creates(request'[p])
          PROVE  request'[p2].station # request'[p].station
      BY <2>3, <2>5, <3>2 DEF IInv, TypeOK, HeldRows
    <3> QED
      BY <3>1, <3>2 DEF HeldRows, Creates
  <2>11. OnlyLiveChargers'
    BY <2>2, <2>4, <2>8, <2>9 DEF IInv, OnlyLiveChargers
  <2>12. StationHasLocation'
    BY <1>2, <2>2, <2>4, <2>8, <2>9 DEF IInv, StationHasLocation, Exists
  <2>13. OneStationPerBox'
    BY <1>2, <2>8, <2>9 DEF IInv, OneStationPerBox, PlannedAs, Exists, Taken
  <2>14. RowIds' /\ OneConnectorPerSlot'
    BY <2>4 DEF IInv, RowIds, OneConnectorPerSlot
  <2> QED
    BY <2>6, <2>10, <2>11, <2>12, <2>13, <2>14 DEF IInv
<1> QED
  BY <1>1, <1>2 DEF CreateStation

LEMMA CreateConnectorStep ==
  ASSUME IInv, NEW q \in Requests, CreateConnector(q)
  PROVE  IInv'
<1> DEFINE c == request[q].connector
<1>1. c \in Connectors
  BY DEF IInv, TypeOK, CreateConnector, At, InProgress, Idle
<1>2. connectors' \in [Connectors -> Nat] /\ OneConnectorPerSlot'
  BY <1>1 DEF IInv, TypeOK, OneConnectorPerSlot, CreateConnector
<1>3. Return(q) /\ UNCHANGED <<locations, planned, unknown, connected>>
  BY DEF CreateConnector
<1>4. TypeOK'
  BY <1>2, <1>3 DEF IInv, TypeOK, Return
<1>5. HeldRows'
  BY <1>3 DEF IInv, TypeOK, HeldRows, Holds, Creates, Exists, Return, Idle
<1>6. RowIds' /\ OnlyLiveChargers' /\ StationHasLocation' /\ OneStationPerBox'
  BY <1>3 DEF IInv, RowIds, OnlyLiveChargers, StationHasLocation, OneStationPerBox, Exists,
     PlannedAs
<1> QED
  BY <1>2, <1>4, <1>5, <1>6 DEF IInv

\* assignToStation gives the station a chargeboxId that has connected, and no
\* other station has it.
LEMMA SetChargeboxIdStep ==
  ASSUME IInv, NEW q \in Requests, SetChargeboxId(q)
  PROVE  IInv'
<1> DEFINE o == request[q]
           s == o.station
           row == [planned[s] EXCEPT !.box = o.box]
           r == [o EXCEPT !.pc = "markLinked"]
<1>1. CASE Return(q) /\ UNCHANGED planned
  BY <1>1, ReturnStep DEF SetChargeboxId, rows
<1>2. CASE /\ ~\E t \in Stations \ {s} : PlannedAs(t, o.box)
           /\ planned' = [planned EXCEPT ![s].box = o.box]
           /\ Goto(q, "markLinked")
  <2>1. /\ o \in [pc : {"checkUnknown", "checkClash", "setBox", "markLinked", "clear"},
                   box : Boxes, station : Stations]
        /\ At(q, "setBox")
    BY DEF IInv, TypeOK, SetChargeboxId, At, InProgress, Idle
  <2>2. /\ o.box \in connected
        /\ Exists(s)
    BY <2>1 DEF IInv, HeldRows, Holds, At
  <2>3. /\ row \in StationRow
        /\ row # NoStation
        /\ row.box = o.box
        /\ row.location = planned[s].location
        /\ row.status = planned[s].status
    BY <2>1, <2>2 DEF IInv, TypeOK, Exists, StationRow, NoStation
  <2>4. UNCHANGED <<locations, connectors, unknown, connected>>
    BY DEF SetChargeboxId
  <2>5. /\ r \in InProgress
        /\ r.pc = "markLinked"
        /\ r.station = s
        /\ r.box = o.box
        /\ ~Creates(r)
        /\ request' = [request EXCEPT ![q] = r]
    BY <1>2, <2>1 DEF InProgress, Creates, Goto
  <2>6. planned' = [planned EXCEPT ![s] = row]
    BY <1>2, <2>1 DEF IInv, TypeOK
  <2>7. TypeOK'
    BY <2>1, <2>3, <2>4, <2>5, <2>6 DEF IInv, TypeOK
  <2>8. \A t \in Stations :
          /\ Exists(t)' = Exists(t)
          /\ planned'[t].location = planned[t].location
          /\ planned'[t].status = planned[t].status
          /\ planned'[t].box \in {planned[t].box, o.box}
          /\ t # s => planned'[t] = planned[t]
    BY <2>1, <2>2, <2>3, <2>6 DEF IInv, TypeOK, Exists
  <2>9. planned'[s].box = o.box
    BY <2>1, <2>3, <2>6 DEF IInv, TypeOK
  <2>10. HeldRows'
    <3>1. ASSUME NEW p \in Requests PROVE Holds(request[p])'
      <4>1. CASE p = q
        BY <2>1, <2>2, <2>4, <2>5, <2>8, <2>9, <4>1 DEF IInv, TypeOK, Holds, Creates
      <4>2. CASE p # q /\ request[p] \in
                 [pc : {"link"}, box : Boxes, station : Stations]
                   \cup [pc : {"checkBox", "create"}, box : Boxes, station : Stations,
                         location : Locations]
                   \cup [pc : {"checkUnknown", "checkClash", "setBox", "markLinked", "clear"},
                         box : Boxes, station : Stations]
        <5>1. request'[p] = request[p] /\ Holds(request[p])
          BY <2>5, <4>2 DEF IInv, TypeOK, HeldRows
        <5> QED
          BY <2>2, <2>4, <2>8, <4>2, <5>1 DEF Holds, Creates
      <4>3. CASE p # q /\ request[p] \in
                 [pc : {"lookup", "upsert", "failed"}, box : Boxes]
                   \cup [pc : {"dismiss"}, box : Boxes, row : 1..MaxRows]
                   \cup [pc : {"delete"}, location : Locations]
                   \cup [pc : {"checkConnector", "createConnector"}, connector : Connectors]
                   \cup {Idle}
        <5>1. request'[p] = request[p] /\ Holds(request[p])
          BY <2>5, <4>3 DEF IInv, TypeOK, HeldRows
        <5> QED
          BY <2>4, <4>3, <5>1 DEF Holds, Creates, Idle
      <4> QED
        BY <4>1, <4>2, <4>3 DEF IInv, TypeOK, InProgress
    <3>2. ASSUME NEW p \in Requests, NEW p2 \in Requests \ {p},
                 Creates(request'[p2]), Creates(request'[p])
          PROVE  request'[p2].station # request'[p].station
      BY <2>5, <3>2 DEF IInv, TypeOK, HeldRows
    <3> QED
      BY <3>1, <3>2 DEF HeldRows, Creates
  <2>11. OnlyLiveChargers'
    BY <2>2, <2>4, <2>8 DEF IInv, OnlyLiveChargers
  <2>12. StationHasLocation'
    BY <2>4, <2>8 DEF IInv, StationHasLocation
  <2>13. OneStationPerBox'
    BY <1>2, <2>8, <2>9 DEF IInv, OneStationPerBox, PlannedAs
  <2>14. RowIds' /\ OneConnectorPerSlot'
    BY <2>4 DEF IInv, RowIds, OneConnectorPerSlot
  <2> QED
    BY <2>7, <2>10, <2>11, <2>12, <2>13, <2>14 DEF IInv
<1> QED
  BY <1>1, <1>2 DEF SetChargeboxId

LEMMA InvStep == IInv /\ [Next]_vars => IInv'
<1> SUFFICES ASSUME IInv, [Next]_vars PROVE IInv'
  OBVIOUS
<1>1. CASE UNCHANGED vars
  BY <1>1 DEF vars, rows, IInv, TypeOK, RowIds, OnlyLiveChargers, StationHasLocation,
     OneStationPerBox, OneConnectorPerSlot, HeldRows, Holds, Creates, Exists, PlannedAs
<1>2. ASSUME NEW l \in Locations, CreateLocation(l) PROVE IInv'
  BY <1>2, CreateLocationStep
<1>3. ASSUME NEW q \in Requests, Arrive(q) PROVE IInv'
  BY <1>3, ArriveStep, BootStep DEF Arrive
<1>4. ASSUME NEW q \in Requests, Proceed(q) PROVE IInv'
  BY <1>4, LookUpStep, LinkStep, UnknownStep, FailureStep, DeleteLocationStep, CheckBoxStep,
     CreateStationStep, CheckUnknownStep, CheckConnectorStep, CreateConnectorStep,
     CheckClashStep, SetChargeboxIdStep
  DEF Proceed
<1>5. ASSUME NEW q \in Requests, RequestFails(q) PROVE IInv'
  BY <1>5, FailureStep
<1> QED
  BY <1>1, <1>2, <1>3, <1>4, <1>5 DEF Next

\* The inductive invariant holds of provisioning, whatever the requests'
\* interleaving and failures.
THEOREM InvCorrect == Spec => []IInv
<1> QED
  BY InvInit, InvStep, PTL DEF Spec

\* A station is shown as linked, and a charger as unknown, only under a
\* chargeboxId that has connected (reconcileIncomingConnection and
\* markLinkedAndClearUnknown write by station id).
THEOREM OnlyLiveCorrect == Spec => []OnlyLiveChargers
<1>1. IInv => OnlyLiveChargers
  BY DEF IInv
<1> QED
  BY <1>1, InvCorrect, PTL

\* A station always has its location (locations.service.ts counts, then deletes).
THEOREM StationHasLocationCorrect == Spec => []StationHasLocation
<1>1. IInv => StationHasLocation
  BY DEF IInv
<1> QED
  BY <1>1, InvCorrect, PTL

\* One chargeboxId is never planned on two stations.
THEOREM OneStationPerBoxCorrect == Spec => []OneStationPerBox
<1>1. IInv => OneStationPerBox
  BY DEF IInv
<1> QED
  BY <1>1, InvCorrect, PTL

=============================================================================
