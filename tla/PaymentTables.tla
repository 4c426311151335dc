--------------------------- MODULE PaymentTables ---------------------------
(***************************************************************************)
(* What the payment integration promises whoever calls one of its routes:  *)
(* a request reads or writes one row, at one moment between its start and  *)
(* its answer, as if no other request were under way, in a database and    *)
(* under a prefix that were configured while it ran.  A request that is    *)
(* answered with a failure has worked at most once.  There are no pools,   *)
(* connections or queues.  PaymentData implements it.                      *)
(***************************************************************************)
CONSTANTS
  Requests,
  Asks,        \* what can be asked for: [op, table, id, input]
  Urls,        \* the databases
  NoUrls,      \* what may be configured and is no database
  Prefixes,    \* the prefixes of the names of tables
  Tables,
  Ids,
  Rows,        \* functions from the columns of a table
  Null         \* no row, and a column that is not given

VARIABLES
  configuration,   \* the database and the prefix configured: [url, prefix]
  row,             \* the rows of each database, prefix, table and key
  request          \* each request as its caller sees it

vars == <<configuration, row, request>>

Asked(r) == request[r].state = "asked"

Configurations == [url : Urls \cup NoUrls, prefix : Prefixes]

Init ==
  /\ configuration \in Configurations
  /\ row \in [Urls -> [Prefixes -> [Tables -> [Ids -> Rows \cup {Null}]]]]
  /\ request = [r \in Requests |-> [state |-> "idle"]]

Configure ==
  /\ configuration' \in Configurations
  /\ request' = [r \in Requests |->
                   IF Asked(r) THEN [request[r] EXCEPT !.seen = @ \cup {configuration'}]
                   ELSE request[r]]
  /\ UNCHANGED row

Ask(r) ==
  /\ request[r].state = "idle"
  /\ \E a \in Asks :
       request' = [request EXCEPT ![r] =
                     [state |-> "asked", ask |-> a, seen |-> {configuration}]]
  /\ UNCHANGED <<configuration, row>>

Answer(r, state) == request' = [request EXCEPT ![r] = [state |-> state]]

(* A row that has been written may be reported as a failure.               *)
Confirm(r) == \E state \in {"done", "failed"} : Answer(r, state)

(* A property that is not given leaves its column as it is at that moment. *)
Merged(old, input) ==
  [f \in DOMAIN old |-> IF input[f] = Null THEN old[f] ELSE input[f]]

(* The database and the prefix may be those of different configurations.   *)
Work(r) ==
  \E b, c \in request[r].seen :
    LET a == request[r].ask
        old == row[b.url][c.prefix][a.table][a.id]
        Put(new) == row' = [row EXCEPT ![b.url][c.prefix][a.table][a.id] = new]
    IN /\ b.url \in Urls
       /\ \/ /\ a.op = "read" /\ old # Null
             /\ Answer(r, "done") /\ UNCHANGED row
          \/ /\ a.op # "create" /\ old = Null
             /\ Answer(r, "notfound") /\ UNCHANGED row
          \/ /\ a.op = "create" /\ old = Null
             /\ Put(a.input) /\ Confirm(r)
          \/ /\ a.op = "update" /\ old # Null
             /\ Put(Merged(old, a.input)) /\ Confirm(r)
          \/ /\ a.op = "delete" /\ old # Null
             /\ Put(Null) /\ Confirm(r)

Serve(r) == Asked(r) /\ Work(r) /\ UNCHANGED configuration

Refuse(r) == Asked(r) /\ Answer(r, "failed") /\ UNCHANGED <<configuration, row>>

Next ==
  \/ Configure
  \/ \E r \in Requests : Ask(r) \/ Serve(r) \/ Refuse(r)

Spec == Init /\ [][Next]_vars
=============================================================================
