---------------------------- MODULE PaymentData ----------------------------
(***************************************************************************)
(* The payment integration of the backend (src/backend/src/payment): the   *)
(* pool of connections to citrineos-payment's database, made from the      *)
(* settings and replaced when they change, and the routes that create,     *)
(* change, delete and read operators, locations, EVSEs, connectors and     *)
(* tariffs with one SQL statement each.                                    *)
(*                                                                         *)
(* A request takes one step per await: the two reads of the settings, the  *)
(* look-up of the pool, the query, the statement in the database.          *)
(***************************************************************************)
EXTENDS Naturals, Sequences, FiniteSets

CONSTANTS
  Requests,    \* the requests of users, each made at most once
  Urls,        \* values of settings/payment/databaseUrl
  Prefixes,    \* values of settings/payment/tablePrefix
  Tables,      \* the tables of Schema that the instance follows
  Watched,     \* the columns that the instance follows
  Ids,         \* the primary keys of a table
  Values,      \* the values of a column
  Null,        \* SQL's NULL, and no row
  Unset,       \* no row of a setting
  Empty,       \* a setting that is the empty string
  PoolSize,    \* connections of a pool (5 in the code)
  MaxChanges   \* bound: changes of the settings

ASSUME PaymentAssumption ==
  /\ Values # {} /\ Null \notin Values
  /\ Urls # {} /\ {Unset, Empty} \cap Urls = {} /\ Unset # Empty
  /\ PoolSize \in Nat \ {0}
  /\ MaxChanges \in Nat

VARIABLES
  url,         \* settings/payment/databaseUrl
  prefix,      \* settings/payment/tablePrefix
  changes,     \* how often the settings were changed
  pools,       \* every Pool made, in the order of their making
  cached,      \* the entry of PaymentDbService.pools: an index, 0 if none
  row,         \* the rows of each database, prefix, table and key
  req,         \* the state of each request
  configured   \* history variable: what was configured during a request

vars == <<url, prefix, changes, pools, cached, row, req, configured>>
store == <<pools, cached, row>>
settings == <<url, prefix, changes>>

Configuration == [url |-> url, prefix |-> prefix]

-----------------------------------------------------------------------------
(* citrineos-payment's tables.  PaymentDataService has a section for each  *)
(* with the same methods (list, get, create, update, delete), which differ *)
(* in the columns only: those a create must give, and those it may leave   *)
(* out.  The methods are the statements below.                             *)
OperatorsTable == [required |-> {"name", "stripe_account_id"}, optional |-> {}]

LocationsTable ==
  [required |-> {"location_id"},
   optional |-> {"address", "postal_code", "city", "state", "country",
                 "operator_id"}]

EvsesTable ==
  [required |-> {"evse_id", "ocpp_evse_id", "status", "station_id",
                 "tenant_id"},
   optional |-> {"location_id"}]

ConnectorsTable ==
  [required |-> {"connector_id", "power_type", "max_voltage",
                 "max_amperage"},
   optional |-> {"evse_id", "tariff_id"}]

TariffsTable ==
  [required |-> {"currency", "tax_rate", "authorization_amount",
                 "payment_fee"},
   optional |-> {"price_kwh", "price_minute", "price_session",
                 "stripe_price_id"}]

Schema ==
  [operators |-> OperatorsTable, locations |-> LocationsTable,
   evses |-> EvsesTable, connectors |-> ConnectorsTable,
   tariffs |-> TariffsTable]

Columns(t) == (Schema[t].required \cup Schema[t].optional) \cap Watched

(* What a request may carry: a create gives the required columns, an       *)
(* update any; Null stands for a property that is left out.                *)
Nothing(t) == [f \in Columns(t) |-> Null]

Inputs(op, t) ==
  {i \in [Columns(t) -> Values \cup {Null}] :
     /\ op = "create" => \A f \in Schema[t].required \cap Watched : i[f] # Null
     /\ op \notin {"create", "update"} => i = Nothing(t)}

(* The routes of PaymentController and their roles.  GET /payment/health,  *)
(* for SuperAdmins alone, takes the steps of a read.                       *)
Operations == {"read", "create", "update", "delete"}

RouteRoles == [op \in Operations |-> {"SuperAdmin", "Admin"}]

Rows == UNION {[Columns(t) -> Values \cup {Null}] : t \in Tables}

Stored == CHOOSE v \in Values : TRUE

Idle == [pc |-> "idle"]

Ended == {"done", "notfound", "failed"}

Request ==
  [pc : {"idle"} \cup Ended]
  \cup [pc : {"list", "plaintext", "pool", "query", "queued", "running"},
        op : Operations, table : Tables, id : Ids, input : Rows,
        prefix : Prefixes \cup {Unset}, url : Urls \cup {Unset}, pool : Nat]

Init ==
  /\ url \in {Unset, CHOOSE u \in Urls : TRUE}
  /\ prefix \in Prefixes
  /\ changes = 0
  /\ pools = <<>>
  /\ cached = 0
  \* The tables are empty, or hold the rows of an earlier time.
  /\ \E initial \in [Tables -> {"empty", "filled"}] :
       row = [u \in Urls |-> [p \in Prefixes |-> [t \in Tables |->
                [i \in Ids |-> IF initial[t] = "empty" THEN Null
                               ELSE [f \in Columns(t) |-> Stored]]]]]
  /\ req = [r \in Requests |-> Idle]
  /\ configured = [r \in Requests |-> {}]

Goto(r, pc) == req' = [req EXCEPT ![r].pc = pc]

(* The answer; what the request was about is forgotten.                    *)
Answer(r, pc) ==
  /\ req' = [req EXCEPT ![r] = [pc |-> pc]]
  /\ configured' = [configured EXCEPT ![r] = {}]

Open(p) == pools[p].open

Busy(p) == Cardinality({r \in Requests : req[r].pc = "running" /\ req[r].pool = p})

\* Mutant: a pool without connections.
NoneFree(p) == Busy(p) < PoolSize - 1

Free(p) == Busy(p) < PoolSize

-----------------------------------------------------------------------------
(* A SuperAdmin changes the connection.                                    *)
ChangeSettings ==
  /\ changes < MaxChanges
  /\ \/ url' \in (Urls \cup {Empty}) \ {url} /\ UNCHANGED prefix
     \/ prefix' \in Prefixes \ {prefix} /\ UNCHANGED url
  /\ changes' = changes + 1
  /\ configured' = [r \in Requests |->
                      IF configured[r] = {} THEN {}
                      ELSE configured[r] \cup {Configuration'}]
  /\ UNCHANGED <<pools, cached, row, req>>

-----------------------------------------------------------------------------
(* The routes: the guard lets the role in, the request asks for a pool.    *)
StartRequest(r) ==
  /\ req[r].pc = "idle"
  /\ \E role \in {"SuperAdmin", "Admin", "Mitarbeiter"}, op \in Operations,
        t \in Tables, i \in Ids :
       /\ role \in RouteRoles[op]
       /\ \E input \in Inputs(op, t) :
            req' = [req EXCEPT ![r] =
                      [pc |-> "list", op |-> op, table |-> t, id |-> i,
                       input |-> input, prefix |-> Unset, url |-> Unset,
                       pool |-> 0]]
  /\ configured' = [configured EXCEPT ![r] = {Configuration}]
  /\ UNCHANGED <<settings, store>>

(* getConfig: the list of the settings has the prefix and tells whether    *)
(* there is a databaseUrl, which is masked in it.                          *)
ListSettings(r) ==
  /\ req[r].pc = "list"
  /\ url # Unset
  /\ req' = [req EXCEPT ![r].pc = "plaintext", ![r].prefix = prefix]
  /\ UNCHANGED <<settings, store, configured>>

(* getPlaintext reads the databaseUrl itself.                              *)
ReadUrl(r) ==
  /\ req[r].pc = "plaintext"
  /\ url # Empty
  /\ req' = [req EXCEPT ![r].pc = "pool", ![r].url = url]
  /\ UNCHANGED <<settings, store, configured>>

(* "Not configured yet", and "set but empty".                              *)
NotConfigured(r) ==
  /\ \/ req[r].pc = "list" /\ url = Unset
     \/ req[r].pc = "plaintext" /\ url = Empty
  /\ Answer(r, "failed")
  /\ UNCHANGED <<settings, store>>

\* Mutant: the cached pool is used whatever its URL.
ReusePool(r) == req[r].pc = "pool" /\ cached # 0

\* Mutant: the cached pool is used even if there is none.
ReuseNothing(r) == req[r].pc = "pool"

(* PaymentDbService.getPool has no await from here to its end.             *)
ReusesPool(r) == req[r].pc = "pool" /\ cached # 0 /\ pools[cached].url = req[r].url

GetCachedPool(r) ==
  /\ ReusesPool(r)
  /\ req' = [req EXCEPT ![r].pc = "query", ![r].pool = cached]
  /\ UNCHANGED <<settings, store, configured>>

\* Mutant: the replaced pool is not ended.
KeepPool(p) == pools

(* `existing.pool.end()`, if there is an existing pool.                    *)
EndPool(p) == [q \in DOMAIN pools |->
                 IF q = p THEN [pools[q] EXCEPT !.open = FALSE] ELSE pools[q]]

MakePool(r) ==
  /\ req[r].pc = "pool"
  /\ ~ReusesPool(r)
  /\ pools' = Append(EndPool(cached), [url |-> req[r].url, open |-> TRUE])
  /\ cached' = Len(pools) + 1
  /\ req' = [req EXCEPT ![r].pc = "query", ![r].pool = Len(pools) + 1]
  /\ UNCHANGED <<settings, row, configured>>

-----------------------------------------------------------------------------
(* node-postgres, as PaymentDataService uses it: pool.query rejects on a   *)
(* pool that was ended, waits for one of the connections, and a query in   *)
(* the queue of an ended pool is never served.                             *)

QueryEndedPool(r) ==
  /\ req[r].pc = "query"
  /\ ~Open(req[r].pool)
  /\ Answer(r, "failed")
  /\ UNCHANGED <<settings, store>>

EnterQueue(r) ==
  /\ req[r].pc = "query"
  /\ Open(req[r].pool)
  /\ Goto(r, "queued")
  /\ UNCHANGED <<settings, store, configured>>

Connect(r) ==
  /\ req[r].pc = "queued"
  /\ Open(req[r].pool)
  /\ Free(req[r].pool)
  /\ Goto(r, "running")
  /\ UNCHANGED <<settings, store, configured>>

(* The statement has worked; its answer may be lost with the connection.   *)
Confirm(r) == \E pc \in {"done", "failed"} : Answer(r, pc)

(* No connection, a constraint of citrineos-payment's schema, or tables    *)
(* that do not exist under this prefix.                                    *)
QueryFails(r) ==
  /\ req[r].pc = "running"
  /\ Answer(r, "failed")
  /\ UNCHANGED <<settings, store>>

-----------------------------------------------------------------------------
(* The statements.                                                         *)

Found(r) ==
  LET q == req[r] IN
  row[pools[q.pool].url][q.prefix][q.table][q.id]

Write(r, new) ==
  LET q == req[r] IN
  row' = [row EXCEPT ![pools[q.pool].url][q.prefix][q.table][q.id] = new]

(* SELECT, of which a row that is not there gives a 404.                   *)
Select(r) ==
  /\ req[r].pc = "running"
  /\ req[r].op = "read"
  /\ Answer(r, IF Found(r) = Null THEN "notfound" ELSE "done")
  /\ UNCHANGED <<settings, store>>

(* INSERT ... RETURNING: the key is one that is free.                      *)
Insert(r) ==
  /\ req[r].pc = "running"
  /\ req[r].op = "create"
  /\ Found(r) = Null
  /\ Write(r, req[r].input)
  /\ Confirm(r)
  /\ UNCHANGED <<settings, pools, cached>>

\* Mutant: SET f = $n.
Overwrite(old, input) == input

(* SET f = COALESCE($n, f).                                                *)
Coalesce(old, input) ==
  [f \in DOMAIN old |-> IF input[f] = Null THEN old[f] ELSE input[f]]

Update(r) ==
  /\ req[r].pc = "running"
  /\ req[r].op = "update"
  /\ Found(r) # Null
  /\ Write(r, Coalesce(Found(r), req[r].input))
  /\ Confirm(r)
  /\ UNCHANGED <<settings, pools, cached>>

Delete(r) ==
  /\ req[r].pc = "running"
  /\ req[r].op = "delete"
  /\ Found(r) # Null
  /\ Write(r, Null)
  /\ Confirm(r)
  /\ UNCHANGED <<settings, pools, cached>>

(* No row returned, or none deleted: a 404.                                *)
RowNotFound(r) ==
  /\ req[r].pc = "running"
  /\ req[r].op \in {"update", "delete"}
  /\ Found(r) = Null
  /\ Answer(r, "notfound")
  /\ UNCHANGED <<settings, store>>

-----------------------------------------------------------------------------
Statement(r) ==
  Select(r) \/ Insert(r) \/ Update(r) \/ Delete(r) \/ RowNotFound(r)
    \/ QueryFails(r)

BackendStep(r) ==
  ListSettings(r) \/ ReadUrl(r) \/ NotConfigured(r) \/ GetCachedPool(r) \/ MakePool(r)
    \/ QueryEndedPool(r) \/ EnterQueue(r)

Next ==
  \/ \E r \in Requests :
       StartRequest(r) \/ BackendStep(r) \/ Connect(r) \/ Statement(r)
  \/ ChangeSettings

(* The event loop runs the steps of the backend; the pool gives a free     *)
(* connection to each query in its queue; the database answers, or the     *)
(* connection breaks.                                                      *)
Fairness ==
  \A r \in Requests :
    WF_vars(BackendStep(r)) /\ SF_vars(Connect(r)) /\ WF_vars(Statement(r))

Spec == Init /\ [][Next]_vars /\ Fairness

-----------------------------------------------------------------------------
(* Properties.                                                             *)

UnderWay(r) == req[r].pc \in {"list", "plaintext", "pool", "query", "queued", "running"}
HasPool(r) == req[r].pc \in {"query", "queued", "running"}

RequestsOK ==
  /\ req \in [Requests -> Request]
  /\ \A r \in Requests :
       /\ UnderWay(r) => req[r].input \in [Columns(req[r].table) -> Values \cup {Null}]
       /\ HasPool(r) => req[r].prefix \in Prefixes /\ req[r].pool \in 1 .. Len(pools)

RowsOK ==
  /\ row \in [Urls -> [Prefixes -> [Tables -> [Ids -> Rows \cup {Null}]]]]
  /\ \A u \in Urls, p \in Prefixes, t \in Tables, i \in Ids :
       row[u][p][t][i] # Null => row[u][p][t][i] \in [Columns(t) -> Values \cup {Null}]

TypeOK ==
  /\ url \in Urls \cup {Unset, Empty}
  /\ prefix \in Prefixes
  /\ changes \in 0 .. MaxChanges
  /\ pools \in Seq([url : Urls, open : BOOLEAN])
  /\ cached \in 0 .. Len(pools)
  /\ configured \in [Requests -> SUBSET [url : Urls \cup {Unset, Empty}, prefix : Prefixes]]
  /\ RequestsOK
  /\ RowsOK

(* No pool leaks, however requests and changes of the URL overlap: a pool  *)
(* that is open is the one that getPool will find, and that the shutdown   *)
(* will end.                                                               *)
OpenPoolIsCached == \A p \in DOMAIN pools : Open(p) => p = cached

(* "Correct if a SuperAdmin rotates credentials without restarting the     *)
(* backend": a query runs on a database that was configured at some time   *)
(* while its request was in progress.                                      *)
QueriesConfiguredDatabase ==
  \A r \in Requests :
    req[r].pc \in {"query", "queued", "running"} =>
      \E c \in configured[r] : c.url = pools[req[r].pool].url

(* Updates of one row that overlap do not lose each other's columns: a     *)
(* column of a row only changes to the value of a request that names it,   *)
(* and a property left out of a PATCH leaves its column as it is then.     *)
OmittedColumnsStay ==
  [][\A u \in Urls, p \in Prefixes, t \in Tables, i \in Ids, f \in Watched :
       (row[u][p][t][i] # Null /\ row'[u][p][t][i] # Null
          /\ f \in Columns(t) /\ row'[u][p][t][i][f] # row[u][p][t][i][f])
       => \E r \in Requests :
            /\ req[r].pc = "running" /\ req'[r].pc \in {"done", "failed"}
            /\ req[r].op = "update" /\ req[r].id = i /\ req[r].table = t
            /\ req[r].input[f] # Null
            /\ req[r].input[f] = row'[u][p][t][i][f]]_vars

(* A request is answered, unless its query is still waiting for a          *)
(* connection when another request ends the pool.                          *)
RequestsEnd ==
  \A r \in Requests :
    req[r].pc = "list" ~> \/ req[r].pc \in Ended
                          \/ req[r].pc = "queued" /\ ~Open(req[r].pool)

(* What is configured now was configured during every request under way,   *)
(* and so were the prefix and the URL that it has read.                    *)
ReadsConfigured ==
  \A r \in Requests :
    /\ UnderWay(r) => Configuration \in configured[r]
    /\ UnderWay(r) /\ req[r].pc # "list" =>
         url # Unset /\ \E c \in configured[r] : c.prefix = req[r].prefix
    /\ req[r].pc = "pool" =>
         req[r].url \in Urls /\ \E c \in configured[r] : c.url = req[r].url

(* The caller of a route sees a request that is answered, and what was     *)
(* configured meanwhile; pools, connections and queues are hidden.  The    *)
(* rows are the same: every statement takes its effect in one step, on a   *)
(* row that some configuration of the time names, and a request that is    *)
(* refused, or whose pool was ended, has none.                             *)
Seen(r) ==
  IF UnderWay(r)
  THEN [state |-> "asked", seen |-> configured[r],
        ask |-> [op |-> req[r].op, table |-> req[r].table, id |-> req[r].id,
                 input |-> req[r].input]]
  ELSE [state |-> req[r].pc]

Asks ==
  {a \in [op : Operations, table : Tables, id : Ids, input : Rows] :
     a.input \in Inputs(a.op, a.table)}

Service ==
  INSTANCE PaymentTables WITH
    configuration <- Configuration, request <- [r \in Requests |-> Seen(r)],
    NoUrls <- {Unset, Empty}

ImplementsTables == Service!Spec

(* The inductive invariant.                                                *)
IInv ==
  /\ TypeOK
  /\ OpenPoolIsCached
  /\ QueriesConfiguredDatabase
  /\ ReadsConfigured

=============================================================================
