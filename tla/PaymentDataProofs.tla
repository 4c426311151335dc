-------------------------- MODULE PaymentDataProofs --------------------------
(* Proofs about PaymentData, for every number of requests, URLs, tables,   *)
(* rows and connections of a pool.                                         *)
EXTENDS PaymentData, TLAPS

Pool == [url : Urls, open : BOOLEAN]

InProgress ==
  [pc : {"list", "plaintext", "pool", "query", "queued", "running"},
   op : Operations, table : Tables, id : Ids, input : Rows,
   prefix : Prefixes \cup {Unset}, url : Urls \cup {Unset}, pool : Nat]

LEMMA InvInit == Init => IInv
<1> SUFFICES ASSUME Init PROVE IInv
  OBVIOUS
<1>1. (CHOOSE u \in Urls : TRUE) \in Urls /\ Stored \in Values
  BY PaymentAssumption DEF Stored
<1>2. \A r \in Requests : req[r] = Idle
  BY DEF Init
<1>3. Idle \in Request /\ Idle.pc = "idle"
  BY DEF Idle, Request
<1>4. RequestsOK
  BY <1>2, <1>3 DEF Init, RequestsOK, UnderWay, HasPool
<1>5. RowsOK
  <2>1. PICK initial \in [Tables -> {"empty", "filled"}] :
          row = [u \in Urls |-> [p \in Prefixes |-> [t \in Tables |->
                  [i \in Ids |-> IF initial[t] = "empty" THEN Null
                                 ELSE [f \in Columns(t) |-> Stored]]]]]
    BY DEF Init
  <2>2. \A t \in Tables : [f \in Columns(t) |-> Stored] \in [Columns(t) -> Values \cup {Null}]
    BY <1>1
  <2>3. \A t \in Tables : [f \in Columns(t) |-> Stored] \in Rows
    BY <2>2 DEF Rows
  <2> QED
    BY <2>1, <2>2, <2>3 DEF RowsOK
<1>6. TypeOK
  BY <1>1, <1>4, <1>5, PaymentAssumption DEF Init, TypeOK
<1>7. OpenPoolIsCached /\ QueriesConfiguredDatabase /\ ReadsConfigured
  BY <1>2, <1>3 DEF Init, OpenPoolIsCached, QueriesConfiguredDatabase, ReadsConfigured, UnderWay
<1> QED
  BY <1>6, <1>7 DEF IInv

\* Where a request in progress stands.
LEMMA RequestFacts ==
  ASSUME IInv, NEW r \in Requests, UnderWay(r)
  PROVE  /\ req[r].op \in Operations
         /\ req[r].table \in Tables
         /\ req[r].id \in Ids
         /\ req[r].input \in Rows
         /\ req[r].input \in [Columns(req[r].table) -> Values \cup {Null}]
         /\ req[r].prefix \in Prefixes \cup {Unset}
         /\ req[r].url \in Urls \cup {Unset}
         /\ req[r].pool \in Nat
         /\ req[r] \in InProgress
  BY DEF IInv, TypeOK, RequestsOK, Request, UnderWay, Ended, InProgress

\* A request that has read the settings has read a prefix that was configured.
LEMMA ConfiguredFacts ==
  ASSUME IInv, NEW r \in Requests, UnderWay(r), req[r].pc # "list"
  PROVE  /\ req[r].prefix \in Prefixes
         /\ \E c \in configured[r] : c.prefix = req[r].prefix
<1>1. PICK c \in configured[r] : c.prefix = req[r].prefix
  BY DEF IInv, ReadsConfigured
<1>2. c.prefix \in Prefixes
  BY DEF IInv, TypeOK
<1> QED
  BY <1>1, <1>2

\* A step that answers a request and leaves pools and settings as they are.
LEMMA AnswerStep ==
  ASSUME IInv, NEW r \in Requests, NEW pc \in Ended, Answer(r, pc),
         UNCHANGED <<settings, pools, cached>>, RowsOK'
  PROVE  IInv'
<1> DEFINE q == [pc |-> pc]
<1>1. q \in Request /\ q.pc \notin {"list", "plaintext", "pool", "query", "queued", "running"}
  BY DEF Request, Ended
<1>2. req' = [req EXCEPT ![r] = q] /\ configured' = [configured EXCEPT ![r] = {}]
  BY DEF Answer
<1>3. RequestsOK'
  BY <1>1, <1>2 DEF IInv, TypeOK, RequestsOK, UnderWay, HasPool
<1>4. TypeOK'
  BY <1>2, <1>3 DEF IInv, TypeOK, settings
<1>5. OpenPoolIsCached'
  BY DEF IInv, OpenPoolIsCached, Open
<1>6. QueriesConfiguredDatabase'
  BY <1>1, <1>2 DEF IInv, TypeOK, RequestsOK, QueriesConfiguredDatabase
<1>7. ReadsConfigured'
  BY <1>1, <1>2 DEF IInv, TypeOK, RequestsOK, ReadsConfigured, UnderWay, Configuration, settings
<1> QED
  BY <1>4, <1>5, <1>6, <1>7 DEF IInv

\* A step that moves one request on and writes nothing else.
LEMMA MoveStep ==
  ASSUME IInv, NEW r \in Requests, NEW q \in Request,
         UnderWay(r),
         req' = [req EXCEPT ![r] = q],
         UNCHANGED <<settings, store, configured>>,
         q.pc \in {"plaintext", "pool", "query", "queued", "running"},
         q.input \in [Columns(q.table) -> Values \cup {Null}],
         q.prefix \in Prefixes,
         url # Unset,
         \E c \in configured[r] : c.prefix = q.prefix,
         q.pc = "pool" => q.url \in Urls /\ \E c \in configured[r] : c.url = q.url,
         q.pc \in {"query", "queued", "running"} =>
           /\ q.pool \in 1 .. Len(pools)
           /\ \E c \in configured[r] : c.url = pools[q.pool].url
  PROVE  IInv'
<1>1. RequestsOK'
  BY DEF IInv, TypeOK, RequestsOK, UnderWay, HasPool, store
<1>2. RowsOK'
  BY DEF IInv, TypeOK, RowsOK, store
<1>3. TypeOK'
  BY <1>1, <1>2 DEF IInv, TypeOK, settings, store
<1>4. OpenPoolIsCached'
  BY DEF IInv, OpenPoolIsCached, Open, store
<1>5. QueriesConfiguredDatabase'
  BY DEF IInv, TypeOK, RequestsOK, QueriesConfiguredDatabase, store
<1>6. ReadsConfigured'
  BY DEF IInv, TypeOK, RequestsOK, ReadsConfigured, UnderWay, Configuration, settings
<1> QED
  BY <1>3, <1>4, <1>5, <1>6 DEF IInv

LEMMA StartStep ==
  ASSUME IInv, NEW r \in Requests, StartRequest(r)
  PROVE  IInv'
<1>0. PICK role \in {"SuperAdmin", "Admin", "Mitarbeiter"}, op \in Operations,
             t \in Tables, i \in Ids :
        /\ role \in RouteRoles[op]
        /\ \E input \in Inputs(op, t) :
             req' = [req EXCEPT ![r] =
                       [pc |-> "list", op |-> op, table |-> t, id |-> i,
                        input |-> input, prefix |-> Unset, url |-> Unset, pool |-> 0]]
  BY Zenon DEF StartRequest
<1>1. PICK input \in Inputs(op, t) :
        req' = [req EXCEPT ![r] =
                  [pc |-> "list", op |-> op, table |-> t, id |-> i,
                   input |-> input, prefix |-> Unset, url |-> Unset, pool |-> 0]]
  BY <1>0
<1> DEFINE q == [pc |-> "list", op |-> op, table |-> t, id |-> i,
                 input |-> input, prefix |-> Unset, url |-> Unset, pool |-> 0]
<1>2. input \in [Columns(t) -> Values \cup {Null}] /\ input \in Rows
  BY DEF Inputs, Rows
<1>3. q \in Request
  BY <1>2 DEF Request
<1>4. /\ UNCHANGED <<settings, store>>
      /\ configured' = [configured EXCEPT ![r] = {Configuration}]
  BY DEF StartRequest
<1>5. RequestsOK'
  BY <1>1, <1>2, <1>3, <1>4 DEF IInv, TypeOK, RequestsOK, UnderWay, HasPool, store
<1>6. RowsOK'
  BY <1>4 DEF IInv, TypeOK, RowsOK, store
<1>7. TypeOK'
  BY <1>4, <1>5, <1>6 DEF IInv, TypeOK, Configuration, settings, store
<1>8. OpenPoolIsCached'
  BY <1>4 DEF IInv, OpenPoolIsCached, Open, store
<1>9. QueriesConfiguredDatabase'
  BY <1>1, <1>4 DEF IInv, TypeOK, RequestsOK, QueriesConfiguredDatabase, store
<1>10. ReadsConfigured'
  BY <1>1, <1>4 DEF IInv, TypeOK, RequestsOK, ReadsConfigured, UnderWay, Configuration, settings
<1> QED
  BY <1>7, <1>8, <1>9, <1>10 DEF IInv

LEMMA ChangeStep ==
  ASSUME IInv, ChangeSettings
  PROVE  IInv'
<1>1. /\ url' \in Urls \cup {Unset, Empty}
      /\ url' = Unset => url = Unset
      /\ prefix' \in Prefixes
      /\ changes' \in 0 .. MaxChanges
      /\ configured' = [r \in Requests |->
                          IF configured[r] = {} THEN {}
                          ELSE configured[r] \cup {Configuration'}]
      /\ UNCHANGED <<pools, cached, row, req>>
  BY PaymentAssumption DEF IInv, TypeOK, ChangeSettings
<1>2. RequestsOK' /\ RowsOK'
  BY <1>1 DEF IInv, TypeOK, RequestsOK, RowsOK, UnderWay, HasPool
<1>3. TypeOK'
  BY <1>1, <1>2 DEF IInv, TypeOK, Configuration
<1>4. OpenPoolIsCached'
  BY <1>1 DEF IInv, OpenPoolIsCached, Open
<1>5. \A r \in Requests : /\ configured[r] \subseteq configured'[r]
                          /\ configured[r] # {} => Configuration' \in configured'[r]
  BY <1>1
<1>6. QueriesConfiguredDatabase'
  BY <1>1, <1>5 DEF IInv, QueriesConfiguredDatabase
<1>7. ReadsConfigured'
  BY <1>1, <1>5 DEF IInv, ReadsConfigured, UnderWay
<1> QED
  BY <1>3, <1>4, <1>6, <1>7 DEF IInv

LEMMA ListStep ==
  ASSUME IInv, NEW r \in Requests, ListSettings(r)
  PROVE  IInv'
<1> DEFINE q == [req[r] EXCEPT !.pc = "plaintext", !.prefix = prefix]
<1>1. UnderWay(r)
  BY DEF ListSettings, UnderWay
<1>2. prefix \in Prefixes /\ \E c \in configured[r] : c.prefix = prefix
  BY <1>1 DEF IInv, TypeOK, ReadsConfigured, Configuration
<1>3. /\ q \in Request
      /\ q.pc = "plaintext"
      /\ q.prefix = prefix
      /\ q.input = req[r].input
      /\ q.table = req[r].table
  BY <1>1, <1>2, RequestFacts DEF Request, InProgress
<1>4. req[r].input \in [Columns(req[r].table) -> Values \cup {Null}]
  BY <1>1, RequestFacts
<1> QED
  BY <1>1, <1>2, <1>3, <1>4, MoveStep DEF ListSettings

LEMMA ReadUrlStep ==
  ASSUME IInv, NEW r \in Requests, ReadUrl(r)
  PROVE  IInv'
<1> DEFINE q == [req[r] EXCEPT !.pc = "pool", !.url = url]
<1>1. UnderWay(r) /\ req[r].pc = "plaintext"
  BY DEF ReadUrl, UnderWay
<1>2. /\ url \in Urls
      /\ url # Unset
      /\ \E c \in configured[r] : c.url = url
      /\ \E c \in configured[r] : c.prefix = req[r].prefix
      /\ req[r].prefix \in Prefixes
  BY <1>1, ConfiguredFacts, PaymentAssumption DEF IInv, TypeOK, ReadsConfigured, ReadUrl, Configuration
<1>3. /\ q \in Request
      /\ q.pc = "pool"
      /\ q.url = url
      /\ q.prefix = req[r].prefix
      /\ q.input = req[r].input
      /\ q.table = req[r].table
  BY <1>1, <1>2, RequestFacts DEF Request, InProgress
<1>4. req[r].input \in [Columns(req[r].table) -> Values \cup {Null}]
  BY <1>1, RequestFacts
<1> QED
  BY <1>1, <1>2, <1>3, <1>4, MoveStep DEF ReadUrl

LEMMA GetCachedStep ==
  ASSUME IInv, NEW r \in Requests, GetCachedPool(r)
  PROVE  IInv'
<1> DEFINE q == [req[r] EXCEPT !.pc = "query", !.pool = cached]
<1>1. /\ UnderWay(r)
      /\ req[r].pc = "pool"
      /\ pools[cached].url = req[r].url
      /\ cached \in 1 .. Len(pools)
      /\ cached \in Nat
  BY DEF IInv, TypeOK, GetCachedPool, ReusesPool, UnderWay
<1>2. /\ \E c \in configured[r] : c.url = req[r].url
      /\ \E c \in configured[r] : c.prefix = req[r].prefix
      /\ req[r].prefix \in Prefixes
      /\ url # Unset
  BY <1>1, ConfiguredFacts DEF IInv, ReadsConfigured
<1>3. /\ q \in Request
      /\ q.pc = "query"
      /\ q.pool = cached
      /\ q.prefix = req[r].prefix
      /\ q.input = req[r].input
      /\ q.table = req[r].table
  BY <1>1, RequestFacts DEF Request, InProgress
<1>4. req[r].input \in [Columns(req[r].table) -> Values \cup {Null}]
  BY <1>1, RequestFacts
<1> QED
  BY <1>1, <1>2, <1>3, <1>4, MoveStep DEF GetCachedPool

\* A query waits for a connection, or has got one.
LEMMA QueueStep ==
  ASSUME IInv, NEW r \in Requests, EnterQueue(r) \/ Connect(r)
  PROVE  IInv'
<1>1. PICK pc \in {"queued", "running"} : Goto(r, pc)
  BY DEF EnterQueue, Connect
<1> DEFINE q == [req[r] EXCEPT !.pc = pc]
<1>2. UnderWay(r) /\ HasPool(r) /\ req[r].pc # "list"
  BY DEF EnterQueue, Connect, UnderWay, HasPool
<1>3. /\ req[r].pool \in 1 .. Len(pools)
      /\ \E c \in configured[r] : c.url = pools[req[r].pool].url
      /\ \E c \in configured[r] : c.prefix = req[r].prefix
      /\ req[r].prefix \in Prefixes
      /\ url # Unset
  BY <1>2, ConfiguredFacts
  DEF IInv, TypeOK, RequestsOK, QueriesConfiguredDatabase, ReadsConfigured, HasPool
<1>4. /\ q \in Request
      /\ q.pc = pc
      /\ q.pool = req[r].pool
      /\ q.prefix = req[r].prefix
      /\ q.input = req[r].input
      /\ q.table = req[r].table
  BY <1>2, RequestFacts DEF Request, InProgress
<1>5. req[r].input \in [Columns(req[r].table) -> Values \cup {Null}]
  BY <1>2, RequestFacts
<1>6. UNCHANGED <<settings, store, configured>>
  BY DEF EnterQueue, Connect
<1> QED
  BY <1>1, <1>2, <1>3, <1>4, <1>5, <1>6, MoveStep DEF Goto

\* The new pool is the cached one, and the one it replaces is ended.
LEMMA MakePoolStep ==
  ASSUME IInv, NEW r \in Requests, MakePool(r)
  PROVE  IInv'
<1> DEFINE o == req[r]
           n == Len(pools) + 1
           ended == EndPool(cached)
           made == [url |-> o.url, open |-> TRUE]
           q == [o EXCEPT !.pc = "query", !.pool = n]
<1>1. UnderWay(r) /\ o.pc = "pool"
  BY DEF MakePool, UnderWay
<1>2. /\ o.url \in Urls
      /\ \E c \in configured[r] : c.url = o.url
      /\ \E c \in configured[r] : c.prefix = o.prefix
      /\ o.prefix \in Prefixes
      /\ url # Unset
  BY <1>1, ConfiguredFacts DEF IInv, ReadsConfigured
<1>3. /\ pools \in Seq(Pool)
      /\ Len(pools) \in Nat
      /\ cached \in 0 .. Len(pools)
  BY DEF IInv, TypeOK, Pool
<1>4. /\ ended \in Seq(Pool)
      /\ Len(ended) = Len(pools)
      /\ \A p \in 1 .. Len(pools) : /\ ended[p].url = pools[p].url
                                    /\ ended[p].open => pools[p].open /\ p # cached
  <2>1. \A p \in 1 .. Len(pools) : pools[p] \in Pool
    BY <1>3
  <2>2. ended \in [1 .. Len(pools) -> Pool]
    <3>1. DOMAIN pools = 1 .. Len(pools)
      BY <1>3
    <3>2. \A p \in 1 .. Len(pools) : [pools[p] EXCEPT !.open = FALSE] \in Pool
      BY <2>1 DEF Pool
    <3> QED
      BY <2>1, <3>1, <3>2 DEF EndPool
  <2>3. ended \in Seq(Pool) /\ Len(ended) = Len(pools)
    BY <1>3, <2>2
  <2>4. ASSUME NEW p \in 1 .. Len(pools)
        PROVE  ended[p].url = pools[p].url /\ (ended[p].open => pools[p].open /\ p # cached)
    BY <1>3, <2>1 DEF EndPool, Pool
  <2> QED
    BY <2>3, <2>4
<1>5. made \in Pool /\ made.url = o.url
  BY <1>2 DEF Pool
<1>6. /\ pools' = Append(ended, made)
      /\ cached' = n
      /\ req' = [req EXCEPT ![r] = q]
      /\ UNCHANGED <<settings, row, configured>>
  BY DEF MakePool
<1>7. /\ pools' \in Seq(Pool)
      /\ Len(pools') = n
      /\ pools'[n] = made
      /\ \A p \in 1 .. Len(pools) : pools'[p] = ended[p]
      /\ DOMAIN pools' = 1 .. n
  BY <1>3, <1>4, <1>5, <1>6
<1>8. /\ q \in Request
      /\ q.pc = "query"
      /\ q.pool = n
      /\ q.prefix = o.prefix
      /\ q.input = o.input
      /\ q.table = o.table
  <2>1. o \in InProgress
    BY <1>1, RequestFacts
  <2>2. n \in Nat
    BY <1>3
  <2> HIDE DEF o, n
  <2>3. /\ q \in InProgress
        /\ q.pc = "query"
        /\ q.pool = n
        /\ q.prefix = o.prefix
        /\ q.input = o.input
        /\ q.table = o.table
    BY <2>1, <2>2 DEF InProgress
  <2> QED
    BY <2>3 DEF Request, InProgress
<1>9. o.input \in [Columns(o.table) -> Values \cup {Null}]
  BY <1>1, RequestFacts
<1>10. \A p \in 1 .. Len(pools) : p \in 1 .. n /\ pools'[p].url = pools[p].url
  BY <1>3, <1>4, <1>7
<1>11. RequestsOK'
  <2>1. ASSUME NEW s \in Requests
        PROVE  /\ UnderWay(s)' => req'[s].input \in [Columns(req'[s].table) -> Values \cup {Null}]
               /\ HasPool(s)' => req'[s].prefix \in Prefixes /\ req'[s].pool \in 1 .. Len(pools')
    <3>1. CASE s = r
      BY <1>2, <1>3, <1>6, <1>7, <1>8, <1>9, <3>1 DEF IInv, TypeOK, RequestsOK
    <3>2. CASE s # r
      BY <1>6, <1>7, <1>10, <3>2 DEF IInv, TypeOK, RequestsOK, UnderWay, HasPool
    <3> QED
      BY <3>1, <3>2
  <2> QED
    BY <1>6, <1>8, <2>1 DEF IInv, TypeOK, RequestsOK
<1>12. RowsOK'
  BY <1>6 DEF IInv, TypeOK, RowsOK
<1>13. TypeOK'
  BY <1>3, <1>6, <1>7, <1>11, <1>12 DEF IInv, TypeOK, settings, Pool
<1>14. OpenPoolIsCached'
  <2>1. ASSUME NEW p \in 1 .. n, pools'[p].open, p # n PROVE FALSE
    <3>1. p \in 1 .. Len(pools)
      BY <1>3, <2>1
    <3>2. pools[p].open /\ p # cached
      BY <1>4, <1>7, <2>1, <3>1
    <3> QED
      BY <1>3, <3>1, <3>2 DEF IInv, OpenPoolIsCached, Open
  <2> QED
    BY <1>6, <1>7, <2>1 DEF OpenPoolIsCached, Open
<1>15. QueriesConfiguredDatabase'
  <2>1. ASSUME NEW s \in Requests, req'[s].pc \in {"query", "queued", "running"}
        PROVE  \E c \in configured'[s] : c.url = pools'[req'[s].pool].url
    <3>1. CASE s = r
      BY <1>2, <1>5, <1>6, <1>7, <1>8, <3>1 DEF IInv, TypeOK, RequestsOK
    <3>2. CASE s # r
      <4>1. req'[s] = req[s]
        BY <1>6, <3>2 DEF IInv, TypeOK, RequestsOK
      <4>2. /\ req[s].pool \in 1 .. Len(pools)
            /\ \E c \in configured[s] : c.url = pools[req[s].pool].url
        BY <2>1, <4>1 DEF IInv, TypeOK, RequestsOK, HasPool, QueriesConfiguredDatabase
      <4> QED
        BY <1>6, <1>10, <4>1, <4>2
    <3> QED
      BY <3>1, <3>2
  <2> QED
    BY <2>1 DEF QueriesConfiguredDatabase
<1>16. ReadsConfigured'
  <2>1. url' = url /\ configured' = configured /\ Configuration' = Configuration
    BY <1>6 DEF settings, Configuration
  <2>2. \A s \in Requests \ {r} : req'[s] = req[s]
    BY <1>6 DEF IInv, TypeOK, RequestsOK
  <2>3. req'[r] = q
    BY <1>6 DEF IInv, TypeOK, RequestsOK
  <2>4. Configuration \in configured[r]
    BY <1>1 DEF IInv, ReadsConfigured
  <2>5. ASSUME NEW s \in Requests
        PROVE  /\ UnderWay(s)' => Configuration' \in configured'[s]
               /\ UnderWay(s)' /\ req'[s].pc # "list" =>
                    url' # Unset /\ \E c \in configured'[s] : c.prefix = req'[s].prefix
               /\ req'[s].pc = "pool" =>
                    /\ req'[s].url \in Urls
                    /\ \E c \in configured'[s] : c.url = req'[s].url
    <3>1. CASE s = r
      BY <1>2, <1>8, <2>1, <2>3, <2>4, <3>1
    <3>2. CASE s # r
      <4>1. UnderWay(s)' = UnderWay(s) /\ req'[s] = req[s]
        BY <2>2, <3>2 DEF UnderWay
      <4> QED
        BY <2>1, <4>1 DEF IInv, ReadsConfigured
    <3> QED
      BY <3>1, <3>2
  <2> QED
    BY <2>5 DEF ReadsConfigured
<1> QED
  BY <1>13, <1>14, <1>15, <1>16 DEF IInv

\* Where the statement of a request works.
LEMMA PlaceFacts ==
  ASSUME IInv, NEW r \in Requests, req[r].pc = "running"
  PROVE  /\ pools[req[r].pool].url \in Urls
         /\ req[r].prefix \in Prefixes
         /\ req[r].table \in Tables
         /\ req[r].id \in Ids
         /\ req[r].input \in [Columns(req[r].table) -> Values \cup {Null}]
<1>1. UnderWay(r) /\ HasPool(r)
  BY DEF UnderWay, HasPool
<1>2. req[r].pool \in 1 .. Len(pools) /\ req[r].prefix \in Prefixes
  BY <1>1 DEF IInv, TypeOK, RequestsOK
<1>3. pools[req[r].pool] \in [url : Urls, open : BOOLEAN]
  <2>1. pools \in Seq(Pool)
    BY DEF IInv, TypeOK, Pool
  <2>2. pools[req[r].pool] \in Pool
    BY <1>2, <2>1
  <2> QED
    BY <2>2 DEF Pool
<1> QED
  BY <1>1, <1>2, <1>3, RequestFacts

\* A write of one row of a table by a statement.
LEMMA WriteRow ==
  ASSUME IInv, NEW r \in Requests, req[r].pc = "running", NEW new, Write(r, new),
         new # Null => new \in [Columns(req[r].table) -> Values \cup {Null}]
  PROVE  /\ RowsOK'
         /\ \A u \in Urls, p \in Prefixes, t \in Tables, i \in Ids :
              row'[u][p][t][i] =
                IF /\ u = pools[req[r].pool].url
                   /\ p = req[r].prefix
                   /\ t = req[r].table
                   /\ i = req[r].id
                THEN new ELSE row[u][p][t][i]
<1> DEFINE uu == pools[req[r].pool].url
           pp == req[r].prefix
           tt == req[r].table
           ii == req[r].id
<1>1. uu \in Urls /\ pp \in Prefixes /\ tt \in Tables /\ ii \in Ids
  BY PlaceFacts
<1>2. row' = [row EXCEPT ![uu][pp][tt][ii] = new]
  BY DEF Write
<1>3. row \in [Urls -> [Prefixes -> [Tables -> [Ids -> Rows \cup {Null}]]]]
  BY DEF IInv, TypeOK, RowsOK
<1>4. new \in Rows \cup {Null}
  BY <1>1 DEF Rows
<1> DEFINE ids == [row[uu][pp][tt] EXCEPT ![ii] = new]
           tables == [row[uu][pp] EXCEPT ![tt] = ids]
           prefixes == [row[uu] EXCEPT ![pp] = tables]
<1>a. /\ row[uu] \in [Prefixes -> [Tables -> [Ids -> Rows \cup {Null}]]]
      /\ row[uu][pp] \in [Tables -> [Ids -> Rows \cup {Null}]]
      /\ row[uu][pp][tt] \in [Ids -> Rows \cup {Null}]
  <2> HIDE DEF uu, pp, tt, ii
  <2>1. row[uu] \in [Prefixes -> [Tables -> [Ids -> Rows \cup {Null}]]]
    BY <1>1, <1>3
  <2>2. row[uu][pp] \in [Tables -> [Ids -> Rows \cup {Null}]]
    BY <1>1, <2>1
  <2>3. row[uu][pp][tt] \in [Ids -> Rows \cup {Null}]
    BY <1>1, <2>2
  <2> QED
    BY <2>1, <2>2, <2>3
<1>b. ids \in [Ids -> Rows \cup {Null}]
  BY <1>4, <1>a
<1>c. tables \in [Tables -> [Ids -> Rows \cup {Null}]]
  BY <1>a, <1>b
<1>d. prefixes \in [Prefixes -> [Tables -> [Ids -> Rows \cup {Null}]]]
  BY <1>a, <1>c
<1>e. row' = [row EXCEPT ![uu] = prefixes]
  BY <1>1, <1>2
<1>5. row' \in [Urls -> [Prefixes -> [Tables -> [Ids -> Rows \cup {Null}]]]]
  BY <1>3, <1>d, <1>e
<1>6. \A u \in Urls, p \in Prefixes, t \in Tables, i \in Ids :
        row'[u][p][t][i] = IF u = uu /\ p = pp /\ t = tt /\ i = ii THEN new
                           ELSE row[u][p][t][i]
  <2>1. \A i \in Ids : ids[i] = IF i = ii THEN new ELSE row[uu][pp][tt][i]
    BY <1>a
  <2>2. \A t \in Tables : tables[t] = IF t = tt THEN ids ELSE row[uu][pp][t]
    BY <1>a
  <2>3. \A p \in Prefixes : prefixes[p] = IF p = pp THEN tables ELSE row[uu][p]
    BY <1>a
  <2>4. \A u \in Urls : row'[u] = IF u = uu THEN prefixes ELSE row[u]
    BY <1>3, <1>e
  <2> HIDE DEF ids, tables, prefixes, uu, pp, tt, ii
  <2>5. \A t \in Tables, i \in Ids :
          tables[t][i] = IF t = tt /\ i = ii THEN new ELSE row[uu][pp][t][i]
    BY <2>1, <2>2
  <2>6. \A p \in Prefixes, t \in Tables, i \in Ids :
          prefixes[p][t][i] = IF p = pp /\ t = tt /\ i = ii THEN new ELSE row[uu][p][t][i]
    BY <2>3, <2>5
  <2> QED
    BY <2>4, <2>6
<1>7. RowsOK'
  BY <1>5, <1>6 DEF IInv, TypeOK, RowsOK
<1> QED
  BY <1>6, <1>7

LEMMA CoalesceType ==
  ASSUME NEW S, NEW old \in [S -> Values \cup {Null}], NEW input \in [S -> Values \cup {Null}]
  PROVE  /\ Coalesce(old, input) \in [S -> Values \cup {Null}]
         /\ \A f \in S : Coalesce(old, input)[f] = IF input[f] = Null THEN old[f] ELSE input[f]
  BY DEF Coalesce

LEMMA UpdateFacts ==
  ASSUME IInv, NEW r \in Requests, Update(r)
  PROVE  /\ Found(r) \in [Columns(req[r].table) -> Values \cup {Null}]
         /\ Write(r, Coalesce(Found(r), req[r].input))
         /\ Coalesce(Found(r), req[r].input) \in [Columns(req[r].table) -> Values \cup {Null}]
<1>1. Found(r) \in [Columns(req[r].table) -> Values \cup {Null}]
  BY PlaceFacts DEF IInv, TypeOK, RowsOK, Found, Update
<1> QED
  BY <1>1, PlaceFacts, CoalesceType DEF Update

LEMMA StatementStep ==
  ASSUME IInv, NEW r \in Requests, Statement(r)
  PROVE  IInv'
<1>1. CASE Insert(r) \/ Update(r) \/ Delete(r)
  <2>1. RowsOK'
    <3>1. CASE Insert(r)
      BY <3>1, PlaceFacts, WriteRow DEF Insert
    <3>2. CASE Update(r)
      BY <3>2, UpdateFacts, WriteRow DEF Update
    <3>3. CASE Delete(r)
      BY <3>3, WriteRow DEF Delete
    <3> QED
      BY <1>1, <3>1, <3>2, <3>3
  <2>2. /\ Confirm(r)
        /\ UNCHANGED <<settings, pools, cached>>
    BY <1>1 DEF Insert, Update, Delete
  <2>3. PICK pc \in Ended : Answer(r, pc)
    BY <2>2 DEF Confirm, Ended
  <2> QED
    BY <2>1, <2>2, <2>3, AnswerStep
<1>2. CASE Select(r) \/ RowNotFound(r) \/ QueryFails(r)
  <2>1. RowsOK'
    BY <1>2 DEF IInv, TypeOK, RowsOK, Select, RowNotFound, QueryFails, store
  <2>2. PICK pc \in Ended : Answer(r, pc)
    BY <1>2 DEF Select, RowNotFound, QueryFails, Ended
  <2>3. UNCHANGED <<settings, pools, cached>>
    BY <1>2 DEF Select, RowNotFound, QueryFails, store
  <2> QED
    BY <2>1, <2>2, <2>3, AnswerStep
<1> QED
  BY <1>1, <1>2 DEF Statement

LEMMA RefuseStep ==
  ASSUME IInv, NEW r \in Requests, NotConfigured(r) \/ QueryEndedPool(r)
  PROVE  IInv'
<1>1. /\ Answer(r, "failed")
      /\ "failed" \in Ended
      /\ UNCHANGED <<settings, pools, cached, row>>
  BY DEF NotConfigured, QueryEndedPool, Ended, store
<1>2. RowsOK'
  BY <1>1 DEF IInv, TypeOK, RowsOK
<1> QED
  BY <1>1, <1>2, AnswerStep

LEMMA InvStep == IInv /\ [Next]_vars => IInv'
<1> SUFFICES ASSUME IInv, [Next]_vars PROVE IInv'
  OBVIOUS
<1>1. CASE UNCHANGED vars
  BY <1>1 DEF vars, IInv, TypeOK, RequestsOK, RowsOK, OpenPoolIsCached,
     QueriesConfiguredDatabase, ReadsConfigured, UnderWay, HasPool, Open, Configuration
<1>2. ASSUME NEW r \in Requests, BackendStep(r) PROVE IInv'
  BY <1>2, ListStep, ReadUrlStep, RefuseStep, GetCachedStep, MakePoolStep, QueueStep
  DEF BackendStep
<1> QED
  BY <1>1, <1>2, StartStep, QueueStep, StatementStep, ChangeStep DEF Next

\* The inductive invariant holds of the payment integration.
THEOREM InvCorrect == Spec => []IInv
<1> QED
  BY InvInit, InvStep, PTL DEF Spec

\* No pool leaks: an open one is the one PaymentDbService holds.
THEOREM PoolCorrect == Spec => []OpenPoolIsCached
<1>1. IInv => OpenPoolIsCached
  BY DEF IInv
<1> QED
  BY <1>1, InvCorrect, PTL

\* Every query runs on a database that was configured while its request was
\* in progress.
THEOREM DatabaseCorrect == Spec => []QueriesConfiguredDatabase
<1>1. IInv => QueriesConfiguredDatabase
  BY DEF IInv
<1> QED
  BY <1>1, InvCorrect, PTL

\* A statement that changes a column of a row that stays is an update that
\* names the column.
LEMMA ColumnStep ==
  ASSUME IInv, NEW r \in Requests, Statement(r),
         NEW u \in Urls, NEW p \in Prefixes, NEW t \in Tables, NEW i \in Ids,
         NEW f \in Columns(t),
         row[u][p][t][i] # Null, row'[u][p][t][i] # Null,
         row'[u][p][t][i][f] # row[u][p][t][i][f]
  PROVE  /\ req[r].pc = "running" /\ req'[r].pc \in {"done", "failed"}
         /\ req[r].op = "update" /\ req[r].id = i /\ req[r].table = t
         /\ req[r].input[f] # Null
         /\ req[r].input[f] = row'[u][p][t][i][f]
<1> DEFINE uu == pools[req[r].pool].url
           pp == req[r].prefix
           tt == req[r].table
           ii == req[r].id
<1>1. CASE Insert(r)
  <2>1. row'[u][p][t][i] = IF u = uu /\ p = pp /\ t = tt /\ i = ii THEN req[r].input
                           ELSE row[u][p][t][i]
    BY <1>1, PlaceFacts, WriteRow DEF Insert
  <2>2. row[uu][pp][tt][ii] = Null
    BY <1>1 DEF Insert, Found
  <2> QED
    BY <2>1, <2>2
<1>2. CASE Delete(r)
  <2>1. row'[u][p][t][i] = IF u = uu /\ p = pp /\ t = tt /\ i = ii THEN Null
                           ELSE row[u][p][t][i]
    BY <1>2, WriteRow DEF Delete
  <2> QED
    BY <2>1
<1>3. CASE Update(r)
  <2> DEFINE new == Coalesce(Found(r), req[r].input)
  <2>1. /\ req[r].pc = "running"
        /\ req[r].op = "update"
        /\ \E pc \in {"done", "failed"} : req' = [req EXCEPT ![r] = [pc |-> pc]]
    BY <1>3 DEF Update, Confirm, Answer
  <2>0. /\ Found(r) \in [Columns(tt) -> Values \cup {Null}]
        /\ Write(r, new)
        /\ new \in [Columns(tt) -> Values \cup {Null}]
        /\ req[r].input \in [Columns(tt) -> Values \cup {Null}]
    BY <1>3, <2>1, UpdateFacts, PlaceFacts
  <2>2. row'[u][p][t][i] = IF u = uu /\ p = pp /\ t = tt /\ i = ii THEN new
                           ELSE row[u][p][t][i]
    <3> HIDE DEF new
    <3> QED
      BY <2>0, <2>1, WriteRow
  <2>3. u = uu /\ p = pp /\ t = tt /\ i = ii
    BY <2>2
  <2>4. new[f] = IF req[r].input[f] = Null THEN Found(r)[f] ELSE req[r].input[f]
    <3>1. \A g \in Columns(tt) :
            new[g] = IF req[r].input[g] = Null THEN Found(r)[g] ELSE req[r].input[g]
      <4> DEFINE S == Columns(tt)
                 old == Found(r)
                 input == req[r].input
      <4>1. old \in [S -> Values \cup {Null}] /\ input \in [S -> Values \cup {Null}]
        BY <2>0
      <4> HIDE DEF S, old, input
      <4>2. \A g \in S : Coalesce(old, input)[g] = IF input[g] = Null THEN old[g] ELSE input[g]
        BY <4>1, CoalesceType
      <4> QED
        BY <4>2 DEF S, old, input
    <3> QED
      BY <2>3, <3>1
  <2>5. Found(r)[f] = row[u][p][t][i][f]
    BY <2>3 DEF Found
  <2>6. req'[r].pc \in {"done", "failed"}
    BY <2>1 DEF IInv, TypeOK, RequestsOK
  <2> HIDE DEF new
  <2> QED
    BY <2>1, <2>2, <2>3, <2>4, <2>5, <2>6
<1>4. CASE Select(r) \/ RowNotFound(r) \/ QueryFails(r)
  BY <1>4 DEF Select, RowNotFound, QueryFails, store
<1> QED
  BY <1>1, <1>2, <1>3, <1>4 DEF Statement

\* Updates that overlap keep each other's columns (COALESCE in every UPDATE).
THEOREM OmittedColumnsCorrect == Spec => OmittedColumnsStay
<1> DEFINE Act ==
             \A u \in Urls, p \in Prefixes, t \in Tables, i \in Ids, f \in Watched :
               (row[u][p][t][i] # Null /\ row'[u][p][t][i] # Null
                  /\ f \in Columns(t) /\ row'[u][p][t][i][f] # row[u][p][t][i][f])
               => \E r \in Requests :
                    /\ req[r].pc = "running" /\ req'[r].pc \in {"done", "failed"}
                    /\ req[r].op = "update" /\ req[r].id = i /\ req[r].table = t
                    /\ req[r].input[f] # Null
                    /\ req[r].input[f] = row'[u][p][t][i][f]
<1>1. ASSUME IInv, Next PROVE Act
  <2>1. CASE UNCHANGED row
    BY <2>1
  <2>2. ASSUME NEW r \in Requests, Statement(r) PROVE Act
    BY <1>1, <2>2, ColumnStep
  <2>3. row' = row \/ \E r \in Requests : Statement(r)
    BY <1>1 DEF Next, ChangeSettings, StartRequest, BackendStep, ListSettings, ReadUrl,
       NotConfigured, GetCachedPool, MakePool, QueryEndedPool, EnterQueue, Connect, store
  <2> QED
    BY <2>1, <2>2, <2>3
<1>2. IInv /\ [Next]_vars => [Act]_vars
  BY <1>1
<1>3. [][Act]_vars => OmittedColumnsStay
  BY PTL DEF OmittedColumnsStay
<1> QED
  BY <1>2, <1>3, InvCorrect, PTL DEF Spec

-----------------------------------------------------------------------------
(* PaymentData implements PaymentTables: the start of a request is Ask, a   *)
(* statement that was carried out Serve, every other answer Refuse, and the *)
(* steps in between are not seen.                                           *)

LEMMA TablesInit == Init => Service!Init
<1> SUFFICES ASSUME Init PROVE Service!Init
  OBVIOUS
<1>1. IInv
  BY InvInit
<1>2. Configuration \in Service!Configurations
  BY <1>1 DEF IInv, TypeOK, Configuration, Service!Configurations
<1>3. row \in [Urls -> [Prefixes -> [Tables -> [Ids -> Rows \cup {Null}]]]]
  BY <1>1 DEF IInv, TypeOK, RowsOK
<1>4. \A r \in Requests : Seen(r) = [state |-> "idle"]
  BY DEF Init, Idle, Seen, UnderWay
<1> QED
  BY <1>2, <1>3, <1>4 DEF Service!Init

\* What is seen of the requests that a step does not touch.
LEMMA OthersSeen ==
  ASSUME NEW s \in Requests, req'[s] = req[s], configured'[s] = configured[s]
  PROVE  Seen(s)' = Seen(s)
  BY DEF Seen, UnderWay

LEMMA AnswerSeen ==
  ASSUME IInv, NEW r \in Requests, NEW pc \in Ended, Answer(r, pc)
  PROVE  Service!Answer(r, pc)
<1> DEFINE q == [pc |-> pc]
<1>1. q.pc \notin {"list", "plaintext", "pool", "query", "queued", "running"} /\ q.pc = pc
  BY DEF Ended
<1>2. /\ req' = [req EXCEPT ![r] = q]
      /\ configured' = [configured EXCEPT ![r] = {}]
  BY DEF Answer
<1>3. Seen(r)' = [state |-> pc]
  BY <1>1, <1>2 DEF IInv, TypeOK, RequestsOK, Seen, UnderWay
<1>4. \A s \in Requests \ {r} : Seen(s)' = Seen(s)
  BY <1>2, OthersSeen DEF IInv, TypeOK, RequestsOK
<1>5. [s \in Requests |-> Seen(s)]' = [[s \in Requests |-> Seen(s)] EXCEPT ![r] = [state |-> pc]]
  BY <1>3, <1>4
<1> QED
  BY <1>5 DEF Service!Answer

\* A step on the way to the statement.
LEMMA HiddenStep ==
  ASSUME IInv, NEW r \in Requests, NEW q,
         UnderWay(r),
         req' = [req EXCEPT ![r] = q],
         q.pc \in {"list", "plaintext", "pool", "query", "queued", "running"},
         q.op = req[r].op, q.table = req[r].table, q.id = req[r].id, q.input = req[r].input,
         UNCHANGED <<settings, row, configured>>
  PROVE  UNCHANGED Service!vars
<1>1. Configuration' = Configuration
  BY DEF settings, Configuration
<1>2. Seen(r)' = Seen(r)
  BY DEF IInv, TypeOK, RequestsOK, Seen, UnderWay
<1>3. \A s \in Requests \ {r} : Seen(s)' = Seen(s)
  BY OthersSeen DEF IInv, TypeOK, RequestsOK
<1>4. [s \in Requests |-> Seen(s)]' = [s \in Requests |-> Seen(s)]
  BY <1>2, <1>3
<1> QED
  BY <1>1, <1>4 DEF Service!vars

LEMMA BackendHidden ==
  ASSUME IInv, NEW r \in Requests,
         \/ ListSettings(r) \/ ReadUrl(r) \/ GetCachedPool(r)
         \/ MakePool(r) \/ EnterQueue(r) \/ Connect(r)
  PROVE  UNCHANGED Service!vars
<1> DEFINE o == req[r]
<1>1. UnderWay(r) /\ UNCHANGED <<settings, row, configured>>
  BY DEF ListSettings, ReadUrl, GetCachedPool, ReusesPool, MakePool, EnterQueue, Connect, UnderWay, store
<1>2. o \in InProgress
  BY <1>1, RequestFacts
<1>3. PICK q \in {[o EXCEPT !.pc = "plaintext", !.prefix = prefix],
                 [o EXCEPT !.pc = "pool", !.url = url],
                 [o EXCEPT !.pc = "query", !.pool = cached],
                 [o EXCEPT !.pc = "query", !.pool = Len(pools) + 1],
                 [o EXCEPT !.pc = "queued"],
                 [o EXCEPT !.pc = "running"]} :
        req' = [req EXCEPT ![r] = q]
  <2>1. CASE ListSettings(r)
    BY <2>1 DEF ListSettings
  <2>2. CASE ReadUrl(r)
    BY <2>2 DEF ReadUrl
  <2>3. CASE GetCachedPool(r)
    BY <2>3 DEF GetCachedPool
  <2>4. CASE MakePool(r)
    BY <2>4 DEF MakePool
  <2>5. CASE EnterQueue(r) \/ Connect(r)
    BY <2>5 DEF EnterQueue, Connect, Goto
  <2> QED
    BY <2>1, <2>2, <2>3, <2>4, <2>5
<1>4. /\ q.pc \in {"list", "plaintext", "pool", "query", "queued", "running"}
      /\ q.op = o.op
      /\ q.table = o.table
      /\ q.id = o.id
      /\ q.input = o.input
  <2> HIDE DEF o
  <2> QED
    BY <1>2, <1>3 DEF InProgress
<1> QED
  BY <1>1, <1>3, <1>4, HiddenStep

LEMMA StartSeen ==
  ASSUME IInv, NEW r \in Requests, StartRequest(r)
  PROVE  Service!Ask(r)
<1>1. PICK role \in {"SuperAdmin", "Admin", "Mitarbeiter"}, op \in Operations,
             t \in Tables, i \in Ids :
        /\ role \in RouteRoles[op]
        /\ \E input \in Inputs(op, t) :
             req' = [req EXCEPT ![r] =
                       [pc |-> "list", op |-> op, table |-> t, id |-> i,
                        input |-> input, prefix |-> Unset, url |-> Unset, pool |-> 0]]
  BY Zenon DEF StartRequest
<1>2. PICK input \in Inputs(op, t) :
        req' = [req EXCEPT ![r] =
                  [pc |-> "list", op |-> op, table |-> t, id |-> i,
                   input |-> input, prefix |-> Unset, url |-> Unset, pool |-> 0]]
  BY <1>1
<1> DEFINE q == [pc |-> "list", op |-> op, table |-> t, id |-> i,
                 input |-> input, prefix |-> Unset, url |-> Unset, pool |-> 0]
           a == [op |-> op, table |-> t, id |-> i, input |-> input]
           seen == [state |-> "asked", ask |-> a, seen |-> {Configuration}]
<1>3. /\ req[r].pc = "idle"
      /\ configured' = [configured EXCEPT ![r] = {Configuration}]
      /\ UNCHANGED <<settings, store>>
  BY DEF StartRequest
<1>4. a \in Asks
  <2>1. input \in Rows
    BY DEF Inputs, Rows
  <2> QED
    BY <2>1 DEF Asks
<1>5. Seen(r) = [state |-> "idle"]
  BY <1>3 DEF Seen, UnderWay
<1>6. Seen(r)' = seen
  BY <1>2, <1>3 DEF IInv, TypeOK, RequestsOK, Seen, UnderWay
<1>7. \A s \in Requests \ {r} : Seen(s)' = Seen(s)
  BY <1>2, <1>3, OthersSeen DEF IInv, TypeOK, RequestsOK
<1>8. [s \in Requests |-> Seen(s)]' = [[s \in Requests |-> Seen(s)] EXCEPT ![r] = seen]
  <2> HIDE DEF seen
  <2> QED
    BY <1>6, <1>7
<1>9. UNCHANGED <<Configuration, row>>
  BY <1>3 DEF settings, store, Configuration
<1>10. [s \in Requests |-> Seen(s)][r].state = "idle"
  BY <1>5
<1>11. \E ask \in Asks :
         [s \in Requests |-> Seen(s)]' =
           [[s \in Requests |-> Seen(s)] EXCEPT ![r] =
              [state |-> "asked", ask |-> ask, seen |-> {Configuration}]]
  BY <1>4, <1>8
<1> QED
  BY <1>9, <1>10, <1>11 DEF Service!Ask

LEMMA ChangeSeen ==
  ASSUME IInv, ChangeSettings
  PROVE  Service!Configure
<1>1. /\ configured' = [r \in Requests |->
                          IF configured[r] = {} THEN {}
                          ELSE configured[r] \cup {Configuration'}]
      /\ UNCHANGED <<row, req>>
  BY DEF ChangeSettings
<1>2. Configuration' \in Service!Configurations
  BY ChangeStep DEF IInv, TypeOK, Configuration, Service!Configurations
<1>3. ASSUME NEW s \in Requests
      PROVE  Seen(s)' = IF Seen(s).state = "asked"
                        THEN [Seen(s) EXCEPT !.seen = @ \cup {Configuration'}] ELSE Seen(s)
  <2>1. CASE UnderWay(s)
    <3>1. configured'[s] = configured[s] \cup {Configuration'}
      BY <1>1, <2>1 DEF IInv, ReadsConfigured
    <3>2. UnderWay(s)'
      BY <1>1, <2>1 DEF UnderWay
    <3> QED
      BY <1>1, <2>1, <3>1, <3>2 DEF Seen
  <2>2. CASE ~UnderWay(s)
    <3>1. Seen(s) = [state |-> req[s].pc] /\ req[s].pc # "asked"
      BY <2>2 DEF Seen, IInv, TypeOK, RequestsOK, Request, Ended
    <3>2. Seen(s)' = Seen(s)
      BY <1>1, <2>2 DEF Seen, UnderWay
    <3> QED
      BY <3>1, <3>2
  <2> QED
    BY <2>1, <2>2
<1>4. [s \in Requests |-> Seen(s)]' =
        [s \in Requests |->
           IF Seen(s).state = "asked"
           THEN [Seen(s) EXCEPT !.seen = @ \cup {Configuration'}] ELSE Seen(s)]
  BY <1>3
<1> QED
  BY <1>1, <1>2, <1>4 DEF Service!Configure, Service!Asked

LEMMA RefusalSeen ==
  ASSUME IInv, NEW r \in Requests, NotConfigured(r) \/ QueryEndedPool(r) \/ QueryFails(r)
  PROVE  Service!Refuse(r)
<1>1. UnderWay(r) /\ Answer(r, "failed") /\ UNCHANGED <<settings, row>>
  BY DEF NotConfigured, QueryEndedPool, QueryFails, UnderWay, store
<1>2. Seen(r).state = "asked" /\ UNCHANGED <<Configuration, row>>
  BY <1>1 DEF Seen, settings, Configuration
<1> QED
  BY <1>1, <1>2, AnswerSeen DEF Service!Refuse, Service!Asked, Ended

LEMMA StatementSeen ==
  ASSUME IInv, NEW r \in Requests, Statement(r), ~QueryFails(r)
  PROVE  Service!Serve(r)
<1> DEFINE u == pools[req[r].pool].url
           p == req[r].prefix
           a == [op |-> req[r].op, table |-> req[r].table, id |-> req[r].id,
                 input |-> req[r].input]
           old == row[u][p][a.table][a.id]
           Put(new) == row' = [row EXCEPT ![u][p][a.table][a.id] = new]
<1>1. /\ req[r].pc = "running"
      /\ UnderWay(r)
      /\ UNCHANGED settings
  BY DEF Statement, Select, Insert, Update, Delete, RowNotFound, QueryFails, UnderWay
<1>2. /\ Seen(r).state = "asked"
      /\ Seen(r).ask = a
      /\ Seen(r).seen = configured[r]
  BY <1>1 DEF Seen
<1>3. PICK b \in configured[r] : b.url = u
  BY <1>1 DEF IInv, QueriesConfiguredDatabase
<1>4. PICK c \in configured[r] : c.prefix = p
  BY <1>1, ConfiguredFacts
<1>5. u \in Urls
  BY <1>1, PlaceFacts
<1>6. \/ /\ a.op = "read" /\ old # Null
         /\ Service!Answer(r, "done") /\ UNCHANGED row
      \/ /\ a.op # "create" /\ old = Null
         /\ Service!Answer(r, "notfound") /\ UNCHANGED row
      \/ /\ a.op = "create" /\ old = Null
         /\ Put(a.input) /\ Service!Confirm(r)
      \/ /\ a.op = "update" /\ old # Null
         /\ Put(Service!Merged(old, a.input)) /\ Service!Confirm(r)
      \/ /\ a.op = "delete" /\ old # Null
         /\ Put(Null) /\ Service!Confirm(r)
  <2>1. Found(r) = old /\ \A new : Write(r, new) <=> Put(new)
    BY DEF Found, Write
  <2>2. Confirm(r) => Service!Confirm(r)
    BY AnswerSeen DEF Confirm, Service!Confirm, Ended
  <2>3. Coalesce(old, a.input) = Service!Merged(old, a.input)
    BY DEF Coalesce, Service!Merged
  <2>4. \A pc \in {"done", "notfound"} : Answer(r, pc) => Service!Answer(r, pc)
    BY AnswerSeen DEF Ended
  <2> HIDE DEF old, Put
  <2>5. CASE Select(r)
    BY <2>1, <2>4, <2>5 DEF Select, store
  <2>6. CASE RowNotFound(r)
    BY <2>1, <2>4, <2>6 DEF RowNotFound, store
  <2>7. CASE Insert(r)
    BY <2>1, <2>2, <2>7 DEF Insert
  <2>8. CASE Update(r)
    BY <2>1, <2>2, <2>3, <2>8 DEF Update
  <2>9. CASE Delete(r)
    BY <2>1, <2>2, <2>9 DEF Delete
  <2> QED
    BY <2>5, <2>6, <2>7, <2>8, <2>9 DEF Statement
<1>7. Service!Work(r)
  <2> DEFINE request == [s \in Requests |-> Seen(s)]
             ask == request[r].ask
  <2>1. ask = a /\ b \in request[r].seen /\ c \in request[r].seen
    BY <1>2
  <2>2. b.url \in Urls
    BY <1>3, <1>5
  <2>3. \/ /\ ask.op = "read" /\ row[b.url][c.prefix][ask.table][ask.id] # Null
           /\ Service!Answer(r, "done") /\ UNCHANGED row
        \/ /\ ask.op # "create" /\ row[b.url][c.prefix][ask.table][ask.id] = Null
           /\ Service!Answer(r, "notfound") /\ UNCHANGED row
        \/ /\ ask.op = "create" /\ row[b.url][c.prefix][ask.table][ask.id] = Null
           /\ row' = [row EXCEPT ![b.url][c.prefix][ask.table][ask.id] = ask.input]
           /\ Service!Confirm(r)
        \/ /\ ask.op = "update" /\ row[b.url][c.prefix][ask.table][ask.id] # Null
           /\ row' = [row EXCEPT ![b.url][c.prefix][ask.table][ask.id] =
                        Service!Merged(row[b.url][c.prefix][ask.table][ask.id], ask.input)]
           /\ Service!Confirm(r)
        \/ /\ ask.op = "delete" /\ row[b.url][c.prefix][ask.table][ask.id] # Null
           /\ row' = [row EXCEPT ![b.url][c.prefix][ask.table][ask.id] = Null]
           /\ Service!Confirm(r)
    <3> HIDE DEF ask, request, a, u, p
    <3> QED
      BY <1>3, <1>4, <1>6, <2>1
  <2> QED
    BY <2>1, <2>2, <2>3, ZenonT(60) DEF Service!Work
<1>8. UNCHANGED Configuration
  BY <1>1 DEF settings, Configuration
<1> QED
  BY <1>2, <1>7, <1>8 DEF Service!Serve, Service!Asked

LEMMA TablesStep == IInv /\ [Next]_vars => [Service!Next]_Service!vars
<1> SUFFICES ASSUME IInv, [Next]_vars PROVE [Service!Next]_Service!vars
  OBVIOUS
<1>1. CASE UNCHANGED vars
  <2>1. Configuration' = Configuration
    BY <1>1 DEF vars, Configuration
  <2>2. [s \in Requests |-> Seen(s)]' = [s \in Requests |-> Seen(s)]
    BY <1>1 DEF vars, Seen, UnderWay
  <2> QED
    BY <1>1, <2>1, <2>2 DEF vars, Service!vars
<1>2. ASSUME NEW r \in Requests, StartRequest(r) PROVE Service!Next
  BY <1>2, StartSeen DEF Service!Next
<1>3. ASSUME NEW r \in Requests, BackendStep(r) \/ Connect(r)
      PROVE  [Service!Next]_Service!vars
  BY <1>3, BackendHidden, RefusalSeen DEF BackendStep, Service!Next
<1>4. ASSUME NEW r \in Requests, Statement(r) PROVE Service!Next
  BY <1>4, StatementSeen, RefusalSeen DEF Service!Next
<1>5. CASE ChangeSettings
  BY <1>5, ChangeSeen DEF Service!Next
<1> QED
  BY <1>1, <1>2, <1>3, <1>4, <1>5 DEF Next

\* To its callers the payment integration is a set of tables in which every
\* request works at one moment, in a database that was configured by then.
THEOREM TablesImplemented == Spec => ImplementsTables
<1>1. Init => Service!Init
  BY TablesInit
<1>2. IInv /\ [Next]_vars => [Service!Next]_Service!vars
  BY TablesStep
<1> QED
  BY <1>1, <1>2, InvCorrect, PTL DEF Spec, ImplementsTables, Service!Spec

=============================================================================
