# Formal models of VibeOCPP

TLA+ specifications of the parts of this repository whose correctness depends
on the order in which things happen: the OCPP test suite, the provisioning of
charging stations, sessions in the backend and in the browser, the versioned
settings, the calls of CitrineOS, the payment integration, and the
administration pages. TLC checks them on small instances; TLAPS proves the
safety results of every module for every instance.

`PROJECT.json` lists the components, the runs, the source lines behind every
definition, the hazards and the theorems. Paths below are relative to the
repository, without the leading `src/`.

## The system

VibeOCPP is a NestJS backend with a Postgres database, a React frontend, a
small agent that restarts containers, and an external CSMS, CitrineOS, which
talks OCPP to the charging stations.

| Component | State | Operations | Talks to |
|---|---|---|---|
| Test suite (`backend/src/testsuite`) | `test_suite_run`, `test_suite_step`; one in-process executor per run | start a run, execute a step, receive a callback | CitrineOS message API (commands), message log (polling), its own rows (polling) |
| Webhook and message log (`backend/src/citrineos`) | `citrineos_message_log` | record an event, reconcile a BootNotification | called by CitrineOS; calls provisioning |
| Provisioning (`backend/src/locations`, `backend/src/unknown-chargers`) | `locations`, `planned_stations`, `planned_connectors`, `unknown_chargers` | create and remove locations, plan stations, assign and dismiss unknown chargers | called by the webhook and by administrators |
| Authentication and users (`backend/src/auth`, `users`) | `users`, `refresh_tokens` | login, refresh, logout, activate and deactivate | called by every client |
| CitrineOS gateway (`citrineos-http-client`, `-message-api`, `-data-api`, `-subscription`) | none of its own; subscriptions held by CitrineOS | commands with one retry, idempotent subscription | CitrineOS |
| Settings (`backend/src/settings`) | `settings`, `settings_history` | upsert, rollback, decrypt | read by gateway, payment, callback endpoint |
| Payment (`backend/src/payment`) | one connection pool per tenant, the five tables of citrineos-payment | partial updates of citrineos-payment's tables | a second database |
| Audit (`backend/src/audit`) | `audit_logs` | append after the response | - |
| Ops (`backend/src/ops`, `ops-agent`) | none | status, logs, restart of a container | Docker |
| Frontend session (`frontend/src/auth`, `lib/api-client.ts`) | access token in memory, refresh token in localStorage, the refresh in flight | login, refresh, logout | authentication endpoints |
| Frontend pages (`frontend/src/pages`) | the query cache, drafts of dialogs, mutations in flight | lists, dialogs, buttons, polling | backend |

What makes these hard:

* The backend is single threaded, but every `await` lets any other request
  run. Almost nothing uses a transaction: operations read, decide and write in
  separate calls, and a later call does not look at the condition again.
* The executor of a test suite run lives in memory only. Results of a command
  step arrive at an independent HTTP endpoint; the executor polls the row that
  endpoint writes, and both write it when a deadline passes.
* Any database or HTTP call may throw in the middle of an operation, and the
  process may be restarted at any point.
* CitrineOS and the stations answer late, twice, spontaneously or never.

What correct means for each component:

* test suite: steps are settled in order and once, a pass has evidence, a run ends;
* provisioning: nothing is shown as live that never connected, uniqueness and
  references survive the checks made before the writes, a boot links a station;
* authentication: a token is spent by its use, a deactivated account is locked out;
* gateway: what the user of a command is told is true, a command is sent again only
  if its first attempt was lost, an ensured station is heard, repeating the
  call adds no subscription;
* settings: a secret is never readable in the database and what ciphertext there is
  is that of a secret, the history tells what was so, a rollback brings back one
  version as a whole;
* payment: every replaced pool is ended, a request works once, at one moment and in
  a database that was configured, a partial update leaves the other columns alone;
* frontend session: one refresh at a time that releases all its callers, a page
  never replays its own token, no spent token stays behind;
* pages: a list is not taken for up to date without a change the page was told of, a
  draft creates one row, the end of a watched run, if it comes, is seen.

## Modules

| Module | Models |
|---|---|
| `StepPipeline` | what the user of the test suite sees: an ordered pipeline of steps (abstract) |
| `TestSuiteRun` | executor, callback endpoint, message log, secret; implements `StepPipeline` |
| `MCTestSuiteRun` | step catalogs and constants for TLC |
| `TestSuiteRunProofs` | proofs about `TestSuiteRun` |
| `Provisioning`, `MCProvisioning` | webhook reconciliation and the administrators' operations |
| `ProvisioningProofs` | proofs about `Provisioning` |
| `RefreshTokens`, `MCRefreshTokens` | login, refresh, logout, deactivation |
| `RefreshTokensProofs` | proofs about `RefreshTokens` |
| `FrontendSession`, `MCFrontendSession` | tabs of a browser, their shared refresh token and their calls |
| `FrontendSessionProofs` | proofs about `FrontendSession` |
| `Settings`, `MCSettings` | upsert, rollback and list at READ COMMITTED |
| `SettingsProofs` | proofs about `Settings` |
| `CommandDelivery` | what the user of a command is promised (abstract) |
| `CitrineGateway`, `MCCitrineGateway` | the HTTP client, commands and subscriptions, over an unreliable network; implements `CommandDelivery` |
| `CitrineGatewayProofs` | proofs about `CitrineGateway` |
| `PaymentTables` | the payment tables as the callers of the routes see them: atomic requests, no pools (abstract) |
| `PaymentData`, `MCPaymentData` | the connection pool and the statements on the payment tables; implements `PaymentTables` |
| `PaymentDataProofs` | proofs about `PaymentData` |
| `AdminPages`, `MCAdminPages` | lists, dialogs, buttons and polling of the administration pages |
| `AdminPagesProofs` | proofs about `AdminPages` |

In every module an action is what the code does between two `await`s, or one
database call; `pc` (of an executor or of a request) says which call comes
next and the other fields are the locals that are still needed. A definition
preceded by a comment that starts with "Mutant:" is never part of a
specification: it is a plausible bug in the definition that follows it, used
to see that a property would notice.

### TestSuiteRun

`pc[r]` follows `TestSuiteRunService.executeRun` and
`TestSuiteStepExecutor.execute`: `load` (both reads of the rows), `next` (the
loop head), then for a trigger step `trigger`, `mark`, for an observe step
`mark`, for a command step `config`, `mark`, `command`, and `poll`/`decide`
for `pollUntil`. `write` is `finish()`, `rescue` the `finish()` of the catch
block, `complete` and `abort` the two last updates of the run. `StepThrows`
is the catch block of `execute`, `RunThrows` that of `executeRun`.

Time is not a number. `began` is the local `startedAt` as a position in the
message log (`received` counts the messages of an action from a station), so
"received after startedAt" is a comparison of counts, and `DeadlinePasses`
may happen at any moment of a wait. `pollUntil` looks at the clock only after
a check that found nothing, and so does `DecideWait`.

`handler[h]` is a request at the callback endpoint: `ReceiveCallback` reads
the step, `AuthoriseCallback` reads the secret, compares it with the one of
the URL and looks at the status read before, `ApplyCallback` writes by id.
CitrineOS may answer a command it holds (`sent`) at any time, any number of
times, with a result or an OCPP error, also when the executor was told that
the command could not be delivered.

`Restart` ends every executor and request and keeps the rows. It stands for a
crash, a deployment, the Ops restart, and for the process that ends because
the update to 'aborted' throws in the catch block of `executeRun`, which
nobody handles.

Assumptions: a database write that throws has not taken effect; a URL the
executor built is not known to anybody else than CitrineOS; the base URL of
the webhook may be missing whenever it is read.

### Provisioning

`request[q]` is an HTTP request in progress, at most one per element of
`Requests`. The unique index on `chargeboxId` and the foreign key to
`locations` are in `CreateStation`, `SetChargeboxId` and `DeleteLocation`;
they come from the migration. `unknown[b].id` tells successive rows of one
chargeboxId apart, since `dismiss` updates by row id. `connectors[c]` counts
the rows of one station and connector number, which `createConnector` checks
and a third unique index guards. One tenant, as in the code that resolves the
default tenant. `attemptCount`, which is only displayed, and `update` of a
location, which changes its address only, are left out.

### RefreshTokens

A row of `refresh_tokens` is numbered in the order of its insertion and keeps
its parent, the token it was exchanged for. `parent` is history: the table has
no such column, the properties need it. The owner test of `refresh` and
the hash of the token are the identity of the row. Any client may present any
token that was ever issued, any number of times.

### FrontendSession

The client's side of the same tokens. `page[t]` is the state of
`AuthProvider` in one tab: what React has been told (`status`, `access`), what
the last render shows and has handed to `configureApiClient` (`view`,
`provider`), and `refreshInFlight`. `access` says whether there is an access
token that is not about to expire: to `getAccessToken` an expired one is as
good as none. `stored` is the refresh token in localStorage, which all tabs
share.

`getAccessToken` is split by its outcomes: `CallWithToken`,
`CallJoinsRefresh` (line 70), `CallStartsRefresh` and `CallFindsNoToken` (lines
72-77, where nothing is awaited, so the promise is settled when line 93 stores it).
`RefreshAnswered` is the rest of `run()` with the continuations of all callers,
`CallUnauthorized` the 401 branch of `rawFetch`.

`requests` holds the requests to `/auth` with their answers, delivered in any
order; each may be refused or lost before or after the backend has acted
(`RequestFails`). `Reload` discards a page; its unanswered requests may still
arrive, owned by nobody. `spentBy` records who exchanged a token and is
history, kept for `NoReplay`. The backend exchanges a token in one step here;
its interleavings are the subject of `RefreshTokens`. Assumptions: a page sends
one login form at a time; an access token does not expire between a
`setAccessToken` and the render that follows.

### Settings

`upsert` and `rollback` are Prisma transactions. Postgres runs them at READ
COMMITTED, so a read sees what is committed by then and takes no lock:
`StartUpsert` is the read of the row, `UpdateSetting` or `CreateSetting` the
writes with the commit; `StartRollback` and `FindTarget` are the two reads of a
rollback, `Restore` its writes. `CreateSetting` fails on the unique index if
another request was faster. `UpdatedRow` writes what Prisma writes: an
`undefined` column keeps what the row holds *when the update runs*, not what was
read. `Candidates` holds all history rows of the version asked for, since
`findFirst` without an order may return any of them. Encryption is an injective
function; the three columns of a ciphertext are one. `was` and `overwrote` are
history. `SecretsAreSealed` looks at the ciphertext of every row, of a readable type
too: one that is left from before must be that of a value which was a secret
(`CipherOfSecret`). That nothing is left is what the schema says; see the violations.

### CitrineGateway

`call[c]` is one request of a user from its first HTTP request to CitrineOS to
its end: `attempt` (fetch is about to be called), `waiting` (for the status
line, with the timer running), `body` (the timer is cleared). The client's one
retry is `Retry`; it follows `NetworkFails` and `BodyFails`, which are no
CitrineOsApiError, and neither `TimesOut` nor `Refused`. `lost` says that one of
the two ended the first attempt: before the answer, or while it was read. An attempt stays on the
`wire` until CitrineOS serves it, also when its call has given up; what nobody
waits for any more is served all the same. `ensureSubscribed` is `StartEnsure`
(which reads URL and secret), a `list` request and, if nothing matches, a
`create` request. CitrineOS is external: it carries out, lists, creates,
deletes or refuses, and gives every subscription a new id. The secret stands
for the callback URL. `made`, `carried` and `present` are history. Assumption:
the URLs of CitrineOS are configured; without them every call ends with a 400
before it sends anything.

`CommandDelivery` is the same for a reader who only sends commands: the attempts
that were sent, whether the first was lost, and the answer.
`Seen` reads these from a call. It counts an attempt as sent when fetch is called;
arrivals that are too late, and the calls for subscriptions, are hidden.
`ImplementsDelivery` says that a confirmed command was carried out, that a
second attempt takes a first one that was lost, and that a command is carried out no
more often than it was sent. The client's comment promises more, that nothing is sent
again once there was a response: `RetriedOnlyBeforeResponse`, which is violated. It does not say that a failed command was not carried
out: a timeout leaves that open.

### PaymentData

A request takes one step per `await`: the list of settings, the decrypted URL,
the look-up of the pool, the query, the statement. `getPool` has no `await`
after the configuration was read, so `MakePool` ends the old pool and caches
the new one in one step. The five sections of `PaymentDataService` have one
shape; they differ in their columns (`OperatorsTable` and its like) and share
the statements `Select`, `Insert`, `Update` and `Delete`. node-postgres is
external: a query on a pool that was ended is refused, a queued one of such a
pool is never served, and the answer of a statement that has worked may be lost with
its connection (`Confirm`). `configured[r]` is history: the pairs of URL and prefix
that were configured while `r` was under way.

`PaymentTables` hides pools, connections and queues: a request is asked, works at
one moment on one row, and is answered. `ImplementsTables` says that `PaymentData`
does no more than that, however pools are replaced: a request works at most once,
not at all if it is told "not found" or is refused, and in a database that was
configured while it ran. The code reads the prefix and the URL in two calls, so they
may be those of two configurations; this is why `Work` picks two.

### AdminPages

A component (a dialog, a form, a button) is a record: where it is mounted,
which queries its onSuccess invalidates, whether it clears its draft. The
actions are those of a user (`Navigate`, `Open`, `Close`, `Type`, `Submit`,
`Press`), of the backend (`Commit`, `RunEnds`) and of TanStack Query: a query is
read when it is mounted, invalidated, polled or stale, an invalidation cancels
a read in flight if there is data and joins it if there is none. `lacks`
notes in a snapshot, on the page or on its way to it, whether a change of the
page's own is missing from it and whether the user has been told of that change
since (`Told`): a snapshot marked so that came back as the valid content of a list
would break `ListsShowConfirmedChanges`. Pages share no query across
areas, so a behaviour stays in one area of the frontend.

Assumptions: `isPending` disables a button at once, while in the browser it does so
with the next rendering; of the dialogs that exist once per `LocationCard`, one is
used.

## Runs

| Run | Question | Bounds |
|---|---|---|
| `testsuite` | Does a run implement the pipeline, pass only on evidence, keep its steps in order and settled whatever callbacks arrive, and end? | one run, four steps (trigger, two commands, a command without parameters), two callback requests, one secret that may be unset, one message per action |
| `testsuite_late_callback` | Violated: is a result the executor has moved past never overwritten? | one run, two commands, one callback request, one secret |
| `provisioning` | Do the uniqueness, reference and link properties survive two interleaved requests and failing calls? | two chargers, two stations, one connector, one location, two requests, two unknown rows per charger |
| `refresh_tokens` | Are spent tokens final and deactivated accounts locked out, and does the inductive invariant hold? | two accounts, three tokens, two requests |
| `frontend` | Is the shared refresh one refresh, does it release every caller, does "loading" end; does a page never replay its own token, and does no spent token stay in the browser? | one tab, two calls, three tokens, two reloads |
| `frontend_settled` | Violated: do callers always await a refresh in flight? | two tabs, one call each, no reload |
| `settings` | What do overlapping upserts and rollbacks leave in the row and in its history? | one setting, two values, two types, three requests, no request starts on more than three history rows |
| `settings_ciphertext` | Violated: is there no ciphertext in the row of a setting that is not a secret? | as above with one request |
| `gateway` | Does the gateway implement `CommandDelivery` (what may a retry repeat, what does "confirmed" tell), what does an ensured subscription guarantee, does every call end? | two calls, one station, two secrets, one change of the secret |
| `gateway_retry` | Violated: is a request repeated only before any response? | as above with one call and one secret |
| `payment` | Does the integration implement `PaymentTables`, and do pools and partial updates survive a change of the URL? | two requests, two URLs, one prefix, one table with two of its columns, one row, one connection per pool, two changes |
| `pages` | Do the lists, drafts and polls of every page stay true to what the user was told? | all five areas, one station, two requests in flight, one typed draft, one run |

Why the bounds are enough: steps interact only with their neighbours (the
executor works on one step at a time), so two commands, with one between them that is not
sent, show every overlap of a late callback with later steps, and the four steps take
every path of the executor but that of an observe step, which is a trigger step without the
sending; the proofs cover it. Runs share nothing but the message log and
the secret, which the model changes at will; the proofs cover any number of
runs. A read-then-write race needs two requests; the third party of a race in
`provisioning` is an operation of one call (`CreateLocation`), which needs no request.
Two unknown rows per charger let a row be cleared and created again under a
request that holds its id. Three tokens allow a chain of two refreshes and
two children of one token. A stampede needs two calls of one page, a lost or
superseded exchange a second page over one localStorage. In `frontend` that is the
page as it was before a reload, whose requests go on while its successor presents the
same token; two reloads give two such predecessors. Two tabs that are both alive,
with reloads, are more than TLC can take with the liveness properties; they occur in
`frontend_settled`, and the proofs of the safety properties cover any number of tabs.

A lost version of a setting needs two requests that read before either
writes; the third one sees, and rolls back to, what they left. A doubled
subscription needs two calls; a change of the secret between them shows the
stale URL. In `payment`, one connection per pool makes the queue long at once,
and two changes of the URL bring the first URL back while a request still holds the
second; a second prefix takes TLC too long and is left to the proof. In `pages` two requests in flight are a change and the one that
overtakes it, and one draft is enough to be sent twice; more stations would
only lengthen the lists.

Symmetry is used for interchangeable requests and accounts, and only in
runs without liveness. `payment` and `pages` disable the deadlock check:
a payment instance makes each request once and stops when all are answered (or
wait for a pool that was ended), and pages stop when every bound is used up.

### The violations

1. `LateCallbackIgnored`. `receiveCallback` reads the step, awaits the secret,
   and then trusts the status it has read; its update is by id. If the deadline
   passes in between, 'timeout' is overwritten by a late answer although the
   comment in the handler excludes that. `SettledIsFinal` is what does hold: a
   callback that arrives after the executor has left the step changes nothing.
2. `AwaitsInFlight`. When `refreshSession` finds no stored token it clears the
   session and returns before its `try`; `refreshInFlight` then keeps a promise
   that has resolved to null, and only a reload gets rid of it. It takes another tab that
   logs out, or loses its refresh, and a call of this page once its access
   token has expired. After the next login, that page cannot refresh: its first call
   after expiry goes out without a token and the 401 ends the session.
   `OneRefreshPerPage` and `CallsReturn` are what does hold.
3. `CiphertextOnlyOfSecrets`. `schema.prisma` says of the three columns of a
   ciphertext that they are null when the setting is not a secret. `upsert` passes
   `undefined` for them if the new type is not secret, and Prisma then leaves them
   as they are: the old secret stays in the row, and goes into the history with the
   next change. `SecretsAreSealed` is what does hold.
4. `RetriedOnlyBeforeResponse`. The comment above `CitrineOsHttpClient` says that a
   request is repeated only when fetch itself threw, before any response.
   `response.text()` is called after the `try` and what it throws is no
   CitrineOsApiError, so a command to which CitrineOS has responded, with whatever
   status, is sent again when the connection breaks while the body is read.
   `ImplementsDelivery` says what does hold.

The models also reach states which a user would not expect and no run claims
to exclude; they are listed as hazards:

* `Provisioning`: a station planned between the webhook's lookup and its upsert
  leaves its charger listed as unknown, which the comment in
  `reconcileIncomingConnection` does not expect. `BootLinksStation` holds all the same.
* `RefreshTokens`: two refreshes that both find one token unrevoked both get a
  pair, although the schema calls the tokens single-use. What holds is
  `SpentIsFinal`: once the token is revoked and no refresh that saw it valid is
  under way, it is worthless.
* `FrontendSession`: a refresh answered after a logout signs the page in again,
  a late 401 ends the session of a newer login, and of two tabs that refresh at
  once one ends the session of both.
* `Settings`: two overlapping upserts write one version; the value of the
  first is then in no row of the history. `SerialHistory` says that this takes an
  overlap, `RollbackRestores` what a rollback to a doubled version does.
* `CitrineGateway`: a command whose answer is lost with its connection is
  carried out twice; overlapping calls create two subscriptions; a changed
  secret leaves the old subscription beside the new one.
* `PaymentData`: a query that is queued when the pool is ended waits for
  ever; a request that still holds the old URL brings the old pool back.
* `AdminPages`: a first read that is overtaken by a change is not repeated; a
  run whose first read fails is not polled; the choice in the dialog that assigns
  a charger stays empty if the stations were loaded after it was mounted.

## Fairness

`TestSuiteRun`: weak fairness of each executor and of each deadline. The event
loop runs every continuation; an HTTP call to CitrineOS is aborted after 10
seconds, a database call returns or throws; the clock reaches every deadline.
Nothing is assumed about stations, callbacks or administrators. `RunEnds` excepts
a run whose process has died, because nothing resumes it
(`testsuite-run.service.ts`, lines 30-34 say so).

`Provisioning`: weak fairness of the next call of every accepted request, which
may also fail. `BootLinksStation` needs no more.

`RefreshTokens` states no liveness.

`FrontendSession`: weak fairness of the effect of the first render, of the
network for a page's refresh (the browser settles every fetch, if only with a
network error) and of the continuation of that refresh. Users, other requests
and rendering are not fair. Reloads are bounded; without a bound a page could be
reloaded before it ever stops loading.

`Settings` states no liveness.

`CitrineGateway`: weak fairness of the attempt that is about to be sent, of the
timer, and of the end of a body (it arrives or reading it throws). Nothing is
assumed of the network and of CitrineOS.

`PaymentData`: weak fairness of the backend's own steps and of the database,
which answers or breaks the connection; strong fairness of `Connect`, since the
pool serves its queue in order and a connection may be taken by another query
first.

`AdminPages`: the timer of a run that is shown as running fires, and
strong fairness of the read that the timer repeats, which may fail any finite
number of times in between. Nothing is assumed of the run in the backend: one whose
process has died stays `running` and is polled for as long as it is shown.
`RunDetailSettles` starts when the run has ended.

## Proofs

`TestSuiteRunProofs` proves, for any catalog, any number of runs, requests,
secrets and messages, under `CatalogAssumption` and `EnvironmentAssumption`:
type correctness, `StepsInOrder`, `CompletedHasResults`, `CommandsInOrder`,
`PassHasEvidence`, `SettledIsFinal`, and that `TestSuiteRun` implements
`StepPipeline`.

None of these is inductive: whether a callback may write a step depends on
where the executor is and on which commands CitrineOS holds. `IInv` adds that:
the phase of the loop agrees with the status of the run (`RunPhase`), rows behind the
loop variable have results and rows ahead are pending (`Frontier`), what each
label implies for the current row (`AtStep`), commands and callback requests
belong to steps that were started (`HeldCommands`), and the evidence a waiting
executor is about to record (`WaitEvidence`). `testsuite` checks
`IInv` with TLC. Each conjunct is preserved action by action; the invariants
follow from `IInv`, and the step properties (`SettledIsFinal`, the refinement)
from `IInv` and the shape of the actions. The refinement mapping is the identity on
`runStatus` and `step`: `FinishStep` and `ApplyCallback` are `Settle` or
`Revise`, most other steps stutter.

`RefreshTokensProofs` proves, for any number of accounts, tokens and requests,
`ExchangedIsRevoked`, `FamilyHasOneUser`, `SpentIsFinal` and
`DeactivatedGetsNoSession`. The strengthening is that the token a request works
on exists, belongs to the request's account and is revoked once the request is
about to issue (`HeldTokens`), and the same of parents (`Parents`).

`ProvisioningProofs` proves `OnlyLiveChargers`, `StationHasLocation` and
`OneStationPerBox` for any number of chargers, stations, locations and
requests. They are not inductive because a request writes what it has read
before: `HeldRows` adds what such a request may still rely on (the station it
links exists and stands for a charger that has connected, two requests never
create one station).

`FrontendSessionProofs` proves `OneRefreshPerPage`, `NoReplay` and
`StoredIsUsable` for any number of tabs and calls. `NoReplay` rests on what is
known about a token before anyone has used it: a pair that is on its way to a
page is in no other answer, not in localStorage and not spent (`PairsAreFresh`), and
whoever may spend the stored token is a page that will hear of it
(`SpendersAreWatched`).

`SettingsProofs` proves `SecretsAreSealed`, `HistoryIsGenuine`, `SerialHistory`
and `RollbackRestores` for any number of settings, values and requests. The
invariant adds that what a request has read was a row of the setting
(`ReadsAreGenuine`) and that every row a setting has had is sealed
(`RowsAreSealed`).

`PaymentDataProofs` proves `OpenPoolIsCached`, `QueriesConfiguredDatabase`,
`OmittedColumnsStay` and that `PaymentData` implements `PaymentTables`, for any
number of requests, URLs, prefixes, rows and connections. `ReadsConfigured` adds what
a request knows before it has a pool. In the refinement the steps before the
statement stutter, the statement is `Serve`, every other answer is `Refuse`. What `Serve`
needs is that the pool's URL and the request's prefix are among those
configured while it ran: `QueriesConfiguredDatabase` and `ReadsConfigured`.

`CitrineGatewayProofs` proves `RepeatedOnlyAfterLoss`, `EnsuredIsHeard`,
`RepeatedEnsureAddsNone` and that `CitrineGateway` implements `CommandDelivery`, for
any number of calls, stations, secrets and subscriptions. The count behind the
first is that a command was carried out or is still on the wire at most as often as
its call has sent it (`CommandsCounted`). The refinement needs that count for
`CarryOut` and `Send`, and for `Confirm` that a 2xx a call holds is the answer of a
CitrineOS that has carried the command out (`ConfirmedIsCarried`); a late answer must not
reach the next attempt. The subscription properties rest on ids that are never used again
(`IdsCounted`) and on answers that tell what was so (`AnswersAreGenuine`,
`ResultsAreGenuine`, `CreatesAreConfigured`).

`AdminPagesProofs` proves `ListsShowConfirmedChanges` and `DraftConfirmedOnce`
for any number of stations, drafts and requests in flight. The first is not
inductive, because a read in flight may end: what is preserved is that a list which lacks
a confirmed change is marked invalid, and that no answer on its way is such a
list (`ConfirmedIsInvalid`). An answer on its way becomes one when the page is told,
and the same step must give it up: `AfterInvalidationIsGood` shows this from the
cancellation in `Refetched` and from `InvalidatesWhatIsShown`, which goes
through the components: every onSuccess invalidates the lists that show what
it has changed. For the second, drafts are followed from the dialog to the
confirmation: the drafts in dialogs and requests are all different, except
that a dialog shares its draft with the request it waits for (`DraftsApart`),
and nothing has been created from any of them (`OpenDraftsUnconfirmed`). That a
dialog loses its draft when it leaves the page, while its request goes on, is
the part of `TypeOK` this needs.

Each proof assumes the named ASSUME of its module and nothing else; every IInv is
also an invariant of a run.

Only model-checked: the liveness properties
(`RunEnds`, `BootLinksStation`, `CallsReturn`, `LoadingEnds`, `CallsEnd`,
`RequestsEnd`, `RunDetailSettles`), which are out of the prover's reach: it
handles neither fairness nor ENABLED.

## Not modelled, and what is left

Left out for good: role guards and the JWT strategy (stateless predicates over
one request; the roles of a route are part of `CitrineGateway` and
`PaymentData`), the audit log (append only, never read back), the Ops proxy
(stateless; a restart is `Restart` of `TestSuiteRun`), the framing of Docker's
logs (bytes), Hasura and Docker configuration, the pages that only show data,
and layout. `UsersService.create` is one insert guarded by a unique index, as
`createStation` is, and has no model of its own. The bootstrap script upserts
settings one after the other and adds no behaviour to `Settings`.

Left to do, in this order: rows of the settings that
are told apart in `AdminPages` (the edit dialog keeps its draft from one setting to
the next); a composition of `TestSuiteRun` with `CommandDelivery`, in which a
repeated command is answered twice; a refresh of the backend in `FrontendSession`
that is not atomic, as in `RefreshTokens`.
