--------------------------- MODULE FrontendSession ---------------------------
(***************************************************************************)
(* The session of a browser (frontend/src/auth/auth-context.tsx) and the   *)
(* calls that use it (frontend/src/lib/api-client.ts, graphql-client.ts).  *)
(* The tabs share a refresh token in localStorage; each page keeps its own *)
(* access token and the promise of the refresh it has under way.           *)
(*                                                                         *)
(* An action is what a page does between two awaits, or what happens to a  *)
(* request in the network. The backend handles a refresh in one step here; *)
(* how two of them interleave inside it is the subject of RefreshTokens.   *)
(***************************************************************************)
EXTENDS Integers, FiniteSets

CONSTANTS
  Tabs,        \* tabs of one browser, one account
  Slots,       \* calls a page may have under way at the same time
  MaxTokens,   \* bound: refresh tokens ever issued
  MaxReloads   \* bound: page reloads

ASSUME BoundsAssumption == MaxTokens \in Nat \ {0} /\ MaxReloads \in Nat

ASSUME TabsAssumption == Tabs \cap {"gone", "logout", "nobody"} = {}

Tokens == 1..MaxTokens
None == 0

\* Owner of a request whose page has been reloaded.
Gone == "gone"

VARIABLES
  stored,    \* localStorage['vibeocpp.refreshToken'], or None
  page,      \* page[t]: the state of AuthProvider in tab t
  call,      \* call[<<t, k>>]: call k of the page in tab t
  requests,  \* requests to the authentication endpoints, and their answers
  issued,    \* refresh tokens issued so far: 1..issued
  spentBy,   \* spentBy[x]: who exchanged token x, "logout", or "nobody"
  reloads    \* page reloads so far

vars == <<stored, page, call, requests, issued, spentBy, reloads>>

\* status and access (is there an access token, and not about to expire?) are
\* React state; view and provider are what the last render has shown and
\* handed to configureApiClient.
Page == [status   : {"booting", "loading", "authenticated", "unauthenticated"},
         view     : {"loading", "authenticated", "unauthenticated"},
         access   : BOOLEAN,
         provider : BOOLEAN,
         inFlight : {"none", "pending", "settled"}]

\* "waiting": awaits the refresh; "bearer", "bare": sent with and without a token.
CallState == {"idle", "waiting", "bearer", "bare"}

Request == [kind : {"refresh", "login", "logout"}, tab : Tabs \cup {Gone},
            token : Tokens \cup {None}, answered : BOOLEAN,
            pair : Tokens \cup {None}]

TypeOK ==
  /\ stored \in Tokens \cup {None}
  /\ page \in [Tabs -> Page]
  /\ call \in [Tabs \X Slots -> CallState]
  /\ requests \subseteq Request
  /\ \A q \in requests : q.kind # "login" => q.token # None
  /\ issued \in 0..MaxTokens
  /\ spentBy \in [Tokens -> Tabs \cup {Gone, "logout", "nobody"}]
  /\ reloads \in 0..MaxReloads

NewPage == [status |-> "booting", view |-> "loading", access |-> FALSE,
            provider |-> FALSE, inFlight |-> "none"]

\* The browser is opened, with or without a token of an earlier session.
Init ==
  /\ stored \in {None, 1}
  /\ page = [t \in Tabs |-> NewPage]
  /\ call = [c \in Tabs \X Slots |-> "idle"]
  /\ requests = {}
  /\ issued = stored
  /\ spentBy = [x \in Tokens |-> "nobody"]
  /\ reloads = 0

-----------------------------------------------------------------------------
(* The state of a page; f is what refreshInFlight.current is afterwards *)

\* Mutant: the token stays in localStorage.
ClearMemory(t, f) ==
  /\ page' = [page EXCEPT ![t] = [@ EXCEPT !.status = "unauthenticated",
                                           !.access = FALSE, !.inFlight = f]]
  /\ UNCHANGED stored

ClearSession(t, f) ==
  /\ page' = [page EXCEPT ![t] = [@ EXCEPT !.status = "unauthenticated",
                                           !.access = FALSE, !.inFlight = f]]
  /\ stored' = None

\* Mutant: the rotated refresh token is not stored.
ApplyAccessToken(t, pair, f) ==
  /\ page' = [page EXCEPT ![t] = [@ EXCEPT !.status = "authenticated",
                                           !.access = TRUE, !.inFlight = f]]
  /\ stored' = IF stored = None THEN pair ELSE stored

ApplyTokenPair(t, pair, f) ==
  /\ page' = [page EXCEPT ![t] = [@ EXCEPT !.status = "authenticated",
                                           !.access = TRUE, !.inFlight = f]]
  /\ stored' = pair

Sent(kind, t, x) ==
  [kind |-> kind, tab |-> t, token |-> x, answered |-> FALSE, pair |-> None]

Refreshes(t) == {q \in requests : q.kind = "refresh" /\ q.tab = t}

\* Mutant: nobody looks whether a refresh is under way.
StartAnyRefresh(t, status) ==
  /\ stored # None
  /\ requests' = requests \cup {Sent("refresh", t, stored)}
  /\ page' = [page EXCEPT ![t].inFlight = "pending", ![t].status = status]

\* refreshSession, up to its request. The status is that of the caller.
StartRefresh(t, status) ==
  /\ page[t].inFlight = "none"
  /\ stored # None
  /\ requests' = requests \cup {Sent("refresh", t, stored)}
  /\ page' = [page EXCEPT ![t].inFlight = "pending", ![t].status = status]

\* Mutant: without a stored token the status is left alone.
MountStored(t) ==
  /\ page[t].status = "booting"
  /\ IF stored # None
       THEN StartRefresh(t, "loading")
       ELSE page' = [page EXCEPT ![t].status = "loading"] /\ UNCHANGED requests
  /\ UNCHANGED <<stored, call, issued, spentBy, reloads>>

\* The effect of the first render.
Mount(t) ==
  /\ page[t].status = "booting"
  /\ IF stored # None
       THEN StartRefresh(t, "loading")
       ELSE /\ page' = [page EXCEPT ![t].status = "unauthenticated"]
            /\ UNCHANGED requests
  /\ UNCHANGED <<stored, call, issued, spentBy, reloads>>

\* React renders; the effect hands the new getAccessToken to the clients.
Render(t) ==
  LET p == page[t] IN
  /\ p.status # "booting"
  /\ p.view # p.status \/ p.provider # p.access
  /\ page' = [page EXCEPT ![t] = [@ EXCEPT !.view = p.status, !.provider = p.access]]
  /\ UNCHANGED <<stored, call, requests, issued, spentBy, reloads>>

\* isExpired: the access token is about to expire. It does not while React
\* has yet to render.
Expire(t) ==
  /\ page[t].provider
  /\ page[t].access
  /\ page' = [page EXCEPT ![t] = [@ EXCEPT !.provider = FALSE, !.access = FALSE]]
  /\ UNCHANGED <<stored, call, requests, issued, spentBy, reloads>>

-----------------------------------------------------------------------------
(* Calls: getAccessToken as installed by the last render, then fetch *)

Calling(c) == call[c] = "idle" /\ page[c[1]].view = "authenticated"
Becomes(c, state) == call' = [call EXCEPT ![c] = state]
NoFreshToken(c) == ~page[c[1]].provider

CallWithToken(c) ==
  /\ Calling(c)
  /\ page[c[1]].provider
  /\ Becomes(c, "bearer")
  /\ UNCHANGED <<stored, page, requests, issued, spentBy, reloads>>

\* refreshSession: there is a promise already. A settled one gives null.
CallJoinsRefresh(c) ==
  /\ Calling(c)
  /\ NoFreshToken(c)
  /\ page[c[1]].inFlight # "none"
  /\ Becomes(c, IF page[c[1]].inFlight = "pending" THEN "waiting" ELSE "bare")
  /\ UNCHANGED <<stored, page, requests, issued, spentBy, reloads>>

CallStartsRefresh(c) ==
  /\ Calling(c)
  /\ NoFreshToken(c)
  /\ StartRefresh(c[1], page[c[1]].status)
  /\ Becomes(c, "waiting")
  /\ UNCHANGED <<stored, issued, spentBy, reloads>>

\* refreshSession finds no stored token: it returns before its try block, and
\* refreshInFlight is assigned the settled promise afterwards.
CallFindsNoToken(c) ==
  /\ Calling(c)
  /\ NoFreshToken(c)
  /\ page[c[1]].inFlight = "none"
  /\ stored = None
  /\ ClearSession(c[1], "settled")
  /\ Becomes(c, "bare")
  /\ UNCHANGED <<requests, issued, spentBy, reloads>>

\* Any answer but a 401 of the REST client, or none.
CallReturns(c) ==
  /\ call[c] \in {"bearer", "bare"}
  /\ Becomes(c, "idle")
  /\ UNCHANGED <<stored, page, requests, issued, spentBy, reloads>>

\* onUnauthorized
CallUnauthorized(c) ==
  /\ call[c] \in {"bearer", "bare"}
  /\ ClearSession(c[1], page[c[1]].inFlight)
  /\ Becomes(c, "idle")
  /\ UNCHANGED <<requests, issued, spentBy, reloads>>

-----------------------------------------------------------------------------
(* Login, logout, refresh: the page's side *)

\* The login page sends one form at a time.
Login(t) ==
  /\ page[t].status # "booting"
  /\ page[t].view # "authenticated"
  /\ \A q \in requests : ~(q.kind = "login" /\ q.tab = t)
  /\ requests' = requests \cup {Sent("login", t, None)}
  /\ UNCHANGED <<stored, page, call, issued, spentBy, reloads>>

LoginAnswered(q) ==
  /\ q.kind = "login" /\ q.tab # Gone /\ q.answered
  /\ requests' = requests \ {q}
  /\ IF q.pair # None
       THEN ApplyTokenPair(q.tab, q.pair, page[q.tab].inFlight)
       ELSE UNCHANGED <<stored, page>>
  /\ UNCHANGED <<call, issued, spentBy, reloads>>

\* Mutant: logout is sent whether or not there is a token.
LogoutAnyway(t) ==
  /\ page[t].view = "authenticated"
  /\ ClearSession(t, page[t].inFlight)
  /\ requests' = requests \cup {Sent("logout", t, stored)}
  /\ UNCHANGED <<call, issued, spentBy, reloads>>

Logout(t) ==
  /\ page[t].view = "authenticated"
  /\ ClearSession(t, page[t].inFlight)
  /\ requests' = requests \cup {Sent("logout", t, x) : x \in {stored} \ {None}}
  /\ UNCHANGED <<call, issued, spentBy, reloads>>

\* The callers that share the refresh go on.
ResumeWaiting(t, state) ==
  call' = [c \in DOMAIN call |->
             IF c[1] = t /\ call[c] = "waiting" THEN state ELSE call[c]]

\* Mutant: the shared promise is resolved by a refresh that succeeds only.
FailureReleasesNobody(q) ==
  /\ q.kind = "refresh" /\ q.tab # Gone /\ q.answered
  /\ requests' = requests \ {q}
  /\ IF q.pair # None
       THEN ApplyTokenPair(q.tab, q.pair, "none") /\ ResumeWaiting(q.tab, "bearer")
       ELSE ClearSession(q.tab, "none") /\ UNCHANGED call
  /\ UNCHANGED <<issued, spentBy, reloads>>

\* The rest of refreshSession. After a failed refresh of Mount the status is
\* already what its continuation sets it to.
RefreshAnswered(q) ==
  /\ q.kind = "refresh" /\ q.tab # Gone /\ q.answered
  /\ requests' = requests \ {q}
  /\ IF q.pair # None
       THEN ApplyTokenPair(q.tab, q.pair, "none") /\ ResumeWaiting(q.tab, "bearer")
       ELSE ClearSession(q.tab, "none") /\ ResumeWaiting(q.tab, "bare")
  /\ UNCHANGED <<issued, spentBy, reloads>>

\* The promises and the memory of the page are lost. A request that is not
\* answered yet may still reach the backend.
Reload(t) ==
  /\ reloads < MaxReloads
  /\ reloads' = reloads + 1
  /\ page' = [page EXCEPT ![t] = NewPage]
  /\ call' = [c \in DOMAIN call |-> IF c[1] = t THEN "idle" ELSE call[c]]
  /\ requests' = {q \in requests : q.tab # t} \cup
                 {[q EXCEPT !.tab = Gone] : q \in {r \in requests : r.tab = t /\ ~r.answered}}
  /\ spentBy' = [x \in Tokens |-> IF spentBy[x] = t THEN Gone ELSE spentBy[x]]
  /\ UNCHANGED <<stored, issued>>

-----------------------------------------------------------------------------
(* The network and the backend *)

\* Nobody waits for the answer to a request of a page that is gone.
Answer(q, pair) ==
  requests' = (requests \ {q}) \cup
    IF q.tab = Gone THEN {} ELSE {[q EXCEPT !.answered = TRUE, !.pair = pair]}

IssuePair(q) ==
  /\ issued < MaxTokens
  /\ issued' = issued + 1
  /\ Answer(q, issued + 1)

\* login and refresh of AuthService
Serve(q) ==
  /\ ~q.answered
  /\ \/ q.kind = "login" /\ UNCHANGED spentBy
     \/ /\ q.kind = "refresh"
        /\ spentBy[q.token] = "nobody"
        /\ spentBy' = [spentBy EXCEPT ![q.token] = q.tab]
  /\ IssuePair(q)
  /\ UNCHANGED <<stored, page, call, reloads>>

ServeLogout(q) ==
  /\ q.kind = "logout"
  /\ requests' = requests \ {q}
  /\ spentBy' = [spentBy EXCEPT ![q.token] = IF @ = "nobody" THEN "logout" ELSE @]
  /\ UNCHANGED <<stored, page, call, issued, reloads>>

\* The request is refused, or it or its answer is lost: fetch rejects, or
\* resolves with an error.
RequestFails(q) ==
  /\ ~q.answered \/ q.pair # None
  /\ IF q.kind = "logout" THEN requests' = requests \ {q} ELSE Answer(q, None)
  /\ UNCHANGED <<stored, page, call, issued, spentBy, reloads>>

Network(q) == Serve(q) \/ ServeLogout(q) \/ RequestFails(q)

Next ==
  \/ \E t \in Tabs : Mount(t) \/ Render(t) \/ Expire(t) \/ Login(t) \/ Logout(t) \/ Reload(t)
  \/ \E c \in Tabs \X Slots :
       \/ CallWithToken(c) \/ CallJoinsRefresh(c) \/ CallStartsRefresh(c)
       \/ CallFindsNoToken(c) \/ CallReturns(c) \/ CallUnauthorized(c)
  \/ \E q \in requests : RefreshAnswered(q) \/ LoginAnswered(q) \/ Network(q)

\* The page's continuations run, and the browser settles every refresh.
Fairness ==
  \A t \in Tabs :
    /\ WF_vars(Mount(t))
    /\ WF_vars(\E q \in Refreshes(t) : ~q.answered /\ Network(q))
    /\ WF_vars(\E q \in Refreshes(t) : RefreshAnswered(q))

Spec == Init /\ [][Next]_vars /\ Fairness

-----------------------------------------------------------------------------
(* Properties *)

\* Comment on refreshInFlight: no stampede. A page has one refresh under way
\* while callers are to share it, and none otherwise, whatever it was doing
\* when the callers came.
OneRefreshPerPage ==
  \A t \in Tabs :
    Cardinality(Refreshes(t)) = IF page[t].inFlight = "pending" THEN 1 ELSE 0

\* A page never presents a refresh token it has exchanged itself: it is only
\* ever logged out by a replay of another page.
NoReplay ==
  \A t \in Tabs : \A q \in Refreshes(t) : ~q.answered => spentBy[q.token] # t

\* The browser does not keep a refresh token the backend no longer accepts,
\* unless the page that refreshes it has yet to hear so, or yet to start.
StoredIsUsable ==
  stored # None /\ spentBy[stored] # "nobody" =>
    \E t \in Tabs : \/ page[t].status = "booting"
                    \/ \E q \in Refreshes(t) : q.token = stored

\* Every caller of getAccessToken is released, however the refresh it waits
\* for ends.
CallsReturn == \A c \in Tabs \X Slots : call[c] = "waiting" ~> call[c] # "waiting"

\* The resumption of a session ends: no page stays at "loading".
LoadingEnds ==
  \A t \in Tabs : page[t].status \in {"booting", "loading"} ~>
                  page[t].status \in {"authenticated", "unauthenticated"}

\* The comment on refreshInFlight: every caller awaits a refresh in flight.
AwaitsInFlight ==
  \A t \in Tabs : page[t].inFlight # "none" => Refreshes(t) # {}

-----------------------------------------------------------------------------
(* The inductive invariant *)

\* A page that has a refresh under way has one, and says so.
RefreshesAreKnown ==
  \A t \in Tabs : /\ \A q, r \in Refreshes(t) : q = r
                  /\ page[t].inFlight = "pending" <=> Refreshes(t) # {}

\* Nobody has seen this token but the backend and the answer that carries it.
Fresh(x) ==
  /\ spentBy[x] = "nobody"
  /\ stored # x
  /\ \A r \in requests : r.token # x

PairsAreFresh ==
  /\ \A q \in requests : q.pair # None => q.pair <= issued /\ Fresh(q.pair)
  /\ \A q, r \in requests : q.pair # None /\ q.pair = r.pair => q = r

IssuedOnly ==
  /\ stored <= issued
  /\ \A q \in requests : q.token <= issued
  /\ \A x \in Tokens : x > issued => spentBy[x] = "nobody"

\* Is there a page that will find out about the stored token?
Watched == \E t \in Tabs : \/ page[t].status = "booting"
                          \/ \E q \in Refreshes(t) : q.token = stored

\* Who may spend, or has spent, the token in localStorage.
SpendersAreWatched ==
  /\ \A q \in requests : q.kind = "logout" => q.token # stored
  /\ \A q \in requests : q.kind = "refresh" /\ q.token = stored => Watched
  /\ stored # None => spentBy[stored] = "nobody" \/ Watched
  /\ stored # None => \A t \in Tabs : spentBy[stored] = t =>
                        \E q \in Refreshes(t) : q.token = stored

IInv ==
  /\ TypeOK
  /\ RefreshesAreKnown
  /\ NoReplay
  /\ PairsAreFresh
  /\ IssuedOnly
  /\ SpendersAreWatched

=============================================================================
