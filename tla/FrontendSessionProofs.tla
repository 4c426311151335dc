------------------------ MODULE FrontendSessionProofs ------------------------
(* Proofs about FrontendSession, for every number of tabs, calls, tokens   *)
(* and reloads.                                                            *)
EXTENDS FrontendSession, FiniteSetTheorems, TLAPS

LEMMA InvInit == Init => IInv
<1> SUFFICES ASSUME Init PROVE IInv
  OBVIOUS
<1>1. TypeOK
  BY BoundsAssumption DEF Init, TypeOK, Tokens, None, Page, NewPage, CallState
<1>2. \A t \in Tabs : Refreshes(t) = {} /\ page[t].inFlight = "none"
  BY DEF Init, Refreshes, NewPage
<1>3. RefreshesAreKnown /\ NoReplay
  BY <1>2 DEF RefreshesAreKnown, NoReplay
<1>4. PairsAreFresh /\ IssuedOnly /\ SpendersAreWatched
  BY BoundsAssumption, TabsAssumption
  DEF Init, PairsAreFresh, IssuedOnly, SpendersAreWatched, Tokens, None
<1> QED
  BY <1>1, <1>3, <1>4 DEF IInv

-----------------------------------------------------------------------------
(* Types *)

LEMMA SentType ==
  ASSUME NEW kind \in {"refresh", "login", "logout"}, NEW t \in Tabs,
         NEW x \in Tokens \cup {None}
  PROVE  Sent(kind, t, x) \in Request
  BY DEF Sent, Request

\* What AuthProvider may become in one step.
LEMMA PageType ==
  ASSUME TypeOK, NEW t \in Tabs
  PROVE  /\ NewPage \in Page
         /\ \A f \in {"none", "pending", "settled"} :
              /\ [page[t] EXCEPT !.status = "unauthenticated", !.access = FALSE, !.inFlight = f]
                   \in Page
              /\ [page[t] EXCEPT !.status = "authenticated", !.access = TRUE, !.inFlight = f]
                   \in Page
         /\ page[t].inFlight \in {"none", "pending", "settled"}
         /\ page[t].status \in {"booting", "loading", "authenticated", "unauthenticated"}
         /\ page[t].access \in BOOLEAN
  BY DEF TypeOK, Page, NewPage

\* One page changes, but for its view of things.
LEMMA ClearFacts ==
  ASSUME TypeOK, NEW t \in Tabs, NEW f \in {"none", "pending", "settled"}, ClearSession(t, f)
  PROVE  /\ page' \in [Tabs -> Page]
         /\ stored' = None
         /\ page'[t].inFlight = f
         /\ page'[t].status = "unauthenticated"
         /\ \A s \in Tabs \ {t} : page'[s] = page[s]
<1> DEFINE p == [page[t] EXCEPT !.status = "unauthenticated", !.access = FALSE, !.inFlight = f]
<1>1. page' = [page EXCEPT ![t] = p] /\ stored' = None
  BY DEF ClearSession, TypeOK
<1>2. p \in Page /\ p.inFlight = f /\ p.status = "unauthenticated"
  BY DEF TypeOK, Page
<1> QED
  BY <1>1, <1>2 DEF TypeOK

LEMMA ApplyFacts ==
  ASSUME TypeOK, NEW t \in Tabs, NEW f \in {"none", "pending", "settled"},
         NEW x \in Tokens, ApplyTokenPair(t, x, f)
  PROVE  /\ page' \in [Tabs -> Page]
         /\ stored' = x
         /\ page'[t].inFlight = f
         /\ page'[t].status = "authenticated"
         /\ \A s \in Tabs \ {t} : page'[s] = page[s]
<1> DEFINE p == [page[t] EXCEPT !.status = "authenticated", !.access = TRUE, !.inFlight = f]
<1>1. page' = [page EXCEPT ![t] = p] /\ stored' = x
  BY DEF ApplyTokenPair, TypeOK
<1>2. p \in Page /\ p.inFlight = f /\ p.status = "authenticated"
  BY DEF TypeOK, Page
<1> QED
  BY <1>1, <1>2 DEF TypeOK

-----------------------------------------------------------------------------
(* Steps that neither send nor answer anything. *)

LEMMA QuietStep ==
  ASSUME IInv, TypeOK', UNCHANGED <<requests, issued, spentBy>>,
         stored' \in {stored, None},
         \A t \in Tabs : /\ page'[t].inFlight = "pending" <=> page[t].inFlight = "pending"
                         /\ page[t].status = "booting" =>
                              page'[t].status = "booting" \/ stored' = None
  PROVE  IInv'
<1>1. \A t \in Tabs : Refreshes(t)' = Refreshes(t)
  BY DEF Refreshes
<1>2. RefreshesAreKnown' /\ NoReplay'
  BY <1>1 DEF IInv, RefreshesAreKnown, NoReplay
<1>3. \A q \in requests : q.kind # "login" => q.token # None
  BY DEF IInv, TypeOK
<1>4. \A q \in requests : q.pair # None => q.pair # stored'
  BY DEF IInv, PairsAreFresh, Fresh
<1>5. PairsAreFresh'
  BY <1>4 DEF IInv, PairsAreFresh, Fresh
<1>6. IssuedOnly'
  BY DEF IInv, TypeOK, IssuedOnly, None
<1>7. SpendersAreWatched'
  <2>1. CASE stored' = None
    BY <1>3, <2>1 DEF SpendersAreWatched
  <2>2. CASE stored' = stored /\ stored' # None
    <3>1. Watched => Watched'
      BY <1>1, <2>2 DEF Watched
    <3> QED
      BY <1>1, <2>2, <3>1 DEF IInv, SpendersAreWatched
  <2> QED
    BY <2>1, <2>2
<1> QED
  BY <1>2, <1>5, <1>6, <1>7 DEF IInv

LEMMA RenderStep ==
  ASSUME IInv, NEW t \in Tabs, Render(t) \/ Expire(t)
  PROVE  IInv'
<1>1. /\ page' \in [Tabs -> Page]
      /\ \A s \in Tabs : /\ page'[s].inFlight = page[s].inFlight
                         /\ page'[s].status = page[s].status
  <2>1. CASE Render(t)
    <3> DEFINE p == [page[t] EXCEPT !.view = page[t].status, !.provider = page[t].access]
    <3>1. /\ p \in Page
          /\ p.inFlight = page[t].inFlight
          /\ p.status = page[t].status
      BY <2>1 DEF IInv, TypeOK, Page, Render
    <3>2. page' = [page EXCEPT ![t] = p]
      BY <2>1 DEF Render, IInv, TypeOK
    <3> QED
      BY <3>1, <3>2 DEF IInv, TypeOK
  <2>2. CASE Expire(t)
    <3> DEFINE p == [page[t] EXCEPT !.provider = FALSE, !.access = FALSE]
    <3>1. /\ p \in Page
          /\ p.inFlight = page[t].inFlight
          /\ p.status = page[t].status
      BY DEF IInv, TypeOK, Page
    <3>2. page' = [page EXCEPT ![t] = p]
      BY <2>2 DEF Expire, IInv, TypeOK
    <3> QED
      BY <3>1, <3>2 DEF IInv, TypeOK
  <2> QED
    BY <2>1, <2>2
<1>2. UNCHANGED <<stored, call, requests, issued, spentBy, reloads>>
  BY DEF Render, Expire
<1>3. TypeOK'
  BY <1>1, <1>2 DEF IInv, TypeOK
<1> QED
  BY <1>1, <1>2, <1>3, QuietStep

\* The calls of a page, but for the one that starts a refresh.
LEMMA CallStep ==
  ASSUME IInv, NEW c \in Tabs \X Slots,
         CallWithToken(c) \/ CallJoinsRefresh(c) \/ CallReturns(c)
  PROVE  IInv'
<1>1. UNCHANGED <<stored, page, requests, issued, spentBy, reloads>>
  BY DEF CallWithToken, CallJoinsRefresh, CallReturns
<1>2. call' \in [Tabs \X Slots -> CallState]
  BY DEF IInv, TypeOK, CallWithToken, CallJoinsRefresh, CallReturns, Becomes, CallState
<1>3. TypeOK'
  BY <1>1, <1>2 DEF IInv, TypeOK
<1> QED
  BY <1>1, <1>3, QuietStep

LEMMA CallClearsStep ==
  ASSUME IInv, NEW c \in Tabs \X Slots, CallFindsNoToken(c) \/ CallUnauthorized(c)
  PROVE  IInv'
<1>1. c[1] \in Tabs
  OBVIOUS
<1>2. UNCHANGED <<requests, issued, spentBy, reloads>>
  BY DEF CallFindsNoToken, CallUnauthorized
<1>3. call' \in [Tabs \X Slots -> CallState]
  BY DEF IInv, TypeOK, CallFindsNoToken, CallUnauthorized, Becomes, CallState
<1>4. PICK f \in {"none", "pending", "settled"} :
        /\ ClearSession(c[1], f)
        /\ f = "pending" <=> page[c[1]].inFlight = "pending"
  <2>1. CASE CallFindsNoToken(c)
    BY <2>1 DEF CallFindsNoToken
  <2>2. CASE CallUnauthorized(c)
    BY <1>1, <2>2, PageType DEF CallUnauthorized, IInv
  <2> QED
    BY <2>1, <2>2
<1>5. /\ page' \in [Tabs -> Page]
      /\ stored' = None
      /\ page'[c[1]].inFlight = f
      /\ \A s \in Tabs \ {c[1]} : page'[s] = page[s]
  BY <1>1, <1>4, ClearFacts DEF IInv
<1>6. TypeOK'
  BY <1>2, <1>3, <1>5 DEF IInv, TypeOK
<1>7. \A s \in Tabs : page'[s].inFlight = "pending" <=> page[s].inFlight = "pending"
  BY <1>1, <1>4, <1>5
<1> QED
  BY <1>2, <1>5, <1>6, <1>7, QuietStep

-----------------------------------------------------------------------------
(* Requests are sent. *)

\* Nobody but the requests it sends is concerned.
LEMMA StartStep ==
  ASSUME IInv, TypeOK', NEW t \in Tabs, NEW status, StartRefresh(t, status),
         UNCHANGED <<stored, issued, spentBy, reloads>>
  PROVE  IInv'
<1> DEFINE n == Sent("refresh", t, stored)
<1>1. /\ stored \in Tokens
      /\ stored # None
      /\ page[t].inFlight = "none"
      /\ requests' = requests \cup {n}
  BY DEF StartRefresh, IInv, TypeOK
<1>2. /\ n.kind = "refresh"
      /\ n.tab = t
      /\ n.token = stored
      /\ n.pair = None
      /\ n.answered = FALSE
  BY DEF Sent
<1> HIDE DEF n
<1>3. /\ page'[t].inFlight = "pending"
      /\ \A s \in Tabs \ {t} : page'[s] = page[s]
  BY DEF StartRefresh, IInv, TypeOK, Page
<1>4. Refreshes(t) = {}
  BY <1>1 DEF IInv, RefreshesAreKnown
<1>5. /\ Refreshes(t)' = {n}
      /\ \A s \in Tabs \ {t} : Refreshes(s)' = Refreshes(s)
  BY <1>1, <1>2, <1>4 DEF Refreshes
<1>6. RefreshesAreKnown'
  BY <1>3, <1>5 DEF IInv, RefreshesAreKnown
<1>7. NoReplay'
  BY <1>1, <1>2, <1>4, <1>5 DEF IInv, NoReplay, SpendersAreWatched
<1>8. PairsAreFresh' /\ IssuedOnly'
  BY <1>1, <1>2 DEF IInv, PairsAreFresh, Fresh, IssuedOnly
<1>9. SpendersAreWatched'
  <2>1. Watched'
    BY <1>2, <1>5 DEF Watched
  <2>2. \A q \in requests' : q.kind = "logout" => q.token # stored'
    BY <1>1, <1>2 DEF IInv, SpendersAreWatched
  <2>3. \A s \in Tabs : spentBy'[stored'] = s => \E q \in Refreshes(s)' : q.token = stored'
    BY <1>1, <1>2, <1>4, <1>5 DEF IInv, SpendersAreWatched
  <2> QED
    BY <2>1, <2>2, <2>3 DEF SpendersAreWatched
<1> QED
  BY <1>6, <1>7, <1>8, <1>9 DEF IInv

LEMMA StartType ==
  ASSUME IInv, NEW t \in Tabs,
         NEW status \in {"booting", "loading", "authenticated", "unauthenticated"},
         StartRefresh(t, status)
  PROVE  /\ requests' \subseteq Request
         /\ \A q \in requests' : q.kind # "login" => q.token # None
         /\ page' \in [Tabs -> Page]
<1>1. stored \in Tokens /\ stored # None
  BY DEF StartRefresh, IInv, TypeOK
<1>2. page' = [page EXCEPT ![t] = [page[t] EXCEPT !.inFlight = "pending", !.status = status]]
  BY DEF StartRefresh, IInv, TypeOK, Page
<1>3. [page[t] EXCEPT !.inFlight = "pending", !.status = status] \in Page
  BY DEF IInv, TypeOK, Page
<1>4. Sent("refresh", t, stored) \in Request /\ Sent("refresh", t, stored).token = stored
  BY <1>1, SentType DEF Sent
<1> QED
  BY <1>1, <1>2, <1>3, <1>4 DEF StartRefresh, IInv, TypeOK

LEMMA MountStep ==
  ASSUME IInv, NEW t \in Tabs, Mount(t)
  PROVE  IInv'
<1>1. CASE stored # None
  <2>1. StartRefresh(t, "loading") /\ UNCHANGED <<stored, call, issued, spentBy, reloads>>
    BY <1>1 DEF Mount
  <2>2. TypeOK'
    BY <2>1, StartType DEF IInv, TypeOK
  <2> QED
    BY <2>1, <2>2, StartStep
<1>2. CASE stored = None
  <2> DEFINE p == [page[t] EXCEPT !.status = "unauthenticated"]
  <2>1. /\ page' = [page EXCEPT ![t] = p]
        /\ UNCHANGED <<stored, call, requests, issued, spentBy, reloads>>
    BY <1>2 DEF Mount, IInv, TypeOK
  <2>2. p \in Page /\ p.inFlight = page[t].inFlight
    BY DEF IInv, TypeOK, Page
  <2>3. TypeOK'
    BY <2>1, <2>2 DEF IInv, TypeOK
  <2>4. \A s \in Tabs : page'[s].inFlight = page[s].inFlight
    BY <2>1, <2>2 DEF IInv, TypeOK
  <2> QED
    BY <1>2, <2>1, <2>3, <2>4, QuietStep
<1> QED
  BY <1>1, <1>2

LEMMA CallStartsStep ==
  ASSUME IInv, NEW c \in Tabs \X Slots, CallStartsRefresh(c)
  PROVE  IInv'
<1>1. /\ c[1] \in Tabs
      /\ StartRefresh(c[1], page[c[1]].status)
      /\ UNCHANGED <<stored, issued, spentBy, reloads>>
      /\ call' \in [Tabs \X Slots -> CallState]
  BY DEF CallStartsRefresh, Becomes, CallState, IInv, TypeOK
<1>2. TypeOK'
  BY <1>1, StartType, PageType DEF IInv, TypeOK
<1> QED
  BY <1>1, <1>2, StartStep

\* A login, or a logout with the token that is stored no longer.
LEMMA SendStep ==
  ASSUME IInv, TypeOK', NEW new,
         requests' = requests \cup new,
         \A q \in new : /\ q.kind \in {"login", "logout"}
                        /\ q.pair = None
                        /\ q.token \in {None, stored}
                        /\ q.kind = "logout" => stored' = None,
         UNCHANGED <<issued, spentBy>>,
         stored' \in {stored, None},
         \A t \in Tabs : /\ page'[t].inFlight = "pending" <=> page[t].inFlight = "pending"
                         /\ page[t].status = "booting" =>
                              page'[t].status = "booting" \/ stored' = None
  PROVE  IInv'
<1>1. \A t \in Tabs : Refreshes(t)' = Refreshes(t)
  BY DEF Refreshes
<1>2. RefreshesAreKnown' /\ NoReplay'
  BY <1>1 DEF IInv, RefreshesAreKnown, NoReplay
<1>3. \A q \in requests' : q.kind # "login" => q.token # None
  BY DEF TypeOK
<1>4. \A q \in requests' : q.pair # None => q \in requests /\ q.pair # stored'
  BY DEF IInv, PairsAreFresh, Fresh
<1>5. \A q \in requests' : q.pair # None => Fresh(q.pair)'
  BY <1>4 DEF IInv, PairsAreFresh, Fresh
<1>6. PairsAreFresh'
  BY <1>4, <1>5 DEF IInv, PairsAreFresh
<1>7. IssuedOnly'
  BY DEF IInv, TypeOK, IssuedOnly, None
<1>8. SpendersAreWatched'
  <2>1. CASE stored' = None
    BY <1>3, <2>1 DEF SpendersAreWatched
  <2>2. CASE stored' = stored /\ stored' # None
    <3>1. Watched => Watched'
      BY <1>1, <2>2 DEF Watched
    <3> QED
      BY <1>1, <2>2, <3>1 DEF IInv, SpendersAreWatched
  <2> QED
    BY <2>1, <2>2
<1> QED
  BY <1>2, <1>6, <1>7, <1>8 DEF IInv

LEMMA LoginStep ==
  ASSUME IInv, NEW t \in Tabs, Login(t)
  PROVE  IInv'
<1> DEFINE n == Sent("login", t, None)
<1>1. /\ n \in Request
      /\ n.kind = "login"
      /\ n.token = None
      /\ n.pair = None
  BY SentType DEF Sent
<1>2. /\ requests' = requests \cup {n}
      /\ UNCHANGED <<stored, page, call, issued, spentBy, reloads>>
  BY DEF Login
<1> HIDE DEF n
<1>3. TypeOK'
  BY <1>1, <1>2 DEF IInv, TypeOK
<1> DEFINE new == {n}
<1>4. \A q \in new : q.kind = "login" /\ q.token = None /\ q.pair = None
  BY <1>1
<1>5. requests' = requests \cup new
  BY <1>2
<1> HIDE DEF new
<1> QED
  BY <1>2, <1>3, <1>4, <1>5, SendStep

LEMMA LogoutStep ==
  ASSUME IInv, NEW t \in Tabs, Logout(t)
  PROVE  IInv'
<1> DEFINE new == {Sent("logout", t, x) : x \in {stored} \ {None}}
<1>1. /\ requests' = requests \cup new
      /\ UNCHANGED <<call, issued, spentBy, reloads>>
      /\ ClearSession(t, page[t].inFlight)
  BY DEF Logout
<1>2. \A q \in new : /\ q \in Request
                     /\ q.kind = "logout"
                     /\ q.token = stored
                     /\ q.token # None
                     /\ q.pair = None
  BY SentType DEF Sent, IInv, TypeOK
<1> HIDE DEF new
<1>3. page[t].inFlight \in {"none", "pending", "settled"}
  BY PageType DEF IInv
<1>4. /\ page' \in [Tabs -> Page]
      /\ stored' = None
      /\ page'[t].inFlight = page[t].inFlight
      /\ \A s \in Tabs \ {t} : page'[s] = page[s]
  BY <1>1, <1>3, ClearFacts DEF IInv
<1>5. TypeOK'
  BY <1>1, <1>2, <1>4 DEF IInv, TypeOK
<1>6. \A s \in Tabs : page'[s].inFlight = page[s].inFlight
  BY <1>4
<1> QED
  BY <1>1, <1>2, <1>4, <1>5, <1>6, SendStep

-----------------------------------------------------------------------------
(* Answers arrive, and are lost. *)

\* A token pair is applied: what is stored is fresh. A failed refresh leaves
\* nothing stored.
LEMMA AppliedStep ==
  ASSUME IInv, TypeOK', NEW q \in requests, q.tab # Gone, q.kind \in {"refresh", "login"},
         requests' = requests \ {q},
         UNCHANGED <<issued, spentBy>>,
         stored' \in {None, q.pair} \/ (q.kind = "login" /\ stored' = stored),
         stored' = stored => q.kind = "login" \/ stored' = None,
         \A t \in Tabs \ {q.tab} : page'[t] = page[t],
         q.kind = "refresh" => page'[q.tab].inFlight = "none",
         q.kind = "login" => page'[q.tab].inFlight = page[q.tab].inFlight,
         stored' = stored /\ stored' # None => page' = page
  PROVE  IInv'
<1>1. q \in Request /\ q.tab \in Tabs
  BY DEF IInv, TypeOK, Request
<1>2. /\ q.kind = "login" => \A t \in Tabs : Refreshes(t)' = Refreshes(t)
      /\ q.kind = "refresh" =>
           /\ Refreshes(q.tab) = {q}
           /\ Refreshes(q.tab)' = {}
           /\ \A t \in Tabs \ {q.tab} : Refreshes(t)' = Refreshes(t)
  BY <1>1 DEF Refreshes, IInv, RefreshesAreKnown
<1>3. RefreshesAreKnown'
  BY <1>1, <1>2 DEF IInv, RefreshesAreKnown
<1>4. NoReplay'
  BY <1>1, <1>2 DEF IInv, NoReplay
<1>5. \A r \in requests' : r.pair # None => r.pair # stored'
  BY DEF IInv, PairsAreFresh, Fresh
<1>6. PairsAreFresh'
  BY <1>5 DEF IInv, PairsAreFresh, Fresh
<1>7. IssuedOnly'
  BY DEF IInv, TypeOK, IssuedOnly, PairsAreFresh, None
<1>8. \A r \in requests : r.kind # "login" => r.token # None
  BY DEF IInv, TypeOK
<1>9. SpendersAreWatched'
  <2>1. CASE stored' = None
    BY <1>8, <2>1 DEF SpendersAreWatched
  <2>2. CASE stored' = q.pair /\ stored' # None
    <3>1. spentBy'[stored'] = "nobody" /\ \A r \in requests' : r.token # stored'
      BY <2>2 DEF IInv, PairsAreFresh, Fresh
    <3> QED
      BY <2>2, <3>1, TabsAssumption DEF SpendersAreWatched
  <2>3. CASE stored' = stored /\ q.kind = "login" /\ stored' # None
    <3>1. Watched => Watched'
      BY <1>2, <2>3 DEF Watched
    <3> QED
      BY <1>2, <2>3, <3>1 DEF IInv, SpendersAreWatched
  <2> QED
    BY <2>1, <2>2, <2>3
<1> QED
  BY <1>3, <1>4, <1>6, <1>7, <1>9 DEF IInv

LEMMA LoginAnsweredStep ==
  ASSUME IInv, NEW q \in requests, LoginAnswered(q)
  PROVE  IInv'
<1>1. q.tab \in Tabs /\ q.pair \in Tokens \cup {None}
  BY DEF IInv, TypeOK, Request, LoginAnswered
<1>2. /\ q.kind = "login"
      /\ q.tab # Gone
      /\ requests' = requests \ {q}
      /\ UNCHANGED <<call, issued, spentBy, reloads>>
  BY DEF LoginAnswered
<1>3. CASE q.pair # None
  <2>1. /\ ApplyTokenPair(q.tab, q.pair, page[q.tab].inFlight)
        /\ page[q.tab].inFlight \in {"none", "pending", "settled"}
    BY <1>1, <1>3, PageType DEF LoginAnswered, IInv
  <2>2. /\ page' \in [Tabs -> Page]
        /\ stored' = q.pair
        /\ page'[q.tab].inFlight = page[q.tab].inFlight
        /\ \A s \in Tabs \ {q.tab} : page'[s] = page[s]
    BY <1>1, <1>3, <2>1, ApplyFacts DEF IInv
  <2>3. TypeOK'
    BY <1>1, <1>2, <2>2 DEF IInv, TypeOK
  <2>4. stored' # stored
    BY <1>3, <2>2 DEF IInv, PairsAreFresh, Fresh
  <2> QED
    BY <1>2, <2>2, <2>3, <2>4, AppliedStep
<1>4. CASE q.pair = None
  <2>1. UNCHANGED <<stored, page>>
    BY <1>4 DEF LoginAnswered
  <2>2. TypeOK'
    BY <1>2, <2>1 DEF IInv, TypeOK
  <2> QED
    BY <1>2, <2>1, <2>2, AppliedStep
<1> QED
  BY <1>3, <1>4

LEMMA RefreshAnsweredStep ==
  ASSUME IInv, NEW q \in requests, RefreshAnswered(q)
  PROVE  IInv'
<1>1. q.tab \in Tabs /\ q.pair \in Tokens \cup {None}
  BY DEF IInv, TypeOK, Request, RefreshAnswered
<1>2. /\ q.kind = "refresh"
      /\ q.tab # Gone
      /\ requests' = requests \ {q}
      /\ UNCHANGED <<issued, spentBy, reloads>>
  BY DEF RefreshAnswered
<1>3. call' \in [Tabs \X Slots -> CallState]
  BY DEF RefreshAnswered, ResumeWaiting, IInv, TypeOK, CallState
<1>4. /\ page' \in [Tabs -> Page]
      /\ stored' = q.pair
      /\ page'[q.tab].inFlight = "none"
      /\ \A s \in Tabs \ {q.tab} : page'[s] = page[s]
  <2>1. CASE q.pair # None
    BY <1>1, <2>1, ApplyFacts DEF RefreshAnswered, IInv
  <2>2. CASE q.pair = None
    BY <1>1, <2>2, ClearFacts DEF RefreshAnswered, IInv
  <2> QED
    BY <2>1, <2>2
<1>5. TypeOK'
  BY <1>1, <1>2, <1>3, <1>4 DEF IInv, TypeOK
<1>6. stored' = stored => stored' = None
  BY <1>4 DEF IInv, PairsAreFresh, Fresh
<1> QED
  BY <1>2, <1>4, <1>5, <1>6, AppliedStep

\* The page's own requests go on without it, and without their answers.
LEMMA ReloadStep ==
  ASSUME IInv, NEW t \in Tabs, Reload(t)
  PROVE  IInv'
<1> DEFINE left == {[q EXCEPT !.tab = Gone] : q \in {r \in requests : r.tab = t /\ ~r.answered}}
<1>1. /\ requests' = {q \in requests : q.tab # t} \cup left
      /\ page' = [page EXCEPT ![t] = NewPage]
      /\ spentBy' = [x \in Tokens |-> IF spentBy[x] = t THEN Gone ELSE spentBy[x]]
      /\ UNCHANGED <<stored, issued>>
  BY DEF Reload
<1>2. \A q \in left :
        /\ q \in Request
        /\ q.tab = Gone
        /\ \E r \in requests : /\ r.tab = t /\ q.kind = r.kind /\ q.token = r.token
                              /\ q.pair = r.pair /\ q = [r EXCEPT !.tab = Gone]
  BY DEF IInv, TypeOK, Request
<1>3. t # Gone
  BY TabsAssumption DEF Gone
<1> HIDE DEF left
<1>4. TypeOK'
  <2>1. /\ reloads' \in 0..MaxReloads
        /\ page' \in [Tabs -> Page]
        /\ spentBy' \in [Tokens -> Tabs \cup {Gone, "logout", "nobody"}]
    <3>1. NewPage \in Page
      BY PageType DEF IInv
    <3>2. reloads' \in 0..MaxReloads
      BY BoundsAssumption DEF Reload, IInv, TypeOK
    <3> QED
      BY <1>1, <3>1, <3>2 DEF IInv, TypeOK
  <2>3. call' \in [Tabs \X Slots -> CallState]
    BY DEF Reload, IInv, TypeOK, CallState
  <2>2. requests' \subseteq Request /\ \A q \in requests' : q.kind # "login" => q.token # None
    BY <1>1, <1>2 DEF IInv, TypeOK
  <2> QED
    BY <1>1, <2>1, <2>2, <2>3 DEF IInv, TypeOK
<1>5. /\ Refreshes(t)' = {}
      /\ \A s \in Tabs \ {t} : Refreshes(s)' = Refreshes(s)
  BY <1>1, <1>2, <1>3, TabsAssumption DEF Refreshes, Gone
<1>6. /\ page'[t] = NewPage
      /\ \A s \in Tabs \ {t} : page'[s] = page[s]
  BY <1>1 DEF IInv, TypeOK
<1>7. RefreshesAreKnown'
  BY <1>5, <1>6 DEF IInv, RefreshesAreKnown, NewPage
<1>8. \A x \in Tokens : /\ spentBy'[x] = "nobody" <=> spentBy[x] = "nobody"
                        /\ \A s \in Tabs : spentBy'[x] = s => spentBy[x] = s /\ s # t
  BY <1>1, <1>3, TabsAssumption DEF Gone
<1>9. NoReplay'
  <2>1. \A q \in requests : q.kind = "refresh" => q.token \in Tokens
    BY DEF IInv, TypeOK, Request
  <2> QED
    BY <1>5, <1>8, <2>1 DEF IInv, NoReplay, Refreshes
<1>10. PairsAreFresh'
  <2>1. \A q \in requests' : \E r \in requests :
          q.pair = r.pair /\ q.token = r.token /\ q.kind = r.kind
    BY <1>1, <1>2
  <2>2. \A q \in requests' : q.pair # None => q.pair <= issued' /\ Fresh(q.pair)'
    <3>1. \A q \in requests : q.pair \in Tokens \cup {None}
      BY DEF IInv, TypeOK, Request
    <3> QED
      BY <1>1, <1>8, <2>1, <3>1 DEF IInv, PairsAreFresh, Fresh
  <2>3. \A q, r \in requests' : q.pair # None /\ q.pair = r.pair => q = r
    BY <1>1, <1>2 DEF IInv, PairsAreFresh
  <2> QED
    BY <2>2, <2>3 DEF PairsAreFresh
<1>11. IssuedOnly'
  BY <1>1, <1>2, <1>8 DEF IInv, IssuedOnly
<1>12. SpendersAreWatched'
  <2>1. Watched'
    BY <1>6 DEF Watched, NewPage
  <2>2. \A q \in requests' : q.kind = "logout" => q.token # stored'
    BY <1>1, <1>2 DEF IInv, SpendersAreWatched
  <2>3. stored' # None => \A s \in Tabs : spentBy'[stored'] = s =>
                           \E q \in Refreshes(s)' : q.token = stored'
    BY <1>1, <1>5, <1>8 DEF IInv, TypeOK, SpendersAreWatched
  <2> QED
    BY <2>1, <2>2, <2>3 DEF SpendersAreWatched
<1> QED
  BY <1>4, <1>7, <1>9, <1>10, <1>11, <1>12 DEF IInv

\* The answer takes the place of the request.
LEMMA AnswerFacts ==
  ASSUME IInv, NEW q \in requests, NEW pair \in Tokens \cup {None},
         q.kind # "logout", Answer(q, pair)
  PROVE  /\ requests' \subseteq Request
         /\ \A r \in requests' : r.kind # "login" => r.token # None
         /\ \A r \in requests' : \/ r \in requests
                                 \/ /\ r.kind = q.kind /\ r.tab = q.tab
                                    /\ r.token = q.token /\ r.pair = pair
         /\ \A r, p \in requests' \ requests : r = p
         /\ \A t \in Tabs :
              /\ \A r, p \in Refreshes(t)' : r = p
              /\ Refreshes(t)' # {} <=> Refreshes(t) # {}
              /\ \A r \in Refreshes(t)' : r \in Refreshes(t) \/ r.answered
              /\ \A r \in Refreshes(t) : \E p \in Refreshes(t)' : p.token = r.token
         /\ \A t \in Tabs : q.kind = "refresh" /\ q.tab = t =>
              \A r \in Refreshes(t)' : r.answered
<1> DEFINE a == [q EXCEPT !.answered = TRUE, !.pair = pair]
<1>1. q \in Request /\ (q.kind # "login" => q.token # None)
  BY DEF IInv, TypeOK
<1>2. /\ a \in Request
      /\ a.kind = q.kind
      /\ a.tab = q.tab
      /\ a.token = q.token
      /\ a.pair = pair
      /\ a.answered = TRUE
  BY <1>1 DEF Request
<1>3. requests' = (requests \ {q}) \cup IF q.tab = Gone THEN {} ELSE {a}
  BY DEF Answer
<1>4. \A r \in requests' : r \in requests \/ r = a
  BY <1>3
<1> HIDE DEF a
<1>5. /\ requests' \subseteq Request
      /\ \A r \in requests' : r.kind # "login" => r.token # None
  BY <1>1, <1>2, <1>4 DEF IInv, TypeOK
<1>6. ASSUME NEW t \in Tabs, ~(q.kind = "refresh" /\ q.tab = t)
      PROVE  Refreshes(t)' = Refreshes(t)
  BY <1>2, <1>3, <1>6 DEF Refreshes
<1>7. ASSUME NEW t \in Tabs, q.kind = "refresh", q.tab = t
      PROVE  Refreshes(t) = {q} /\ Refreshes(t)' = {a}
  <2>1. Refreshes(t) = {q}
    BY <1>7 DEF Refreshes, IInv, RefreshesAreKnown
  <2>2. q.tab # Gone
    BY <1>7, TabsAssumption DEF Gone
  <2> QED
    BY <1>2, <1>3, <1>7, <2>1, <2>2 DEF Refreshes
<1>8. ASSUME NEW t \in Tabs
      PROVE  /\ \A r, p \in Refreshes(t)' : r = p
             /\ Refreshes(t)' # {} <=> Refreshes(t) # {}
             /\ \A r \in Refreshes(t)' : r \in Refreshes(t) \/ r.answered
             /\ \A r \in Refreshes(t) : \E p \in Refreshes(t)' : p.token = r.token
  BY <1>2, <1>6, <1>7 DEF IInv, RefreshesAreKnown
<1> QED
  BY <1>2, <1>4, <1>5, <1>7, <1>8

LEMMA ServeStep ==
  ASSUME IInv, NEW q \in requests, Serve(q)
  PROVE  IInv'
<1>0. PICK n \in Tokens : n = issued + 1
  BY BoundsAssumption DEF Serve, IssuePair, IInv, TypeOK, Tokens
<1>1. /\ q.kind \in {"login", "refresh"}
      /\ ~q.answered
      /\ UNCHANGED <<stored, page, call, reloads>>
      /\ issued < MaxTokens
      /\ issued' = n
      /\ Answer(q, n)
  BY <1>0 DEF Serve, IssuePair
<1>2. issued \in 0..MaxTokens /\ issued \in Nat
  BY BoundsAssumption DEF IInv, TypeOK
<1>3. /\ q \in Request
      /\ q.kind = "refresh" => q.token \in Tokens
  BY <1>1 DEF IInv, TypeOK, Request
<1>4. \A x \in Tokens :
        spentBy'[x] = IF q.kind = "refresh" /\ x = q.token THEN q.tab ELSE spentBy[x]
  BY <1>3 DEF Serve, IInv, TypeOK
<1>5. spentBy' \in [Tokens -> Tabs \cup {Gone, "logout", "nobody"}]
  BY <1>3 DEF Serve, IInv, TypeOK, Request
<1>6. /\ requests' \subseteq Request
      /\ \A r \in requests' : r.kind # "login" => r.token # None
      /\ \A r \in requests' : \/ r \in requests
                              \/ /\ r.kind = q.kind /\ r.tab = q.tab
                                 /\ r.token = q.token /\ r.pair = n
      /\ \A r, p \in requests' \ requests : r = p
      /\ \A t \in Tabs :
           /\ \A r, p \in Refreshes(t)' : r = p
           /\ Refreshes(t)' # {} <=> Refreshes(t) # {}
           /\ \A r \in Refreshes(t)' : r \in Refreshes(t) \/ r.answered
           /\ \A r \in Refreshes(t) : \E p \in Refreshes(t)' : p.token = r.token
      /\ \A t \in Tabs : q.kind = "refresh" /\ q.tab = t =>
           \A r \in Refreshes(t)' : r.answered
  BY <1>1, AnswerFacts
<1>7. TypeOK'
  BY <1>0, <1>1, <1>2, <1>5, <1>6 DEF IInv, TypeOK, Tokens
<1>8. RefreshesAreKnown'
  BY <1>1, <1>6 DEF IInv, RefreshesAreKnown
<1>9. NoReplay'
  <2>1. ASSUME NEW t \in Tabs, NEW r \in Refreshes(t)', ~r.answered
        PROVE  spentBy'[r.token] # t
    <3>1. r \in Refreshes(t) /\ ~(q.kind = "refresh" /\ q.tab = t)
      BY <1>6, <2>1
    <3>2. r.token \in Tokens
      BY <3>1 DEF Refreshes, IInv, TypeOK, Request
    <3> QED
      BY <1>4, <2>1, <3>1, <3>2 DEF IInv, NoReplay
  <2> QED
    BY <2>1 DEF NoReplay
<1>10. \A r \in requests : r.pair \in Tokens \cup {None} /\ r.token \in Tokens \cup {None}
  BY DEF IInv, TypeOK, Request
<1>11. \A x \in Tokens : x <= issued => x # n
  BY <1>0, <1>2 DEF Tokens
<1>12. None <= issued /\ None # n
  BY <1>0, <1>2 DEF None
<1>13. Fresh(n)'
  <2>1. spentBy[n] = "nobody"
    BY <1>0, <1>2 DEF IInv, IssuedOnly
  <2>2. \A r \in requests : r.token # n
    BY <1>10, <1>11, <1>12 DEF IInv, IssuedOnly
  <2>3. stored # n
    BY <1>11, <1>12 DEF IInv, TypeOK, IssuedOnly
  <2> QED
    BY <1>1, <1>2, <1>3, <1>4, <1>6, <2>1, <2>2, <2>3 DEF Fresh
<1>14. \A r \in requests : r.pair # None =>
         r.pair <= issued /\ r.pair # n /\ Fresh(r.pair)'
  BY <1>1, <1>4, <1>6, <1>10, <1>11 DEF IInv, PairsAreFresh, Fresh
<1>15. PairsAreFresh'
  <2>1. \A r \in requests' : r.pair # None => r.pair <= issued' /\ Fresh(r.pair)'
    <3>1. ASSUME NEW r \in requests', r.pair # None
          PROVE  r.pair <= issued' /\ Fresh(r.pair)'
      <4>1. CASE r \in requests
        <5>1. r.pair <= issued /\ Fresh(r.pair)' /\ r.pair \in Tokens
          BY <1>10, <1>14, <3>1, <4>1
        <5>2. r.pair \in Nat
          BY <5>1 DEF Tokens
        <5> QED
          BY <1>0, <1>1, <1>2, <5>1, <5>2
      <4>2. CASE r.pair = n
        BY <1>0, <1>1, <1>2, <1>13, <4>2
      <4> QED
        BY <1>6, <4>1, <4>2
    <3> QED
      BY <3>1
  <2>2. \A r, p \in requests' : r.pair # None /\ r.pair = p.pair => r = p
    BY <1>6, <1>14 DEF IInv, PairsAreFresh
  <2> QED
    BY <2>1, <2>2 DEF PairsAreFresh
<1>16. IssuedOnly'
  <2>1. \A x \in Tokens \cup {None} : x <= issued => x <= issued'
    BY <1>1, <1>0, <1>2 DEF Tokens, None
  <2>2. \A r \in requests' : r.token <= issued'
    BY <1>6, <1>10, <2>1 DEF IInv, IssuedOnly
  <2>3. stored' <= issued'
    BY <1>1, <2>1 DEF IInv, TypeOK, IssuedOnly
  <2>4. ASSUME NEW x \in Tokens, x > issued' PROVE spentBy'[x] = "nobody"
    <3>1. x > issued
      BY <1>0, <1>1, <1>2, <2>4 DEF Tokens
    <3>2. ~(q.kind = "refresh" /\ x = q.token)
      BY <1>2, <3>1 DEF IInv, IssuedOnly, Tokens
    <3> QED
      BY <1>4, <3>1, <3>2 DEF IInv, IssuedOnly
  <2> QED
    BY <2>2, <2>3, <2>4 DEF IssuedOnly
<1>17. SpendersAreWatched'
  <2>1. Watched => Watched'
    BY <1>1, <1>6 DEF Watched
  <2>2. \A r \in requests' : r.kind = "logout" => r.token # stored'
    BY <1>1, <1>6 DEF IInv, SpendersAreWatched
  <2>3. \A r \in requests' : r.kind = "refresh" /\ r.token = stored' => Watched'
    BY <1>1, <1>6, <2>1 DEF IInv, SpendersAreWatched
  <2>4. stored' # None => spentBy'[stored'] = "nobody" \/ Watched'
    BY <1>1, <1>4, <2>1 DEF IInv, TypeOK, SpendersAreWatched
  <2>5. ASSUME stored' # None, NEW t \in Tabs, spentBy'[stored'] = t
        PROVE  \E r \in Refreshes(t)' : r.token = stored'
    <3>1. \E r \in Refreshes(t) : r.token = stored
      <4>1. CASE q.kind = "refresh" /\ stored = q.token
        BY <1>1, <1>4, <2>5, <4>1 DEF Refreshes, IInv, TypeOK
      <4>2. CASE ~(q.kind = "refresh" /\ stored = q.token)
        BY <1>1, <1>4, <2>5, <4>2 DEF IInv, TypeOK, SpendersAreWatched
      <4> QED
        BY <4>1, <4>2
    <3> QED
      BY <1>1, <1>6, <3>1
  <2> QED
    BY <2>2, <2>3, <2>4, <2>5 DEF SpendersAreWatched
<1> QED
  BY <1>7, <1>8, <1>9, <1>15, <1>16, <1>17 DEF IInv

\* A logout is gone, served or lost.
LEMMA LogoutEndsStep ==
  ASSUME IInv, NEW q \in requests, q.kind = "logout", requests' = requests \ {q},
         UNCHANGED <<stored, page, call, issued, reloads>>,
         spentBy' = [spentBy EXCEPT ![q.token] = IF @ = "nobody" THEN "logout" ELSE @]
           \/ spentBy' = spentBy
  PROVE  IInv'
<1>1. q.token \in Tokens /\ q.token # stored
  BY DEF IInv, TypeOK, Request, SpendersAreWatched
<1>2. /\ spentBy' \in [Tokens -> Tabs \cup {Gone, "logout", "nobody"}]
      /\ \A x \in Tokens \ {q.token} : spentBy'[x] = spentBy[x]
      /\ \A x \in Tokens, t \in Tabs : spentBy'[x] = t => spentBy[x] = t
  BY <1>1, TabsAssumption DEF IInv, TypeOK
<1>3. \A t \in Tabs : Refreshes(t)' = Refreshes(t)
  BY DEF Refreshes
<1>4. TypeOK'
  BY <1>2 DEF IInv, TypeOK
<1>5. RefreshesAreKnown'
  BY <1>3 DEF IInv, RefreshesAreKnown
<1>6. NoReplay'
  <2>1. \A r \in requests : r.kind = "refresh" => r.token \in Tokens
    BY DEF IInv, TypeOK, Request
  <2> QED
    BY <1>2, <1>3, <2>1 DEF IInv, NoReplay, Refreshes
<1>7. \A r \in requests : r.pair # None => r.pair \in Tokens \ {q.token}
  BY DEF IInv, TypeOK, Request, PairsAreFresh, Fresh
<1>8. PairsAreFresh'
  BY <1>2, <1>7 DEF IInv, PairsAreFresh, Fresh
<1>9. IssuedOnly'
  <2>1. \A x \in Tokens : x > issued => x # q.token
    BY <1>1 DEF IInv, TypeOK, IssuedOnly, Tokens
  <2> QED
    BY <1>2, <2>1 DEF IInv, IssuedOnly
<1>10. SpendersAreWatched'
  <2>1. Watched => Watched'
    BY <1>3 DEF Watched
  <2> QED
    BY <1>1, <1>2, <1>3, <2>1 DEF IInv, TypeOK, SpendersAreWatched
<1> QED
  BY <1>4, <1>5, <1>6, <1>8, <1>9, <1>10 DEF IInv

LEMMA FailsStep ==
  ASSUME IInv, NEW q \in requests, RequestFails(q)
  PROVE  IInv'
<1>1. UNCHANGED <<stored, page, call, issued, spentBy, reloads>>
  BY DEF RequestFails
<1>2. CASE q.kind = "logout"
  BY <1>1, <1>2, LogoutEndsStep DEF RequestFails
<1>3. CASE q.kind # "logout"
  <2>1. Answer(q, None)
    BY <1>3 DEF RequestFails
  <2>2. /\ requests' \subseteq Request
        /\ \A r \in requests' : r.kind # "login" => r.token # None
        /\ \A r \in requests' : \/ r \in requests
                                \/ /\ r.kind = q.kind /\ r.tab = q.tab
                                   /\ r.token = q.token /\ r.pair = None
        /\ \A t \in Tabs :
             /\ \A r, p \in Refreshes(t)' : r = p
             /\ Refreshes(t)' # {} <=> Refreshes(t) # {}
             /\ \A r \in Refreshes(t)' : r \in Refreshes(t) \/ r.answered
             /\ \A r \in Refreshes(t) : \E p \in Refreshes(t)' : p.token = r.token
    BY <1>3, <2>1, AnswerFacts
  <2>3. TypeOK'
    BY <1>1, <2>2 DEF IInv, TypeOK
  <2>4. RefreshesAreKnown' /\ NoReplay'
    BY <1>1, <2>2 DEF IInv, RefreshesAreKnown, NoReplay
  <2>5. PairsAreFresh'
    BY <1>1, <2>2 DEF IInv, PairsAreFresh, Fresh
  <2>6. IssuedOnly'
    BY <1>1, <2>2 DEF IInv, IssuedOnly
  <2>7. SpendersAreWatched'
    <3>1. Watched => Watched'
      BY <1>1, <2>2 DEF Watched
    <3>2. \A r \in requests' : r.kind = "logout" => r.token # stored'
      BY <1>1, <1>3, <2>2 DEF IInv, SpendersAreWatched
    <3>5. \A r \in requests' : r.kind = "refresh" /\ r.token = stored' => Watched'
      BY <1>1, <2>2, <3>1 DEF IInv, SpendersAreWatched
    <3>3. stored' # None => \A t \in Tabs : spentBy'[stored'] = t =>
                             \E r \in Refreshes(t)' : r.token = stored'
      BY <1>1, <2>2 DEF IInv, SpendersAreWatched
    <3>4. stored' # None => spentBy'[stored'] = "nobody" \/ Watched'
      BY <1>1, <3>1 DEF IInv, SpendersAreWatched
    <3> QED
      BY <3>2, <3>3, <3>4, <3>5 DEF SpendersAreWatched
  <2> QED
    BY <2>3, <2>4, <2>5, <2>6, <2>7 DEF IInv
<1> QED
  BY <1>2, <1>3

-----------------------------------------------------------------------------

LEMMA InvStep == IInv /\ [Next]_vars => IInv'
<1> SUFFICES ASSUME IInv, [Next]_vars PROVE IInv'
  OBVIOUS
<1>1. CASE UNCHANGED vars
  <2>1. TypeOK'
    BY <1>1 DEF vars, IInv, TypeOK
  <2> QED
    BY <1>1, <2>1, QuietStep DEF vars
<1>2. ASSUME NEW t \in Tabs,
             Mount(t) \/ Render(t) \/ Expire(t) \/ Login(t) \/ Logout(t) \/ Reload(t)
      PROVE  IInv'
  BY <1>2, MountStep, RenderStep, LoginStep, LogoutStep, ReloadStep
<1>3. ASSUME NEW c \in Tabs \X Slots,
             \/ CallWithToken(c) \/ CallJoinsRefresh(c) \/ CallStartsRefresh(c)
             \/ CallFindsNoToken(c) \/ CallReturns(c) \/ CallUnauthorized(c)
      PROVE  IInv'
  BY <1>3, CallStep, CallStartsStep, CallClearsStep
<1>4. ASSUME NEW q \in requests, RefreshAnswered(q) \/ LoginAnswered(q) \/ Network(q)
      PROVE  IInv'
  <2>1. CASE ServeLogout(q)
    BY <2>1, LogoutEndsStep DEF ServeLogout
  <2> QED
    BY <1>4, <2>1, RefreshAnsweredStep, LoginAnsweredStep, ServeStep, FailsStep DEF Network
<1> QED
  BY <1>1, <1>2, <1>3, <1>4 DEF Next

\* The inductive invariant holds of the browser's session, its types included.
THEOREM InvCorrect == Spec => []IInv
<1> QED
  BY InvInit, InvStep, PTL DEF Spec

\* A page has exactly one refresh under way while callers share it
\* (refreshInFlight in auth-context.tsx), and none otherwise.
THEOREM OneRefreshCorrect == Spec => []OneRefreshPerPage
<1>1. ASSUME IInv PROVE OneRefreshPerPage
  <2>1. ASSUME NEW t \in Tabs
        PROVE  Cardinality(Refreshes(t)) = IF page[t].inFlight = "pending" THEN 1 ELSE 0
    <3>1. CASE Refreshes(t) = {}
      BY <1>1, <3>1, FS_EmptySet DEF IInv, RefreshesAreKnown
    <3>2. CASE Refreshes(t) # {}
      <4>1. PICK q \in Refreshes(t) : TRUE
        BY <3>2
      <4>2. Refreshes(t) = {q} /\ page[t].inFlight = "pending"
        BY <1>1, <4>1 DEF IInv, RefreshesAreKnown
      <4>3. Cardinality({q}) = 1
        BY FS_Singleton
      <4> QED
        BY <4>2, <4>3
    <3> QED
      BY <3>1, <3>2
  <2> QED
    BY <2>1 DEF OneRefreshPerPage
<1> QED
  BY <1>1, InvCorrect, PTL

\* A page never presents a refresh token that it has exchanged itself.
THEOREM NoReplayCorrect == Spec => []NoReplay
<1>1. IInv => NoReplay
  BY DEF IInv
<1> QED
  BY <1>1, InvCorrect, PTL

\* localStorage keeps no token the backend refuses, unless a page is about to
\* find out.
THEOREM StoredCorrect == Spec => []StoredIsUsable
<1>1. IInv => StoredIsUsable
  BY DEF IInv, SpendersAreWatched, Watched, StoredIsUsable
<1> QED
  BY <1>1, InvCorrect, PTL

=============================================================================
