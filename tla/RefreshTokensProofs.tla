------------------------- MODULE RefreshTokensProofs -------------------------
(* Proofs about RefreshTokens, for every number of accounts, tokens and    *)
(* concurrent requests.                                                    *)
EXTENDS RefreshTokens, TLAPS

LEMMA InvInit == Init => IInv
  BY DEF Init, IInv, HeldTokens, Parents, TypeOK, Idle, NoToken, Issued, NoParent

\* Marking a row revoked or expired keeps its type, its account and its parent,
\* and no row loses a revocation.
LEMMA MarkRow ==
  ASSUME IInv, NEW t \in Tokens, Issued(t),
         \/ token' = [token EXCEPT ![t].revoked = TRUE]
         \/ token' = [token EXCEPT ![t].expired = TRUE]
  PROVE  /\ token' \in [Tokens -> TokenRow \cup {NoToken}]
         /\ \A x \in Tokens :
              /\ Issued(x)' = Issued(x)
              /\ Issued(x) => /\ token'[x].user = token[x].user
                              /\ token'[x].parent = token[x].parent
                              /\ token[x].revoked => token'[x].revoked
<1> DEFINE row == token[t]
<1>1. row \in TokenRow
  BY DEF IInv, TypeOK, Issued
<1>2. PICK new \in TokenRow :
         /\ token' = [token EXCEPT ![t] = new]
         /\ new.user = row.user
         /\ new.parent = row.parent
         /\ row.revoked => new.revoked
  <2>1. CASE token' = [token EXCEPT ![t].revoked = TRUE]
    <3>1. [row EXCEPT !.revoked = TRUE] \in TokenRow
      BY <1>1 DEF TokenRow
    <3> QED
      BY <1>1, <2>1, <3>1 DEF TokenRow
  <2>2. CASE token' = [token EXCEPT ![t].expired = TRUE]
    <3>1. [row EXCEPT !.expired = TRUE] \in TokenRow
      BY <1>1 DEF TokenRow
    <3> QED
      BY <1>1, <2>2, <3>1 DEF TokenRow
  <2> QED
    BY <2>1, <2>2
<1>3. new # NoToken
  BY DEF TokenRow, NoToken
<1> QED
  BY <1>1, <1>2, <1>3 DEF IInv, TypeOK, Issued

\* A step that issues no token and takes back no revocation keeps Parents.
LEMMA ParentsKept ==
  ASSUME IInv,
         \A x \in Tokens :
           /\ Issued(x)' = Issued(x)
           /\ Issued(x) => /\ token'[x].user = token[x].user
                           /\ token'[x].parent = token[x].parent
                           /\ token[x].revoked => token'[x].revoked
  PROVE  Parents'
<1> SUFFICES ASSUME NEW c \in Tokens, Issued(c)', token'[c].parent # NoParent
             PROVE  /\ token'[token'[c].parent] # NoToken
                    /\ token'[token'[c].parent].revoked
                    /\ token'[token'[c].parent].user = token'[c].user
  BY DEF Parents, Issued
<1>1. /\ Issued(c)
      /\ token'[c].parent = token[c].parent
      /\ token'[c].user = token[c].user
  OBVIOUS
<1>2. token[c].parent \in Tokens
  BY <1>1 DEF IInv, TypeOK, TokenRow, Issued
<1>3. /\ Issued(token[c].parent)
      /\ token[token[c].parent].revoked
      /\ token[token[c].parent].user = token[c].user
  BY <1>1 DEF IInv, Parents
<1> QED
  BY <1>1, <1>2, <1>3 DEF Issued

\* Every action preserves the inductive invariant.
LEMMA InvStep == IInv /\ [Next]_vars => IInv'
<1> SUFFICES ASSUME IInv, [Next]_vars
             PROVE  IInv'
  OBVIOUS
<1> USE TokensAssumption
        DEF IInv, HeldTokens, Parents, TypeOK, Tokens, TokenRow, InProgress, Idle, NoToken, NoParent,
            Issued, At, Begin, Goto, Return
<1>1. ASSUME NEW q \in Requests, NEW u \in Users, Login(q, u) PROVE IInv'
  BY <1>1 DEF Login
<1>2. ASSUME NEW q \in Requests, NEW t \in Tokens, FindToken(q, t) PROVE IInv'
  BY <1>2 DEF FindToken
<1>3. ASSUME NEW q \in Requests, ReadUser(q) PROVE IInv'
  <2>1. /\ request[q].pc = "readUser"
        /\ \/ request' = [request EXCEPT ![q] = Idle]
           \/ request' = [request EXCEPT ![q].pc = "revoke"]
        /\ UNCHANGED <<isActive, token>>
    BY <1>3 DEF ReadUser
  <2>2. CASE request' = [request EXCEPT ![q] = Idle]
    BY <2>1, <2>2
  <2>3. CASE request' = [request EXCEPT ![q].pc = "revoke"]
    BY <2>1, <2>3
  <2> QED
    BY <2>1, <2>2, <2>3
<1>4. ASSUME NEW q \in Requests, RevokePresented(q) PROVE IInv'
  <2>1. /\ request[q] \in InProgress
        /\ request[q].token \in Tokens
        /\ Issued(request[q].token)
    BY <1>4 DEF RevokePresented
  <2>2. token' = [token EXCEPT ![request[q].token].revoked = TRUE]
    BY <1>4 DEF RevokePresented
  <2>3. token'[request[q].token].revoked
    BY <2>1, <2>2
  <2> HIDE DEF TokenRow, NoToken, Issued
  <2>4. /\ token' \in [Tokens -> TokenRow \cup {NoToken}]
        /\ \A x \in Tokens :
             /\ Issued(x)' = Issued(x)
             /\ Issued(x) => /\ token'[x].user = token[x].user
                             /\ token'[x].parent = token[x].parent
                             /\ token[x].revoked => token'[x].revoked
    BY <2>1, <2>2, MarkRow
  <2>5. TypeOK'
    BY <1>4, <2>1, <2>4 DEF RevokePresented
  <2>6. HeldTokens'
    BY <1>4, <2>1, <2>3, <2>4 DEF RevokePresented
  <2>7. Parents'
    BY <2>4, ParentsKept
  <2> QED
    BY <2>5, <2>6, <2>7
<1>5. ASSUME NEW q \in Requests, IssueTokenPair(q) PROVE IInv'
  BY <1>5 DEF IssueTokenPair, Fresh
<1>6. ASSUME NEW q \in Requests, RequestFails(q) PROVE IInv'
  BY <1>6 DEF RequestFails
<1>7. ASSUME NEW t \in Tokens, RevokeRefreshToken(t) PROVE IInv'
  <2> HIDE DEF TokenRow, NoToken, Issued
  <2>1. /\ token' \in [Tokens -> TokenRow \cup {NoToken}]
        /\ \A x \in Tokens :
             /\ Issued(x)' = Issued(x)
             /\ Issued(x) => /\ token'[x].user = token[x].user
                             /\ token'[x].parent = token[x].parent
                             /\ token[x].revoked => token'[x].revoked
    BY <1>7, MarkRow DEF RevokeRefreshToken
  <2>2. UNCHANGED <<isActive, request>>
    BY <1>7 DEF RevokeRefreshToken
  <2>3. TypeOK'
    BY <2>1, <2>2
  <2>4. HeldTokens'
    BY <2>1, <2>2
  <2>5. Parents'
    BY <2>1, ParentsKept
  <2> QED
    BY <2>3, <2>4, <2>5
<1>8. ASSUME NEW t \in Tokens, Expire(t) PROVE IInv'
  <2> HIDE DEF TokenRow, NoToken, Issued
  <2>1. /\ token' \in [Tokens -> TokenRow \cup {NoToken}]
        /\ \A x \in Tokens :
             /\ Issued(x)' = Issued(x)
             /\ Issued(x) => /\ token'[x].user = token[x].user
                             /\ token'[x].parent = token[x].parent
                             /\ token[x].revoked => token'[x].revoked
    BY <1>8, MarkRow DEF Expire
  <2>2. UNCHANGED <<isActive, request>>
    BY <1>8 DEF Expire
  <2>3. TypeOK'
    BY <2>1, <2>2
  <2>4. HeldTokens'
    BY <2>1, <2>2
  <2>5. Parents'
    BY <2>1, ParentsKept
  <2> QED
    BY <2>3, <2>4, <2>5
<1>9. ASSUME NEW u \in Users, SetActive(u) PROVE IInv'
  BY <1>9 DEF SetActive
<1>10. CASE UNCHANGED vars
  BY <1>10 DEF vars
<1> QED
  BY <1>1, <1>2, <1>3, <1>4, <1>5, <1>6, <1>7, <1>8, <1>9, <1>10 DEF Next

\* IInv, the inductive invariant of the session store.
THEOREM InvCorrect == Spec => []IInv
  BY InvInit, InvStep, PTL DEF Spec

\* A token is revoked before it is exchanged, and never comes back while a
\* request is about to issue its successor (ExchangedIsRevoked).
THEOREM ExchangedCorrect == Spec => []ExchangedIsRevoked
<1>1. IInv => ExchangedIsRevoked
  BY DEF IInv, HeldTokens, Parents, TypeOK, ExchangedIsRevoked, Children, At, InProgress, Idle,
         NoParent, Tokens
<1> QED
  BY <1>1, InvCorrect, PTL

\* Tokens of one family belong to one account (FamilyHasOneUser).
THEOREM FamilyCorrect == Spec => []FamilyHasOneUser
<1>1. IInv => FamilyHasOneUser
  BY DEF IInv, Parents, FamilyHasOneUser, Children, NoParent, Tokens
<1> QED
  BY <1>1, InvCorrect, PTL

-----------------------------------------------------------------------------
(* Action properties *)

\* Only IssueTokenPair adds a token, and its parent is the token of the request.
LEMMA OnlyIssueAddsTokens ==
  ASSUME IInv, Next, NEW t \in Tokens,
         \A q \in Requests : request[q] # Idle => request[q].token # t
  PROVE  Children(t)' = Children(t)
<1> USE TokensAssumption DEF IInv, TypeOK, Children
<1>1. ASSUME NEW q \in Requests, IssueTokenPair(q) PROVE Children(t)' = Children(t)
  <2>1. request[q] # Idle /\ request[q].token # t
    BY <1>1 DEF IssueTokenPair, At, Idle
  <2>2. PICK n \in Tokens :
          /\ ~Issued(n)
          /\ token' = [token EXCEPT ![n] =
                         [user |-> request[q].user, parent |-> request[q].token,
                          revoked |-> FALSE, expired |-> FALSE]]
    BY <1>1 DEF IssueTokenPair, Fresh
  <2>3. token'[n].parent # t
    BY <2>1, <2>2
  <2> QED
    BY <2>2, <2>3 DEF Issued
<1>2. ASSUME NEW x \in Tokens, Issued(x),
             \/ token' = [token EXCEPT ![x].revoked = TRUE]
             \/ token' = [token EXCEPT ![x].expired = TRUE]
      PROVE  Children(t)' = Children(t)
  <2>1. \A c \in Tokens :
          /\ Issued(c)' = Issued(c)
          /\ Issued(c) => token'[c].parent = token[c].parent
    BY <1>2, MarkRow
  <2> QED
    BY <2>1 DEF Issued
<1>3. ASSUME NEW q \in Requests, RevokePresented(q) PROVE Children(t)' = Children(t)
  <2>1. request[q].token \in Tokens /\ Issued(request[q].token)
    BY <1>3 DEF RevokePresented, HeldTokens, At, InProgress, Idle, NoParent
  <2> QED
    BY <1>2, <1>3, <2>1 DEF RevokePresented
<1>4. ASSUME UNCHANGED token PROVE Children(t)' = Children(t)
  BY <1>4 DEF Issued
<1> QED
  BY <1>1, <1>2, <1>3, <1>4
  DEF Next, Login, FindToken, ReadUser, RequestFails, RevokeRefreshToken, Expire, SetActive

\* A request takes up a token only when it finds it usable.
LEMMA SpentIsNotTakenUp ==
  ASSUME IInv, Next, NEW t \in Tokens, Spent(t)
  PROVE  Spent(t)'
<1> USE TokensAssumption DEF IInv, TypeOK
<1>1. Issued(t)' /\ token'[t].revoked
  <2>1. ASSUME NEW q \in Requests, IssueTokenPair(q) PROVE Issued(t)' /\ token'[t].revoked
    BY <2>1 DEF IssueTokenPair, Fresh, Spent, Issued
  <2>2. ASSUME NEW x \in Tokens, Issued(x),
               \/ token' = [token EXCEPT ![x].revoked = TRUE]
               \/ token' = [token EXCEPT ![x].expired = TRUE]
        PROVE  Issued(t)' /\ token'[t].revoked
    BY <2>2, MarkRow DEF Spent
  <2>3. ASSUME NEW q \in Requests, RevokePresented(q) PROVE Issued(t)' /\ token'[t].revoked
    <3>1. request[q].token \in Tokens /\ Issued(request[q].token)
      BY <2>3 DEF RevokePresented, HeldTokens, At, InProgress, Idle, NoParent
    <3> QED
      BY <2>2, <2>3, <3>1 DEF RevokePresented
  <2>4. ASSUME UNCHANGED token PROVE Issued(t)' /\ token'[t].revoked
    BY <2>4 DEF Spent, Issued
  <2> QED
    BY <2>1, <2>2, <2>3, <2>4
    DEF Next, Login, FindToken, ReadUser, RequestFails, RevokeRefreshToken, Expire, SetActive
<1>2. \A q \in Requests : request'[q] # Idle => request'[q].token # t
  <2> USE DEF Spent, Begin, Goto, Return, At, Idle, InProgress
  <2>1. ASSUME NEW q \in Requests, NEW u \in Users, Login(q, u) PROVE \A p \in Requests : request'[p] # Idle => request'[p].token # t
    BY <2>1 DEF Login, NoParent, Tokens
  <2>2. ASSUME NEW q \in Requests, NEW x \in Tokens, FindToken(q, x) PROVE \A p \in Requests : request'[p] # Idle => request'[p].token # t
    BY <2>2 DEF FindToken
  <2>3. ASSUME NEW q \in Requests,
               ReadUser(q) \/ RevokePresented(q) \/ IssueTokenPair(q) \/ RequestFails(q)
        PROVE  \A p \in Requests : request'[p] # Idle => request'[p].token # t
    BY <2>3 DEF ReadUser, RevokePresented, IssueTokenPair, RequestFails
  <2>4. ASSUME UNCHANGED request PROVE \A p \in Requests : request'[p] # Idle => request'[p].token # t
    BY <2>4
  <2> QED
    BY <2>1, <2>2, <2>3, <2>4 DEF Next, RevokeRefreshToken, Expire, SetActive
<1> QED
  BY <1>1, <1>2 DEF Spent

\* A spent token never yields another session (SpentIsFinal).
THEOREM SpentCorrect == Spec => SpentIsFinal
<1>1. IInv /\ [Next]_vars =>
        [\A t \in Tokens : Spent(t) => Spent(t)' /\ Children(t)' = Children(t)]_vars
  BY OnlyIssueAddsTokens, SpentIsNotTakenUp DEF Spent
<1> QED
  BY <1>1, InvCorrect, PTL DEF Spec, SpentIsFinal

\* While an account is locked out only its activation ends that, and no
\* token of it is issued.
LEMMA LockoutHolds ==
  ASSUME IInv, Next, NEW u \in Users, LockedOut(u)
  PROVE  Sessions(u)' = Sessions(u) /\ (isActive'[u] \/ LockedOut(u)')
<1> USE DEF IInv, TypeOK
<1>1. Sessions(u)' = Sessions(u)
  <2>1. ASSUME NEW q \in Requests, IssueTokenPair(q) PROVE Sessions(u)' = Sessions(u)
    <3>1. request[q].user # u
      BY <2>1 DEF IssueTokenPair, LockedOut, At
    <3>2. PICK n \in Tokens :
            /\ ~Issued(n)
            /\ token' = [token EXCEPT ![n] =
                           [user |-> request[q].user, parent |-> request[q].token,
                            revoked |-> FALSE, expired |-> FALSE]]
      BY <2>1 DEF IssueTokenPair, Fresh
    <3> QED
      BY <3>1, <3>2 DEF Sessions, Issued
  <2>2. ASSUME NEW x \in Tokens, Issued(x),
               \/ token' = [token EXCEPT ![x].revoked = TRUE]
               \/ token' = [token EXCEPT ![x].expired = TRUE]
        PROVE  Sessions(u)' = Sessions(u)
    <3>1. \A c \in Tokens :
            /\ Issued(c)' = Issued(c)
            /\ Issued(c) => token'[c].user = token[c].user
      BY <2>2, MarkRow
    <3> QED
      BY <3>1 DEF Sessions, Issued
  <2>3. ASSUME NEW q \in Requests, RevokePresented(q) PROVE Sessions(u)' = Sessions(u)
    <3>1. request[q].token \in Tokens /\ Issued(request[q].token)
      BY <2>3 DEF RevokePresented, HeldTokens, NoParent, At, InProgress, Idle
    <3> QED
      BY <2>2, <2>3, <3>1 DEF RevokePresented
  <2>4. ASSUME UNCHANGED token PROVE Sessions(u)' = Sessions(u)
    BY <2>4 DEF Sessions, Issued
  <2> QED
    BY <2>1, <2>2, <2>3, <2>4
    DEF Next, Login, FindToken, ReadUser, RequestFails, RevokeRefreshToken, Expire, SetActive
<1>2. isActive'[u] \/ LockedOut(u)'
  <2> USE DEF LockedOut, Begin, Goto, Return, At, Idle, InProgress
  <2>1. ASSUME NEW q \in Requests, NEW v \in Users, Login(q, v) PROVE LockedOut(u)'
    BY <2>1 DEF Login
  <2>2. ASSUME NEW q \in Requests, NEW x \in Tokens, FindToken(q, x) PROVE LockedOut(u)'
    BY <2>2 DEF FindToken
  <2>3. ASSUME NEW q \in Requests,
               ReadUser(q) \/ RevokePresented(q) \/ IssueTokenPair(q) \/ RequestFails(q)
        PROVE  LockedOut(u)'
    <3>1. /\ UNCHANGED isActive
          /\ \A p \in Requests \ {q} : request'[p] = request[p]
      BY <2>3 DEF ReadUser, RevokePresented, IssueTokenPair, RequestFails
    <3>2. CASE ReadUser(q)
      BY <2>3, <3>1, <3>2 DEF ReadUser
    <3>3. CASE RevokePresented(q)
      BY <2>3, <3>1, <3>3 DEF RevokePresented
    <3>4. CASE request' = [request EXCEPT ![q] = Idle]
      BY <3>1, <3>4
    <3> QED
      BY <2>3, <3>2, <3>3, <3>4 DEF IssueTokenPair, RequestFails
  <2>4. ASSUME UNCHANGED request PROVE isActive'[u] \/ LockedOut(u)'
    BY <2>4
  <2> QED
    BY <2>1, <2>2, <2>3, <2>4 DEF Next, RevokeRefreshToken, Expire, SetActive
<1> QED
  BY <1>1, <1>2

\* A deactivated account gets no new session (DeactivatedGetsNoSession).
THEOREM DeactivatedCorrect == Spec => DeactivatedGetsNoSession
<1>1. IInv /\ [Next]_vars =>
        [\A u \in Users :
           LockedOut(u) => /\ Sessions(u)' = Sessions(u)
                           /\ isActive'[u] \/ LockedOut(u)']_vars
  BY LockoutHolds
<1> QED
  BY <1>1, InvCorrect, PTL DEF Spec, DeactivatedGetsNoSession

=============================================================================
