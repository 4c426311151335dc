---------------------------- MODULE RefreshTokens ----------------------------
(***************************************************************************)
(* Sessions of the backend (backend/src/auth/auth.service.ts): a login     *)
(* issues an access token and a refresh token, a refresh revokes the       *)
(* presented refresh token and issues a new pair, a logout revokes, and an *)
(* administrator may deactivate the account at any time.                   *)
(*                                                                         *)
(* Any number of clients may hold, and present, any token that was ever    *)
(* issued. Each database call of a request is an action of its own; access *)
(* tokens are stateless and left out.                                      *)
(***************************************************************************)
EXTENDS Integers

CONSTANTS
  Users,      \* accounts
  MaxTokens,  \* bound: refresh tokens ever issued
  Requests    \* login and refresh requests handled at the same time

ASSUME TokensAssumption == MaxTokens \in Nat

Tokens == 1..MaxTokens

VARIABLES
  isActive,  \* isActive[u]: users.isActive
  token,     \* token[t]: row of refresh_tokens, or NoToken
  request    \* request[q]: the login or refresh in progress, or Idle

vars == <<isActive, token, request>>

NoToken == [user |-> "none"]
Idle == [pc |-> "idle"]

\* A login has no parent.
NoParent == 0

TokenRow == [user : Users, parent : Tokens \cup {NoParent},
             revoked : BOOLEAN, expired : BOOLEAN]

InProgress == [pc : {"readUser", "revoke", "issue"}, user : Users,
               token : Tokens \cup {NoParent}]

TypeOK ==
  /\ isActive \in [Users -> BOOLEAN]
  /\ token \in [Tokens -> TokenRow \cup {NoToken}]
  /\ request \in [Requests -> InProgress \cup {Idle}]

Init ==
  /\ isActive = [u \in Users |-> TRUE]
  /\ token = [t \in Tokens |-> NoToken]
  /\ request = [q \in Requests |-> Idle]

Issued(t) == token[t] # NoToken
Children(t) == {c \in Tokens : Issued(c) /\ token[c].parent = t}

At(q, label) == request[q].pc = label
Begin(q, r) == request[q] = Idle /\ request' = [request EXCEPT ![q] = r]
Goto(q, label) == request' = [request EXCEPT ![q].pc = label]
Return(q) == request' = [request EXCEPT ![q] = Idle]

-----------------------------------------------------------------------------
\* validateCredentials: the account is read, then the password verified.
Login(q, u) ==
  /\ isActive[u]
  /\ Begin(q, [pc |-> "issue", user |-> u, token |-> NoParent])
  /\ UNCHANGED <<isActive, token>>

\* Mutant: the check of revokedAt is forgotten.
FindUnexpiredToken(q, t) ==
  /\ Issued(t)
  /\ ~token[t].expired
  /\ Begin(q, [pc |-> "readUser", user |-> token[t].user, token |-> t])
  /\ UNCHANGED <<isActive, token>>

\* refresh: the presented token is found and neither revoked nor expired.
\* What is looked at here is not looked at again.
FindToken(q, t) ==
  /\ Issued(t)
  /\ ~token[t].revoked
  /\ ~token[t].expired
  /\ Begin(q, [pc |-> "readUser", user |-> token[t].user, token |-> t])
  /\ UNCHANGED <<isActive, token>>

\* Mutant: isActive is not looked at again.
ReadAnyUser(q) ==
  /\ At(q, "readUser")
  /\ Goto(q, "revoke")
  /\ UNCHANGED <<isActive, token>>

\* Mutant: the new pair is issued before the presented token is revoked.
ReadUserThenIssue(q) ==
  /\ At(q, "readUser")
  /\ IF isActive[request[q].user] THEN Goto(q, "issue") ELSE Return(q)
  /\ UNCHANGED <<isActive, token>>

\* The account of the token is read.
ReadUser(q) ==
  /\ At(q, "readUser")
  /\ IF isActive[request[q].user] THEN Goto(q, "revoke") ELSE Return(q)
  /\ UNCHANGED <<isActive, token>>

\* An update by row id, whether or not the row is revoked by now.
RevokePresented(q) ==
  /\ At(q, "revoke")
  /\ token' = [token EXCEPT ![request[q].token].revoked = TRUE]
  /\ Goto(q, "issue")
  /\ UNCHANGED isActive

\* The id of the next row: ids are given out in order.
Fresh(t) == ~Issued(t) /\ \A u \in Tokens : u < t => Issued(u)

\* issueTokenPair: the row of the new refresh token.
IssueTokenPair(q) ==
  /\ At(q, "issue")
  /\ \E t \in Tokens :
       /\ Fresh(t)
       /\ token' = [token EXCEPT ![t] =
                      [user |-> request[q].user, parent |-> request[q].token,
                       revoked |-> FALSE, expired |-> FALSE]]
  /\ Return(q)
  /\ UNCHANGED isActive

\* revokeRefreshToken, called by logout: one updateMany.
RevokeRefreshToken(t) ==
  /\ Issued(t)
  /\ ~token[t].revoked
  /\ token' = [token EXCEPT ![t].revoked = TRUE]
  /\ UNCHANGED <<isActive, request>>

SetActive(u) ==
  /\ isActive' = [isActive EXCEPT ![u] = ~@]
  /\ UNCHANGED <<token, request>>

\* Thirty days pass.
Expire(t) ==
  /\ Issued(t)
  /\ ~token[t].expired
  /\ token' = [token EXCEPT ![t].expired = TRUE]
  /\ UNCHANGED <<isActive, request>>

\* A database call throws or the process ends: the client gets no pair, and
\* a token that was revoked stays revoked.
RequestFails(q) ==
  /\ request[q] # Idle
  /\ Return(q)
  /\ UNCHANGED <<isActive, token>>

Next ==
  \/ \E q \in Requests :
       \/ \E u \in Users : Login(q, u)
       \/ \E t \in Tokens : FindToken(q, t)
       \/ ReadUser(q) \/ RevokePresented(q) \/ IssueTokenPair(q) \/ RequestFails(q)
  \/ \E t \in Tokens : RevokeRefreshToken(t) \/ Expire(t)
  \/ \E u \in Users : SetActive(u)

Spec == Init /\ [][Next]_vars

-----------------------------------------------------------------------------
(* Properties *)

\* A refresh never leaves two usable tokens behind: whenever a token has been
\* exchanged, or is about to be, it is revoked first.
ExchangedIsRevoked ==
  /\ \A t \in Tokens : Children(t) # {} => token[t].revoked
  /\ \A q \in Requests :
       At(q, "issue") /\ request[q].token # NoParent => token[request[q].token].revoked

\* A new token belongs to the account of the token it was exchanged for,
\* through any chain of refreshes.
FamilyHasOneUser ==
  \A t \in Tokens : \A c \in Children(t) : token[c].user = token[t].user

\* The token can no longer be exchanged: it is revoked, by logout or by use,
\* and no refresh that found it valid is still under way.
Spent(t) ==
  /\ Issued(t)
  /\ token[t].revoked
  /\ \A q \in Requests : request[q] # Idle => request[q].token # t

\* Replaying a spent token never yields another session, however often and by
\* whomever it is presented: the session ends for good.
SpentIsFinal ==
  [][\A t \in Tokens : Spent(t) => Spent(t)' /\ Children(t)' = Children(t)]_vars

\* No login or refresh of the account is past its check of isActive.
LockedOut(u) ==
  /\ ~isActive[u]
  /\ \A q \in Requests :
       request[q].pc \in {"revoke", "issue"} => request[q].user # u

Sessions(u) == {t \in Tokens : Issued(t) /\ token[t].user = u}

\* A deactivated account gets no new session once the requests that had
\* already read it are done, until it is activated again.
DeactivatedGetsNoSession ==
  [][\A u \in Users :
       LockedOut(u) => /\ Sessions(u)' = Sessions(u)
                       /\ isActive'[u] \/ LockedOut(u)']_vars

\* The token a request works on exists, belongs to the request's account and,
\* once the request has revoked it, stays revoked.
HeldTokens ==
  \A q \in Requests :
    /\ request[q].pc \in {"readUser", "revoke"} => request[q].token # NoParent
    /\ request[q] # Idle /\ request[q].token # NoParent =>
         /\ Issued(request[q].token)
         /\ token[request[q].token].user = request[q].user
         /\ request[q].pc = "issue" => token[request[q].token].revoked

\* The parent of a token exists, was revoked and belongs to the same account.
Parents ==
  \A c \in Tokens : Issued(c) /\ token[c].parent # NoParent =>
    /\ Issued(token[c].parent)
    /\ token[token[c].parent].revoked
    /\ token[token[c].parent].user = token[c].user

\* The inductive invariant: ExchangedIsRevoked and FamilyHasOneUser follow.
IInv == TypeOK /\ HeldTokens /\ Parents

=============================================================================
