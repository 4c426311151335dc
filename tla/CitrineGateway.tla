--------------------------- MODULE CitrineGateway ---------------------------
(***************************************************************************)
(* The backend's calls of CitrineOS (src/backend/src/citrineos): the HTTP  *)
(* client with its timeout and its one retry, the commands of the Message  *)
(* API, and the webhook subscriptions of the Data API, which               *)
(* CitrineOsSubscriptionService lists before it creates one.               *)
(*                                                                         *)
(* A call is one request of a user to the backend.  It sends one request   *)
(* to CitrineOS, or, to ensure a subscription, one or two, each in one or  *)
(* two attempts.  The network may lose, delay and fail; a request that the *)
(* backend has given up may still reach CitrineOS.                         *)
(***************************************************************************)
EXTENDS Naturals, FiniteSets

CONSTANTS
  Calls,       \* the requests of users, each made at most once
  Stations,    \* the charging stations (ocppConnectionName)
  Secrets,     \* the values of settings/citrineos/webhookSecret
  Unset,       \* a setting that is not configured; no result
  MaxChanges   \* bound: changes of the secret

ASSUME GatewayAssumption ==
  /\ Unset \notin Secrets \cup Nat
  /\ MaxChanges \in Nat

VARIABLES
  secret,      \* the webhook secret in the settings
  changes,     \* how often it was changed
  call,        \* the state of each call
  wire,        \* attempts on their way to CitrineOS
  subs,        \* the subscriptions CitrineOS holds
  made,        \* history variable: every subscription it has ever held
  carried,     \* history variable: how often a call's command was carried out
  present      \* history variable: the subscriptions when a call read the
               \* secret

vars == <<secret, changes, call, wire, subs, made, carried, present>>

-----------------------------------------------------------------------------
Roles == {"SuperAdmin", "Admin", "Mitarbeiter"}

(* The commands of CitrineOsCommandsController and who may send them.      *)
CommandRoles ==
  [requeststarttransaction |-> Roles,
   requeststoptransaction  |-> Roles,
   reset                   |-> {"SuperAdmin", "Admin"},
   triggermessage          |-> {"SuperAdmin", "Admin"}]

AllEvents == {"connect", "close", "message"}

(* The URL of a subscription is the backend's webhook with the secret in   *)
(* its query: the secret stands for the URL.                               *)
Subscription ==
  [id : Nat, station : Stations, secret : Secrets, events : SUBSET AllEvents]

(* What a call can ask of CitrineOS.                                       *)
Requests == {"command", "list", "create", "delete"}

Idle == [pc |-> "idle"]

NoAnswer == [ok |-> FALSE, id |-> Unset, listed |-> {}]
Refusal == [ok |-> FALSE, id |-> 0, listed |-> {}]

(* A call in progress: the request it is at, the attempt, the station and  *)
(* the secret it works with, whether the first attempt was lost (ended     *)
(* before its answer had been read, but not by the timer), the answer to   *)
(* the current one, and its result.                                        *)
Call == [pc : {"attempt", "waiting", "body", "done", "failed"},
         request : Requests, attempt : 1 .. 2, station : Stations,
         secret : Secrets \cup {Unset}, lost : BOOLEAN,
         answer : [ok : BOOLEAN, id : Nat \cup {Unset},
                   listed : SUBSET Subscription],
         result : Nat \cup {Unset}]

Attempts == [call : Calls, request : Requests, attempt : 1 .. 2]

Init ==
  /\ secret \in Secrets \cup {Unset}
  /\ changes = 0
  /\ call = [c \in Calls |-> Idle]
  /\ wire = {}
  \* None yet, or one an operator has registered for messages only.
  /\ subs \in {{}} \cup {{[id |-> 1, station |-> s, secret |-> secret,
                           events |-> {"message"}]} : s \in Stations}
  /\ secret = Unset => subs = {}
  /\ made = subs
  /\ carried = [c \in Calls |-> 0]
  /\ present = [c \in Calls |-> {}]

Begin(request, station, x, result) ==
  [pc |-> "attempt", request |-> request, attempt |-> 1, station |-> station,
   secret |-> x, lost |-> FALSE, answer |-> NoAnswer, result |-> result]

(* The call is over; what it has read is forgotten.                        *)
End(c, pc, result) ==
  call' = [call EXCEPT ![c] = [@ EXCEPT !.pc = pc, !.result = result,
                                        !.answer = NoAnswer]]

-----------------------------------------------------------------------------
(* What users ask for.                                                     *)

(* POST /citrineos/commands/...: the guard refuses other roles.            *)
StartCommand(c) ==
  /\ call[c].pc = "idle"
  /\ \E action \in DOMAIN CommandRoles, role \in Roles, s \in Stations :
       /\ role \in CommandRoles[action]
       /\ call' = [call EXCEPT ![c] = Begin("command", s, Unset, Unset)]
  /\ UNCHANGED <<secret, changes, wire, subs, made, carried, present>>

(* POST /citrineos/subscriptions: ensureSubscribed reads the configuration *)
(* and lists the subscriptions of the station first.                       *)
StartEnsure(c) ==
  /\ call[c].pc = "idle"
  /\ secret # Unset
  /\ \E s \in Stations :
       call' = [call EXCEPT ![c] = Begin("list", s, secret, Unset)]
  /\ present' = [present EXCEPT ![c] = subs]
  /\ UNCHANGED <<secret, changes, wire, subs, made, carried>>

(* Without a webhook URL or a secret it ends with a 400.                   *)
EnsureUnconfigured(c) ==
  /\ call[c].pc = "idle"
  /\ secret = Unset
  /\ \E s \in Stations :
       call' = [call EXCEPT ![c] =
                  [Begin("list", s, Unset, Unset) EXCEPT !.pc = "failed"]]
  /\ UNCHANGED <<secret, changes, wire, subs, made, carried, present>>

(* DELETE /citrineos/subscriptions/:id.                                    *)
StartDelete(c) ==
  /\ call[c].pc = "idle"
  /\ \E s \in subs :
       call' = [call EXCEPT ![c] = Begin("delete", s.station, Unset, s.id)]
  /\ UNCHANGED <<secret, changes, wire, subs, made, carried, present>>

(* A SuperAdmin sets the secret (SettingsService.upsert).                  *)
ChangeSecret ==
  /\ changes < MaxChanges
  /\ secret' \in Secrets \ {secret}
  /\ changes' = changes + 1
  /\ UNCHANGED <<call, wire, subs, made, carried, present>>

-----------------------------------------------------------------------------
(* CitrineOsHttpClient.                                                    *)

(* fetch sends the request; the timer of the attempt starts.               *)
Attempt(c) ==
  /\ call[c].pc = "attempt"
  /\ wire' = wire \cup {[call |-> c, request |-> call[c].request,
                         attempt |-> call[c].attempt]}
  /\ call' = [call EXCEPT ![c].pc = "waiting"]
  /\ UNCHANGED <<secret, changes, subs, made, carried, present>>

\* Mutant: one attempt too many.
RetryTwice(c) ==
  call' = [call EXCEPT ![c] =
             IF @.attempt <= 2
             THEN [@ EXCEPT !.pc = "attempt", !.attempt = @ + 1, !.lost = TRUE,
                            !.answer = NoAnswer]
             ELSE [@ EXCEPT !.pc = "failed", !.answer = NoAnswer]]

(* An error that is not a CitrineOsApiError: the request is sent again     *)
(* unless this was the second attempt, whose error goes to the caller.     *)
Retry(c) ==
  call' = [call EXCEPT ![c] =
             IF @.attempt = 1
             THEN [@ EXCEPT !.pc = "attempt", !.attempt = 2, !.lost = TRUE,
                            !.answer = NoAnswer]
             ELSE [@ EXCEPT !.pc = "failed", !.answer = NoAnswer]]

(* fetch throws: no name, no connection, or a connection lost before the   *)
(* answer; CitrineOS may have received the request or not.                 *)
NetworkFails(c) ==
  /\ call[c].pc = "waiting"
  /\ Retry(c)
  /\ UNCHANGED <<secret, changes, wire, subs, made, carried, present>>

\* Mutant: an AbortError is an error of the network like any other.
TimeoutIsRetried(c) ==
  /\ call[c].pc = "waiting"
  /\ call' = [call EXCEPT ![c] =
                IF @.attempt = 1
                THEN [@ EXCEPT !.pc = "attempt", !.attempt = 2,
                               !.answer = NoAnswer]
                ELSE [@ EXCEPT !.pc = "failed", !.answer = NoAnswer]]
  /\ UNCHANGED <<secret, changes, wire, subs, made, carried, present>>

\* Mutant: fetch is called without the signal of the timer.
NoTimer(c) == FALSE

(* The timer aborts the fetch: a CitrineOsApiError.                        *)
TimesOut(c) ==
  /\ call[c].pc = "waiting"
  /\ End(c, "failed", call[c].result)
  /\ UNCHANGED <<secret, changes, wire, subs, made, carried, present>>

(* fetch resolves with the status line; the timer is cleared.              *)
HeadArrives(c) ==
  /\ call[c].pc = "waiting"
  /\ call[c].answer # NoAnswer
  /\ call' = [call EXCEPT ![c].pc = "body"]
  /\ UNCHANGED <<secret, changes, wire, subs, made, carried, present>>

(* response.text() throws, whatever the status was: the error is no        *)
(* CitrineOsApiError either.                                               *)
BodyFails(c) ==
  /\ call[c].pc = "body"
  /\ Retry(c)
  /\ UNCHANGED <<secret, changes, wire, subs, made, carried, present>>

(* A status that is not 2xx: a CitrineOsApiError, never a retry.           *)
Refused(c) ==
  /\ call[c].pc = "body"
  /\ ~call[c].answer.ok
  /\ End(c, "failed", call[c].result)
  /\ UNCHANGED <<secret, changes, wire, subs, made, carried, present>>

-----------------------------------------------------------------------------
(* What the call does with a 2xx answer.                                   *)

(* A command is confirmed, a subscription created or deleted.              *)
Confirmed(c) ==
  /\ call[c].pc = "body"
  /\ call[c].request # "list"
  /\ call[c].answer.ok
  /\ End(c, "done", call[c].answer.id)
  /\ UNCHANGED <<secret, changes, wire, subs, made, carried, present>>

\* Mutant: the events of the subscription are not compared.
MatchesUrl(s, c) == s.secret = call[c].secret

\* Mutant: the URL is compared before encodeURIComponent: it never matches.
NeverMatches(s, c) == FALSE

(* `existing.find`: this URL, and all three kinds of event.                *)
Matches(s, c) == s.secret = call[c].secret /\ s.events = AllEvents

(* ensureSubscribed returns the id of a match, or asks for a subscription. *)
AlreadySubscribed(c) ==
  /\ call[c].pc = "body"
  /\ call[c].request = "list"
  /\ call[c].answer.ok
  /\ \E s \in call[c].answer.listed : Matches(s, c) /\ End(c, "done", s.id)
  /\ UNCHANGED <<secret, changes, wire, subs, made, carried, present>>

AskForSubscription(c) ==
  /\ call[c].pc = "body"
  /\ call[c].request = "list"
  /\ call[c].answer.ok
  /\ \A s \in call[c].answer.listed : ~Matches(s, c)
  /\ call' = [call EXCEPT ![c] =
                Begin("create", call[c].station, call[c].secret, Unset)]
  /\ UNCHANGED <<secret, changes, wire, subs, made, carried, present>>

-----------------------------------------------------------------------------
(* CitrineOS, as the code in src/ uses it.                                 *)

(* The answer reaches the call if it still waits for this attempt.         *)
Reply(m, answer) ==
  LET q == call[m.call] IN
  call' = IF q.pc = "waiting" /\ q.request = m.request /\ q.attempt = m.attempt
          THEN [call EXCEPT ![m.call].answer = answer]
          ELSE call

Done(id, listed) == [ok |-> TRUE, id |-> id, listed |-> listed]

CitrineCommand(m) ==
  /\ m.request = "command"
  /\ carried' = [carried EXCEPT ![m.call] = @ + 1]
  /\ Reply(m, Done(Unset, {}))
  /\ UNCHANGED <<subs, made>>

CitrineList(m) ==
  /\ m.request = "list"
  /\ Reply(m, Done(Unset, {s \in subs : s.station = call[m.call].station}))
  /\ UNCHANGED <<subs, made, carried>>

CitrineCreate(m) ==
  LET s == [id |-> Cardinality(made) + 1, station |-> call[m.call].station,
            secret |-> call[m.call].secret, events |-> AllEvents] IN
  /\ m.request = "create"
  /\ subs' = subs \cup {s}
  /\ made' = made \cup {s}
  /\ Reply(m, Done(s.id, {}))
  /\ UNCHANGED carried

CitrineDelete(m) ==
  /\ m.request = "delete"
  /\ \E s \in made :
       /\ s.id = call[m.call].result
       /\ subs' = subs \ {s}
       /\ Reply(m, Done(s.id, {}))
  /\ UNCHANGED <<made, carried>>

(* A 4xx or 5xx, with nothing done.                                        *)
CitrineRefuses(m) ==
  /\ Reply(m, Refusal)
  /\ UNCHANGED <<subs, made, carried>>

CitrineOS ==
  \E m \in wire :
    /\ wire' = wire \ {m}
    /\ \/ CitrineCommand(m) \/ CitrineList(m) \/ CitrineCreate(m)
       \/ CitrineDelete(m) \/ CitrineRefuses(m)
    /\ UNCHANGED <<secret, changes, present>>

-----------------------------------------------------------------------------
BodyEnds(c) ==
  BodyFails(c) \/ Refused(c) \/ Confirmed(c) \/ AlreadySubscribed(c)
    \/ AskForSubscription(c)

UserStarts(c) ==
  StartCommand(c) \/ StartEnsure(c) \/ EnsureUnconfigured(c) \/ StartDelete(c)

Finished == \A c \in Calls : call[c].pc \in {"done", "failed"}

(* All calls of the instance are made.                                     *)
Rest == Finished /\ UNCHANGED vars

Next ==
  \/ \E c \in Calls : \/ UserStarts(c) \/ Attempt(c)
                    \/ NetworkFails(c) \/ TimesOut(c) \/ HeadArrives(c)
                    \/ BodyEnds(c)
  \/ ChangeSecret
  \/ CitrineOS
  \/ Rest

(* The event loop runs the steps of a call, the timer of an attempt fires  *)
(* if nothing ends the fetch before, and the HTTP library ends a body that *)
(* does not come.  Nothing is assumed of the network and of CitrineOS.     *)
Fairness ==
  \A c \in Calls :
    WF_vars(Attempt(c)) /\ WF_vars(TimesOut(c)) /\ WF_vars(BodyEnds(c))

Spec == Init /\ [][Next]_vars /\ Fairness

-----------------------------------------------------------------------------
(* Properties.                                                             *)

TypeOK ==
  /\ secret \in Secrets \cup {Unset}
  /\ changes \in 0 .. MaxChanges
  /\ call \in [Calls -> {Idle} \cup Call]
  /\ wire \in SUBSET Attempts
  /\ subs \in SUBSET made
  /\ made \in SUBSET Subscription
  /\ carried \in [Calls -> 0 .. 2]
  /\ present \in [Calls -> SUBSET made]

(* A command is carried out twice only if its first attempt was lost,      *)
(* before the answer or while the answer was read.  After a timeout, and   *)
(* after an answer that was read, it is not sent again: "could send a      *)
(* RemoteStart or Reset twice" (citrineos-http-client.ts).                 *)
RepeatedOnlyAfterLoss ==
  \A c \in Calls :
    carried[c] > 1 => call[c].attempt = 2 /\ call[c].lost

(* What the comment in citrineos-http-client.ts says: a request is sent    *)
(* again only when fetch itself threw, before any response, and never for  *)
(* an HTTP error status.  Once fetch has resolved, no second attempt.      *)
RetriedOnlyBeforeResponse ==
  [][\A c \in Calls :
       call[c].pc = "body" => ~(call'[c].pc = "attempt" /\ call'[c].attempt = 2)]_vars

(* An ensured subscription is heard: while the secret is the one the call  *)
(* has read, and nobody has deleted the subscription it has returned,      *)
(* CitrineOS holds one for the station that sends all three kinds of event *)
(* to a URL that the webhook accepts.                                      *)
EnsuredIsHeard ==
  \A c \in Calls :
    (call[c].pc = "done" /\ call[c].request \in {"list", "create"}
       /\ call[c].secret = secret
       /\ \A s \in made \ subs : s.id # call[c].result)
    => \E s \in subs : /\ s.station = call[c].station
                       /\ s.secret = secret
                       /\ s.events = AllEvents

(* "Without creating duplicate rows on repeated calls": a subscription     *)
(* that was there when a call read the secret, and is still there, keeps   *)
(* that call from creating another one for the same station and URL.       *)
RepeatedEnsureAddsNone ==
  \A c \in Calls :
    (call[c].pc # "idle" /\ call[c].request = "create")
    => \A s \in present[c] \cap subs :
         ~(s.station = call[c].station /\ s.secret = call[c].secret
             /\ s.events = AllEvents)

(* Every call ends, whatever the network does: the timer bounds each       *)
(* attempt and there are two of them.                                      *)
CallsEnd ==
  \A c \in Calls :
    call[c].pc = "attempt" ~> call[c].pc \in {"done", "failed"}

-----------------------------------------------------------------------------
(* The inductive invariant.                                                *)

(* How many attempts of its present request a call has sent.               *)
Sent(c) == IF call[c].pc = "attempt" THEN call[c].attempt - 1 ELSE call[c].attempt

OnWire(c, n) ==
  IF [call |-> c, request |-> "command", attempt |-> n] \in wire THEN 1 ELSE 0

(* Each attempt of a command is carried out at most once.                  *)
CommandsCounted ==
  \A c \in Calls :
    /\ IF call[c].pc # "idle" /\ call[c].request = "command"
         THEN carried[c] + OnWire(c, 1) + OnWire(c, 2) <= Sent(c)
         ELSE carried[c] = 0 /\ OnWire(c, 1) = 0 /\ OnWire(c, 2) = 0
    /\ call[c].pc # "idle" /\ call[c].attempt = 2 => call[c].lost

(* A command whose answer is a 2xx has been carried out.                   *)
ConfirmedIsCarried ==
  \A c \in Calls :
    (call[c].pc # "idle" /\ call[c].request = "command"
       /\ (call[c].answer.ok \/ call[c].pc = "done"))
    => carried[c] > 0

(* CitrineOS gives every subscription an id of its own.                    *)
IdsCounted ==
  /\ IsFiniteSet(made)
  /\ \A s \in made : s.id <= Cardinality(made)

Ensures(s, c) ==
  s.station = call[c].station /\ s.secret = call[c].secret /\ s.events = AllEvents

(* What an answer that has not been used yet tells.                        *)
AnswersAreGenuine ==
  \A c \in Calls :
    (call[c].pc # "idle" /\ call[c].answer.ok) =>
      /\ call[c].request = "list" =>
           /\ \A s \in call[c].answer.listed : s \in made /\ s.station = call[c].station
           /\ \A s \in present[c] \cap subs :
                s.station = call[c].station => s \in call[c].answer.listed
      /\ call[c].request = "create" =>
           \E s \in made : s.id = call[c].answer.id /\ Ensures(s, c)

ResultsAreGenuine ==
  \A c \in Calls :
    (call[c].pc = "done" /\ call[c].request \in {"list", "create"}) =>
      \E s \in made : s.id = call[c].result /\ Ensures(s, c)

(* A subscription is asked for with the secret that was read, and an       *)
(* attempt to create one belongs to a call that has come to that request.  *)
CreatesAreConfigured ==
  /\ \A c \in Calls :
       (call[c].pc # "idle"
          /\ (call[c].request = "create"
                \/ (call[c].request = "list" /\ call[c].pc # "failed")))
       => call[c].secret # Unset
  /\ \A m \in wire :
       m.request = "create" =>
         call[m.call].pc # "idle" /\ call[m.call].request = "create"

IInv ==
  /\ TypeOK
  /\ CreatesAreConfigured
  /\ CommandsCounted
  /\ ConfirmedIsCarried
  /\ IdsCounted
  /\ AnswersAreGenuine
  /\ ResultsAreGenuine
  /\ RepeatedEnsureAddsNone

-----------------------------------------------------------------------------
(* A command as its user sees it: the attempts that were sent, and none of *)
(* the answers that came too late.  The other calls send no command.       *)
Seen(c) ==
  IF call[c].pc # "idle" /\ call[c].request = "command"
  THEN [answer |-> CASE call[c].pc = "done" -> "confirmed"
                     [] call[c].pc = "failed" -> "failed"
                     [] OTHER -> "pending",
        sent |-> Sent(c), lost |-> call[c].lost]
  ELSE [answer |-> "none", sent |-> 0, lost |-> FALSE]

Delivery == INSTANCE CommandDelivery WITH delivery <- [c \in Calls |-> Seen(c)]

(* A confirmed command was carried out; a command is carried out at most   *)
(* once, or twice if its first attempt was lost, before the answer or      *)
(* while the answer was read, whatever the network loses, delays and       *)
(* reorders.  (CitrineOsHttpClient and the Message API; the comment there  *)
(* promises more: RetriedOnlyBeforeResponse.)                              *)
ImplementsDelivery == Delivery!Spec

=============================================================================
