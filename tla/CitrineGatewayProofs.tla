------------------------ MODULE CitrineGatewayProofs ------------------------
(* Proofs about CitrineGateway, for every number of calls, stations,       *)
(* secrets and subscriptions.                                              *)
EXTENDS CitrineGateway, FiniteSetTheorems, TLAPS

LEMMA InvInit == Init => IInv
<1> SUFFICES ASSUME Init PROVE IInv
  OBVIOUS
<1>1. \A c \in Calls : call[c] = Idle /\ carried[c] = 0 /\ present[c] = {}
  BY DEF Init
<1>2. made \in SUBSET Subscription /\ IdsCounted
  <2>1. CASE made = {}
    BY <2>1, FS_EmptySet DEF IdsCounted
  <2>2. CASE made # {}
    <3>1. PICK s \in Stations : made = {[id |-> 1, station |-> s, secret |-> secret,
                                         events |-> {"message"}]}
      BY <2>2 DEF Init
    <3>2. secret \in Secrets
      BY <2>2 DEF Init
    <3> DEFINE one == [id |-> 1, station |-> s, secret |-> secret, events |-> {"message"}]
    <3>3. one \in Subscription /\ one.id = 1
      BY <3>2 DEF Subscription, AllEvents
    <3> HIDE DEF one
    <3>4. IsFiniteSet(made) /\ Cardinality(made) = 1
      BY <3>1, FS_Singleton DEF one
    <3> QED
      BY <3>1, <3>3, <3>4 DEF IdsCounted, one
  <2> QED
    BY <2>1, <2>2
<1>3. TypeOK
  BY <1>2, GatewayAssumption DEF Init, TypeOK
<1>4. CommandsCounted
  BY <1>1 DEF Init, CommandsCounted, OnWire, Idle
<1>5. AnswersAreGenuine /\ ResultsAreGenuine /\ RepeatedEnsureAddsNone
  BY <1>1 DEF AnswersAreGenuine, ResultsAreGenuine, RepeatedEnsureAddsNone, Idle
<1>6. CreatesAreConfigured
  BY <1>1 DEF Init, CreatesAreConfigured, Idle
<1>7. ConfirmedIsCarried
  BY <1>1 DEF ConfirmedIsCarried, Idle
<1> QED
  BY <1>2, <1>3, <1>4, <1>5, <1>6, <1>7 DEF IInv

LEMMA CallFacts ==
  ASSUME IInv, NEW c \in Calls, call[c].pc # "idle"
  PROVE  /\ call[c] \in Call
         /\ call[c].request \in Requests
         /\ call[c].attempt \in 1 .. 2
         /\ call[c].station \in Stations
         /\ call[c].secret \in Secrets \cup {Unset}
         /\ call[c].answer \in [ok : BOOLEAN, id : Nat \cup {Unset}, listed : SUBSET Subscription]
         /\ call[c].result \in Nat \cup {Unset}
  BY DEF IInv, TypeOK, Call, Idle

LEMMA NoAnswerType ==
  /\ NoAnswer \in [ok : BOOLEAN, id : Nat \cup {Unset}, listed : SUBSET Subscription]
  /\ ~NoAnswer.ok
  BY DEF NoAnswer

-----------------------------------------------------------------------------
(* What a user starts, and what the client does with an answer: one call   *)
(* goes on, CitrineOS does not.                                            *)

SentOf(q) == IF q.pc = "attempt" THEN q.attempt - 1 ELSE q.attempt

Same(q, p) == q.request = p.request /\ q.station = p.station /\ q.secret = p.secret

LEMMA MoveStep ==
  ASSUME IInv, NEW c \in Calls, NEW q \in Call,
         call' = [call EXCEPT ![c] = q],
         UNCHANGED <<secret, changes, wire, subs, made, carried>>,
         \/ UNCHANGED present
         \/ (present' = [present EXCEPT ![c] = subs] /\ q.request = "list"),
         IF q.request = "command"
           THEN carried[c] + OnWire(c, 1) + OnWire(c, 2) <= SentOf(q)
           ELSE carried[c] = 0 /\ OnWire(c, 1) = 0 /\ OnWire(c, 2) = 0,
         q.attempt = 2 => q.lost,
         q.request = "command" /\ (q.answer.ok \/ q.pc = "done") => carried[c] > 0,
         q.request = "create" \/ (q.request = "list" /\ q.pc # "failed") => q.secret # Unset,
         call[c].pc # "idle" /\ call[c].request = "create" => q.request = "create",
         q.answer.ok => q.answer = call[c].answer /\ Same(q, call[c]) /\ call[c].pc # "idle"
                          /\ UNCHANGED present,
         q.pc = "done" /\ q.request \in {"list", "create"} =>
           \E s \in made : /\ s.id = q.result /\ s.station = q.station
                           /\ s.secret = q.secret /\ s.events = AllEvents,
         q.request = "create" =>
           \A s \in present[c] \cap subs :
             ~(s.station = q.station /\ s.secret = q.secret /\ s.events = AllEvents)
  PROVE  IInv'
<1>1. /\ call'[c] = q
      /\ \A d \in Calls \ {c} : call'[d] = call[d] /\ present'[d] = present[d]
  BY DEF IInv, TypeOK
<1>2. q.pc # "idle"
  BY DEF Call
<1>3. TypeOK'
  BY DEF IInv, TypeOK
<1>4. CommandsCounted'
  <2>1. \A d \in Calls, n \in {1, 2} : OnWire(d, n)' = OnWire(d, n)
    BY DEF OnWire
  <2>2. Sent(c)' = SentOf(q) /\ \A d \in Calls \ {c} : Sent(d)' = Sent(d)
    BY <1>1 DEF Sent, SentOf
  <2> QED
    BY <1>1, <1>2, <2>1, <2>2 DEF IInv, CommandsCounted
<1>5. IdsCounted'
  BY DEF IInv, IdsCounted
<1>6. AnswersAreGenuine'
  <2>1. ASSUME NEW d \in Calls, d # c, call'[d].pc # "idle", call'[d].answer.ok
        PROVE  /\ call'[d].request = "list" =>
                    /\ \A s \in call'[d].answer.listed : s \in made' /\ s.station = call'[d].station
                    /\ \A s \in present'[d] \cap subs' :
                         s.station = call'[d].station => s \in call'[d].answer.listed
               /\ call'[d].request = "create" =>
                    \E s \in made' : s.id = call'[d].answer.id /\ Ensures(s, d)'
    BY <1>1, <2>1 DEF IInv, AnswersAreGenuine, Ensures
  <2>2. ASSUME call'[c].answer.ok
        PROVE  /\ call'[c].request = "list" =>
                    /\ \A s \in call'[c].answer.listed : s \in made' /\ s.station = call'[c].station
                    /\ \A s \in present'[c] \cap subs' :
                         s.station = call'[c].station => s \in call'[c].answer.listed
               /\ call'[c].request = "create" =>
                    \E s \in made' : s.id = call'[c].answer.id /\ Ensures(s, c)'
    BY <1>1, <2>2 DEF IInv, AnswersAreGenuine, Ensures, Same
  <2> QED
    BY <2>1, <2>2 DEF AnswersAreGenuine
<1>7. ResultsAreGenuine'
  BY <1>1 DEF IInv, ResultsAreGenuine, Ensures
<1>8. RepeatedEnsureAddsNone'
  BY <1>1 DEF IInv, RepeatedEnsureAddsNone
<1>9. CreatesAreConfigured'
  <2>1. \A d \in Calls \ {c} :
          (call'[d].pc # "idle"
            /\ (call'[d].request = "create"
                 \/ (call'[d].request = "list" /\ call'[d].pc # "failed")))
          => call'[d].secret # Unset
    BY <1>1 DEF IInv, CreatesAreConfigured
  <2>2. ASSUME NEW m \in wire, m.request = "create"
        PROVE  call'[m.call].pc # "idle" /\ call'[m.call].request = "create"
    <3>1. call[m.call].pc # "idle" /\ call[m.call].request = "create" /\ m.call \in Calls
      BY <2>2 DEF IInv, CreatesAreConfigured, TypeOK, Attempts
    <3> QED
      BY <1>1, <1>2, <3>1
  <2> QED
    BY <1>1, <2>1, <2>2 DEF CreatesAreConfigured
<1>10. ConfirmedIsCarried'
  BY <1>1 DEF IInv, ConfirmedIsCarried
<1> QED
  BY <1>3, <1>4, <1>5, <1>6, <1>7, <1>8, <1>9, <1>10 DEF IInv

\* The same request goes on or ends; nothing more has been sent.
LEMMA SameStep ==
  ASSUME IInv, NEW c \in Calls, NEW q \in Call,
         call[c].pc \in {"waiting", "body"},
         call' = [call EXCEPT ![c] = q],
         UNCHANGED <<secret, changes, wire, subs, made, carried, present>>,
         Same(q, call[c]),
         q.answer \in {call[c].answer, NoAnswer},
         \/ (q.pc # "attempt" /\ q.attempt = call[c].attempt /\ q.lost = call[c].lost)
         \/ (q.pc = "attempt" /\ q.attempt = 2 /\ call[c].attempt = 1 /\ q.lost),
         q.pc = "done" => call[c].answer.ok,
         q.pc = "done" /\ q.request \in {"list", "create"} =>
           \E s \in made : /\ s.id = q.result /\ s.station = q.station
                           /\ s.secret = q.secret /\ s.events = AllEvents
  PROVE  IInv'
<1>1. IF q.request = "command"
        THEN carried[c] + OnWire(c, 1) + OnWire(c, 2) <= SentOf(q)
        ELSE carried[c] = 0 /\ OnWire(c, 1) = 0 /\ OnWire(c, 2) = 0
  BY DEF IInv, CommandsCounted, Sent, SentOf, Same
<1>2. q.attempt = 2 => q.lost
  BY DEF IInv, CommandsCounted
<1>3. q.answer.ok => q.answer = call[c].answer
  BY NoAnswerType
<1>4. q.request = "create" =>
        \A s \in present[c] \cap subs :
          ~(s.station = q.station /\ s.secret = q.secret /\ s.events = AllEvents)
  BY DEF IInv, RepeatedEnsureAddsNone, Same
<1>5. q.request = "create" \/ (q.request = "list" /\ q.pc # "failed") => q.secret # Unset
  BY DEF IInv, CreatesAreConfigured, Same
<1>6. q.request = "command" /\ (q.answer.ok \/ q.pc = "done") => carried[c] > 0
  BY <1>3 DEF IInv, ConfirmedIsCarried, Same
<1> QED
  BY <1>1, <1>2, <1>3, <1>4, <1>5, <1>6, MoveStep DEF Same

LEMMA RetryStep ==
  ASSUME IInv, NEW c \in Calls, NetworkFails(c) \/ BodyFails(c)
  PROVE  IInv'
<1> DEFINE o == call[c]
           q == IF o.attempt = 1
                THEN [o EXCEPT !.pc = "attempt", !.attempt = 2, !.lost = TRUE,
                               !.answer = NoAnswer]
                ELSE [o EXCEPT !.pc = "failed", !.answer = NoAnswer]
<1>1. /\ call[c].pc \in {"waiting", "body"}
      /\ call' = [call EXCEPT ![c] = q]
      /\ UNCHANGED <<secret, changes, wire, subs, made, carried, present>>
  BY DEF NetworkFails, BodyFails, Retry, IInv, TypeOK
<1>2. o \in Call
  BY <1>1, CallFacts
<1> HIDE DEF o
<1>3. /\ q \in Call
      /\ q.answer = NoAnswer
      /\ q.pc # "done"
      /\ Same(q, o)
      /\ \/ (q.pc # "attempt" /\ q.attempt = o.attempt /\ q.lost = o.lost)
         \/ (q.pc = "attempt" /\ q.attempt = 2 /\ o.attempt = 1 /\ q.lost)
  <2>1. CASE o.attempt = 1
    <3> DEFINE r == [o EXCEPT !.pc = "attempt", !.attempt = 2, !.lost = TRUE,
                              !.answer = NoAnswer]
    <3>1. q = r
      BY <2>1
    <3>2. r \in Call
      <4> DEFINE w == [o EXCEPT !.pc = "attempt"]
                 x == [w EXCEPT !.attempt = 2]
                 y == [x EXCEPT !.lost = TRUE]
                 z == [y EXCEPT !.answer = NoAnswer]
      <4>1. r = z
        OBVIOUS
      <4> HIDE DEF r
      <4>2. w \in Call
        BY <1>2 DEF Call
      <4> HIDE DEF w
      <4>3. x \in Call
        BY <4>2 DEF Call
      <4> HIDE DEF x
      <4>4. y \in Call
        BY <4>3 DEF Call
      <4> HIDE DEF y
      <4>5. z \in Call
        BY <4>4, NoAnswerType DEF Call
      <4> QED
        BY <4>1, <4>5
    <3>3. r.pc = "attempt" /\ r.attempt = 2 /\ r.lost /\ r.answer = NoAnswer
      BY <1>2 DEF Call
    <3>4. Same(r, o)
      BY <1>2 DEF Call, Same
    <3> HIDE DEF q, r
    <3> QED
      BY <2>1, <3>1, <3>2, <3>3, <3>4
  <2>2. CASE o.attempt # 1
    <3> DEFINE r == [o EXCEPT !.pc = "failed", !.answer = NoAnswer]
    <3>1. q = r
      BY <2>2
    <3>2. /\ r \in Call
          /\ r.answer = NoAnswer
          /\ r.pc = "failed" /\ r.attempt = o.attempt /\ r.lost = o.lost
          /\ Same(r, o)
      BY <1>2, NoAnswerType DEF Call, Same
    <3> HIDE DEF q, r
    <3> QED
      BY <3>1, <3>2
  <2> QED
    BY <2>1, <2>2
<1> HIDE DEF q
<1> QED
  BY <1>1, <1>3, SameStep DEF o

LEMMA HeadStep ==
  ASSUME IInv, NEW c \in Calls, HeadArrives(c)
  PROVE  IInv'
<1> DEFINE o == call[c]
           q == [o EXCEPT !.pc = "body"]
<1>1. /\ call[c].pc \in {"waiting", "body"}
      /\ call' = [call EXCEPT ![c] = q]
      /\ UNCHANGED <<secret, changes, wire, subs, made, carried, present>>
  BY DEF HeadArrives, IInv, TypeOK
<1>2. o \in Call
  BY <1>1, CallFacts
<1>3. /\ q \in Call
      /\ q.pc = "body"
      /\ q.answer = o.answer
      /\ Same(q, o)
      /\ q.attempt = o.attempt /\ q.lost = o.lost
  BY <1>2 DEF Call, Same
<1> HIDE DEF q
<1> QED
  BY <1>1, <1>3, SameStep

\* A call ends.
LEMMA EndStep ==
  ASSUME IInv, NEW c \in Calls, NEW pc \in {"done", "failed"}, NEW result \in Nat \cup {Unset},
         call[c].pc \in {"waiting", "body"},
         End(c, pc, result),
         UNCHANGED <<secret, changes, wire, subs, made, carried, present>>,
         pc = "done" => call[c].answer.ok,
         pc = "done" /\ call[c].request \in {"list", "create"} =>
           \E s \in made : s.id = result /\ Ensures(s, c)
  PROVE  IInv'
<1> DEFINE o == call[c]
           q == [o EXCEPT !.pc = pc, !.result = result, !.answer = NoAnswer]
<1>1. call' = [call EXCEPT ![c] = q]
  BY DEF End, IInv, TypeOK
<1>2. o \in Call
  BY CallFacts
<1>3. /\ q \in Call
      /\ q.pc = pc
      /\ q.result = result
      /\ q.answer = NoAnswer
      /\ Same(q, o)
      /\ q.attempt = o.attempt /\ q.lost = o.lost
  BY <1>2, NoAnswerType DEF Call, Same
<1>4. q.pc = "done" /\ q.request \in {"list", "create"} =>
        \E s \in made : /\ s.id = q.result /\ s.station = q.station
                        /\ s.secret = q.secret /\ s.events = AllEvents
  BY <1>3 DEF Same, Ensures
<1>5. q.pc # "attempt"
  BY <1>3
<1> HIDE DEF q
<1> QED
  BY <1>1, <1>3, <1>4, <1>5, SameStep

LEMMA FailStep ==
  ASSUME IInv, NEW c \in Calls, TimesOut(c) \/ Refused(c)
  PROVE  IInv'
<1>1. /\ call[c].pc \in {"waiting", "body"}
      /\ End(c, "failed", call[c].result)
      /\ UNCHANGED <<secret, changes, wire, subs, made, carried, present>>
  BY DEF TimesOut, Refused
<1>2. call[c].result \in Nat \cup {Unset}
  BY <1>1, CallFacts
<1> QED
  BY <1>1, <1>2, EndStep

LEMMA ConfirmedStep ==
  ASSUME IInv, NEW c \in Calls, Confirmed(c)
  PROVE  IInv'
<1>1. /\ call[c].pc = "body"
      /\ call[c].request # "list"
      /\ call[c].answer.ok
      /\ End(c, "done", call[c].answer.id)
      /\ UNCHANGED <<secret, changes, wire, subs, made, carried, present>>
  BY DEF Confirmed
<1>2. call[c].answer.id \in Nat \cup {Unset}
  BY <1>1, CallFacts
<1>3. call[c].request = "create" => \E s \in made : s.id = call[c].answer.id /\ Ensures(s, c)
  BY <1>1 DEF IInv, AnswersAreGenuine
<1> QED
  BY <1>1, <1>2, <1>3, EndStep

LEMMA AlreadyStep ==
  ASSUME IInv, NEW c \in Calls, AlreadySubscribed(c)
  PROVE  IInv'
<1>1. /\ call[c].pc = "body"
      /\ call[c].request = "list"
      /\ call[c].answer.ok
      /\ UNCHANGED <<secret, changes, wire, subs, made, carried, present>>
  BY DEF AlreadySubscribed
<1>2. PICK s \in call[c].answer.listed : Matches(s, c) /\ End(c, "done", s.id)
  BY DEF AlreadySubscribed
<1>3. s \in made /\ Ensures(s, c)
  BY <1>1, <1>2 DEF IInv, AnswersAreGenuine, Matches, Ensures
<1>4. s.id \in Nat \cup {Unset}
  BY <1>3 DEF IInv, TypeOK, Subscription
<1> QED
  BY <1>1, <1>2, <1>3, <1>4, EndStep

\* A call asks for the subscription it has not found.
LEMMA AskStep ==
  ASSUME IInv, NEW c \in Calls, AskForSubscription(c)
  PROVE  IInv'
<1> DEFINE o == call[c]
           q == Begin("create", o.station, o.secret, Unset)
<1>1. /\ o.pc = "body"
      /\ o.request = "list"
      /\ o.answer.ok
      /\ \A s \in o.answer.listed : ~Matches(s, c)
      /\ call' = [call EXCEPT ![c] = q]
      /\ UNCHANGED <<secret, changes, wire, subs, made, carried, present>>
  BY DEF AskForSubscription
<1>2. o.station \in Stations /\ o.secret \in Secrets \cup {Unset}
  BY <1>1, CallFacts
<1>3. /\ q \in Call
      /\ q.pc = "attempt"
      /\ q.request = "create"
      /\ q.station = o.station
      /\ q.secret = o.secret
      /\ q.attempt = 1
      /\ ~q.answer.ok
  BY <1>2, NoAnswerType DEF Begin, Requests, Call
<1>4. carried[c] = 0 /\ OnWire(c, 1) = 0 /\ OnWire(c, 2) = 0
  BY <1>1 DEF IInv, CommandsCounted
<1>5. \A s \in present[c] \cap subs :
        ~(s.station = q.station /\ s.secret = q.secret /\ s.events = AllEvents)
  BY <1>1, <1>3 DEF IInv, AnswersAreGenuine, Matches
<1>6. IF q.request = "command"
        THEN carried[c] + OnWire(c, 1) + OnWire(c, 2) <= SentOf(q)
        ELSE carried[c] = 0 /\ OnWire(c, 1) = 0 /\ OnWire(c, 2) = 0
  BY <1>3, <1>4
<1>7. o.secret # Unset
  BY <1>1 DEF IInv, CreatesAreConfigured
<1> HIDE DEF q, o
<1>8. q.pc # "done" /\ q.attempt # 2 /\ q.secret # Unset
  BY <1>3, <1>7
<1> QED
  BY <1>1, <1>3, <1>5, <1>6, <1>8, MoveStep

\* A user starts a call.
LEMMA UserStep ==
  ASSUME IInv, NEW c \in Calls, UserStarts(c)
  PROVE  IInv'
<1>1. call[c].pc = "idle"
  BY DEF UserStarts, StartCommand, StartEnsure, EnsureUnconfigured, StartDelete
<1>2. carried[c] = 0 /\ OnWire(c, 1) = 0 /\ OnWire(c, 2) = 0
  BY <1>1 DEF IInv, CommandsCounted
<1>3. UNCHANGED <<secret, changes, wire, subs, made, carried>>
  BY DEF UserStarts, StartCommand, StartEnsure, EnsureUnconfigured, StartDelete
<1>4. PICK q \in Call :
        /\ call' = [call EXCEPT ![c] = q]
        /\ q.pc \in {"attempt", "failed"}
        /\ q.attempt = 1
        /\ ~q.answer.ok
        /\ q.request # "create"
        /\ q.request = "command" => q.pc = "attempt"
        /\ q.request = "list" /\ q.pc = "attempt" => q.secret # Unset
        /\ UNCHANGED present \/ (present' = [present EXCEPT ![c] = subs] /\ q.request = "list")
  <2>1. CASE StartCommand(c)
    <3>1. PICK s \in Stations : call' = [call EXCEPT ![c] = Begin("command", s, Unset, Unset)]
      BY <2>1 DEF StartCommand
    <3> DEFINE q == Begin("command", s, Unset, Unset)
    <3>2. /\ q \in Call
          /\ q.pc = "attempt"
          /\ q.request = "command"
          /\ q.attempt = 1
          /\ ~q.answer.ok
      BY NoAnswerType DEF Begin, Requests, Call
    <3> HIDE DEF q
    <3> QED
      BY <2>1, <3>1, <3>2 DEF StartCommand, q
  <2>2. CASE StartEnsure(c)
    <3>1. PICK s \in Stations : call' = [call EXCEPT ![c] = Begin("list", s, secret, Unset)]
      BY <2>2 DEF StartEnsure
    <3> DEFINE q == Begin("list", s, secret, Unset)
    <3>2. secret \in Secrets \cup {Unset} /\ secret # Unset
      BY <2>2 DEF IInv, TypeOK, StartEnsure
    <3>3. /\ q \in Call
          /\ q.pc = "attempt"
          /\ q.request = "list"
          /\ q.secret # Unset
          /\ q.attempt = 1
          /\ ~q.answer.ok
      BY <3>2, NoAnswerType DEF Begin, Requests, Call
    <3> HIDE DEF q
    <3> QED
      BY <2>2, <3>1, <3>3 DEF StartEnsure, q
  <2>3. CASE EnsureUnconfigured(c)
    <3>1. PICK s \in Stations :
            call' = [call EXCEPT ![c] = [Begin("list", s, Unset, Unset) EXCEPT !.pc = "failed"]]
      BY <2>3 DEF EnsureUnconfigured
    <3> DEFINE b == Begin("list", s, Unset, Unset)
               q == [b EXCEPT !.pc = "failed"]
    <3>2. /\ b \in Call
          /\ b.request = "list"
          /\ b.attempt = 1
          /\ ~b.answer.ok
      BY NoAnswerType DEF Begin, Requests, Call
    <3> HIDE DEF b
    <3>3. /\ q \in Call
          /\ q.pc = "failed"
          /\ q.request = "list"
          /\ q.attempt = 1
          /\ ~q.answer.ok
      BY <3>2 DEF Call
    <3> QED
      BY <2>3, <3>1, <3>3 DEF EnsureUnconfigured, b
  <2>4. CASE StartDelete(c)
    <3>1. PICK s \in subs : call' = [call EXCEPT ![c] = Begin("delete", s.station, Unset, s.id)]
      BY <2>4 DEF StartDelete
    <3> DEFINE q == Begin("delete", s.station, Unset, s.id)
    <3>2. s.station \in Stations /\ s.id \in Nat
      BY DEF IInv, TypeOK, Subscription
    <3>3. /\ q \in Call
          /\ q.pc = "attempt"
          /\ q.request = "delete"
          /\ q.attempt = 1
          /\ ~q.answer.ok
      BY <3>2, NoAnswerType DEF Begin, Requests, Call
    <3> HIDE DEF q
    <3> QED
      BY <2>4, <3>1, <3>3 DEF StartDelete, q
  <2> QED
    BY <2>1, <2>2, <2>3, <2>4 DEF UserStarts
<1>5. IF q.request = "command"
        THEN carried[c] + OnWire(c, 1) + OnWire(c, 2) <= SentOf(q)
        ELSE carried[c] = 0 /\ OnWire(c, 1) = 0 /\ OnWire(c, 2) = 0
  BY <1>2, <1>4 DEF SentOf
<1>6. /\ q.pc # "done" /\ q.attempt # 2
      /\ ~q.answer.ok
      /\ q.request # "create"
      /\ q.request = "list" /\ q.pc # "failed" => q.secret # Unset
  BY <1>4
<1> QED
  BY <1>1, <1>3, <1>4, <1>5, <1>6, MoveStep

\* The attempt is sent.
LEMMA AttemptStep ==
  ASSUME IInv, NEW c \in Calls, Attempt(c)
  PROVE  IInv'
<1> DEFINE o == call[c]
           q == [o EXCEPT !.pc = "waiting"]
           m == [call |-> c, request |-> o.request, attempt |-> o.attempt]
<1>1. /\ o.pc = "attempt"
      /\ wire' = wire \cup {m}
      /\ call' = [call EXCEPT ![c] = q]
      /\ UNCHANGED <<secret, changes, subs, made, carried, present>>
  BY DEF Attempt
<1>2. o \in Call /\ o.request \in Requests /\ o.attempt \in 1 .. 2
  BY <1>1, CallFacts
<1>3. m \in Attempts
  BY <1>2 DEF Attempts
<1>4. /\ q \in Call
      /\ q.pc = "waiting"
      /\ q.attempt = o.attempt /\ q.lost = o.lost
      /\ q.answer = o.answer /\ q.result = o.result
      /\ Same(q, o)
  BY <1>2 DEF Call, Same
<1>5. /\ call'[c] = q
      /\ \A d \in Calls \ {c} : call'[d] = call[d]
  BY <1>1 DEF IInv, TypeOK
<1>6. TypeOK'
  BY <1>1, <1>3, <1>4 DEF IInv, TypeOK
<1>7. \A d \in Calls \ {c}, n \in {1, 2} : OnWire(d, n)' = OnWire(d, n)
  BY <1>1 DEF OnWire
<1> HIDE DEF q
<1>8. \A n \in {1, 2} :
        OnWire(c, n)' = IF o.request = "command" /\ n = o.attempt THEN 1 ELSE OnWire(c, n)
  BY <1>1 DEF OnWire
<1>9. CommandsCounted'
  <2>1. \A d \in Calls \ {c} : Sent(d)' = Sent(d)
    BY <1>5 DEF Sent
  <2>2. Sent(c) = o.attempt - 1 /\ Sent(c)' = o.attempt
    BY <1>1, <1>4, <1>5 DEF Sent
  <2>3. \A n \in {1, 2} : OnWire(c, n) \in {0, 1}
    BY DEF OnWire
  <2>4. carried[c] \in Nat
    BY DEF IInv, TypeOK
  <2>5. CASE o.request = "command"
    <3>1. carried[c] + OnWire(c, 1) + OnWire(c, 2) <= o.attempt - 1
      BY <1>1, <2>2, <2>5 DEF IInv, CommandsCounted
    <3>2. carried[c] + OnWire(c, 1)' + OnWire(c, 2)' <= o.attempt
      <4>1. CASE o.attempt = 1
        BY <4>1, <1>8, <2>3, <2>4, <2>5, <3>1
      <4>2. CASE o.attempt = 2
        BY <4>2, <1>8, <2>3, <2>4, <2>5, <3>1
      <4> QED
        BY <4>1, <4>2, <1>2
    <3>3. q.attempt = 2 => q.lost
      BY <1>1, <1>4 DEF IInv, CommandsCounted
    <3> QED
      BY <1>1, <1>4, <1>5, <1>7, <2>1, <2>2, <2>5, <3>2, <3>3 DEF IInv, CommandsCounted, Same
  <2>6. CASE o.request # "command"
    <3>1. OnWire(c, 1)' = OnWire(c, 1) /\ OnWire(c, 2)' = OnWire(c, 2)
      BY <1>8, <2>6
    <3>2. q.attempt = 2 => q.lost
      BY <1>1, <1>4 DEF IInv, CommandsCounted
    <3> QED
      BY <1>1, <1>4, <1>5, <1>7, <2>1, <2>2, <2>6, <3>1, <3>2 DEF IInv, CommandsCounted, Same
  <2> QED
    BY <2>5, <2>6
<1>10. IdsCounted'
  BY <1>1 DEF IInv, IdsCounted
<1>11. AnswersAreGenuine'
  BY <1>1, <1>4, <1>5 DEF IInv, AnswersAreGenuine, Ensures, Same
<1>12. ResultsAreGenuine'
  BY <1>1, <1>4, <1>5 DEF IInv, ResultsAreGenuine, Ensures, Same
<1>13. RepeatedEnsureAddsNone'
  BY <1>1, <1>4, <1>5 DEF IInv, RepeatedEnsureAddsNone, Same
<1>14. CreatesAreConfigured'
  <2>1. \A d \in Calls :
          /\ call'[d].pc = "idle" <=> call[d].pc = "idle"
          /\ call'[d].pc = "failed" <=> call[d].pc = "failed"
          /\ call[d].pc # "idle" =>
               call'[d].request = call[d].request /\ call'[d].secret = call[d].secret
    BY <1>1, <1>4, <1>5 DEF Same
  <2>2. \A d \in Calls :
          (call'[d].pc # "idle"
            /\ (call'[d].request = "create"
                 \/ (call'[d].request = "list" /\ call'[d].pc # "failed")))
          => call'[d].secret # Unset
    BY <2>1 DEF IInv, CreatesAreConfigured
  <2>3. ASSUME NEW w \in wire', w.request = "create"
        PROVE  call'[w.call].pc # "idle" /\ call'[w.call].request = "create"
    <3>1. CASE w \in wire
      <4>1. call[w.call].pc # "idle" /\ call[w.call].request = "create" /\ w.call \in Calls
        BY <2>3, <3>1 DEF IInv, CreatesAreConfigured, TypeOK, Attempts
      <4> QED
        BY <2>1, <4>1
    <3>2. CASE w = m
      BY <1>1, <2>1, <2>3, <3>2
    <3> QED
      BY <1>1, <3>1, <3>2
  <2> QED
    BY <2>2, <2>3 DEF CreatesAreConfigured
<1>15. ConfirmedIsCarried'
  BY <1>1, <1>4, <1>5 DEF IInv, ConfirmedIsCarried, Same
<1> QED
  BY <1>6, <1>9, <1>10, <1>11, <1>12, <1>13, <1>14, <1>15 DEF IInv

-----------------------------------------------------------------------------
(* CitrineOS takes one request off the wire.                               *)

\* Its answer is stored, or nobody waits for it.
ReplyFacts(m, a) ==
  \A d \in Calls :
    /\ call[d].pc = "idle" => call'[d] = Idle
    /\ call[d].pc # "idle" =>
         /\ call'[d] \in Call
         /\ call'[d].pc = call[d].pc
         /\ call'[d].attempt = call[d].attempt
         /\ call'[d].lost = call[d].lost
         /\ call'[d].result = call[d].result
         /\ Same(call'[d], call[d])
         /\ \/ call'[d].answer = call[d].answer
            \/ (call'[d].answer = a /\ d = m.call /\ call[d].request = m.request
                  /\ call[d].pc = "waiting")

LEMMA ReplyStep ==
  ASSUME IInv, NEW m \in Attempts,
         NEW a \in [ok : BOOLEAN, id : Nat \cup {Unset}, listed : SUBSET Subscription],
         Reply(m, a)
  PROVE  /\ call' \in [Calls -> {Idle} \cup Call]
         /\ ReplyFacts(m, a)
<1> DEFINE q == call[m.call]
           r == [q EXCEPT !.answer = a]
<1>1. m.call \in Calls
  BY DEF Attempts
<1>2. CASE call' = call
  BY <1>2 DEF IInv, TypeOK, ReplyFacts, Same, Idle, Call
<1>3. CASE call' # call
  <2>1. /\ q.pc = "waiting" /\ q.request = m.request
        /\ call' = [call EXCEPT ![m.call] = r]
    BY <1>3 DEF Reply
  <2>2. q \in Call
    BY <1>1, <2>1, CallFacts
  <2>3. r \in Call
    BY <2>2 DEF Call
  <2>4. /\ r.pc = q.pc /\ r.attempt = q.attempt /\ r.lost = q.lost
        /\ r.result = q.result /\ r.answer = a
    BY <2>2 DEF Call
  <2>5. Same(r, q)
    BY <2>2 DEF Call, Same
  <2> HIDE DEF r
  <2>6. call'[m.call] = r /\ \A d \in Calls \ {m.call} : call'[d] = call[d]
    <3>1. call \in [Calls -> {Idle} \cup Call]
      BY DEF IInv, TypeOK
    <3> QED
      BY <1>1, <2>1, <3>1
  <2>7. call' \in [Calls -> {Idle} \cup Call]
    <3>1. call \in [Calls -> {Idle} \cup Call]
      BY DEF IInv, TypeOK
    <3> QED
      BY <1>1, <2>1, <2>3, <3>1
  <2>8. ReplyFacts(m, a)
    <3>1. ASSUME NEW d \in Calls, d # m.call
          PROVE  /\ call'[d] = call[d]
                 /\ call[d].pc = "idle" => call[d] = Idle
                 /\ call[d].pc # "idle" => call[d] \in Call
      BY <2>6, <3>1 DEF IInv, TypeOK, Call, Idle
    <3> QED
      BY <2>1, <2>3, <2>4, <2>5, <2>6, <3>1 DEF ReplyFacts, Same
  <2> QED
    BY <2>7, <2>8
<1> QED
  BY <1>2, <1>3

LEMMA AnswerStep ==
  ASSUME IInv, NEW m \in wire,
         NEW a \in [ok : BOOLEAN, id : Nat \cup {Unset}, listed : SUBSET Subscription],
         wire' = wire \ {m}, Reply(m, a),
         UNCHANGED <<secret, changes, present>>,
         made' \in SUBSET Subscription, made \subseteq made', subs' \subseteq made',
         IdsCounted',
         \A s \in subs' : s \in subs \/ s \notin made,
         \/ UNCHANGED carried
         \/ (m.request = "command" /\ carried' = [carried EXCEPT ![m.call] = @ + 1]),
         a.ok /\ m.request = "list" =>
           /\ \A s \in a.listed : s \in made /\ s.station = call[m.call].station
           /\ \A s \in subs' : s.station = call[m.call].station => s \in a.listed,
         a.ok /\ m.request = "create" =>
           \E s \in made' : s.id = a.id /\ Ensures(s, m.call),
         a.ok /\ m.request = "command" => carried' # carried
  PROVE  IInv'
<1>1. m \in Attempts /\ m.call \in Calls /\ m.request \in Requests /\ m.attempt \in 1 .. 2
  BY DEF IInv, TypeOK, Attempts
<1>2. call' \in [Calls -> {Idle} \cup Call] /\ ReplyFacts(m, a)
  BY <1>1, ReplyStep
<1>3. \A d \in Calls : call'[d].pc = call[d].pc
  BY <1>2 DEF ReplyFacts, Idle
<1>4. CommandsCounted' /\ carried' \in [Calls -> 0 .. 2]
  <2>1. \A d \in Calls : carried[d] \in Nat
    BY DEF IInv, TypeOK
  <2>2. \A d \in Calls, n \in {1, 2} : OnWire(d, n) \in {0, 1} /\ OnWire(d, n)' \in {0, 1}
    BY DEF OnWire
  <2>3. \A d \in Calls, n \in {1, 2} :
          OnWire(d, n)' <= OnWire(d, n)
    BY DEF OnWire
  <2>4. m.request = "command" => OnWire(m.call, m.attempt) = 1 /\ OnWire(m.call, m.attempt)' = 0
    <3>1. m.request = "command" => m = [call |-> m.call, request |-> "command", attempt |-> m.attempt]
      BY <1>1 DEF Attempts
    <3> QED
      BY <3>1 DEF OnWire
  <2>5. \A d \in Calls :
          carried'[d] = IF d = m.call /\ carried' # carried THEN carried[d] + 1 ELSE carried[d]
    BY <1>1 DEF IInv, TypeOK
  <2>6. ASSUME NEW d \in Calls
        PROVE  /\ carried'[d] \in Nat
               /\ carried'[d] + OnWire(d, 1)' + OnWire(d, 2)'
                    <= carried[d] + OnWire(d, 1) + OnWire(d, 2)
    <3>1. CASE d = m.call /\ carried' # carried
      <4>1. m.request = "command"
        BY <3>1
      <4>2. CASE m.attempt = 1
        BY <2>1, <2>2, <2>3, <2>4, <2>5, <3>1, <4>1, <4>2
      <4>3. CASE m.attempt = 2
        BY <2>1, <2>2, <2>3, <2>4, <2>5, <3>1, <4>1, <4>3
      <4> QED
        BY <1>1, <4>2, <4>3
    <3>2. CASE ~(d = m.call /\ carried' # carried)
      BY <2>1, <2>2, <2>3, <2>5, <3>2
    <3> QED
      BY <3>1, <3>2
  <2>7. ASSUME NEW d \in Calls
        PROVE  /\ IF call'[d].pc # "idle" /\ call'[d].request = "command"
                    THEN carried'[d] + OnWire(d, 1)' + OnWire(d, 2)' <= Sent(d)'
                    ELSE carried'[d] = 0 /\ OnWire(d, 1)' = 0 /\ OnWire(d, 2)' = 0
               /\ call'[d].pc # "idle" /\ call'[d].attempt = 2 => call'[d].lost
               /\ carried'[d] \in 0 .. 2
    <3>1. CASE call[d].pc # "idle" /\ call[d].request = "command"
      <4>1. /\ call'[d].request = "command"
            /\ call'[d].attempt = call[d].attempt /\ call'[d].lost = call[d].lost
            /\ call'[d].pc = call[d].pc
        BY <1>2, <3>1 DEF ReplyFacts, Same
      <4>2. Sent(d)' = Sent(d) /\ Sent(d) \in 0 .. 2
        BY <3>1, <4>1, CallFacts DEF Sent
      <4>3. carried[d] + OnWire(d, 1) + OnWire(d, 2) <= Sent(d)
        BY <3>1 DEF IInv, CommandsCounted
      <4>4. carried'[d] + OnWire(d, 1)' + OnWire(d, 2)' <= Sent(d)'
        BY <2>1, <2>2, <2>6, <4>2, <4>3
      <4>5. carried'[d] \in 0 .. 2
        BY <2>2, <2>6, <4>2, <4>4
      <4> QED
        BY <3>1, <4>1, <4>4, <4>5 DEF IInv, CommandsCounted
    <3>2. CASE ~(call[d].pc # "idle" /\ call[d].request = "command")
      <4>1. carried[d] = 0 /\ OnWire(d, 1) = 0 /\ OnWire(d, 2) = 0
        BY <3>2 DEF IInv, CommandsCounted
      <4>2. carried'[d] = 0 /\ OnWire(d, 1)' = 0 /\ OnWire(d, 2)' = 0
        BY <2>2, <2>6, <4>1
      <4>3. ~(call'[d].pc # "idle" /\ call'[d].request = "command")
        BY <1>2, <1>3, <3>2 DEF ReplyFacts, Same
      <4>4. call'[d].pc # "idle" /\ call'[d].attempt = 2 => call'[d].lost
        BY <1>2, <1>3 DEF IInv, CommandsCounted, ReplyFacts
      <4> QED
        BY <4>2, <4>3, <4>4
    <3> QED
      BY <3>1, <3>2
  <2>8. carried' \in [Calls -> 0 .. 2]
    <3>1. \E f : carried' = [d \in Calls |-> f[d]]
      BY DEF IInv, TypeOK
    <3> QED
      BY <2>7, <3>1
  <2> QED
    BY <2>7, <2>8 DEF CommandsCounted
<1>5. TypeOK'
  BY <1>2, <1>4 DEF IInv, TypeOK
<1>6. AnswersAreGenuine'
  <2> SUFFICES ASSUME NEW d \in Calls, call'[d].pc # "idle", call'[d].answer.ok
               PROVE  /\ call'[d].request = "list" =>
                           /\ \A s \in call'[d].answer.listed : s \in made' /\ s.station = call'[d].station
                           /\ \A s \in present'[d] \cap subs' :
                                s.station = call'[d].station => s \in call'[d].answer.listed
                      /\ call'[d].request = "create" =>
                           \E s \in made' : s.id = call'[d].answer.id /\ Ensures(s, d)'
    BY DEF AnswersAreGenuine
  <2>1. call[d].pc # "idle" /\ Same(call'[d], call[d])
    BY <1>2, <1>3 DEF ReplyFacts
  <2>2. \A s : Ensures(s, d) => Ensures(s, d)'
    BY <2>1 DEF Ensures, Same
  <2>3. present'[d] \cap subs' \subseteq present[d] \cap subs
    BY DEF IInv, TypeOK
  <2>4. CASE call'[d].answer = call[d].answer
    BY <2>1, <2>2, <2>3, <2>4 DEF IInv, AnswersAreGenuine, Same
  <2>5. CASE call'[d].answer = a /\ d = m.call /\ call[d].request = m.request
    BY <2>1, <2>2, <2>5 DEF Same
  <2> QED
    BY <1>2, <2>1, <2>4, <2>5 DEF ReplyFacts
<1>7. ResultsAreGenuine'
  <2> SUFFICES ASSUME NEW d \in Calls, call'[d].pc = "done",
                      call'[d].request \in {"list", "create"}
               PROVE  \E s \in made' : s.id = call'[d].result /\ Ensures(s, d)'
    BY DEF ResultsAreGenuine
  <2>1. /\ call[d].pc = "done" /\ Same(call'[d], call[d])
        /\ call'[d].result = call[d].result
    BY <1>2, <1>3 DEF ReplyFacts
  <2>2. PICK s \in made : s.id = call[d].result /\ Ensures(s, d)
    BY <2>1 DEF IInv, ResultsAreGenuine, Same
  <2> QED
    BY <2>1, <2>2 DEF Ensures, Same
<1>8. RepeatedEnsureAddsNone'
  <2> SUFFICES ASSUME NEW d \in Calls, call'[d].pc # "idle", call'[d].request = "create",
                      NEW s \in present'[d] \cap subs'
               PROVE  ~(s.station = call'[d].station /\ s.secret = call'[d].secret
                          /\ s.events = AllEvents)
    BY DEF RepeatedEnsureAddsNone
  <2>1. call[d].pc # "idle" /\ Same(call'[d], call[d])
    BY <1>2, <1>3 DEF ReplyFacts
  <2>2. s \in present[d] \cap subs
    BY DEF IInv, TypeOK
  <2> QED
    BY <2>1, <2>2 DEF IInv, RepeatedEnsureAddsNone, Same
<1>9. CreatesAreConfigured'
  <2>1. \A d \in Calls :
          call[d].pc # "idle" => Same(call'[d], call[d])
    BY <1>2 DEF ReplyFacts
  <2>2. \A d \in Calls :
          (call'[d].pc # "idle"
            /\ (call'[d].request = "create"
                 \/ (call'[d].request = "list" /\ call'[d].pc # "failed")))
          => call'[d].secret # Unset
    BY <1>3, <2>1 DEF IInv, CreatesAreConfigured, Same
  <2>3. ASSUME NEW w \in wire', w.request = "create"
        PROVE  call'[w.call].pc # "idle" /\ call'[w.call].request = "create"
    <3>1. call[w.call].pc # "idle" /\ call[w.call].request = "create" /\ w.call \in Calls
      BY <2>3 DEF IInv, CreatesAreConfigured, TypeOK, Attempts
    <3> QED
      BY <1>3, <2>1, <3>1 DEF Same
  <2> QED
    BY <2>2, <2>3 DEF CreatesAreConfigured
<1>10. ConfirmedIsCarried'
  <2> SUFFICES ASSUME NEW d \in Calls, call'[d].pc # "idle", call'[d].request = "command",
                      call'[d].answer.ok \/ call'[d].pc = "done"
               PROVE  carried'[d] > 0
    BY DEF ConfirmedIsCarried
  <2>1. call[d].pc = call'[d].pc /\ call[d].request = "command"
    BY <1>2, <1>3 DEF ReplyFacts, Same
  <2>2. carried[d] \in Nat
    BY DEF IInv, TypeOK
  <2>3. carried'[d] >= carried[d]
    BY <2>2 DEF IInv, TypeOK
  <2>4. CASE call[d].answer.ok \/ call[d].pc = "done"
    <3>1. carried[d] > 0
      BY <2>1, <2>4 DEF IInv, ConfirmedIsCarried
    <3> QED
      BY <1>4, <2>2, <2>3, <3>1
  <2>5. CASE call'[d].answer = a /\ d = m.call /\ m.request = "command" /\ a.ok
    <3>1. carried'[d] = carried[d] + 1
      BY <1>1, <2>5 DEF IInv, TypeOK
    <3> QED
      BY <2>2, <3>1
  <2> QED
    BY <1>2, <2>1, <2>4, <2>5 DEF ReplyFacts
<1> QED
  BY <1>4, <1>5, <1>6, <1>7, <1>8, <1>9, <1>10 DEF IInv

\* A new subscription has an id no other one has had.
LEMMA CreateStep ==
  ASSUME IInv, NEW m \in wire, wire' = wire \ {m}, CitrineCreate(m),
         UNCHANGED <<secret, changes, present>>
  PROVE  IInv'
<1> DEFINE n == Cardinality(made)
           s == [id |-> n + 1, station |-> call[m.call].station,
                 secret |-> call[m.call].secret, events |-> AllEvents]
           a == Done(s.id, {})
<1>1. /\ m.request = "create"
      /\ subs' = subs \cup {s}
      /\ made' = made \cup {s}
      /\ Reply(m, a)
      /\ UNCHANGED carried
  BY DEF CitrineCreate
<1>2. n \in Nat /\ IsFiniteSet(made)
  BY FS_CardinalityType DEF IInv, IdsCounted
<1>3. s.id = n + 1 /\ Ensures(s, m.call)
  BY DEF Ensures
<1>4. s \notin made
  BY <1>2, <1>3 DEF IInv, IdsCounted
<1>5. /\ call[m.call] \in Call
      /\ call[m.call].station \in Stations
      /\ call[m.call].secret \in Secrets
      /\ m.call \in Calls
  <2>1. m.call \in Calls
    BY DEF IInv, TypeOK, Attempts
  <2>2. call[m.call].pc # "idle" /\ call[m.call].request = "create"
    BY <1>1 DEF IInv, CreatesAreConfigured
  <2>3. call[m.call].secret # Unset
    BY <2>1, <2>2 DEF IInv, CreatesAreConfigured
  <2> QED
    BY <2>1, <2>2, <2>3, CallFacts
<1>6. s \in Subscription
  BY <1>2, <1>5 DEF Subscription
<1>7. /\ a \in [ok : BOOLEAN, id : Nat \cup {Unset}, listed : SUBSET Subscription]
      /\ a.id = s.id
  BY <1>2, <1>3 DEF Done
<1> HIDE DEF s, a
<1>8. made' \in SUBSET Subscription /\ made \subseteq made' /\ subs' \subseteq made'
  BY <1>1, <1>6 DEF IInv, TypeOK
<1>9. IdsCounted'
  <2>1. IsFiniteSet(made') /\ Cardinality(made') = n + 1
    BY <1>1, <1>2, <1>4, FS_AddElement
  <2>2. \A x \in made : x.id \in Nat /\ x.id <= n
    BY DEF IInv, IdsCounted, TypeOK, Subscription
  <2>3. \A x \in made' : x.id <= n + 1
    BY <1>1, <1>2, <1>3, <2>2
  <2> QED
    BY <2>1, <2>3 DEF IdsCounted
<1>10. \A x \in subs' : x \in subs \/ x \notin made
  BY <1>1, <1>4
<1>11. \E x \in made' : x.id = a.id /\ Ensures(x, m.call)
  BY <1>1, <1>3, <1>7
<1> QED
  BY <1>1, <1>7, <1>8, <1>9, <1>10, <1>11, AnswerStep

\* CitrineOS carries out, lists, creates, deletes or refuses.
LEMMA CitrineStep ==
  ASSUME IInv, CitrineOS
  PROVE  IInv'
<1>1. PICK m \in wire :
        /\ wire' = wire \ {m}
        /\ \/ CitrineCommand(m) \/ CitrineList(m) \/ CitrineCreate(m)
           \/ CitrineDelete(m) \/ CitrineRefuses(m)
        /\ UNCHANGED <<secret, changes, present>>
  BY DEF CitrineOS
<1>2. /\ made \in SUBSET Subscription /\ subs \subseteq made
      /\ IdsCounted
      /\ m.call \in Calls
  BY DEF IInv, TypeOK, Attempts
<1>3. CASE CitrineCommand(m)
  <2>1. /\ m.request = "command" /\ Reply(m, Done(Unset, {}))
        /\ carried' = [carried EXCEPT ![m.call] = @ + 1]
        /\ UNCHANGED <<subs, made>>
    BY <1>3 DEF CitrineCommand
  <2>2. Done(Unset, {}) \in [ok : BOOLEAN, id : Nat \cup {Unset}, listed : SUBSET Subscription]
    BY DEF Done
  <2>3. IdsCounted'
    BY <1>2, <2>1 DEF IdsCounted
  <2>4. carried' # carried
    <3>1. carried[m.call] \in Nat /\ carried'[m.call] = carried[m.call] + 1
      BY <1>2, <2>1 DEF IInv, TypeOK
    <3> QED
      BY <3>1
  <2> QED
    BY <1>1, <1>2, <2>1, <2>2, <2>3, <2>4, AnswerStep
<1>4. CASE CitrineList(m)
  <2> DEFINE L == {s \in subs : s.station = call[m.call].station}
             a == Done(Unset, L)
  <2>1. /\ m.request = "list" /\ Reply(m, a)
        /\ UNCHANGED <<subs, made, carried>>
    BY <1>4 DEF CitrineList
  <2>2. /\ a \in [ok : BOOLEAN, id : Nat \cup {Unset}, listed : SUBSET Subscription]
        /\ a.listed = L
    BY <1>2 DEF Done
  <2>3. IdsCounted'
    BY <1>2, <2>1 DEF IdsCounted
  <2>4. /\ \A s \in a.listed : s \in made /\ s.station = call[m.call].station
        /\ \A s \in subs' : s.station = call[m.call].station => s \in a.listed
    BY <1>2, <2>1, <2>2
  <2> HIDE DEF a
  <2> QED
    BY <1>1, <1>2, <2>1, <2>2, <2>3, <2>4, AnswerStep
<1>5. CASE CitrineDelete(m)
  <2>1. PICK s \in made : /\ subs' = subs \ {s}
                          /\ Reply(m, Done(s.id, {}))
    BY <1>5 DEF CitrineDelete
  <2>2. m.request = "delete" /\ UNCHANGED <<made, carried>>
    BY <1>5 DEF CitrineDelete
  <2>3. Done(s.id, {}) \in [ok : BOOLEAN, id : Nat \cup {Unset}, listed : SUBSET Subscription]
    BY <1>2 DEF Done, Subscription
  <2>4. IdsCounted'
    BY <1>2, <2>2 DEF IdsCounted
  <2> QED
    BY <1>1, <1>2, <2>1, <2>2, <2>3, <2>4, AnswerStep
<1>6. CASE CitrineRefuses(m)
  <2>1. Reply(m, Refusal) /\ UNCHANGED <<subs, made, carried>>
    BY <1>6 DEF CitrineRefuses
  <2>2. /\ Refusal \in [ok : BOOLEAN, id : Nat \cup {Unset}, listed : SUBSET Subscription]
        /\ ~Refusal.ok
    BY DEF Refusal
  <2>3. IdsCounted'
    BY <1>2, <2>1 DEF IdsCounted
  <2> QED
    BY <1>1, <1>2, <2>1, <2>2, <2>3, AnswerStep
<1> QED
  BY <1>1, <1>3, <1>4, <1>5, <1>6, CreateStep

-----------------------------------------------------------------------------
LEMMA StillStep ==
  ASSUME IInv, ChangeSecret \/ UNCHANGED vars
  PROVE  IInv'
<1>1. UNCHANGED <<call, wire, subs, made, carried, present>>
  BY DEF ChangeSecret, vars
<1>2. TypeOK'
  <2>1. CASE ChangeSecret
    BY <2>1, GatewayAssumption DEF IInv, TypeOK, ChangeSecret
  <2>2. CASE UNCHANGED vars
    BY <2>2 DEF IInv, TypeOK, vars
  <2> QED
    BY <2>1, <2>2
<1>3. CreatesAreConfigured' /\ IdsCounted'
  BY <1>1 DEF IInv, CreatesAreConfigured, IdsCounted
<1>4. CommandsCounted'
  BY <1>1 DEF IInv, CommandsCounted, Sent, OnWire
<1>5. ConfirmedIsCarried'
  BY <1>1 DEF IInv, ConfirmedIsCarried
<1>6. AnswersAreGenuine' /\ ResultsAreGenuine' /\ RepeatedEnsureAddsNone'
  BY <1>1 DEF IInv, AnswersAreGenuine, ResultsAreGenuine, RepeatedEnsureAddsNone, Ensures
<1> QED
  BY <1>2, <1>3, <1>4, <1>5, <1>6 DEF IInv

LEMMA InvStep == IInv /\ [Next]_vars => IInv'
<1> SUFFICES ASSUME IInv, [Next]_vars PROVE IInv'
  OBVIOUS
<1>1. CASE \E c \in Calls : \/ UserStarts(c) \/ Attempt(c)
                            \/ NetworkFails(c) \/ TimesOut(c) \/ HeadArrives(c)
                            \/ BodyEnds(c)
  BY <1>1, UserStep, AttemptStep, RetryStep, FailStep, HeadStep, ConfirmedStep, AlreadyStep,
     AskStep DEF BodyEnds
<1>2. CASE ChangeSecret \/ UNCHANGED vars
  BY <1>2, StillStep
<1>3. CASE CitrineOS
  BY <1>3, CitrineStep
<1> QED
  BY <1>1, <1>2, <1>3 DEF Next, Rest

(* The inductive invariant of the gateway holds in every reachable state.  *)
THEOREM InvCorrect == Spec => []IInv
<1>1. Spec => Init /\ [][Next]_vars
  BY DEF Spec
<1> QED
  BY <1>1, InvInit, InvStep, PTL

-----------------------------------------------------------------------------
LEMMA InvRepeated == IInv => RepeatedOnlyAfterLoss
<1> SUFFICES ASSUME IInv, NEW c \in Calls, carried[c] > 1
             PROVE  call[c].attempt = 2 /\ call[c].lost
  BY DEF RepeatedOnlyAfterLoss
<1>1. carried[c] \in 0 .. 2 /\ OnWire(c, 1) \in {0, 1} /\ OnWire(c, 2) \in {0, 1}
  BY DEF IInv, TypeOK, OnWire
<1>2. call[c].pc # "idle" /\ carried[c] + OnWire(c, 1) + OnWire(c, 2) <= Sent(c)
  BY <1>1 DEF IInv, CommandsCounted
<1>3. call[c].attempt \in 1 .. 2
  BY <1>2, CallFacts
<1>4. call[c].attempt = 2
  BY <1>1, <1>2, <1>3 DEF Sent
<1> QED
  BY <1>2, <1>4 DEF IInv, CommandsCounted

(* A command is carried out twice only after its first attempt was lost,   *)
(* before its answer or while the answer was read                          *)
(* (citrineos-http-client.ts, request).                                    *)
THEOREM RepeatedCorrect == Spec => []RepeatedOnlyAfterLoss
<1> QED
  BY InvCorrect, InvRepeated, PTL

LEMMA InvEnsured == IInv => EnsuredIsHeard
<1> SUFFICES ASSUME IInv, NEW c \in Calls,
                    call[c].pc = "done", call[c].request \in {"list", "create"},
                    call[c].secret = secret,
                    \A s \in made \ subs : s.id # call[c].result
             PROVE  \E s \in subs : /\ s.station = call[c].station
                                   /\ s.secret = secret
                                   /\ s.events = AllEvents
  BY DEF EnsuredIsHeard
<1> QED
  BY DEF IInv, ResultsAreGenuine, Ensures

(* While its subscription exists and the secret is the same, an ensured    *)
(* station is heard (citrineos-subscription.service.ts, ensureSubscribed). *)
THEOREM EnsuredCorrect == Spec => []EnsuredIsHeard
<1> QED
  BY InvCorrect, InvEnsured, PTL

(* A call that could see a matching subscription creates no second one     *)
(* (citrineos-subscription.service.ts, ensureSubscribed).                  *)
THEOREM RepeatedEnsureCorrect == Spec => []RepeatedEnsureAddsNone
<1>1. IInv => RepeatedEnsureAddsNone
  BY DEF IInv
<1> QED
  BY <1>1, InvCorrect, PTL

-----------------------------------------------------------------------------
(* CitrineGateway implements CommandDelivery.                               *)

LEMMA DeliveryInit == Init => Delivery!Init
<1> SUFFICES ASSUME Init PROVE Delivery!Init
  OBVIOUS
<1>1. \A c \in Calls : Seen(c) = [answer |-> "none", sent |-> 0, lost |-> FALSE]
  BY DEF Init, Idle, Seen
<1> QED
  BY <1>1 DEF Init, Delivery!Init, Delivery!Unsent

\* A step of one call, as the user of the command sees it.
LEMMA CallSeen ==
  ASSUME IInv, NEW c \in Calls, NEW q, call' = [call EXCEPT ![c] = q]
  PROVE  [d \in Calls |-> Seen(d)]' = [[d \in Calls |-> Seen(d)] EXCEPT ![c] = Seen(c)']
<1>1. \A d \in Calls \ {c} : Seen(d)' = Seen(d)
  BY DEF IInv, TypeOK, Seen, Sent
<1> QED
  BY <1>1

\* A step that the users of commands do not see.
LEMMA UnseenStep ==
  ASSUME IInv, NEW c \in Calls, NEW q, call' = [call EXCEPT ![c] = q], UNCHANGED carried,
         Seen(c)' = Seen(c)
  PROVE  UNCHANGED Delivery!vars
<1>1. [d \in Calls |-> Seen(d)]' = [d \in Calls |-> Seen(d)]
  BY CallSeen
<1> QED
  BY <1>1 DEF Delivery!vars

\* A step of a call that is not, or does not become, a command.
LEMMA OtherCallStep ==
  ASSUME IInv, NEW c \in Calls, NEW q, call' = [call EXCEPT ![c] = q], UNCHANGED carried,
         call[c].pc = "idle" \/ call[c].request # "command",
         q.request # "command"
  PROVE  UNCHANGED Delivery!vars
<1>1. Seen(c)' = Seen(c)
  BY DEF IInv, TypeOK, Seen
<1> QED
  BY <1>1, UnseenStep

LEMMA BecomeSeen ==
  ASSUME IInv, NEW c \in Calls, NEW q, call' = [call EXCEPT ![c] = q], UNCHANGED carried,
         NEW d, d = Seen(c)'
  PROVE  Delivery!Become(c, d)
  BY CallSeen DEF Delivery!Become

LEMMA StartSeen ==
  ASSUME IInv, NEW c \in Calls, UserStarts(c)
  PROVE  Delivery!Ask(c) \/ UNCHANGED Delivery!vars
<1>1. CASE StartCommand(c)
  <2>1. PICK s \in Stations : call' = [call EXCEPT ![c] = Begin("command", s, Unset, Unset)]
    BY <1>1 DEF StartCommand
  <2> DEFINE q == Begin("command", s, Unset, Unset)
             d == [answer |-> "pending", sent |-> 0, lost |-> FALSE]
  <2>2. q.pc = "attempt" /\ q.request = "command" /\ q.attempt = 1 /\ q.lost = FALSE
    BY DEF Begin
  <2> HIDE DEF q
  <2>3. call' = [call EXCEPT ![c] = q] /\ call[c].pc = "idle" /\ UNCHANGED carried
    BY <1>1, <2>1 DEF StartCommand, q
  <2>4. Seen(c)' = d
    <3>1. call'[c] = q
      BY <2>3 DEF IInv, TypeOK
    <3>2. Seen(c)' = [answer |-> "pending", sent |-> 1 - 1, lost |-> FALSE]
      BY <2>2, <3>1 DEF Seen, Sent
    <3>3. 1 - 1 = 0
      OBVIOUS
    <3> QED
      BY <3>2, <3>3
  <2>5. Delivery!Become(c, d)
    <3> HIDE DEF d
    <3> QED
      BY <2>3, <2>4, BecomeSeen
  <2>6. d = [Delivery!Unsent EXCEPT !.answer = "pending"]
    <3>1. \A x : [[answer |-> "none", sent |-> 0, lost |-> x] EXCEPT !.answer = "pending"]
                   = [answer |-> "pending", sent |-> 0, lost |-> x]
      OBVIOUS
    <3> QED
      BY <3>1, Zenon DEF Delivery!Unsent
  <2>7. [e \in Calls |-> Seen(e)][c].answer = "none"
    BY <2>3 DEF Seen
  <2> HIDE DEF d
  <2> QED
    BY <2>5, <2>6, <2>7 DEF Delivery!Ask
<1>2. CASE StartEnsure(c) \/ EnsureUnconfigured(c) \/ StartDelete(c)
  <2>1. call[c].pc = "idle" /\ UNCHANGED carried
    BY <1>2 DEF StartEnsure, EnsureUnconfigured, StartDelete
  <2>2. PICK q : call' = [call EXCEPT ![c] = q] /\ q.request # "command"
    <3>1. CASE StartEnsure(c)
      <4>1. PICK s \in Stations :
              call' = [call EXCEPT ![c] = Begin("list", s, secret, Unset)]
        BY <3>1 DEF StartEnsure
      <4>2. Begin("list", s, secret, Unset).request = "list"
        BY DEF Begin
      <4> QED
        BY <4>1, <4>2
    <3>2. CASE EnsureUnconfigured(c)
      <4>1. PICK s \in Stations :
              call' = [call EXCEPT ![c] =
                         [Begin("list", s, Unset, Unset) EXCEPT !.pc = "failed"]]
        BY <3>2 DEF EnsureUnconfigured
      <4>2. [Begin("list", s, Unset, Unset) EXCEPT !.pc = "failed"].request = "list"
        BY DEF Begin
      <4> QED
        BY <4>1, <4>2
    <3>3. CASE StartDelete(c)
      <4>1. PICK s \in subs :
              call' = [call EXCEPT ![c] = Begin("delete", s.station, Unset, s.id)]
        BY <3>3 DEF StartDelete
      <4>2. Begin("delete", s.station, Unset, s.id).request = "delete"
        BY DEF Begin
      <4> QED
        BY <4>1, <4>2
    <3> QED
      BY <1>2, <3>1, <3>2, <3>3
  <2> QED
    BY <2>1, <2>2, OtherCallStep
<1> QED
  BY <1>1, <1>2 DEF UserStarts

\* A command in progress, as its user sees it.
LEMMA PendingSeen ==
  ASSUME NEW c \in Calls, call[c].pc \in {"attempt", "waiting", "body"},
         call[c].request = "command"
  PROVE  /\ Seen(c) = [answer |-> "pending", sent |-> Sent(c), lost |-> call[c].lost]
         /\ [e \in Calls |-> Seen(e)][c] = Seen(c)
  BY DEF Seen

LEMMA AttemptSeen ==
  ASSUME IInv, NEW c \in Calls, Attempt(c)
  PROVE  Delivery!Send(c) \/ UNCHANGED Delivery!vars
<1> DEFINE o == call[c]
           q == [o EXCEPT !.pc = "waiting"]
           n == o.attempt
           d == [answer |-> "pending", sent |-> n, lost |-> o.lost]
           e == [answer |-> "pending", sent |-> n - 1, lost |-> o.lost]
           delivery == [b \in Calls |-> Seen(b)]
<1>1. o.pc = "attempt" /\ call' = [call EXCEPT ![c] = q] /\ UNCHANGED carried
  BY DEF Attempt
<1>2. o \in Call /\ n \in 1 .. 2
  BY <1>1, CallFacts
<1>3. q.request = o.request /\ q.pc = "waiting" /\ q.attempt = n /\ q.lost = o.lost
  BY <1>2 DEF Call
<1> HIDE DEF q
<1>4. CASE o.request # "command"
  BY <1>1, <1>3, <1>4, OtherCallStep
<1>5. CASE o.request = "command"
  <2>1. delivery[c] = e
    BY <1>1, <1>5, PendingSeen DEF Sent
  <2>2. Seen(c)' = d
    BY <1>1, <1>3, <1>5 DEF IInv, TypeOK, Seen, Sent
  <2>3. d = [e EXCEPT !.sent = @ + 1] /\ e.answer = "pending" /\ e.sent = n - 1 /\ e.lost = o.lost
    BY <1>2
  <2>4. n = 2 => o.lost = TRUE
    BY <1>1, <1>2 DEF IInv, CommandsCounted, Call
  <2>5. e.sent < IF e.lost THEN 2 ELSE 1
    BY <1>2, <2>3, <2>4
  <2>6. Delivery!Become(c, d)
    <3> HIDE DEF d
    <3> QED
      BY <1>1, <2>2, BecomeSeen
  <2>7. /\ delivery[c].answer = "pending"
        /\ delivery[c].sent < IF delivery[c].lost THEN 2 ELSE 1
        /\ Delivery!Become(c, [delivery[c] EXCEPT !.sent = @ + 1])
    <3> HIDE DEF d, e, delivery
    <3> QED
      BY <2>1, <2>3, <2>5, <2>6
  <2> QED
    BY <2>7 DEF Delivery!Send
<1> QED
  BY <1>4, <1>5

\* A call fails: its last attempt is answered, timed out or lost.
Fails(c) ==
  /\ call[c].pc \in {"waiting", "body"}
  /\ UNCHANGED carried
  /\ \E q : /\ call' = [call EXCEPT ![c] = q]
           /\ q.pc = "failed" /\ q.request = call[c].request
           /\ q.attempt = call[c].attempt /\ q.lost = call[c].lost

LEMMA FailureSeen ==
  ASSUME IInv, NEW c \in Calls, Fails(c)
  PROVE  Delivery!Fail(c) \/ UNCHANGED Delivery!vars
<1> PICK q : /\ call' = [call EXCEPT ![c] = q]
             /\ q.pc = "failed" /\ q.request = call[c].request
             /\ q.attempt = call[c].attempt /\ q.lost = call[c].lost
  BY DEF Fails
<1> call[c].pc \in {"waiting", "body"} /\ UNCHANGED carried
  BY DEF Fails
<1> DEFINE o == call[c]
           n == o.attempt
           d == [answer |-> "failed", sent |-> n, lost |-> o.lost]
           e == [answer |-> "pending", sent |-> n, lost |-> o.lost]
           delivery == [b \in Calls |-> Seen(b)]
<1>1. n \in 1 .. 2
  BY CallFacts
<1>2. CASE o.request # "command"
  BY <1>2, OtherCallStep
<1>3. CASE o.request = "command"
  <2>1. delivery[c] = e
    BY <1>3, PendingSeen DEF Sent
  <2>2. Seen(c)' = d
    BY <1>3 DEF IInv, TypeOK, Seen, Sent
  <2>3. d = [e EXCEPT !.answer = "failed"] /\ e.answer = "pending" /\ e.sent > 0
    BY <1>1
  <2>4. Delivery!Become(c, d)
    <3> HIDE DEF d
    <3> QED
      BY <2>2, BecomeSeen
  <2>5. /\ delivery[c].answer = "pending"
        /\ delivery[c].sent > 0
        /\ Delivery!Become(c, [delivery[c] EXCEPT !.answer = "failed"])
    <3> HIDE DEF d, e, delivery
    <3> QED
      BY <2>1, <2>3, <2>4
  <2> QED
    BY <2>5 DEF Delivery!Fail
<1> QED
  BY <1>2, <1>3

LEMMA RetrySeen ==
  ASSUME IInv, NEW c \in Calls, NetworkFails(c) \/ BodyFails(c)
  PROVE  Delivery!Lose(c) \/ Delivery!Fail(c) \/ UNCHANGED Delivery!vars
<1> DEFINE o == call[c]
           delivery == [b \in Calls |-> Seen(b)]
<1>1. /\ o.pc \in {"waiting", "body"}
      /\ Retry(c)
      /\ UNCHANGED carried
  BY DEF NetworkFails, BodyFails
<1>2. o \in Call
  BY <1>1, CallFacts
<1>3. CASE o.attempt = 1
  <2> DEFINE q == [o EXCEPT !.pc = "attempt", !.attempt = 2, !.lost = TRUE, !.answer = NoAnswer]
             d == [answer |-> "pending", sent |-> 1, lost |-> TRUE]
             e == [answer |-> "pending", sent |-> 1, lost |-> o.lost]
  <2>1. call' = [call EXCEPT ![c] = q]
    BY <1>1, <1>3 DEF Retry
  <2>2. q.pc = "attempt" /\ q.attempt = 2 /\ q.lost = TRUE /\ q.request = o.request
    BY <1>2 DEF Call
  <2> HIDE DEF q
  <2>3. CASE o.request # "command"
    BY <1>1, <2>1, <2>2, <2>3, OtherCallStep
  <2>4. CASE o.request = "command"
    <3>1. delivery[c] = e
      BY <1>1, <1>3, <2>4, PendingSeen DEF Sent
    <3>2. Seen(c)' = d
      <4>1. call'[c] = q
        BY <2>1 DEF IInv, TypeOK
      <4>2. Seen(c)' = [answer |-> "pending", sent |-> 2 - 1, lost |-> TRUE]
        BY <2>2, <2>4, <4>1 DEF Seen, Sent
      <4>3. 2 - 1 = 1
        OBVIOUS
      <4> QED
        BY <4>2, <4>3
    <3>3. d = [e EXCEPT !.lost = TRUE] /\ e.answer = "pending" /\ e.sent = 1
      <4>1. \A x, y : LET r == [answer |-> "pending", sent |-> 1, lost |-> x] IN
                  /\ [answer |-> "pending", sent |-> 1, lost |-> y] = [r EXCEPT !.lost = y]
                  /\ r.answer = "pending" /\ r.sent = 1
        OBVIOUS
      <4> QED
        BY <4>1, Zenon
    <3>4. Delivery!Become(c, d)
      <4> HIDE DEF d
      <4> QED
        BY <1>1, <2>1, <3>2, BecomeSeen
    <3>5. /\ delivery[c].answer = "pending"
          /\ delivery[c].sent = 1
          /\ Delivery!Become(c, [delivery[c] EXCEPT !.lost = TRUE])
      <4> HIDE DEF d, e, delivery
      <4> QED
        BY <3>1, <3>3, <3>4
    <3> QED
      BY <3>5 DEF Delivery!Lose
  <2> QED
    BY <2>3, <2>4
<1>4. CASE o.attempt # 1
  <2> DEFINE q == [o EXCEPT !.pc = "failed", !.answer = NoAnswer]
  <2>1. call' = [call EXCEPT ![c] = q]
    BY <1>1, <1>4 DEF Retry
  <2>2. /\ q.pc = "failed" /\ q.attempt = o.attempt /\ q.lost = o.lost
        /\ q.request = o.request
    BY <1>2 DEF Call
  <2>3. /\ call[c].pc \in {"waiting", "body"} /\ q.request = call[c].request
        /\ q.attempt = call[c].attempt /\ q.lost = call[c].lost /\ q.pc = "failed"
    BY <1>1, <2>2
  <2> HIDE DEF q, o
  <2>4. Fails(c)
    BY <1>1, <2>1, <2>3 DEF Fails
  <2> QED
    BY <2>4, FailureSeen
<1> QED
  BY <1>3, <1>4

LEMMA EndSeen ==
  ASSUME IInv, NEW c \in Calls, TimesOut(c) \/ Refused(c)
  PROVE  Delivery!Fail(c) \/ UNCHANGED Delivery!vars
<1> DEFINE o == call[c]
           q == [o EXCEPT !.pc = "failed", !.result = o.result, !.answer = NoAnswer]
<1>1. /\ o.pc \in {"waiting", "body"}
      /\ call' = [call EXCEPT ![c] = q]
      /\ UNCHANGED carried
  BY DEF TimesOut, Refused, End
<1>2. o \in Call
  BY <1>1, CallFacts
<1>3. /\ q.pc = "failed" /\ q.attempt = call[c].attempt /\ q.lost = call[c].lost
      /\ q.request = call[c].request
  BY <1>2 DEF Call
<1>4. call[c].pc \in {"waiting", "body"}
  BY <1>1
<1> HIDE DEF q, o
<1>5. Fails(c)
  BY <1>1, <1>3, <1>4 DEF Fails
<1> QED
  BY <1>5, FailureSeen

LEMMA HeadSeen ==
  ASSUME IInv, NEW c \in Calls, HeadArrives(c)
  PROVE  UNCHANGED Delivery!vars
<1> DEFINE o == call[c]
           q == [o EXCEPT !.pc = "body"]
<1>1. o.pc = "waiting" /\ call' = [call EXCEPT ![c] = q] /\ UNCHANGED carried
  BY DEF HeadArrives
<1>2. o \in Call
  BY <1>1, CallFacts
<1>3. q.pc = "body" /\ q.attempt = o.attempt /\ q.lost = o.lost /\ q.request = o.request
  BY <1>2 DEF Call
<1> HIDE DEF q
<1>4. Seen(c)' = Seen(c)
  BY <1>1, <1>3 DEF IInv, TypeOK, Seen, Sent
<1> QED
  BY <1>1, <1>4, UnseenStep

LEMMA ConfirmedSeen ==
  ASSUME IInv, NEW c \in Calls, Confirmed(c)
  PROVE  Delivery!Confirm(c) \/ UNCHANGED Delivery!vars
<1> DEFINE o == call[c]
           n == o.attempt
           q == [o EXCEPT !.pc = "done", !.result = o.answer.id, !.answer = NoAnswer]
           d == [answer |-> "confirmed", sent |-> n, lost |-> o.lost]
           e == [answer |-> "pending", sent |-> n, lost |-> o.lost]
           delivery == [b \in Calls |-> Seen(b)]
<1>1. /\ o.pc = "body"
      /\ o.answer.ok
      /\ call' = [call EXCEPT ![c] = q]
      /\ UNCHANGED carried
  BY DEF Confirmed, End
<1>2. o \in Call
  BY <1>1, CallFacts
<1>3. /\ q.pc = "done" /\ q.attempt = n /\ q.lost = o.lost
      /\ q.request = o.request
  BY <1>2 DEF Call
<1> HIDE DEF q
<1>4. CASE o.request # "command"
  BY <1>1, <1>3, <1>4, OtherCallStep
<1>5. CASE o.request = "command"
  <2>1. carried[c] > 0
    BY <1>1, <1>5 DEF IInv, ConfirmedIsCarried
  <2>2. delivery[c] = e
    BY <1>1, <1>5, PendingSeen DEF Sent
  <2>3. Seen(c)' = d
    BY <1>1, <1>3, <1>5 DEF IInv, TypeOK, Seen, Sent
  <2>4. d = [e EXCEPT !.answer = "confirmed"] /\ e.answer = "pending"
    OBVIOUS
  <2>5. Delivery!Become(c, d)
    <3> HIDE DEF d
    <3> QED
      BY <1>1, <2>3, BecomeSeen
  <2>6. /\ delivery[c].answer = "pending"
        /\ Delivery!Become(c, [delivery[c] EXCEPT !.answer = "confirmed"])
    <3> HIDE DEF d, e, delivery
    <3> QED
      BY <2>2, <2>4, <2>5
  <2> QED
    BY <2>1, <2>6 DEF Delivery!Confirm
<1> QED
  BY <1>4, <1>5

LEMMA EnsureSeen ==
  ASSUME IInv, NEW c \in Calls, AlreadySubscribed(c) \/ AskForSubscription(c)
  PROVE  UNCHANGED Delivery!vars
<1> DEFINE o == call[c]
<1>1. o.pc = "body" /\ o.request = "list" /\ UNCHANGED carried
  BY DEF AlreadySubscribed, AskForSubscription
<1>2. o \in Call
  BY <1>1, CallFacts
<1>3. PICK q : call' = [call EXCEPT ![c] = q] /\ q.request # "command"
  <2>1. CASE AlreadySubscribed(c)
    <3>1. PICK s : End(c, "done", s.id)
      BY <2>1 DEF AlreadySubscribed
    <3> DEFINE q == [o EXCEPT !.pc = "done", !.result = s.id, !.answer = NoAnswer]
    <3>2. call' = [call EXCEPT ![c] = q]
      BY <3>1 DEF End
    <3>3. q.request = o.request
      BY <1>2 DEF Call
    <3> QED
      BY <1>1, <3>2, <3>3
  <2>2. CASE AskForSubscription(c)
    <3> DEFINE q == Begin("create", o.station, o.secret, Unset)
    <3>1. call' = [call EXCEPT ![c] = q]
      BY <2>2 DEF AskForSubscription
    <3>2. q.request = "create"
      BY DEF Begin
    <3> QED
      BY <3>1, <3>2
  <2> QED
    BY <2>1, <2>2
<1> QED
  BY <1>1, <1>3, OtherCallStep

\* CitrineOS serves an attempt, late or not.
LEMMA CitrineSeen ==
  ASSUME IInv, CitrineOS
  PROVE  (\E c \in Calls : Delivery!CarryOut(c)) \/ UNCHANGED Delivery!vars
<1>1. PICK m \in wire :
        /\ wire' = wire \ {m}
        /\ \/ CitrineCommand(m) \/ CitrineList(m) \/ CitrineCreate(m)
           \/ CitrineDelete(m) \/ CitrineRefuses(m)
  BY DEF CitrineOS
<1>2. m \in Attempts /\ m.call \in Calls /\ m.attempt \in 1 .. 2
  BY DEF IInv, TypeOK, Attempts
<1>3. PICK a : Reply(m, a)
  BY <1>1 DEF CitrineCommand, CitrineList, CitrineCreate, CitrineDelete, CitrineRefuses
<1>4. UNCHANGED [b \in Calls |-> Seen(b)]
  <2> DEFINE q == call[m.call]
             r == [q EXCEPT !.answer = a]
  <2>1. CASE call' = call
    BY <2>1 DEF Seen, Sent
  <2>2. CASE call' # call
    <3>1. q.pc = "waiting" /\ call' = [call EXCEPT ![m.call] = r]
      BY <2>2, <1>3 DEF Reply
    <3>2. q \in Call
      BY <1>2, <3>1, CallFacts
    <3>3. r.pc = q.pc /\ r.attempt = q.attempt /\ r.lost = q.lost /\ r.request = q.request
      BY <3>2 DEF Call
    <3> HIDE DEF r
    <3>4. Seen(m.call)' = Seen(m.call)
      BY <1>2, <3>1, <3>3 DEF IInv, TypeOK, Seen, Sent
    <3>5. \A b \in Calls \ {m.call} : Seen(b)' = Seen(b)
      BY <3>1 DEF IInv, TypeOK, Seen, Sent
    <3> QED
      BY <3>4, <3>5
  <2> QED
    BY <2>1, <2>2
<1>5. CASE UNCHANGED carried
  BY <1>4, <1>5 DEF Delivery!vars
<1>6. CASE carried' # carried
  <2>1. m.request = "command" /\ carried' = [carried EXCEPT ![m.call] = @ + 1]
    BY <1>1, <1>6 DEF CitrineCommand, CitrineList, CitrineCreate, CitrineDelete, CitrineRefuses
  <2>2. OnWire(m.call, m.attempt) = 1
    BY <1>2, <2>1 DEF OnWire, Attempts
  <2>3. \A n \in {1, 2} : OnWire(m.call, n) \in {0, 1}
    BY DEF OnWire
  <2>4. /\ call[m.call].pc # "idle" /\ call[m.call].request = "command"
        /\ carried[m.call] + OnWire(m.call, 1) + OnWire(m.call, 2) <= Sent(m.call)
    <3>1. OnWire(m.call, 1) # 0 \/ OnWire(m.call, 2) # 0
      BY <1>2, <2>2
    <3> QED
      BY <1>2, <3>1 DEF IInv, CommandsCounted
  <2>5. carried[m.call] \in Nat /\ Sent(m.call) \in Int
    BY <1>2, <2>4, CallFacts DEF IInv, TypeOK, Sent
  <2>6. carried[m.call] < Sent(m.call)
    <3>1. CASE m.attempt = 1
      BY <2>2, <2>3, <2>4, <2>5, <3>1
    <3>2. CASE m.attempt = 2
      BY <2>2, <2>3, <2>4, <2>5, <3>2
    <3> QED
      BY <1>2, <3>1, <3>2
  <2>7. [b \in Calls |-> Seen(b)][m.call].sent = Sent(m.call)
    BY <1>2, <2>4 DEF Seen
  <2>8. carried[m.call] < [b \in Calls |-> Seen(b)][m.call].sent
    BY <2>6, <2>7
  <2>9. Delivery!CarryOut(m.call)
    BY <1>4, <2>1, <2>8 DEF Delivery!CarryOut
  <2> QED
    BY <1>2, <2>9
<1> QED
  BY <1>5, <1>6

LEMMA DeliveryStep == IInv /\ [Next]_vars => [Delivery!Next]_Delivery!vars
<1> SUFFICES ASSUME IInv, [Next]_vars PROVE [Delivery!Next]_Delivery!vars
  OBVIOUS
<1>1. ASSUME NEW c \in Calls, UserStarts(c) \/ Attempt(c)
      PROVE  [Delivery!Next]_Delivery!vars
  BY <1>1, StartSeen, AttemptSeen DEF Delivery!Next
<1>2. ASSUME NEW c \in Calls, NetworkFails(c) \/ TimesOut(c) \/ HeadArrives(c)
      PROVE  [Delivery!Next]_Delivery!vars
  BY <1>2, RetrySeen, EndSeen, HeadSeen DEF Delivery!Next
<1>3. ASSUME NEW c \in Calls, BodyEnds(c)
      PROVE  [Delivery!Next]_Delivery!vars
  BY <1>3, RetrySeen, EndSeen, ConfirmedSeen, EnsureSeen DEF BodyEnds, Delivery!Next
<1>4. CASE CitrineOS
  BY <1>4, CitrineSeen DEF Delivery!Next
<1>5. CASE ChangeSecret \/ UNCHANGED vars
  <2>1. UNCHANGED <<call, carried>>
    BY <1>5 DEF ChangeSecret, vars
  <2>2. UNCHANGED [b \in Calls |-> Seen(b)]
    BY <2>1 DEF Seen, Sent
  <2> QED
    BY <2>1, <2>2 DEF Delivery!vars
<1> QED
  BY <1>1, <1>2, <1>3, <1>4, <1>5 DEF Next, Rest

(* What the user of a command is told is true: the gateway implements      *)
(* CommandDelivery (CitrineOsHttpClient.request, sendCommand).             *)
THEOREM DeliveryImplemented == Spec => ImplementsDelivery
<1>1. Spec => Init /\ [][Next]_vars
  BY DEF Spec
<1> QED
  BY <1>1, InvCorrect, DeliveryInit, DeliveryStep, PTL DEF ImplementsDelivery, Delivery!Spec

=============================================================================
