-------------------------- MODULE CommandDelivery --------------------------
(***************************************************************************)
(* What a command to a charging station promises the user who sends it:    *)
(* "confirmed" means that CitrineOS has carried it out (has accepted it    *)
(* for the station), "failed" leaves that open; it is carried out at most  *)
(* once, or twice if the backend sent it again because the connection was  *)
(* lost, and CitrineOS may do so after the user has his answer.  The       *)
(* connection may be lost before the answer or while the answer is read:   *)
(* a command that CitrineOS has answered may be among those sent again.    *)
(* CitrineGateway implements it.                                           *)
(***************************************************************************)
EXTENDS Naturals

CONSTANT Calls

VARIABLES
  delivery,    \* each command: its answer, how often it was sent, and
               \* whether its connection was lost
  carried      \* how often each command was carried out

vars == <<delivery, carried>>

Unsent == [answer |-> "none", sent |-> 0, lost |-> FALSE]

Init ==
  /\ delivery = [c \in Calls |-> Unsent]
  /\ carried = [c \in Calls |-> 0]

Become(c, d) == delivery' = [delivery EXCEPT ![c] = d] /\ UNCHANGED carried

Ask(c) ==
  /\ delivery[c].answer = "none"
  /\ Become(c, [Unsent EXCEPT !.answer = "pending"])

Send(c) ==
  /\ delivery[c].answer = "pending"
  /\ delivery[c].sent < IF delivery[c].lost THEN 2 ELSE 1
  /\ Become(c, [delivery[c] EXCEPT !.sent = @ + 1])

Lose(c) ==
  /\ delivery[c].answer = "pending"
  /\ delivery[c].sent = 1
  /\ Become(c, [delivery[c] EXCEPT !.lost = TRUE])

CarryOut(c) ==
  /\ carried[c] < delivery[c].sent
  /\ carried' = [carried EXCEPT ![c] = @ + 1]
  /\ UNCHANGED delivery

Confirm(c) ==
  /\ delivery[c].answer = "pending"
  /\ carried[c] > 0
  /\ Become(c, [delivery[c] EXCEPT !.answer = "confirmed"])

Fail(c) ==
  /\ delivery[c].answer = "pending"
  /\ delivery[c].sent > 0
  /\ Become(c, [delivery[c] EXCEPT !.answer = "failed"])

Next ==
  \E c \in Calls :
    Ask(c) \/ Send(c) \/ Lose(c) \/ CarryOut(c) \/ Confirm(c) \/ Fail(c)

Spec == Init /\ [][Next]_vars
=============================================================================
