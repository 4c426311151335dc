------------------------- MODULE TestSuiteRunProofs -------------------------
(***************************************************************************)
(* Proofs about TestSuiteRun, for every number of runs, steps, callback    *)
(* requests, secrets and messages.                                         *)
(***************************************************************************)
EXTENDS TestSuiteRun, TLAPS

USE DEF dbVars, execVars, envVars, vars

-----------------------------------------------------------------------------
(* Type correctness *)

TypeInv == TypeOK /\ Located

LEMMA KindOfStep ==
  ASSUME NEW i \in Steps
  PROVE  Kind[i] \in {"trigger", "observe", "command"}
  BY CatalogAssumption

LEMMA WatchedIsWatched ==
  ASSUME NEW r \in Runs, NEW i \in Steps
  PROVE  Watched(r, i) \in WatchedActions
  BY Z3 DEF WatchedActions

LEMMA TypeInit == Init => TypeInv
  BY CatalogAssumption
  DEF Init, TypeInv, TypeOK, Located, RunStatus, Active, Waiting, Stepping,
      Terminal, NotStarted, Steps

\* Leaving a step of the catalog keeps the types of the executor's locals.
LEMMA TypeAdvance ==
  ASSUME TypeInv, NEW r \in Runs, at[r] \in Steps, Advance(r)
  PROVE  /\ pc' \in [Runs -> Active \cup {"off", "gone"}]
         /\ at' \in [Runs -> 1..NumSteps + 1]
         /\ began' \in [Runs -> Nat]
         /\ verdict' \in [Runs -> Terminal \cup {"none"}]
         /\ expired' \in [Runs -> BOOLEAN]
         /\ url' \in [Runs -> Secrets \cup {NoSecret}]
         /\ Located'
<1>1. at[r] + 1 \in 1..NumSteps + 1
  BY CatalogAssumption DEF Steps
<1> QED
  BY <1>1 DEF Advance, Goto, TypeInv, TypeOK, Located, Active, Waiting, Stepping

\* Going on to another label of the same step keeps the executor well located.
LEMMA TypeGoto ==
  ASSUME TypeInv, NEW r \in Runs, NEW l \in Active, Goto(r, l),
         UNCHANGED at, at[r] \in Steps,
         \A q \in Runs \ {r} : verdict'[q] = verdict[q],
         l \in {"write", "rescue"} => verdict'[r] \in Terminal
  PROVE  /\ pc' \in [Runs -> Active \cup {"off", "gone"}]
         /\ Located'
<1>1. pc \in [Runs -> Active \cup {"off", "gone"}]
  BY DEF TypeInv, TypeOK
<1>2. pc' \in [Runs -> Active \cup {"off", "gone"}]
  BY <1>1 DEF Goto
<1>3. pc'[r] = l /\ \A q \in Runs \ {r} : pc'[q] = pc[q]
  BY <1>1 DEF Goto
<1>4. Located'
  BY <1>3 DEF TypeInv, Located
<1> QED
  BY <1>2, <1>4

\* Every executor action keeps the types.
LEMMA TypeExecutor ==
  ASSUME TypeInv, NEW r \in Runs, Executor(r)
  PROVE  TypeInv'
<1> USE CatalogAssumption
        DEF TypeInv, TypeOK, Located, RunStatus, Active, Waiting, Stepping,
            Terminal, NotStarted, Goto, Record, Advance
<1>1. CASE LoadSteps(r)
  BY <1>1 DEF LoadSteps
<1>2. CASE ExecuteStep(r)
  <2>1. at[r] \in Steps
    BY <1>2 DEF ExecuteStep, Steps
  <2>2. FirstLabel(r, at[r]) \in {"trigger", "mark", "config", "write"}
    BY DEF FirstLabel
  <2>3. received[Station[r]][Watched(r, at[r])] \in Nat
    <3>1. Station[r] \in Stations
      BY DEF Stations
    <3>2. Watched(r, at[r]) \in WatchedActions
      BY <2>1, WatchedIsWatched
    <3> QED
      BY <3>1, <3>2
  <2>4. /\ began' \in [Runs -> Nat]
        /\ verdict' \in [Runs -> Terminal \cup {"none"}]
        /\ expired' \in [Runs -> BOOLEAN]
    BY <1>2, <2>3 DEF ExecuteStep
  <2>5. /\ pc' \in [Runs -> Active \cup {"off", "gone"}]
        /\ Located'
    BY <1>2, <2>1, <2>2 DEF ExecuteStep
  <2> QED
    BY <1>2, <2>4, <2>5 DEF ExecuteStep
<1>3. CASE LeaveLoop(r)
  BY <1>3 DEF LeaveLoop
<1>4. CASE CompleteRun(r)
  BY <1>4 DEF CompleteRun
<1>5. CASE AbortRun(r)
  BY <1>5 DEF AbortRun
<1>6. CASE SendTrigger(r)
  BY <1>6 DEF SendTrigger
<1>7. CASE ReadConfig(r)
  <2> HIDE DEF TypeInv, TypeOK, Located, Goto, Terminal, Active
  <2>1. /\ UNCHANGED at
        /\ \/ Goto(r, "mark") /\ UNCHANGED verdict
           \/ Goto(r, "write") /\ verdict' = [verdict EXCEPT ![r] = "fail"]
    BY <1>7 DEF ReadConfig
  <2>2. at[r] \in Steps
    BY <1>7 DEF ReadConfig, TypeInv, Located, Stepping, Active, Waiting
  <2>3. verdict \in [Runs -> Terminal \cup {"none"}]
    BY DEF TypeInv, TypeOK
  <2>4. verdict' \in [Runs -> Terminal \cup {"none"}]
    BY <2>1, <2>3 DEF Terminal
  <2>5. pc' \in [Runs -> Active \cup {"off", "gone"}] /\ Located'
    <3>1. /\ \A q \in Runs \ {r} : verdict'[q] = verdict[q]
          /\ verdict' # verdict => verdict'[r] \in Terminal
      BY <2>1, <2>3 DEF Terminal
    <3>2. {"mark", "write"} \subseteq Active
      BY DEF Active
    <3>3. \/ Goto(r, "mark") /\ ("mark" = "write" => verdict'[r] \in Terminal)
          \/ Goto(r, "write") /\ ("write" = "write" => verdict'[r] \in Terminal)
      BY <2>1, <2>3 DEF Terminal
    <3> QED
      BY <2>1, <2>2, <3>1, <3>2, <3>3, TypeGoto
  <2>6. url' \in [Runs -> Secrets \cup {NoSecret}]
    BY <1>7 DEF ReadConfig, TypeInv, TypeOK
  <2> QED
    BY <1>7, <2>4, <2>5, <2>6 DEF ReadConfig, TypeInv, TypeOK
<1>8. CASE MarkRunning(r)
  <2>1. /\ at[r] \in Steps
        /\ UNCHANGED <<at, verdict>>
        /\ began[r] \in Nat
    BY <1>8 DEF MarkRunning
  <2>2. PICK l \in {"write", "command", "poll"} :
          Goto(r, l) /\ (l = "write" => verdict[r] \in Terminal)
    BY <1>8 DEF MarkRunning
  <2>3. pc' \in [Runs -> Active \cup {"off", "gone"}] /\ Located'
    <3> HIDE DEF TypeInv, Located, Goto, Terminal
    <3> QED
      BY <2>1, <2>2, TypeGoto
  <2>4. /\ step' \in [Runs -> [Steps -> Terminal \cup {"pending", "running"}]]
        /\ startedAt' \in [Runs -> [Steps -> Nat \cup {NotStarted}]]
    BY <1>8, <2>1 DEF MarkRunning
  <2> QED
    BY <1>8, <2>3, <2>4 DEF MarkRunning
<1>9. CASE SendCommand(r)
  <2> HIDE DEF TypeInv, TypeOK, Located, Goto, Terminal, Active
  <2>1. /\ UNCHANGED at
        /\ \/ Goto(r, "poll") /\ UNCHANGED verdict
           \/ Goto(r, "write") /\ verdict' = [verdict EXCEPT ![r] = "fail"]
    BY <1>9 DEF SendCommand
  <2>2. at[r] \in Steps
    BY <1>9 DEF SendCommand, TypeInv, Located, Stepping, Active, Waiting
  <2>3. verdict \in [Runs -> Terminal \cup {"none"}]
    BY DEF TypeInv, TypeOK
  <2>4. verdict' \in [Runs -> Terminal \cup {"none"}]
    BY <2>1, <2>3 DEF Terminal
  <2>5. pc' \in [Runs -> Active \cup {"off", "gone"}] /\ Located'
    <3>1. /\ \A q \in Runs \ {r} : verdict'[q] = verdict[q]
          /\ verdict' # verdict => verdict'[r] \in Terminal
      BY <2>1, <2>3 DEF Terminal
    <3>2. {"poll", "write"} \subseteq Active
      BY DEF Active
    <3>3. \/ Goto(r, "poll") /\ ("poll" = "write" => verdict'[r] \in Terminal)
          \/ Goto(r, "write") /\ ("write" = "write" => verdict'[r] \in Terminal)
      BY <2>1, <2>3 DEF Terminal
    <3> QED
      BY <2>1, <2>2, <3>1, <3>2, <3>3, TypeGoto
  <2>6. [run |-> r, step |-> at[r], secret |-> url[r]] \in Command
    BY <2>2 DEF Command, TypeInv, TypeOK
  <2>7. sent' \subseteq Command
    BY <1>9, <2>6 DEF SendCommand, TypeInv, TypeOK
  <2> QED
    BY <1>9, <2>4, <2>5, <2>7 DEF SendCommand, TypeInv, TypeOK
<1>10. CASE PollMessages(r)
  <2> HIDE DEF TypeInv, TypeOK, Located, Goto, Terminal, Active
  <2>1. /\ UNCHANGED at
        /\ \/ Goto(r, "write") /\ verdict' = [verdict EXCEPT ![r] = "pass"]
           \/ Goto(r, "decide") /\ UNCHANGED verdict
    BY <1>10 DEF PollMessages
  <2>2. at[r] \in Steps
    BY <1>10 DEF PollMessages, TypeInv, Located, Stepping, Active, Waiting
  <2>3. verdict \in [Runs -> Terminal \cup {"none"}]
    BY DEF TypeInv, TypeOK
  <2>4. verdict' \in [Runs -> Terminal \cup {"none"}]
    BY <2>1, <2>3 DEF Terminal
  <2>5. pc' \in [Runs -> Active \cup {"off", "gone"}] /\ Located'
    <3>1. /\ \A q \in Runs \ {r} : verdict'[q] = verdict[q]
          /\ verdict' # verdict => verdict'[r] \in Terminal
      BY <2>1, <2>3 DEF Terminal
    <3>2. {"write", "decide"} \subseteq Active
      BY DEF Active
    <3>3. \/ Goto(r, "write") /\ ("write" = "write" => verdict'[r] \in Terminal)
          \/ Goto(r, "decide") /\ ("decide" = "write" => verdict'[r] \in Terminal)
      BY <2>1, <2>3 DEF Terminal
    <3> QED
      BY <2>1, <2>2, <3>1, <3>2, <3>3, TypeGoto
  <2> QED
    BY <1>10, <2>4, <2>5 DEF PollMessages, TypeInv, TypeOK
<1>11. CASE PollStep(r)
  <2>1. at[r] \in Steps
    BY <1>11 DEF PollStep
  <2>2. CASE step[r][at[r]] # "running"
    BY <1>11, <2>1, <2>2, TypeAdvance DEF PollStep
  <2>3. CASE ~(step[r][at[r]] # "running")
    <3>1. Goto(r, "decide") /\ UNCHANGED <<at, verdict>>
      BY <1>11, <2>3 DEF PollStep
    <3>2. pc' \in [Runs -> Active \cup {"off", "gone"}] /\ Located'
      <4>1. "decide" \in Active
        OBVIOUS
      <4> HIDE DEF TypeInv, Located, Goto, Terminal, Active
      <4> QED
        BY <2>1, <3>1, <4>1, TypeGoto
    <3> QED
      BY <1>11, <2>3, <3>2 DEF PollStep
  <2> QED
    BY <2>2, <2>3
<1>12. CASE DecideWait(r)
  <2> HIDE DEF TypeInv, TypeOK, Located, Goto, Terminal, Active
  <2>1. /\ UNCHANGED at
        /\ \/ Goto(r, "write") /\ verdict' = [verdict EXCEPT ![r] = "timeout"]
           \/ Goto(r, "poll") /\ UNCHANGED verdict
    BY <1>12 DEF DecideWait
  <2>2. at[r] \in Steps
    BY <1>12 DEF DecideWait, TypeInv, Located, Stepping, Active, Waiting
  <2>3. verdict \in [Runs -> Terminal \cup {"none"}]
    BY DEF TypeInv, TypeOK
  <2>4. verdict' \in [Runs -> Terminal \cup {"none"}]
    BY <2>1, <2>3 DEF Terminal
  <2>5. pc' \in [Runs -> Active \cup {"off", "gone"}] /\ Located'
    <3>1. /\ \A q \in Runs \ {r} : verdict'[q] = verdict[q]
          /\ verdict' # verdict => verdict'[r] \in Terminal
      BY <2>1, <2>3 DEF Terminal
    <3>2. {"write", "poll"} \subseteq Active
      BY DEF Active
    <3>3. \/ Goto(r, "write") /\ ("write" = "write" => verdict'[r] \in Terminal)
          \/ Goto(r, "poll") /\ ("poll" = "write" => verdict'[r] \in Terminal)
      BY <2>1, <2>3 DEF Terminal
    <3> QED
      BY <2>1, <2>2, <3>1, <3>2, <3>3, TypeGoto
  <2> QED
    BY <1>12, <2>4, <2>5 DEF DecideWait, TypeInv, TypeOK
<1>13. CASE FinishStep(r)
  <2>1. /\ at[r] \in Steps
        /\ verdict[r] \in Terminal
    BY <1>13 DEF FinishStep
  <2>2. step' \in [Runs -> [Steps -> Terminal \cup {"pending", "running"}]]
    BY <1>13, <2>1 DEF FinishStep
  <2> QED
    BY <1>13, <2>1, <2>2, TypeAdvance DEF FinishStep
<1>14. CASE StepThrows(r)
  BY <1>14 DEF StepThrows, Command
<1>15. CASE RunThrows(r)
  BY <1>15 DEF RunThrows
<1> QED
  BY <1>1, <1>2, <1>3, <1>4, <1>5, <1>6, <1>7, <1>8, <1>9, <1>10, <1>11,
     <1>12, <1>13, <1>14, <1>15 DEF Executor

\* Every action of the callback endpoint keeps the types.
LEMMA TypeCallback ==
  ASSUME TypeInv, NEW h \in Handlers, CallbackEndpoint(h)
  PROVE  TypeInv'
<1> USE DEF TypeInv, TypeOK, Located, Stepping, Active, Waiting, Terminal, Idle
<1>1. CASE ReceiveCallback(h)
  BY <1>1 DEF ReceiveCallback, Request, Command
<1>2. CASE AuthoriseCallback(h)
  <2>1. PICK q \in Request : handler[h] = q
    BY <1>2 DEF AuthoriseCallback
  <2>2. [q EXCEPT !.pc = "write"] \in Request
    BY <2>1 DEF Request
  <2>3. handler' \in [Handlers -> Request \cup {Idle}]
    BY <1>2, <2>1, <2>2 DEF AuthoriseCallback
  <2> QED
    BY <1>2, <2>3 DEF AuthoriseCallback
<1>3. CASE ApplyCallback(h)
  BY <1>3 DEF ApplyCallback, Request, Record
<1>4. CASE CallbackThrows(h)
  BY <1>4 DEF CallbackThrows
<1> QED
  BY <1>1, <1>2, <1>3, <1>4 DEF CallbackEndpoint

LEMMA TypeStep == TypeInv /\ [Next]_vars => TypeInv'
<1> SUFFICES ASSUME TypeInv, [Next]_vars
             PROVE  TypeInv'
  OBVIOUS
<1> USE DEF TypeInv, TypeOK, Located
<1>1. CASE \E r \in Runs : StartRun(r)
  BY <1>1 DEF StartRun, Goto, RunStatus, Active, Waiting, Stepping
<1>2. CASE \E r \in Runs : Executor(r)
  BY <1>2, TypeExecutor
<1>3. CASE \E r \in Runs : DeadlinePasses(r)
  BY <1>3 DEF DeadlinePasses
<1>4. CASE \E h \in Handlers : CallbackEndpoint(h)
  BY <1>4, TypeCallback
<1>5. CASE \E s \in Stations, a \in AwaitedActions : MessageLogged(s, a)
  <2> PICK s \in Stations, a \in AwaitedActions : MessageLogged(s, a)
    BY <1>5
  <2>1. a \in WatchedActions
    BY DEF AwaitedActions, WatchedActions
  <2> QED
    BY <2>1 DEF MessageLogged
<1>6. CASE ChangeSecret
  BY <1>6 DEF ChangeSecret
<1>7. CASE Restart
  BY <1>7 DEF Restart, Stepping, Active, Waiting
<1>8. CASE UNCHANGED vars
  BY <1>8
<1> QED
  BY <1>1, <1>2, <1>3, <1>4, <1>5, <1>6, <1>7, <1>8 DEF Next

\* TypeOK: every row, local and message keeps its type, and the executor
\* never works on a step outside the catalog.
THEOREM TypeCorrect == Spec => []TypeInv
<1>1. QED
  BY TypeInit, TypeStep, PTL DEF Spec

-----------------------------------------------------------------------------
(* The inductive invariant *)

\* What HeldCommands says of the step a callback is about to write.
LEMMA AppliedCallback ==
  ASSUME IInv, NEW h \in Handlers, ApplyCallback(h)
  PROVE  \E r \in Runs, i \in Steps, v \in {"pass", "fail"} :
           /\ Kind[i] = "command"
           /\ i <= at[r]
           /\ step[r][i] \notin {"pending", "skipped"}
           /\ \E c \in sent : c.run = r /\ c.step = i
           /\ handler[h].run = r /\ handler[h].step = i /\ handler[h].running
           /\ step' = [step EXCEPT ![r][i] = v]
<1>1. handler[h] \in Request /\ handler[h] # Idle
  BY DEF ApplyCallback, Idle, IInv, TypeOK
<1>2. handler[h].run \in Runs /\ handler[h].step \in Steps
  BY <1>1 DEF Request
<1>3. PICK c \in sent : c.run = handler[h].run /\ c.step = handler[h].step
  BY <1>1 DEF IInv, HeldCommands
<1>4. /\ Kind[c.step] = "command" /\ c.step <= at[c.run]
      /\ step[c.run][c.step] \notin {"pending", "skipped"}
      /\ handler[h].running
  BY <1>1, <1>3 DEF IInv, HeldCommands, ApplyCallback
<1>5. PICK v \in {"pass", "fail"} :
        step' = [step EXCEPT ![handler[h].run][handler[h].step] = v]
  BY DEF ApplyCallback, Record
<1> QED
  BY <1>2, <1>3, <1>4, <1>5

\* The run's row and the position of its executor go together.
LEMMA RunPhaseStep == IInv /\ [Next]_vars => RunPhase'
<1> SUFFICES ASSUME IInv, [Next]_vars
             PROVE  RunPhase'
  OBVIOUS
<1> USE CatalogAssumption
        DEF TypeOK, Located, Stepping, Active, Waiting, Terminal, RunPhase, Steps, RunStatus
<1> TypeOK /\ Located
  BY DEF IInv
<1> RunPhase
  BY DEF IInv
<1>1. ASSUME NEW r \in Runs, StartRun(r) PROVE RunPhase'
  BY <1>1 DEF StartRun, Goto
<1>2. ASSUME NEW r \in Runs, LoadSteps(r) PROVE RunPhase'
  BY <1>2 DEF LoadSteps, Goto
<1>3. ASSUME NEW r \in Runs, ExecuteStep(r) PROVE RunPhase'
  BY <1>3 DEF ExecuteStep, Goto, FirstLabel
<1>4. ASSUME NEW r \in Runs, LeaveLoop(r) PROVE RunPhase'
  BY <1>4 DEF LeaveLoop, Goto
<1>5. ASSUME NEW r \in Runs, CompleteRun(r) PROVE RunPhase'
  BY <1>5 DEF CompleteRun, Goto
<1>6. ASSUME NEW r \in Runs, AbortRun(r) PROVE RunPhase'
  BY <1>6 DEF AbortRun, Goto
<1>7. ASSUME NEW r \in Runs, SendTrigger(r) PROVE RunPhase'
  BY <1>7 DEF SendTrigger, Goto
<1>8. ASSUME NEW r \in Runs, ReadConfig(r) PROVE RunPhase'
  BY <1>8 DEF ReadConfig, Goto
<1>9. ASSUME NEW r \in Runs, MarkRunning(r) PROVE RunPhase'
  BY <1>9 DEF MarkRunning, Goto, Record
<1>10. ASSUME NEW r \in Runs, SendCommand(r) PROVE RunPhase'
  BY <1>10 DEF SendCommand, Goto
<1>11. ASSUME NEW r \in Runs, PollMessages(r) PROVE RunPhase'
  BY <1>11 DEF PollMessages, Goto
<1>12. ASSUME NEW r \in Runs, PollStep(r) PROVE RunPhase'
  BY <1>12 DEF PollStep, Goto, Advance
<1>13. ASSUME NEW r \in Runs, DecideWait(r) PROVE RunPhase'
  BY <1>13 DEF DecideWait, Goto
<1>14. ASSUME NEW r \in Runs, FinishStep(r) PROVE RunPhase'
  BY <1>14 DEF FinishStep, Goto, Advance, Record
<1>15. ASSUME NEW r \in Runs, StepThrows(r) PROVE RunPhase'
  BY <1>15 DEF StepThrows, Goto
<1>16. ASSUME NEW r \in Runs, RunThrows(r) PROVE RunPhase'
  BY <1>16 DEF RunThrows, Goto
<1>17. ASSUME NEW r \in Runs, DeadlinePasses(r) PROVE RunPhase'
  BY <1>17 DEF DeadlinePasses
<1>18. ASSUME NEW h \in Handlers, ReceiveCallback(h) PROVE RunPhase'
  BY <1>18 DEF ReceiveCallback
<1>19. ASSUME NEW h \in Handlers, AuthoriseCallback(h) PROVE RunPhase'
  BY <1>19 DEF AuthoriseCallback
<1>20. ASSUME NEW h \in Handlers, ApplyCallback(h) PROVE RunPhase'
  BY <1>20 DEF ApplyCallback, Record
<1>21. ASSUME NEW h \in Handlers, CallbackThrows(h) PROVE RunPhase'
  BY <1>21 DEF CallbackThrows
<1>22. ASSUME NEW s \in Stations, NEW a \in AwaitedActions, MessageLogged(s, a)
      PROVE  RunPhase'
  BY <1>22 DEF MessageLogged
<1>23. CASE ChangeSecret
  BY <1>23 DEF ChangeSecret
<1>24. CASE Restart
  BY <1>24 DEF Restart
<1>25. CASE UNCHANGED vars
  BY <1>25
<1> QED
  BY <1>1, <1>2, <1>3, <1>4, <1>5, <1>6, <1>7, <1>8, <1>9, <1>10, <1>11,
     <1>12, <1>13, <1>14, <1>15, <1>16, <1>17, <1>18, <1>19, <1>20, <1>21,
     <1>22, <1>23, <1>24, <1>25 DEF Next, Executor, CallbackEndpoint

\* Rows behind the loop have results, rows ahead are pending.
LEMMA FrontierStep == IInv /\ [Next]_vars => Frontier'
<1> SUFFICES ASSUME IInv, [Next]_vars
             PROVE  Frontier'
  OBVIOUS
<1> USE CatalogAssumption
        DEF TypeOK, Located, Stepping, Active, Waiting, Terminal, Frontier, Steps
<1> TypeOK /\ Located
  BY DEF IInv
<1> RunPhase /\ Frontier /\ AtStep /\ HeldCommands
  BY DEF IInv
<1>1. ASSUME NEW r \in Runs, StartRun(r) PROVE Frontier'
  BY <1>1 DEF StartRun, Goto
<1>2. ASSUME NEW r \in Runs, LoadSteps(r) PROVE Frontier'
  BY <1>2 DEF LoadSteps, Goto
<1>3. ASSUME NEW r \in Runs, ExecuteStep(r) PROVE Frontier'
  BY <1>3 DEF ExecuteStep, Goto, FirstLabel
<1>4. ASSUME NEW r \in Runs, LeaveLoop(r) PROVE Frontier'
  BY <1>4 DEF LeaveLoop, Goto
<1>5. ASSUME NEW r \in Runs, CompleteRun(r) PROVE Frontier'
  BY <1>5 DEF CompleteRun, Goto
<1>6. ASSUME NEW r \in Runs, AbortRun(r) PROVE Frontier'
  BY <1>6 DEF AbortRun, Goto
<1>7. ASSUME NEW r \in Runs, SendTrigger(r) PROVE Frontier'
  BY <1>7 DEF SendTrigger, Goto
<1>8. ASSUME NEW r \in Runs, ReadConfig(r) PROVE Frontier'
  BY <1>8 DEF ReadConfig, Goto
<1>9. ASSUME NEW r \in Runs, MarkRunning(r) PROVE Frontier'
  <2>1. at[r] \in Steps /\ step' = [step EXCEPT ![r][at[r]] = "running"]
    BY <1>9 DEF MarkRunning, Record
  <2>2. \E l \in {"write", "command", "poll"} : pc' = [pc EXCEPT ![r] = l]
    BY <1>9 DEF MarkRunning, Goto
  <2> QED
    <3>1. PICK l \in {"write", "command", "poll"} : pc' = [pc EXCEPT ![r] = l]
      BY <2>2
    <3>2. at' = at /\ runStatus' = runStatus /\ runStatus[r] # "absent"
      BY <1>9 DEF MarkRunning, RunPhase
    <3> QED
      BY <2>1, <3>1, <3>2
<1>10. ASSUME NEW r \in Runs, SendCommand(r) PROVE Frontier'
  BY <1>10 DEF SendCommand, Goto
<1>11. ASSUME NEW r \in Runs, PollMessages(r) PROVE Frontier'
  BY <1>11 DEF PollMessages, Goto
<1>12. ASSUME NEW r \in Runs, PollStep(r) PROVE Frontier'
  <2>1. CASE step[r][at[r]] # "running"
    <3>1. step[r][at[r]] \in Terminal
      <4>1. pc[r] \in {"command", "poll", "decide"} /\ pc[r] \in Stepping
        BY <1>12 DEF PollStep
      <4>2. step[r][at[r]] # "pending" /\ step[r][at[r]] # "skipped"
        BY <4>1 DEF AtStep
      <4> QED
        BY <2>1, <4>1, <4>2
    <3> QED
      BY <1>12, <2>1, <3>1 DEF PollStep, Goto, Advance
  <2>2. CASE step[r][at[r]] = "running"
    BY <1>12, <2>2 DEF PollStep, Goto
  <2> QED
    BY <2>1, <2>2
<1>13. ASSUME NEW r \in Runs, DecideWait(r) PROVE Frontier'
  BY <1>13 DEF DecideWait, Goto
<1>14. ASSUME NEW r \in Runs, FinishStep(r) PROVE Frontier'
  BY <1>14 DEF FinishStep, Goto, Advance, Record
<1>15. ASSUME NEW r \in Runs, StepThrows(r) PROVE Frontier'
  BY <1>15 DEF StepThrows, Goto
<1>16. ASSUME NEW r \in Runs, RunThrows(r) PROVE Frontier'
  BY <1>16 DEF RunThrows, Goto
<1>17. ASSUME NEW r \in Runs, DeadlinePasses(r) PROVE Frontier'
  BY <1>17 DEF DeadlinePasses
<1>18. ASSUME NEW h \in Handlers, ReceiveCallback(h) PROVE Frontier'
  BY <1>18 DEF ReceiveCallback
<1>19. ASSUME NEW h \in Handlers, AuthoriseCallback(h) PROVE Frontier'
  BY <1>19 DEF AuthoriseCallback
<1>20. ASSUME NEW h \in Handlers, ApplyCallback(h) PROVE Frontier'
  <2>1. PICK r \in Runs, i \in Steps, v \in {"pass", "fail"} :
          /\ Kind[i] = "command"
          /\ i <= at[r]
          /\ step[r][i] \notin {"pending", "skipped"}
          /\ \E c \in sent : c.run = r /\ c.step = i
          /\ handler[h].run = r /\ handler[h].step = i /\ handler[h].running
          /\ step' = [step EXCEPT ![r][i] = v]
    BY <1>20, AppliedCallback
  <2> QED
    BY <1>20, <2>1 DEF ApplyCallback
<1>21. ASSUME NEW h \in Handlers, CallbackThrows(h) PROVE Frontier'
  BY <1>21 DEF CallbackThrows
<1>22. ASSUME NEW s \in Stations, NEW a \in AwaitedActions, MessageLogged(s, a)
      PROVE  Frontier'
  BY <1>22 DEF MessageLogged
<1>23. CASE ChangeSecret
  BY <1>23 DEF ChangeSecret
<1>24. CASE Restart
  BY <1>24 DEF Restart
<1>25. CASE UNCHANGED vars
  BY <1>25
<1> QED
  BY <1>1, <1>2, <1>3, <1>4, <1>5, <1>6, <1>7, <1>8, <1>9, <1>10, <1>11,
     <1>12, <1>13, <1>14, <1>15, <1>16, <1>17, <1>18, <1>19, <1>20, <1>21,
     <1>22, <1>23, <1>24, <1>25 DEF Next, Executor, CallbackEndpoint

\* What the executor finds in its step's row.
LEMMA AtStepStep == IInv /\ [Next]_vars => AtStep'
<1> SUFFICES ASSUME IInv, [Next]_vars
             PROVE  AtStep'
  OBVIOUS
<1> USE CatalogAssumption
        DEF TypeOK, Located, Stepping, Active, Waiting, Terminal, AtStep
<1> TypeOK /\ Located
  BY DEF IInv
<1> Frontier /\ AtStep /\ HeldCommands
  BY DEF IInv
<1>1. ASSUME NEW r \in Runs, StartRun(r) PROVE AtStep'
  BY <1>1 DEF StartRun, Goto
<1>2. ASSUME NEW r \in Runs, LoadSteps(r) PROVE AtStep'
  BY <1>2 DEF LoadSteps, Goto
<1>3. ASSUME NEW r \in Runs, ExecuteStep(r) PROVE AtStep'
  <2>1. at[r] \in Steps /\ step[r][at[r]] = "pending"
    BY <1>3 DEF ExecuteStep, Frontier, Steps
  <2>2. \/ pc'[r] = "trigger" /\ Kind[at[r]] = "trigger"
        \/ pc'[r] = "mark" /\ Kind[at[r]] = "observe" /\ verdict'[r] = "none"
        \/ pc'[r] = "config" /\ Kind[at[r]] = "command" /\ verdict'[r] = "none"
        \/ pc'[r] = "write" /\ Kind[at[r]] = "command" /\ verdict'[r] = "skipped"
    BY <1>3, <2>1, KindOfStep DEF ExecuteStep, Goto, FirstLabel
  <2>3. /\ \A q \in Runs \ {r} : pc'[q] = pc[q] /\ verdict'[q] = verdict[q]
        /\ UNCHANGED <<at, step>>
    BY <1>3 DEF ExecuteStep, Goto
  <2> HIDE DEF TypeOK, Located
  <2> QED
    BY <2>1, <2>2, <2>3
<1>4. ASSUME NEW r \in Runs, LeaveLoop(r) PROVE AtStep'
  BY <1>4 DEF LeaveLoop, Goto
<1>5. ASSUME NEW r \in Runs, CompleteRun(r) PROVE AtStep'
  BY <1>5 DEF CompleteRun, Goto
<1>6. ASSUME NEW r \in Runs, AbortRun(r) PROVE AtStep'
  BY <1>6 DEF AbortRun, Goto
<1>7. ASSUME NEW r \in Runs, SendTrigger(r) PROVE AtStep'
  BY <1>7 DEF SendTrigger, Goto
<1>8. ASSUME NEW r \in Runs, ReadConfig(r) PROVE AtStep'
  <2>1. step[r][at[r]] = "pending" /\ Kind[at[r]] = "command"
    BY <1>8 DEF ReadConfig, Frontier
  <2>2. \/ pc' = [pc EXCEPT ![r] = "mark"] /\ UNCHANGED verdict
        \/ /\ pc' = [pc EXCEPT ![r] = "write"]
           /\ verdict' = [verdict EXCEPT ![r] = "fail"]
    BY <1>8 DEF ReadConfig, Goto
  <2> QED
    <3>1. at' = at /\ step' = step
      BY <1>8 DEF ReadConfig
    <3>2. \/ pc'[r] = "mark" /\ verdict'[r] = verdict[r]
          \/ pc'[r] = "write" /\ verdict'[r] = "fail"
      BY <2>2
    <3>3. verdict[r] \in {"none", "fail"}
      BY <1>8 DEF ReadConfig
    <3>4. \A q \in Runs \ {r} : pc'[q] = pc[q] /\ verdict'[q] = verdict[q]
      BY <2>2
    <3> QED
      BY <2>1, <3>1, <3>2, <3>3, <3>4
<1>9. ASSUME NEW r \in Runs, MarkRunning(r) PROVE AtStep'
  BY <1>9 DEF MarkRunning, Goto, Record
<1>10. ASSUME NEW r \in Runs, SendCommand(r) PROVE AtStep'
  <2>1. \/ pc' = [pc EXCEPT ![r] = "poll"] /\ UNCHANGED verdict
        \/ /\ pc' = [pc EXCEPT ![r] = "write"]
           /\ verdict' = [verdict EXCEPT ![r] = "fail"]
    BY <1>10 DEF SendCommand, Goto
  <2> QED
    <3>1. /\ at' = at /\ step' = step
          /\ pc[r] = "command" /\ pc[r] \in Stepping
      BY <1>10 DEF SendCommand
    <3>2. /\ Kind[at[r]] = "command"
          /\ step[r][at[r]] \notin {"pending", "skipped"}
      BY <3>1
    <3>3. \/ pc'[r] = "poll"
          \/ pc'[r] = "write" /\ verdict'[r] = "fail"
      BY <2>1
    <3>4. \A q \in Runs \ {r} : pc'[q] = pc[q] /\ verdict'[q] = verdict[q]
      BY <2>1
    <3> HIDE DEF TypeOK, Located
    <3> QED
      BY <3>1, <3>2, <3>3, <3>4
<1>11. ASSUME NEW r \in Runs, PollMessages(r) PROVE AtStep'
  BY <1>11 DEF PollMessages, Goto
<1>12. ASSUME NEW r \in Runs, PollStep(r) PROVE AtStep'
  <2>1. CASE step[r][at[r]] # "running"
    <3>1. /\ pc'[r] = "next" /\ step' = step
          /\ \A q \in Runs \ {r} : /\ pc'[q] = pc[q] /\ verdict'[q] = verdict[q]
                                  /\ at'[q] = at[q]
      BY <1>12, <2>1 DEF PollStep, Goto, Advance
    <3> HIDE DEF TypeOK, Located
    <3> QED
      BY <3>1
  <2>2. CASE step[r][at[r]] = "running"
    BY <1>12, <2>2 DEF PollStep, Goto
  <2> QED
    BY <2>1, <2>2
<1>13. ASSUME NEW r \in Runs, DecideWait(r) PROVE AtStep'
  BY <1>13 DEF DecideWait, Goto
<1>14. ASSUME NEW r \in Runs, FinishStep(r) PROVE AtStep'
  BY <1>14 DEF FinishStep, Goto, Advance, Record
<1>15. ASSUME NEW r \in Runs, StepThrows(r) PROVE AtStep'
  BY <1>15 DEF StepThrows, Goto
<1>16. ASSUME NEW r \in Runs, RunThrows(r) PROVE AtStep'
  BY <1>16 DEF RunThrows, Goto
<1>17. ASSUME NEW r \in Runs, DeadlinePasses(r) PROVE AtStep'
  BY <1>17 DEF DeadlinePasses
<1>18. ASSUME NEW h \in Handlers, ReceiveCallback(h) PROVE AtStep'
  BY <1>18 DEF ReceiveCallback
<1>19. ASSUME NEW h \in Handlers, AuthoriseCallback(h) PROVE AtStep'
  BY <1>19 DEF AuthoriseCallback
<1>20. ASSUME NEW h \in Handlers, ApplyCallback(h) PROVE AtStep'
  <2>1. PICK r \in Runs, i \in Steps, v \in {"pass", "fail"} :
          /\ Kind[i] = "command"
          /\ i <= at[r]
          /\ step[r][i] \notin {"pending", "skipped"}
          /\ \E c \in sent : c.run = r /\ c.step = i
          /\ handler[h].run = r /\ handler[h].step = i /\ handler[h].running
          /\ step' = [step EXCEPT ![r][i] = v]
    BY ONLY IInv, <1>20, AppliedCallback
  <2> QED
    BY <1>20, <2>1 DEF ApplyCallback
<1>21. ASSUME NEW h \in Handlers, CallbackThrows(h) PROVE AtStep'
  BY <1>21 DEF CallbackThrows
<1>22. ASSUME NEW s \in Stations, NEW a \in AwaitedActions, MessageLogged(s, a)
      PROVE  AtStep'
  BY <1>22 DEF MessageLogged
<1>23. CASE ChangeSecret
  BY <1>23 DEF ChangeSecret
<1>24. CASE Restart
  BY <1>24 DEF Restart
<1>25. CASE UNCHANGED vars
  BY <1>25
<1> QED
  BY <1>1, <1>2, <1>3, <1>4, <1>5, <1>6, <1>7, <1>8, <1>9, <1>10, <1>11,
     <1>12, <1>13, <1>14, <1>15, <1>16, <1>17, <1>18, <1>19, <1>20, <1>21,
     <1>22, <1>23, <1>24, <1>25 DEF Next, Executor, CallbackEndpoint

\* Commands and callback requests are about started command steps.
LEMMA HeldCommandsStep == IInv /\ [Next]_vars => HeldCommands'
<1> SUFFICES ASSUME IInv, [Next]_vars
             PROVE  HeldCommands'
  OBVIOUS
<1> USE CatalogAssumption
        DEF TypeOK, Located, Stepping, Active, Waiting, Terminal, HeldCommands, Idle, Request, Command
<1> TypeOK /\ Located
  BY DEF IInv
<1> RunPhase /\ Frontier /\ AtStep /\ HeldCommands
  BY DEF IInv
<1>1. ASSUME NEW r \in Runs, StartRun(r) PROVE HeldCommands'
  BY <1>1 DEF StartRun, Goto
<1>2. ASSUME NEW r \in Runs, LoadSteps(r) PROVE HeldCommands'
  BY <1>2 DEF LoadSteps, Goto
<1>3. ASSUME NEW r \in Runs, ExecuteStep(r) PROVE HeldCommands'
  BY <1>3 DEF ExecuteStep, Goto, FirstLabel
<1>4. ASSUME NEW r \in Runs, LeaveLoop(r) PROVE HeldCommands'
  BY <1>4 DEF LeaveLoop, Goto
<1>5. ASSUME NEW r \in Runs, CompleteRun(r) PROVE HeldCommands'
  BY <1>5 DEF CompleteRun, Goto
<1>6. ASSUME NEW r \in Runs, AbortRun(r) PROVE HeldCommands'
  BY <1>6 DEF AbortRun, Goto
<1>7. ASSUME NEW r \in Runs, SendTrigger(r) PROVE HeldCommands'
  BY <1>7 DEF SendTrigger, Goto
<1>8. ASSUME NEW r \in Runs, ReadConfig(r) PROVE HeldCommands'
  BY <1>8 DEF ReadConfig, Goto
<1>9. ASSUME NEW r \in Runs, MarkRunning(r) PROVE HeldCommands'
  BY <1>9 DEF MarkRunning, Goto, Record
<1>10. ASSUME NEW r \in Runs, SendCommand(r) PROVE HeldCommands'
  <2> DEFINE c == [run |-> r, step |-> at[r], secret |-> url[r]]
  <2>1. /\ pc[r] = "command" /\ pc[r] \in Stepping
        /\ UNCHANGED <<at, step, handler>>
        /\ sent' \in {sent, sent \cup {c}}
    BY <1>10 DEF SendCommand
  <2>2. /\ Kind[at[r]] = "command"
        /\ step[r][at[r]] \notin {"pending", "skipped"}
    BY <2>1 DEF AtStep
  <2>3. c.run = r /\ c.step = at[r]
    OBVIOUS
  <2> HIDE DEF c
  <2> QED
    BY <2>1, <2>2, <2>3
<1>11. ASSUME NEW r \in Runs, PollMessages(r) PROVE HeldCommands'
  BY <1>11 DEF PollMessages, Goto
<1>12. ASSUME NEW r \in Runs, PollStep(r) PROVE HeldCommands'
  <2>1. CASE step[r][at[r]] # "running"
    <3>1. at' = [at EXCEPT ![r] = @ + 1] /\ UNCHANGED <<step, sent, handler>>
      BY <1>12, <2>1 DEF PollStep, Advance
    <3>2. \A q \in Runs : at[q] \in Int /\ at'[q] \in Int /\ at[q] <= at'[q]
      BY <3>1
    <3>3. \A d \in sent : d.run \in Runs /\ d.step \in Int
      BY DEF Steps
    <3> QED
      BY <3>1, <3>2, <3>3
  <2>2. CASE step[r][at[r]] = "running"
    BY <1>12, <2>2 DEF PollStep, Goto
  <2> QED
    BY <2>1, <2>2
<1>13. ASSUME NEW r \in Runs, DecideWait(r) PROVE HeldCommands'
  BY <1>13 DEF DecideWait, Goto
<1>14. ASSUME NEW r \in Runs, FinishStep(r) PROVE HeldCommands'
  <2>1. /\ at' = [at EXCEPT ![r] = @ + 1]
        /\ step' = [step EXCEPT ![r][at[r]] = verdict[r]]
        /\ pc[r] \in {"write", "rescue"} /\ pc[r] \in Stepping
        /\ UNCHANGED <<sent, handler>>
    BY <1>14 DEF FinishStep, Advance, Record
  <2>2. /\ verdict[r] \in Terminal
        /\ verdict[r] = "skipped" => step[r][at[r]] = "pending"
    BY <2>1 DEF AtStep
  <2>3. \A q \in Runs : at[q] \in Int /\ at'[q] \in Int /\ at[q] <= at'[q]
    BY <2>1
  <2>4. \A d \in sent : d.run \in Runs /\ d.step \in Steps /\ d.step \in Int
    BY DEF Steps
  <2>5. \A d \in sent : step'[d.run][d.step] \notin {"pending", "skipped"}
    BY <2>1, <2>2, <2>4
  <2> QED
    BY <2>1, <2>3, <2>4, <2>5
<1>15. ASSUME NEW r \in Runs, StepThrows(r) PROVE HeldCommands'
  <2> DEFINE c == [run |-> r, step |-> at[r], secret |-> url[r]]
  <2>1. /\ UNCHANGED <<at, step, handler>>
        /\ \/ sent' = sent
           \/ pc[r] = "command" /\ pc[r] \in Stepping /\ sent' = sent \cup {c}
    BY <1>15 DEF StepThrows
  <2>2. pc[r] = "command" => /\ Kind[at[r]] = "command"
                             /\ step[r][at[r]] \notin {"pending", "skipped"}
    BY DEF AtStep
  <2>3. c.run = r /\ c.step = at[r]
    OBVIOUS
  <2> HIDE DEF c
  <2> QED
    BY <2>1, <2>2, <2>3
<1>16. ASSUME NEW r \in Runs, RunThrows(r) PROVE HeldCommands'
  BY <1>16 DEF RunThrows, Goto
<1>17. ASSUME NEW r \in Runs, DeadlinePasses(r) PROVE HeldCommands'
  BY <1>17 DEF DeadlinePasses
<1>18. ASSUME NEW h \in Handlers, ReceiveCallback(h) PROVE HeldCommands'
  <2>1. PICK c \in sent :
          handler' = [handler EXCEPT ![h] =
                        [pc |-> "authorise", run |-> c.run, step |-> c.step,
                         secret |-> c.secret,
                         running |-> step[c.run][c.step] = "running"]]
    BY <1>18 DEF ReceiveCallback
  <2>2. /\ handler'[h].run = c.run /\ handler'[h].step = c.step
        /\ handler'[h].pc # "write"
        /\ \A g \in Handlers \ {h} : handler'[g] = handler[g]
    BY <2>1
  <2>3. UNCHANGED <<at, step, sent>>
    BY <1>18 DEF ReceiveCallback
  <2> HIDE DEF TypeOK, Idle, Request, Command
  <2>4. ASSUME NEW g \in Handlers, handler'[g] # Idle
        PROVE  /\ \E d \in sent : d.run = handler'[g].run /\ d.step = handler'[g].step
               /\ handler'[g].pc = "write" => handler'[g].running
    <3>1. CASE g = h
      BY <2>2, <3>1
    <3>2. CASE g # h
      BY <2>2, <2>4, <3>2
    <3> QED
      BY <3>1, <3>2
  <2> QED
    BY <2>3, <2>4
<1>19. ASSUME NEW h \in Handlers, AuthoriseCallback(h) PROVE HeldCommands'
  <2>1. /\ UNCHANGED <<at, step, sent>>
        /\ handler[h] # Idle /\ handler[h] \in Request
    BY <1>19 DEF AuthoriseCallback
  <2>2. \/ handler' = [handler EXCEPT ![h] = Idle]
        \/ handler[h].running /\ handler' = [handler EXCEPT ![h].pc = "write"]
    BY <1>19 DEF AuthoriseCallback
  <2> HIDE DEF TypeOK, Idle, Request, Command
  <2>3. CASE handler' = [handler EXCEPT ![h] = Idle]
    BY <2>1, <2>3
  <2>4. CASE handler[h].running /\ handler' = [handler EXCEPT ![h].pc = "write"]
    <3>1. /\ handler'[h].run = handler[h].run
          /\ handler'[h].step = handler[h].step
          /\ handler'[h].running
          /\ \A g \in Handlers \ {h} : handler'[g] = handler[g]
      BY <2>1, <2>4
    <3>2. ASSUME NEW g \in Handlers, handler'[g] # Idle
          PROVE  /\ \E d \in sent : d.run = handler'[g].run /\ d.step = handler'[g].step
                 /\ handler'[g].pc = "write" => handler'[g].running
      <4>1. CASE g = h
        BY <2>1, <3>1, <4>1
      <4>2. CASE g # h
        BY <3>1, <3>2, <4>2
      <4> QED
        BY <4>1, <4>2
    <3> QED
      BY <2>1, <3>2
  <2> QED
    BY <2>2, <2>3, <2>4
<1>20. ASSUME NEW h \in Handlers, ApplyCallback(h) PROVE HeldCommands'
  <2>1. PICK r \in Runs, i \in Steps, v \in {"pass", "fail"} :
          /\ Kind[i] = "command"
          /\ i <= at[r]
          /\ step[r][i] \notin {"pending", "skipped"}
          /\ \E c \in sent : c.run = r /\ c.step = i
          /\ handler[h].run = r /\ handler[h].step = i /\ handler[h].running
          /\ step' = [step EXCEPT ![r][i] = v]
    BY <1>20, AppliedCallback
  <2> QED
    BY <1>20, <2>1 DEF ApplyCallback
<1>21. ASSUME NEW h \in Handlers, CallbackThrows(h) PROVE HeldCommands'
  BY <1>21 DEF CallbackThrows
<1>22. ASSUME NEW s \in Stations, NEW a \in AwaitedActions, MessageLogged(s, a)
      PROVE  HeldCommands'
  BY <1>22 DEF MessageLogged
<1>23. CASE ChangeSecret
  BY <1>23 DEF ChangeSecret
<1>24. CASE Restart
  BY <1>24 DEF Restart
<1>25. CASE UNCHANGED vars
  BY <1>25
<1> QED
  BY <1>1, <1>2, <1>3, <1>4, <1>5, <1>6, <1>7, <1>8, <1>9, <1>10, <1>11,
     <1>12, <1>13, <1>14, <1>15, <1>16, <1>17, <1>18, <1>19, <1>20, <1>21,
     <1>22, <1>23, <1>24, <1>25 DEF Next, Executor, CallbackEndpoint

\* The evidence of a waiting executor.
LEMMA WaitEvidenceStep == IInv /\ [Next]_vars => WaitEvidence'
<1> SUFFICES ASSUME IInv, [Next]_vars
             PROVE  WaitEvidence'
  OBVIOUS
<1> USE CatalogAssumption
        DEF TypeOK, Located, Stepping, Active, Waiting, Terminal, WaitEvidence
<1> TypeOK /\ Located
  BY DEF IInv
<1> WaitEvidence
  BY DEF IInv
<1>1. ASSUME NEW r \in Runs, StartRun(r) PROVE WaitEvidence'
  BY <1>1 DEF StartRun, Goto
<1>2. ASSUME NEW r \in Runs, LoadSteps(r) PROVE WaitEvidence'
  BY <1>2 DEF LoadSteps, Goto
<1>3. ASSUME NEW r \in Runs, ExecuteStep(r) PROVE WaitEvidence'
  BY <1>3 DEF ExecuteStep, Goto, FirstLabel
<1>4. ASSUME NEW r \in Runs, LeaveLoop(r) PROVE WaitEvidence'
  BY <1>4 DEF LeaveLoop, Goto
<1>5. ASSUME NEW r \in Runs, CompleteRun(r) PROVE WaitEvidence'
  BY <1>5 DEF CompleteRun, Goto
<1>6. ASSUME NEW r \in Runs, AbortRun(r) PROVE WaitEvidence'
  BY <1>6 DEF AbortRun, Goto
<1>7. ASSUME NEW r \in Runs, SendTrigger(r) PROVE WaitEvidence'
  BY <1>7 DEF SendTrigger, Goto
<1>8. ASSUME NEW r \in Runs, ReadConfig(r) PROVE WaitEvidence'
  BY <1>8 DEF ReadConfig, Goto
<1>9. ASSUME NEW r \in Runs, MarkRunning(r) PROVE WaitEvidence'
  <2>1. /\ startedAt' = [startedAt EXCEPT ![r][at[r]] = began[r]]
        /\ pc[r] = "mark"
        /\ UNCHANGED <<at, began, verdict, received>>
    BY <1>9 DEF MarkRunning
  <2>2. /\ \A q \in Runs \ {r} : pc'[q] = pc[q]
        /\ pc'[r] = "write" => verdict[r] = "fail"
    BY <1>9 DEF MarkRunning, Goto
  <2>3. at[r] \in Steps
    BY <2>1
  <2>4. startedAt'[r][at[r]] = began[r]
    BY <2>1, <2>3
  <2>5. \A q \in Runs \ {r} : startedAt'[q] = startedAt[q]
    BY <2>1
  <2> QED
    BY <2>1, <2>2, <2>4, <2>5
<1>10. ASSUME NEW r \in Runs, SendCommand(r) PROVE WaitEvidence'
  <2>1. \/ pc' = [pc EXCEPT ![r] = "poll"] /\ UNCHANGED verdict
        \/ /\ pc' = [pc EXCEPT ![r] = "write"]
           /\ verdict' = [verdict EXCEPT ![r] = "fail"]
    BY <1>10 DEF SendCommand, Goto
  <2> QED
    <3>1. UNCHANGED <<at, startedAt, began, received>> /\ pc[r] = "command"
      BY <1>10 DEF SendCommand
    <3>2. \/ pc'[r] = "poll"
          \/ pc'[r] = "write" /\ verdict'[r] = "fail"
      BY <2>1
    <3>3. \A q \in Runs \ {r} : pc'[q] = pc[q] /\ verdict'[q] = verdict[q]
      BY <2>1
    <3>4. startedAt[r][at[r]] = began[r]
      BY <3>1
    <3> QED
      BY <3>1, <3>2, <3>3, <3>4
<1>11. ASSUME NEW r \in Runs, PollMessages(r) PROVE WaitEvidence'
  BY <1>11 DEF PollMessages, Goto
<1>12. ASSUME NEW r \in Runs, PollStep(r) PROVE WaitEvidence'
  BY <1>12 DEF PollStep, Goto, Advance
<1>13. ASSUME NEW r \in Runs, DecideWait(r) PROVE WaitEvidence'
  BY <1>13 DEF DecideWait, Goto
<1>14. ASSUME NEW r \in Runs, FinishStep(r) PROVE WaitEvidence'
  BY <1>14 DEF FinishStep, Goto, Advance, Record
<1>15. ASSUME NEW r \in Runs, StepThrows(r) PROVE WaitEvidence'
  BY <1>15 DEF StepThrows, Goto
<1>16. ASSUME NEW r \in Runs, RunThrows(r) PROVE WaitEvidence'
  BY <1>16 DEF RunThrows, Goto
<1>17. ASSUME NEW r \in Runs, DeadlinePasses(r) PROVE WaitEvidence'
  BY <1>17 DEF DeadlinePasses
<1>18. ASSUME NEW h \in Handlers, ReceiveCallback(h) PROVE WaitEvidence'
  BY <1>18 DEF ReceiveCallback
<1>19. ASSUME NEW h \in Handlers, AuthoriseCallback(h) PROVE WaitEvidence'
  BY <1>19 DEF AuthoriseCallback
<1>20. ASSUME NEW h \in Handlers, ApplyCallback(h) PROVE WaitEvidence'
  BY <1>20 DEF ApplyCallback, Record
<1>21. ASSUME NEW h \in Handlers, CallbackThrows(h) PROVE WaitEvidence'
  BY <1>21 DEF CallbackThrows
<1>22. ASSUME NEW s \in Stations, NEW a \in AwaitedActions, MessageLogged(s, a)
      PROVE  WaitEvidence'
  BY <1>22 DEF MessageLogged
<1>23. CASE ChangeSecret
  BY <1>23 DEF ChangeSecret
<1>24. CASE Restart
  BY <1>24 DEF Restart
<1>25. CASE UNCHANGED vars
  BY <1>25
<1> QED
  BY <1>1, <1>2, <1>3, <1>4, <1>5, <1>6, <1>7, <1>8, <1>9, <1>10, <1>11,
     <1>12, <1>13, <1>14, <1>15, <1>16, <1>17, <1>18, <1>19, <1>20, <1>21,
     <1>22, <1>23, <1>24, <1>25 DEF Next, Executor, CallbackEndpoint

\* Evidence of every recorded pass.
LEMMA EvidenceStep == IInv /\ [Next]_vars => PassHasEvidence'
<1> SUFFICES ASSUME IInv, [Next]_vars
             PROVE  PassHasEvidence'
  OBVIOUS
<1> USE CatalogAssumption
        DEF TypeOK, Located, Stepping, Active, Waiting, Terminal, PassHasEvidence
<1> TypeOK /\ Located
  BY DEF IInv
<1> Frontier /\ AtStep /\ HeldCommands /\ WaitEvidence /\ PassHasEvidence
  BY DEF IInv
<1>1. ASSUME NEW r \in Runs, StartRun(r) PROVE PassHasEvidence'
  BY <1>1 DEF StartRun, Goto
<1>2. ASSUME NEW r \in Runs, LoadSteps(r) PROVE PassHasEvidence'
  BY <1>2 DEF LoadSteps, Goto
<1>3. ASSUME NEW r \in Runs, ExecuteStep(r) PROVE PassHasEvidence'
  BY <1>3 DEF ExecuteStep, Goto, FirstLabel
<1>4. ASSUME NEW r \in Runs, LeaveLoop(r) PROVE PassHasEvidence'
  BY <1>4 DEF LeaveLoop, Goto
<1>5. ASSUME NEW r \in Runs, CompleteRun(r) PROVE PassHasEvidence'
  BY <1>5 DEF CompleteRun, Goto
<1>6. ASSUME NEW r \in Runs, AbortRun(r) PROVE PassHasEvidence'
  BY <1>6 DEF AbortRun, Goto
<1>7. ASSUME NEW r \in Runs, SendTrigger(r) PROVE PassHasEvidence'
  BY <1>7 DEF SendTrigger, Goto
<1>8. ASSUME NEW r \in Runs, ReadConfig(r) PROVE PassHasEvidence'
  BY <1>8 DEF ReadConfig, Goto
<1>9. ASSUME NEW r \in Runs, MarkRunning(r) PROVE PassHasEvidence'
  BY <1>9 DEF MarkRunning, Goto, Record
<1>10. ASSUME NEW r \in Runs, SendCommand(r) PROVE PassHasEvidence'
  BY <1>10 DEF SendCommand, Goto
<1>11. ASSUME NEW r \in Runs, PollMessages(r) PROVE PassHasEvidence'
  BY <1>11 DEF PollMessages, Goto
<1>12. ASSUME NEW r \in Runs, PollStep(r) PROVE PassHasEvidence'
  BY <1>12 DEF PollStep, Goto, Advance
<1>13. ASSUME NEW r \in Runs, DecideWait(r) PROVE PassHasEvidence'
  BY <1>13 DEF DecideWait, Goto
<1>14. ASSUME NEW r \in Runs, FinishStep(r) PROVE PassHasEvidence'
  <2>1. /\ step' = [step EXCEPT ![r][at[r]] = verdict[r]]
        /\ pc[r] \in {"write", "rescue"} /\ pc[r] \in Stepping
        /\ at[r] \in Steps
        /\ UNCHANGED <<startedAt, received, sent>>
    BY <1>14 DEF FinishStep, Record
  <2>2. verdict[r] = "pass" => pc[r] = "write" /\ Kind[at[r]] # "command"
    BY <2>1 DEF AtStep
  <2>3. verdict[r] = "pass" =>
          /\ startedAt[r][at[r]] = began[r] /\ began[r] # NotStarted
          /\ received[Station[r]][Watched(r, at[r])] > began[r]
    BY <2>2 DEF WaitEvidence, NotStarted
  <2> QED
    BY <2>1, <2>2, <2>3
<1>15. ASSUME NEW r \in Runs, StepThrows(r) PROVE PassHasEvidence'
  BY <1>15 DEF StepThrows, Goto
<1>16. ASSUME NEW r \in Runs, RunThrows(r) PROVE PassHasEvidence'
  BY <1>16 DEF RunThrows, Goto
<1>17. ASSUME NEW r \in Runs, DeadlinePasses(r) PROVE PassHasEvidence'
  BY <1>17 DEF DeadlinePasses
<1>18. ASSUME NEW h \in Handlers, ReceiveCallback(h) PROVE PassHasEvidence'
  BY <1>18 DEF ReceiveCallback
<1>19. ASSUME NEW h \in Handlers, AuthoriseCallback(h) PROVE PassHasEvidence'
  BY <1>19 DEF AuthoriseCallback
<1>20. ASSUME NEW h \in Handlers, ApplyCallback(h) PROVE PassHasEvidence'
  <2>1. PICK r \in Runs, i \in Steps, v \in {"pass", "fail"} :
          /\ Kind[i] = "command"
          /\ i <= at[r]
          /\ step[r][i] \notin {"pending", "skipped"}
          /\ \E c \in sent : c.run = r /\ c.step = i
          /\ handler[h].run = r /\ handler[h].step = i /\ handler[h].running
          /\ step' = [step EXCEPT ![r][i] = v]
    BY <1>20, AppliedCallback
  <2> QED
    BY <1>20, <2>1 DEF ApplyCallback
<1>21. ASSUME NEW h \in Handlers, CallbackThrows(h) PROVE PassHasEvidence'
  BY <1>21 DEF CallbackThrows
<1>22. ASSUME NEW s \in Stations, NEW a \in AwaitedActions, MessageLogged(s, a)
      PROVE  PassHasEvidence'
  BY <1>22 DEF MessageLogged
<1>23. CASE ChangeSecret
  BY <1>23 DEF ChangeSecret
<1>24. CASE Restart
  BY <1>24 DEF Restart
<1>25. CASE UNCHANGED vars
  BY <1>25
<1> QED
  BY <1>1, <1>2, <1>3, <1>4, <1>5, <1>6, <1>7, <1>8, <1>9, <1>10, <1>11,
     <1>12, <1>13, <1>14, <1>15, <1>16, <1>17, <1>18, <1>19, <1>20, <1>21,
     <1>22, <1>23, <1>24, <1>25 DEF Next, Executor, CallbackEndpoint

\* IInv, the inductive invariant: it holds initially and every step keeps it.
THEOREM InvCorrect == Spec => []IInv
<1>1. Init => IInv
  <2> SUFFICES ASSUME Init PROVE IInv
    OBVIOUS
  <2>1. TypeInv
    BY TypeInit
  <2>2. RunPhase /\ Frontier /\ AtStep
    BY <2>1 DEF Init, RunPhase, Frontier, AtStep, Stepping, Active, Waiting,
                Steps, TypeInv, TypeOK
  <2>3. HeldCommands /\ WaitEvidence /\ PassHasEvidence
    BY <2>1 DEF Init, HeldCommands, WaitEvidence, PassHasEvidence, TypeInv, TypeOK
  <2> QED
    BY <2>1, <2>2, <2>3 DEF IInv, TypeInv
<1>2. IInv /\ [Next]_vars => IInv'
  <2> SUFFICES ASSUME IInv, [Next]_vars PROVE IInv'
    OBVIOUS
  <2>1. TypeInv'
    BY TypeStep DEF IInv, TypeInv
  <2> QED
    BY <2>1, RunPhaseStep, FrontierStep, AtStepStep, HeldCommandsStep,
       WaitEvidenceStep, EvidenceStep DEF IInv, TypeInv
<1> QED
  BY <1>1, <1>2, PTL DEF Spec

-----------------------------------------------------------------------------
(* What follows from the inductive invariant *)

\* The rows of a run are settled one after the other, for catalogs of any
\* length and any number of concurrent callbacks (StepsInOrder).
THEOREM StepsInOrderCorrect == Spec => []StepsInOrder
<1>1. IInv => StepsInOrder
  BY DEF IInv, TypeOK, Frontier, StepsInOrder, Steps
<1> QED
  BY <1>1, InvCorrect, PTL

\* A completed run has a result for every step (CompletedHasResults).
THEOREM CompletedCorrect == Spec => []CompletedHasResults
<1>1. IInv => CompletedHasResults
  BY CatalogAssumption DEF IInv, TypeOK, RunPhase, Frontier, CompletedHasResults, Steps
<1> QED
  BY <1>1, InvCorrect, PTL

\* CitrineOS is given a command only after the results of all earlier steps
\* (CommandsInOrder).
THEOREM CommandsInOrderCorrect == Spec => []CommandsInOrder
<1>1. IInv => CommandsInOrder
  BY DEF IInv, TypeOK, HeldCommands, Frontier, CommandsInOrder, Command, Steps
<1> QED
  BY <1>1, InvCorrect, PTL

\* Every recorded pass has its message or its command (PassHasEvidence).
THEOREM EvidenceCorrect == Spec => []PassHasEvidence
<1>1. IInv => PassHasEvidence
  BY DEF IInv
<1> QED
  BY <1>1, InvCorrect, PTL

-----------------------------------------------------------------------------
(* Settled steps *)

SettledKept(r, i) == Settled(r, i)' /\ step'[r][i] = step[r][i]

\* No step of the system disturbs a settled row.
LEMMA SettledStep ==
  ASSUME IInv, [Next]_vars, NEW r \in Runs, NEW i \in Steps, Settled(r, i)
  PROVE  SettledKept(r, i)
<1> TypeOK /\ Located /\ RunPhase /\ HeldCommands
  BY DEF IInv
<1> USE CatalogAssumption
        DEF TypeOK, Located, Stepping, Active, Waiting, Terminal, RunPhase, Settled, SettledKept, Past, Steps
<1>1. ASSUME NEW q \in Runs, StartRun(q) PROVE SettledKept(r, i)
  BY <1>1 DEF StartRun, Goto
<1>2. ASSUME NEW q \in Runs, LoadSteps(q) PROVE SettledKept(r, i)
  BY <1>2 DEF LoadSteps, Goto
<1>3. ASSUME NEW q \in Runs, ExecuteStep(q) PROVE SettledKept(r, i)
  BY <1>3 DEF ExecuteStep, Goto, FirstLabel
<1>4. ASSUME NEW q \in Runs, LeaveLoop(q) PROVE SettledKept(r, i)
  BY <1>4 DEF LeaveLoop, Goto
<1>5. ASSUME NEW q \in Runs, CompleteRun(q) PROVE SettledKept(r, i)
  BY <1>5 DEF CompleteRun, Goto
<1>6. ASSUME NEW q \in Runs, AbortRun(q) PROVE SettledKept(r, i)
  BY <1>6 DEF AbortRun, Goto
<1>7. ASSUME NEW q \in Runs, SendTrigger(q) PROVE SettledKept(r, i)
  BY <1>7 DEF SendTrigger, Goto
<1>8. ASSUME NEW q \in Runs, ReadConfig(q) PROVE SettledKept(r, i)
  BY <1>8 DEF ReadConfig, Goto
<1>9. ASSUME NEW q \in Runs, MarkRunning(q) PROVE SettledKept(r, i)
  BY <1>9 DEF MarkRunning, Goto, Record
<1>10. ASSUME NEW q \in Runs, SendCommand(q) PROVE SettledKept(r, i)
  BY <1>10 DEF SendCommand, Goto
<1>11. ASSUME NEW q \in Runs, PollMessages(q) PROVE SettledKept(r, i)
  BY <1>11 DEF PollMessages, Goto
<1>12. ASSUME NEW q \in Runs, PollStep(q) PROVE SettledKept(r, i)
  <2>1. \/ at' = at
        \/ at' = [at EXCEPT ![q] = @ + 1]
    BY <1>12 DEF PollStep, Advance
  <2>2. at[r] <= at'[r] /\ (at[r] \in Int /\ at'[r] \in Int)
    BY <2>1
  <2>3. pc[q] = "poll" /\ pc'[q] # "off" /\ \A p \in Runs \ {q} : pc'[p] = pc[p]
    BY <1>12 DEF PollStep, Goto, Advance
  <2>4. UNCHANGED <<runStatus, step, handler>>
    BY <1>12 DEF PollStep
  <2> HIDE DEF TypeOK, Located, RunPhase
  <2> QED
    BY <2>2, <2>3, <2>4
<1>13. ASSUME NEW q \in Runs, DecideWait(q) PROVE SettledKept(r, i)
  BY <1>13 DEF DecideWait, Goto
<1>14. ASSUME NEW q \in Runs, FinishStep(q) PROVE SettledKept(r, i)
  BY <1>14 DEF FinishStep, Goto, Advance, Record
<1>15. ASSUME NEW q \in Runs, StepThrows(q) PROVE SettledKept(r, i)
  BY <1>15 DEF StepThrows, Goto
<1>16. ASSUME NEW q \in Runs, RunThrows(q) PROVE SettledKept(r, i)
  BY <1>16 DEF RunThrows, Goto
<1>17. ASSUME NEW q \in Runs, DeadlinePasses(q) PROVE SettledKept(r, i)
  BY <1>17 DEF DeadlinePasses
<1>18. ASSUME NEW h \in Handlers, ReceiveCallback(h) PROVE SettledKept(r, i)
  <2>1. PICK c \in sent :
          handler' = [handler EXCEPT ![h] =
                        [pc |-> "authorise", run |-> c.run, step |-> c.step,
                         secret |-> c.secret,
                         running |-> step[c.run][c.step] = "running"]]
    BY <1>18 DEF ReceiveCallback
  <2>2. /\ handler'[h].run = c.run /\ handler'[h].step = c.step
        /\ handler'[h].running = (step[c.run][c.step] = "running")
        /\ \A g \in Handlers \ {h} : handler'[g] = handler[g]
    BY <2>1
  <2>3. UNCHANGED <<runStatus, pc, at, step>>
    BY <1>18 DEF ReceiveCallback
  <2> HIDE DEF TypeOK, Located, RunPhase
  <2>4. ~(handler'[h].run = r /\ handler'[h].step = i /\ handler'[h].running)
    BY <2>2
  <2>5. \A g \in Handlers :
          handler'[g] # Idle =>
            ~(handler'[g].run = r /\ handler'[g].step = i /\ handler'[g].running)
    BY <2>2, <2>4
  <2> QED
    BY <2>3, <2>5
<1>19. ASSUME NEW h \in Handlers, AuthoriseCallback(h) PROVE SettledKept(r, i)
  <2>1. handler[h] \in Request /\ handler[h] # Idle
    BY <1>19 DEF AuthoriseCallback, Idle
  <2>2. \/ handler' = [handler EXCEPT ![h] = Idle]
        \/ handler' = [handler EXCEPT ![h].pc = "write"]
    BY <1>19 DEF AuthoriseCallback
  <2>3. UNCHANGED <<runStatus, pc, at, step>>
    BY <1>19 DEF AuthoriseCallback
  <2>4. /\ \/ handler'[h] = Idle
           \/ /\ handler'[h].run = handler[h].run
              /\ handler'[h].step = handler[h].step
              /\ handler'[h].running = handler[h].running
        /\ \A g \in Handlers \ {h} : handler'[g] = handler[g]
    BY <2>1, <2>2 DEF Request
  <2> HIDE DEF TypeOK, Located, RunPhase
  <2>5. \A g \in Handlers :
          handler'[g] # Idle =>
            ~(handler'[g].run = r /\ handler'[g].step = i /\ handler'[g].running)
    BY <2>1, <2>4
  <2> QED
    BY <2>3, <2>5
<1>20. ASSUME NEW h \in Handlers, ApplyCallback(h) PROVE SettledKept(r, i)
  <2>1. /\ handler[h] # Idle /\ handler[h].running
        /\ handler' = [handler EXCEPT ![h] = Idle]
        /\ UNCHANGED <<runStatus, pc, at>>
    BY <1>20 DEF ApplyCallback, HeldCommands, Idle
  <2>2. ~(handler[h].run = r /\ handler[h].step = i)
    BY <2>1
  <2>3. handler[h].run \in Runs /\ handler[h].step \in Steps
    BY <2>1 DEF Request
  <2>4. PICK v \in {"pass", "fail"} :
          step' = [step EXCEPT ![handler[h].run][handler[h].step] = v]
    BY <1>20 DEF ApplyCallback, Record
  <2>5. step'[r][i] = step[r][i]
    BY <2>2, <2>3, <2>4
  <2> HIDE DEF TypeOK, Located, RunPhase
  <2>6. \A g \in Handlers :
          handler'[g] # Idle =>
            ~(handler'[g].run = r /\ handler'[g].step = i /\ handler'[g].running)
    BY <2>1
  <2> QED
    BY <2>1, <2>5, <2>6
<1>21. ASSUME NEW h \in Handlers, CallbackThrows(h) PROVE SettledKept(r, i)
  BY <1>21 DEF CallbackThrows
<1>22. ASSUME NEW s \in Stations, NEW a \in AwaitedActions, MessageLogged(s, a)
      PROVE  SettledKept(r, i)
  BY <1>22 DEF MessageLogged
<1>23. CASE ChangeSecret
  BY <1>23 DEF ChangeSecret
<1>24. CASE Restart
  BY <1>24 DEF Restart
<1>25. CASE UNCHANGED vars
  BY <1>25
<1> QED
  BY <1>1, <1>2, <1>3, <1>4, <1>5, <1>6, <1>7, <1>8, <1>9, <1>10, <1>11,
     <1>12, <1>13, <1>14, <1>15, <1>16, <1>17, <1>18, <1>19, <1>20, <1>21,
     <1>22, <1>23, <1>24, <1>25 DEF Next, Executor, CallbackEndpoint

\* A settled step never changes again, with any number of callbacks in any
\* order, across restarts (SettledIsFinal).
THEOREM SettledCorrect == Spec => SettledIsFinal
<1>1. IInv /\ [Next]_vars
        => [\A r \in Runs : \A i \in Steps :
              Settled(r, i) => Settled(r, i)' /\ step'[r][i] = step[r][i]]_vars
  BY SettledStep DEF SettledKept
<1> QED
  BY <1>1, InvCorrect, PTL DEF Spec, SettledIsFinal

-----------------------------------------------------------------------------
(* Refinement *)

PipelineStep == [Pipeline!Next]_(Pipeline!pipeline)

\* Every step of the system is a step of the pipeline, or changes no row.
LEMMA RefinementStep == IInv /\ [Next]_vars => PipelineStep
<1> SUFFICES ASSUME IInv, [Next]_vars
             PROVE  PipelineStep
  OBVIOUS
<1> TypeOK /\ Located /\ RunPhase /\ Frontier /\ AtStep /\ HeldCommands
  BY DEF IInv
<1> USE DEF PipelineStep, Pipeline!pipeline
<1>1. ASSUME NEW q \in Runs, StartRun(q) PROVE PipelineStep
  <2>1. Pipeline!Open(q)
    BY <1>1 DEF StartRun, Pipeline!Open
  <2> QED
    BY <2>1 DEF Pipeline!Next
<1>2. ASSUME NEW q \in Runs, LoadSteps(q) PROVE PipelineStep
  BY <1>2 DEF LoadSteps, Goto
<1>3. ASSUME NEW q \in Runs, ExecuteStep(q) PROVE PipelineStep
  BY <1>3 DEF ExecuteStep, Goto, FirstLabel
<1>4. ASSUME NEW q \in Runs, LeaveLoop(q) PROVE PipelineStep
  BY <1>4 DEF LeaveLoop, Goto
<1>5. ASSUME NEW q \in Runs, CompleteRun(q) PROVE PipelineStep
  <2>1. \A i \in Pipeline!Steps : step[q][i] \in Pipeline!Results
    BY <1>5, CatalogAssumption
    DEF CompleteRun, RunPhase, Frontier, Steps, Pipeline!Steps, Terminal, Pipeline!Results
  <2>2. Pipeline!Close(q)
    BY <1>5, <2>1 DEF CompleteRun, Pipeline!Close, RunPhase, Active
  <2> QED
    BY <2>2 DEF Pipeline!Next
<1>6. ASSUME NEW q \in Runs, AbortRun(q) PROVE PipelineStep
  <2>1. Pipeline!Close(q)
    BY <1>6 DEF AbortRun, Pipeline!Close, RunPhase, Active
  <2> QED
    BY <2>1 DEF Pipeline!Next
<1>7. ASSUME NEW q \in Runs, SendTrigger(q) PROVE PipelineStep
  BY <1>7 DEF SendTrigger, Goto
<1>8. ASSUME NEW q \in Runs, ReadConfig(q) PROVE PipelineStep
  BY <1>8 DEF ReadConfig, Goto
<1>9. ASSUME NEW q \in Runs, MarkRunning(q) PROVE PipelineStep
  <2>1. at[q] \in Steps /\ at[q] \in Int
    BY <1>9 DEF MarkRunning, Located, Stepping, Active, Steps
  <2>2. step[q][at[q]] = "pending" /\ runStatus[q] = "running"
    BY <1>9, <2>1 DEF MarkRunning, Frontier, RunPhase, Active
  <2>3. Pipeline!Start(q, at[q])
    BY <1>9, <2>1, <2>2
    DEF MarkRunning, Record, Frontier, Terminal, Steps,
        Pipeline!Start, Pipeline!Reached, Pipeline!Results, Pipeline!SetStep, Pipeline!Steps
  <2> QED
    BY <2>1, <2>3 DEF Pipeline!Next, Steps, Pipeline!Steps
<1>10. ASSUME NEW q \in Runs, SendCommand(q) PROVE PipelineStep
  BY <1>10 DEF SendCommand, Goto
<1>11. ASSUME NEW q \in Runs, PollMessages(q) PROVE PipelineStep
  BY <1>11 DEF PollMessages, Goto
<1>12. ASSUME NEW q \in Runs, PollStep(q) PROVE PipelineStep
  BY <1>12 DEF PollStep, Goto, Advance
<1>13. ASSUME NEW q \in Runs, DecideWait(q) PROVE PipelineStep
  BY <1>13 DEF DecideWait, Goto
<1>14. ASSUME NEW q \in Runs, FinishStep(q) PROVE PipelineStep
  <2>1. /\ at[q] \in Steps /\ at[q] \in Int
        /\ verdict[q] \in Terminal
        /\ pc[q] \in {"write", "rescue"} /\ pc[q] \in Stepping
        /\ runStatus[q] = "running"
    BY <1>14 DEF FinishStep, Located, RunPhase, Stepping, Active, Steps
  <2>2. Pipeline!SetStep(q, at[q], verdict[q])
    BY <1>14 DEF FinishStep, Record, Pipeline!SetStep
  <2>3. Pipeline!Reached(q, at[q])
    BY <2>1 DEF Frontier, Pipeline!Reached, Steps, Pipeline!Steps, Terminal, Pipeline!Results
  <2>4. /\ step[q][at[q]] # "skipped"
        /\ verdict[q] = "skipped" => step[q][at[q]] = "pending"
        /\ verdict[q] \in {"pass", "timeout"} => step[q][at[q]] # "pending"
        /\ Kind[at[q]] # "command" => step[q][at[q]] \in {"pending", "running"}
    BY <2>1 DEF AtStep
  <2>5. step[q][at[q]] \in Terminal \cup {"pending", "running"}
    BY <2>1 DEF TypeOK
  <2>6. ASSUME step[q][at[q]] \in {"pending", "running"}
        PROVE  Pipeline!Settle(q, at[q])
    <3>1. step[q][at[q]] = "pending" => verdict[q] \in {"fail", "skipped"}
      BY <2>1, <2>4 DEF Terminal
    <3>2. step[q][at[q]] = "running" => verdict[q] \in {"pass", "fail", "timeout"}
      BY <2>1, <2>4 DEF Terminal
    <3> QED
      BY <2>1, <2>2, <2>3, <2>6, <3>1, <3>2 DEF Pipeline!Settle
  <2>7. ASSUME step[q][at[q]] \in Terminal
        PROVE  Pipeline!Revise(q, at[q])
    <3>1. /\ Kind[at[q]] = "command"
          /\ verdict[q] \in {"pass", "fail", "timeout"}
          /\ step[q][at[q]] \in Pipeline!Results \ {"skipped"}
      BY <2>1, <2>4, <2>7 DEF Terminal, Pipeline!Results
    <3> QED
      BY <2>1, <2>2, <3>1 DEF Pipeline!Revise
  <2>8. Pipeline!Settle(q, at[q]) \/ Pipeline!Revise(q, at[q])
    BY <2>5, <2>6, <2>7
  <2> QED
    BY <2>1, <2>8 DEF Pipeline!Next, Steps, Pipeline!Steps
<1>15. ASSUME NEW q \in Runs, StepThrows(q) PROVE PipelineStep
  BY <1>15 DEF StepThrows, Goto
<1>16. ASSUME NEW q \in Runs, RunThrows(q) PROVE PipelineStep
  BY <1>16 DEF RunThrows, Goto
<1>17. ASSUME NEW q \in Runs, DeadlinePasses(q) PROVE PipelineStep
  BY <1>17 DEF DeadlinePasses
<1>18. ASSUME NEW h \in Handlers, ReceiveCallback(h) PROVE PipelineStep
  BY <1>18 DEF ReceiveCallback
<1>19. ASSUME NEW h \in Handlers, AuthoriseCallback(h) PROVE PipelineStep
  BY <1>19 DEF AuthoriseCallback
<1>20. ASSUME NEW h \in Handlers, ApplyCallback(h) PROVE PipelineStep
  <2>1. PICK r \in Runs, i \in Steps, v \in {"pass", "fail"} :
          /\ Kind[i] = "command"
          /\ i <= at[r]
          /\ step[r][i] \notin {"pending", "skipped"}
          /\ \E c \in sent : c.run = r /\ c.step = i
          /\ handler[h].run = r /\ handler[h].step = i /\ handler[h].running
          /\ step' = [step EXCEPT ![r][i] = v]
    BY ONLY IInv, <1>20, AppliedCallback
  <2>2. Pipeline!SetStep(r, i, v)
    BY <1>20, <2>1 DEF ApplyCallback, Pipeline!SetStep
  <2>3. Pipeline!Reached(r, i)
    BY <2>1 DEF TypeOK, Frontier, Pipeline!Reached, Steps, Pipeline!Steps,
                Terminal, Pipeline!Results
  <2>4. step[r][i] = "running" \/ step[r][i] \in Pipeline!Results \ {"skipped"}
    BY <2>1 DEF TypeOK, Terminal, Pipeline!Results
  <2>5. Pipeline!Settle(r, i) \/ Pipeline!Revise(r, i)
    BY <2>1, <2>2, <2>3, <2>4 DEF Pipeline!Settle, Pipeline!Revise
  <2> QED
    BY <2>1, <2>5 DEF Pipeline!Next, Steps, Pipeline!Steps
<1>21. ASSUME NEW h \in Handlers, CallbackThrows(h) PROVE PipelineStep
  BY <1>21 DEF CallbackThrows
<1>22. ASSUME NEW s \in Stations, NEW a \in AwaitedActions, MessageLogged(s, a)
      PROVE  PipelineStep
  BY <1>22 DEF MessageLogged
<1>23. CASE ChangeSecret
  BY <1>23 DEF ChangeSecret
<1>24. CASE Restart
  BY <1>24 DEF Restart
<1>25. CASE UNCHANGED vars
  BY <1>25
<1> QED
  BY <1>1, <1>2, <1>3, <1>4, <1>5, <1>6, <1>7, <1>8, <1>9, <1>10, <1>11,
     <1>12, <1>13, <1>14, <1>15, <1>16, <1>17, <1>18, <1>19, <1>20, <1>21,
     <1>22, <1>23, <1>24, <1>25 DEF Next, Executor, CallbackEndpoint

\* The rows of the test suite behave as the ordered pipeline StepPipeline
\* (ImplementsPipeline).
THEOREM PipelineImplemented == Spec => ImplementsPipeline
<1>1. Init => Pipeline!Init
  BY DEF Init, Pipeline!Init, Steps, Pipeline!Steps
<1>2. IInv /\ [Next]_vars => [Pipeline!Next]_(Pipeline!pipeline)
  BY RefinementStep DEF PipelineStep
<1> QED
  BY <1>1, <1>2, InvCorrect, PTL DEF Spec, ImplementsPipeline, Pipeline!Spec

=============================================================================
