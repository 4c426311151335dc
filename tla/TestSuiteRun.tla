---------------------------- MODULE TestSuiteRun ----------------------------
(***************************************************************************)
(* The OCPP test suite of the backend (backend/src/testsuite): a run is a  *)
(* fixed sequence of steps executed in the background by one in-process    *)
(* executor, while CitrineOS posts the answers to command steps to an      *)
(* independent HTTP handler and the station's messages to the message log. *)
(*                                                                         *)
(* The code is single threaded, so what runs between two `await`s is one   *)
(* action; every database or HTTP call is an action of its own, and any of *)
(* them may throw.                                                         *)
(***************************************************************************)
EXTENDS Integers

CONSTANTS
  Runs,         \* the test suite runs that may be started
  NumSteps,     \* length of the step catalog
  Kind,         \* Kind[i]: how step i is executed
  Action,       \* Action[i]: the OCPP action step i is about
  Station,      \* Station[r]: the charging station run r talks to
  Legacy,       \* the runs against an OCPP 1.6 station
  Provided,     \* Provided[r]: the command steps run r has the parameters for
  Handlers,     \* concurrent requests to the callback endpoint
  Secrets,      \* values of settings/citrineos/webhookSecret
  NoSecret,     \* the secret is not configured
  MaxMessages   \* bound: messages logged per station and action

Steps == 1..NumSteps

Stations == {Station[r] : r \in Runs}

\* The OCPP action whose message settles step i of run r (1.6 sends
\* StartTransaction where 2.x sends TransactionEvent).
Watched(r, i) ==
  IF r \in Legacy /\ Action[i] = "TransactionEvent"
  THEN "StartTransaction"
  ELSE Action[i]

WatchedActions == {Watched(r, i) : r \in Runs, i \in Steps}

\* The messages some step waits for; nothing reads the others.
AwaitedActions ==
  {Watched(r, i) : r \in Runs, i \in {j \in Steps : Kind[j] # "command"}}

ASSUME CatalogAssumption ==
  /\ NumSteps \in Nat
  /\ Kind \in [Steps -> {"trigger", "observe", "command"}]
  /\ Provided \in [Runs -> SUBSET Steps]

ASSUME EnvironmentAssumption ==
  /\ NoSecret \notin Secrets
  /\ MaxMessages \in Nat

VARIABLES
  runStatus,      \* test_suite_runs.status; "absent" before the row exists
  step,           \* step[r][i]: test_suite_steps.status
  startedAt,      \* startedAt[r][i]: test_suite_steps.startedAt, as a log position
  pc,             \* where run r's executor is
  at,             \* the loop variable of executeRun, from 1
  began,          \* the executor's local startedAt
  verdict,        \* the result the executor is about to write
  expired,        \* the deadline of the step's wait has passed
  url,            \* the secret in the callbackUrl the executor built
  received,       \* received[s][a]: messages of action a from s in the log
  sent,           \* commands CitrineOS holds, with their callbackUrl
  handler,        \* requests in progress at the callback endpoint
  webhookSecret   \* the setting's current value

dbVars   == <<runStatus, step, startedAt>>
execVars == <<pc, at, began, verdict, expired, url>>
envVars  == <<received, sent, webhookSecret>>
vars     == <<dbVars, execVars, envVars, handler>>

-----------------------------------------------------------------------------
Terminal == {"pass", "fail", "timeout", "skipped"}

RunStatus == {"absent", "running", "completed", "aborted"}

\* "off" before and after the execution; "gone" when the process died during it.
Waiting == {"poll", "decide"}
Active  == {"load", "next", "trigger", "config", "mark", "command", "write",
            "rescue", "complete", "abort"} \cup Waiting

NotStarted == -1

Idle == [pc |-> "idle"]

Request == [pc : {"authorise", "write"}, run : Runs, step : Steps,
            secret : Secrets \cup {NoSecret}, running : BOOLEAN]

Command == [run : Runs, step : Steps, secret : Secrets \cup {NoSecret}]

TypeOK ==
  /\ runStatus \in [Runs -> RunStatus]
  /\ step \in [Runs -> [Steps -> Terminal \cup {"pending", "running"}]]
  /\ startedAt \in [Runs -> [Steps -> Nat \cup {NotStarted}]]
  /\ pc \in [Runs -> Active \cup {"off", "gone"}]
  /\ at \in [Runs -> 1..NumSteps + 1]
  /\ began \in [Runs -> Nat]
  /\ verdict \in [Runs -> Terminal \cup {"none"}]
  /\ expired \in [Runs -> BOOLEAN]
  /\ url \in [Runs -> Secrets \cup {NoSecret}]
  /\ received \in [Stations -> [WatchedActions -> Nat]]
  /\ sent \subseteq Command
  /\ handler \in [Handlers -> Request \cup {Idle}]
  /\ webhookSecret \in Secrets \cup {NoSecret}

Init ==
  /\ runStatus = [r \in Runs |-> "absent"]
  /\ step = [r \in Runs |-> [i \in Steps |-> "pending"]]
  /\ startedAt = [r \in Runs |-> [i \in Steps |-> NotStarted]]
  /\ pc = [r \in Runs |-> "off"]
  /\ at = [r \in Runs |-> 1]
  /\ began = [r \in Runs |-> 0]
  /\ verdict = [r \in Runs |-> "none"]
  /\ expired = [r \in Runs |-> FALSE]
  /\ url = [r \in Runs |-> NoSecret]
  /\ received = [s \in Stations |-> [a \in WatchedActions |-> 0]]
  /\ sent = {}
  /\ handler = [h \in Handlers |-> Idle]
  /\ webhookSecret \in Secrets \cup {NoSecret}

-----------------------------------------------------------------------------
(* The run and the loop over its steps *)

\* The executor of run r moves on to label l.
Goto(r, l) == pc' = [pc EXCEPT ![r] = l]

\* finish(): an unconditional update of the step's row.
Record(r, i, v) == step' = [step EXCEPT ![r][i] = v]

\* The request creates the run with every step pending and leaves the
\* execution to the background.
StartRun(r) ==
  /\ runStatus[r] = "absent"
  /\ runStatus' = [runStatus EXCEPT ![r] = "running"]
  /\ Goto(r, "load")
  /\ UNCHANGED <<step, startedAt, at, began, verdict, expired, url, envVars, handler>>

LoadSteps(r) ==
  /\ pc[r] = "load"
  /\ Goto(r, "next")
  /\ UNCHANGED <<dbVars, at, began, verdict, expired, url, envVars, handler>>

\* A command step is built only when its parameters were provided.
Buildable(r, i) == i \in Provided[r]

\* Mutant: a command is sent before its step is marked as running.
FirstLabelUnmarked(r, i) ==
  CASE Kind[i] = "trigger" -> "trigger"
    [] Kind[i] = "observe" -> "mark"
    [] Kind[i] = "command" /\ Buildable(r, i) -> "command"
    [] OTHER -> "write"

\* The first await of step i's branch of execute().
FirstLabel(r, i) ==
  CASE Kind[i] = "trigger" -> "trigger"
    [] Kind[i] = "observe" -> "mark"
    [] Kind[i] = "command" /\ Buildable(r, i) -> "config"
    [] OTHER -> "write"

\* execute(): takes the start time and dispatches on the kind of the step. A
\* command that cannot be built goes straight to finish('skipped').
ExecuteStep(r) ==
  /\ pc[r] = "next"
  /\ at[r] <= NumSteps
  /\ began' = [began EXCEPT ![r] = received[Station[r]][Watched(r, at[r])]]
  /\ expired' = [expired EXCEPT ![r] = FALSE]
  /\ Goto(r, FirstLabel(r, at[r]))
  /\ verdict' = [verdict EXCEPT ![r] =
                   IF FirstLabel(r, at[r]) = "write" THEN "skipped" ELSE "none"]
  /\ UNCHANGED <<dbVars, at, url, envVars, handler>>

\* Mutant: the loop ends one step early.
LeaveLoopEarly(r) ==
  /\ pc[r] = "next"
  /\ at[r] >= NumSteps
  /\ Goto(r, "complete")
  /\ UNCHANGED <<dbVars, at, began, verdict, expired, url, envVars, handler>>

LeaveLoop(r) ==
  /\ pc[r] = "next"
  /\ at[r] > NumSteps
  /\ Goto(r, "complete")
  /\ UNCHANGED <<dbVars, at, began, verdict, expired, url, envVars, handler>>

CompleteRun(r) ==
  /\ pc[r] = "complete"
  /\ runStatus' = [runStatus EXCEPT ![r] = "completed"]
  /\ Goto(r, "off")
  /\ UNCHANGED <<step, startedAt, at, began, verdict, expired, url, envVars, handler>>

AbortRun(r) ==
  /\ pc[r] = "abort"
  /\ runStatus' = [runStatus EXCEPT ![r] = "aborted"]
  /\ Goto(r, "off")
  /\ UNCHANGED <<step, startedAt, at, began, verdict, expired, url, envVars, handler>>

-----------------------------------------------------------------------------
(* One step *)

\* The TriggerMessage request returns; verdict remembers that CitrineOS could
\* not deliver it.
SendTrigger(r) ==
  /\ pc[r] = "trigger"
  /\ \E v \in {"none", "fail"} : verdict' = [verdict EXCEPT ![r] = v]
  /\ Goto(r, "mark")
  /\ UNCHANGED <<dbVars, at, began, expired, url, envVars, handler>>

\* getConfig and getWebhookSecret. The base URL may be missing at any time.
ReadConfig(r) ==
  /\ pc[r] = "config"
  /\ \/ /\ webhookSecret # NoSecret
        /\ url' = [url EXCEPT ![r] = webhookSecret]
        /\ Goto(r, "mark")
        /\ UNCHANGED verdict
     \/ /\ verdict' = [verdict EXCEPT ![r] = "fail"]
        /\ Goto(r, "write")
        /\ UNCHANGED url
  /\ UNCHANGED <<dbVars, at, began, expired, envVars, handler>>

\* Mutant: the row is given the time of the write instead of the time taken
\* before the trigger was sent.
MarkRunningNow(r) ==
  /\ pc[r] = "mark"
  /\ Record(r, at[r], "running")
  /\ startedAt' = [startedAt EXCEPT ![r][at[r]] = received[Station[r]][Watched(r, at[r])]]
  /\ \/ verdict[r] = "fail" /\ Goto(r, "write")
     \/ verdict[r] # "fail" /\ Goto(r, IF Kind[at[r]] = "command" THEN "command" ELSE "poll")
  /\ UNCHANGED <<runStatus, at, began, verdict, expired, url, envVars, handler>>

\* The row gets the start time taken by execute().
MarkRunning(r) ==
  /\ pc[r] = "mark"
  /\ Record(r, at[r], "running")
  /\ startedAt' = [startedAt EXCEPT ![r][at[r]] = began[r]]
  /\ \/ verdict[r] = "fail" /\ Goto(r, "write")
     \/ verdict[r] # "fail" /\ Goto(r, IF Kind[at[r]] = "command" THEN "command" ELSE "poll")
  /\ UNCHANGED <<runStatus, at, began, verdict, expired, url, envVars, handler>>

\* The command request returns with its confirmation. An undelivered command
\* may still have reached CitrineOS and be answered.
SendCommand(r) ==
  LET held == sent \cup {[run |-> r, step |-> at[r], secret |-> url[r]]}
  IN /\ pc[r] = "command"
     /\ \/ /\ sent' = held
           /\ Goto(r, "poll")
           /\ UNCHANGED verdict
        \/ /\ sent' \in {sent, held}
           /\ verdict' = [verdict EXCEPT ![r] = "fail"]
           /\ Goto(r, "write")
     /\ UNCHANGED <<dbVars, at, began, expired, url, received, webhookSecret, handler>>

\* The loop goes on with the next step; the locals of this one are gone.
Advance(r) ==
  /\ Goto(r, "next")
  /\ at' = [at EXCEPT ![r] = @ + 1]
  /\ began' = [began EXCEPT ![r] = 0]
  /\ verdict' = [verdict EXCEPT ![r] = "none"]
  /\ expired' = [expired EXCEPT ![r] = FALSE]
  /\ url' = [url EXCEPT ![r] = NoSecret]

\* waitForMessage: is there a message of the awaited action after startedAt?
PollMessages(r) ==
  /\ pc[r] = "poll"
  /\ Kind[at[r]] # "command"
  /\ IF received[Station[r]][Watched(r, at[r])] > began[r]
     THEN /\ verdict' = [verdict EXCEPT ![r] = "pass"]
          /\ Goto(r, "write")
     ELSE /\ Goto(r, "decide")
          /\ UNCHANGED verdict
  /\ UNCHANGED <<dbVars, at, began, expired, url, envVars, handler>>

\* Mutant: the executor waits for the step to be started, not for its result.
PollStepStarted(r) ==
  /\ pc[r] = "poll"
  /\ Kind[at[r]] = "command"
  /\ IF step[r][at[r]] # "pending"
     THEN Advance(r)
     ELSE /\ Goto(r, "decide")
          /\ UNCHANGED <<at, began, verdict, expired, url>>
  /\ UNCHANGED <<dbVars, envVars, handler>>

\* runCommand's check: has the callback endpoint written a result?
PollStep(r) ==
  /\ pc[r] = "poll"
  /\ Kind[at[r]] = "command"
  /\ IF step[r][at[r]] # "running"
     THEN Advance(r)
     ELSE /\ Goto(r, "decide")
          /\ UNCHANGED <<at, began, verdict, expired, url>>
  /\ UNCHANGED <<dbVars, envVars, handler>>

\* Mutant: the wait has no deadline.
DecideWaitForever(r) ==
  /\ pc[r] = "decide"
  /\ Goto(r, "poll")
  /\ UNCHANGED <<dbVars, at, began, verdict, expired, url, envVars, handler>>

\* pollUntil looks at the clock only after a check that found nothing.
DecideWait(r) ==
  /\ pc[r] = "decide"
  /\ IF expired[r]
     THEN /\ verdict' = [verdict EXCEPT ![r] = "timeout"]
          /\ Goto(r, "write")
     ELSE /\ Goto(r, "poll")
          /\ UNCHANGED verdict
  /\ UNCHANGED <<dbVars, at, began, expired, url, envVars, handler>>

DeadlinePasses(r) ==
  /\ pc[r] \in Waiting
  /\ ~expired[r]
  /\ expired' = [expired EXCEPT ![r] = TRUE]
  /\ UNCHANGED <<dbVars, pc, at, began, verdict, url, envVars, handler>>

\* finish() of the step, or of the catch block of execute().
FinishStep(r) ==
  /\ pc[r] \in {"write", "rescue"}
  /\ Record(r, at[r], verdict[r])
  /\ Advance(r)
  /\ UNCHANGED <<runStatus, startedAt, envVars, handler>>

-----------------------------------------------------------------------------
(* Failures *)

\* A database or HTTP call of the step throws: the catch block of execute()
\* will record 'fail'. A command that threw may have been sent.
StepThrows(r) ==
  /\ pc[r] \in {"trigger", "config", "mark", "command", "poll", "write"}
  /\ verdict' = [verdict EXCEPT ![r] = "fail"]
  /\ Goto(r, "rescue")
  /\ sent' \in IF pc[r] = "command"
               THEN {sent, sent \cup {[run |-> r, step |-> at[r], secret |-> url[r]]}}
               ELSE {sent}
  /\ UNCHANGED <<dbVars, at, began, expired, url, received, webhookSecret, handler>>

\* What execute() does not catch reaches the catch block of executeRun().
RunThrows(r) ==
  /\ pc[r] \in {"load", "rescue", "complete"}
  /\ Goto(r, "abort")
  /\ UNCHANGED <<dbVars, at, began, verdict, expired, url, envVars, handler>>

\* Mutant: the executors are resumed after the restart.
RestartAndResume ==
  /\ pc' = [r \in Runs |-> IF pc[r] \in Active THEN "next" ELSE pc[r]]
  /\ handler' = [h \in Handlers |-> Idle]
  /\ UNCHANGED <<dbVars, at, began, verdict, expired, url, envVars>>

\* The backend process ends and is started again: every executor and every
\* request in progress is lost, the rows stay. A crash, a deployment, the Ops
\* restart, or the unhandled rejection of an executeRun() whose write of
\* 'aborted' throws.
Restart ==
  /\ pc' = [r \in Runs |-> IF pc[r] \in Active THEN "gone" ELSE pc[r]]
  /\ handler' = [h \in Handlers |-> Idle]
  /\ UNCHANGED <<dbVars, at, began, verdict, expired, url, envVars>>

-----------------------------------------------------------------------------
(* The callback endpoint (receiveCallback) *)

\* CitrineOS posts an answer to a command it holds, early, late or again; the
\* handler reads the step's row.
ReceiveCallback(h) ==
  /\ handler[h] = Idle
  /\ \E c \in sent :
       handler' = [handler EXCEPT ![h] =
                     [pc |-> "authorise", run |-> c.run, step |-> c.step, secret |-> c.secret,
                      running |-> step[c.run][c.step] = "running"]]
  /\ UNCHANGED <<dbVars, execVars, envVars>>

\* Mutant: the check that the step is still running is forgotten.
AuthoriseAnyCallback(h) ==
  /\ handler[h].pc = "authorise"
  /\ handler' = [handler EXCEPT ![h] =
                   IF webhookSecret # NoSecret /\ @.secret = webhookSecret
                   THEN [@ EXCEPT !.pc = "write"]
                   ELSE Idle]
  /\ UNCHANGED <<dbVars, execVars, envVars>>

\* The secret is read and compared, then the row read before is looked at.
AuthoriseCallback(h) ==
  /\ handler[h].pc = "authorise"
  /\ handler' = [handler EXCEPT ![h] =
                   IF webhookSecret # NoSecret /\ @.secret = webhookSecret /\ @.running
                   THEN [@ EXCEPT !.pc = "write"]
                   ELSE Idle]
  /\ UNCHANGED <<dbVars, execVars, envVars>>

\* The answer itself is looked at only now.
ApplyCallback(h) ==
  /\ handler[h].pc = "write"
  /\ \E v \in {"pass", "fail"} : Record(handler[h].run, handler[h].step, v)
  /\ handler' = [handler EXCEPT ![h] = Idle]
  /\ UNCHANGED <<runStatus, startedAt, execVars, envVars>>

\* A database call of the handler throws: CitrineOS gets a 500.
CallbackThrows(h) ==
  /\ handler[h] # Idle
  /\ handler' = [handler EXCEPT ![h] = Idle]
  /\ UNCHANGED <<dbVars, execVars, envVars>>

-----------------------------------------------------------------------------
(* The environment *)

\* The webhook logs a message of the station: the reply to a trigger or one
\* the station sent on its own.
MessageLogged(s, a) ==
  /\ received[s][a] < MaxMessages
  /\ received' = [received EXCEPT ![s][a] = @ + 1]
  /\ UNCHANGED <<dbVars, execVars, sent, webhookSecret, handler>>

\* An administrator sets or removes the webhook secret.
ChangeSecret ==
  /\ webhookSecret' \in (Secrets \cup {NoSecret}) \ {webhookSecret}
  /\ UNCHANGED <<dbVars, execVars, received, sent, handler>>

-----------------------------------------------------------------------------
Executor(r) ==
  \/ LoadSteps(r) \/ ExecuteStep(r) \/ LeaveLoop(r) \/ CompleteRun(r) \/ AbortRun(r)
  \/ SendTrigger(r) \/ ReadConfig(r) \/ MarkRunning(r) \/ SendCommand(r)
  \/ PollMessages(r) \/ PollStep(r) \/ DecideWait(r) \/ FinishStep(r)
  \/ StepThrows(r) \/ RunThrows(r)

CallbackEndpoint(h) ==
  \/ ReceiveCallback(h) \/ AuthoriseCallback(h) \/ ApplyCallback(h) \/ CallbackThrows(h)

Next ==
  \/ \E r \in Runs : StartRun(r) \/ Executor(r) \/ DeadlinePasses(r)
  \/ \E h \in Handlers : CallbackEndpoint(h)
  \/ \E s \in Stations, a \in AwaitedActions : MessageLogged(s, a)
  \/ ChangeSecret
  \/ Restart

Spec == Init /\ [][Next]_vars

\* The event loop runs every executor that can go on (an HTTP call returns or
\* is aborted after 10 s), and the clock reaches every deadline.
Fairness ==
  \A r \in Runs : WF_vars(Executor(r)) /\ WF_vars(DeadlinePasses(r))

FairSpec == Spec /\ Fairness

-----------------------------------------------------------------------------
(* Properties *)

\* The executor of run r has left step i behind.
Past(r, i) == i < at[r] \/ (pc[r] = "off" /\ runStatus[r] # "absent")

\* Steps are settled one after the other: no step is started, skipped or
\* failed before every earlier step of the run has a result, and no result of
\* an earlier step is taken back to pending or running, whatever callbacks
\* arrive when.
StepsInOrder ==
  \A r \in Runs : \A i, j \in Steps :
    i < j /\ step[r][j] # "pending" => step[r][i] \in Terminal

\* A run shown as completed has a result for every step.
CompletedHasResults ==
  \A r \in Runs :
    runStatus[r] = "completed" => \A i \in Steps : step[r][i] \in Terminal

\* CitrineOS is given a command (a RemoteStop, a Reset) only once all earlier
\* steps have results, and never for a step that is reported as skipped.
CommandsInOrder ==
  \A c \in sent :
    /\ step[c.run][c.step] \notin {"pending", "skipped"}
    /\ \A i \in Steps : i < c.step => step[c.run][i] \in Terminal

\* 'pass' always has evidence: a message of the awaited action logged after
\* the step's recorded start, or a command CitrineOS was really given.
PassHasEvidence ==
  \A r \in Runs : \A i \in Steps :
    step[r][i] = "pass" =>
      IF Kind[i] = "command"
      THEN \E c \in sent : c.run = r /\ c.step = i
      ELSE /\ startedAt[r][i] # NotStarted
           /\ received[Station[r]][Watched(r, i)] > startedAt[r][i]

\* The last word on step i of run r has been written: the executor has left the
\* step, it has a result, and no request at the callback endpoint that found
\* it running is still in progress.
Settled(r, i) ==
  /\ Past(r, i)
  /\ step[r][i] # "running"
  /\ \A h \in Handlers :
       handler[h] # Idle =>
         ~(handler[h].run = r /\ handler[h].step = i /\ handler[h].running)

\* A settled step never changes again: a callback that arrives once the
\* executor has moved past the result, a first answer, a duplicate, one after
\* the run has ended or after a restart, is ignored.
SettledIsFinal ==
  [][\A r \in Runs : \A i \in Steps :
       Settled(r, i) => Settled(r, i)' /\ step'[r][i] = step[r][i]]_vars

\* The claim of the comment in receiveCallback: a late or duplicate callback
\* never overwrites a result the executor has moved past.
LateCallbackIgnored ==
  [][\A r \in Runs : \A i \in Steps :
       Past(r, i) => step'[r][i] = step[r][i]]_vars

\* Every run that is started ends, completed or aborted, unless the process
\* dies under it; no station behaviour, lost callback or failing call keeps
\* a run open.
RunEnds ==
  \A r \in Runs :
    runStatus[r] = "running" ~> (runStatus[r] # "running" \/ pc[r] = "gone")

\* The run and its rows implement the ordered pipeline StepPipeline.
Pipeline == INSTANCE StepPipeline
              WITH Runs <- Runs, NumSteps <- NumSteps, Kind <- Kind,
                   runStatus <- runStatus, step <- step

\* Seen through its rows, the test suite is the pipeline of StepPipeline: no
\* interleaving of executor, callbacks, failures and restarts shows the user
\* anything else.
ImplementsPipeline == Pipeline!Spec

-----------------------------------------------------------------------------
(* The inductive invariant behind the safety properties *)

\* The executor is working on step at[r].
Stepping == Active \ {"load", "next", "complete", "abort"}

\* It works on a step of the catalog, and has a result when it writes one.
Located ==
  \A r \in Runs :
    /\ pc[r] \in Stepping => at[r] \in Steps
    /\ pc[r] \in {"write", "rescue"} => verdict[r] \in Terminal

\* Which rows and which part of the loop go together.
RunPhase ==
  \A r \in Runs :
    /\ pc[r] \in Active \cup {"gone"} <=> runStatus[r] = "running"
    /\ runStatus[r] = "absent" => at[r] = 1
    /\ pc[r] = "load" => at[r] = 1
    /\ pc[r] = "complete" \/ runStatus[r] = "completed" => at[r] = NumSteps + 1

\* The rows behind the loop variable have results, those ahead are untouched.
Frontier ==
  \A r \in Runs : \A i \in Steps :
    /\ i < at[r] => step[r][i] \in Terminal
    /\ i > at[r] => step[r][i] = "pending"
    /\ i = at[r] /\ (\/ pc[r] \in {"load", "next", "trigger", "config", "mark"}
                     \/ runStatus[r] = "absent")
         => step[r][i] = "pending"

\* What the executor may find in, and is about to write to, its step's row.
AtStep ==
  \A r \in Runs : pc[r] \in Stepping =>
    LET k == Kind[at[r]]
        s == step[r][at[r]]
    IN /\ pc[r] = "trigger" => k = "trigger"
       /\ pc[r] \in {"config", "command"} => k = "command"
       /\ pc[r] \in {"command", "poll", "decide"} => s # "pending"
       /\ s # "skipped"
       /\ k # "command" => s \in {"pending", "running"}
       /\ k # "command" /\ pc[r] = "write" => s = "running"
       /\ pc[r] \in {"config", "mark"} => verdict[r] \in {"none", "fail"}
       /\ pc[r] = "rescue" => verdict[r] = "fail"
       /\ pc[r] = "write" /\ verdict[r] = "skipped" => s = "pending"
       /\ pc[r] = "write" /\ verdict[r] \in {"pass", "timeout"} => s # "pending"
       /\ pc[r] = "write" /\ verdict[r] = "pass" => k # "command"

\* CitrineOS holds only commands of steps that were started, and every request
\* at the callback endpoint is about one of them.
HeldCommands ==
  /\ \A c \in sent : /\ Kind[c.step] = "command"
                     /\ c.step <= at[c.run]
                     /\ step[c.run][c.step] \notin {"pending", "skipped"}
  /\ \A h \in Handlers : handler[h] # Idle =>
       /\ \E c \in sent : c.run = handler[h].run /\ c.step = handler[h].step
       /\ handler[h].pc = "write" => handler[h].running

\* The evidence a waiting executor is about to record.
WaitEvidence ==
  \A r \in Runs :
    /\ pc[r] \in {"command", "poll", "decide"} \/ (pc[r] = "write" /\ verdict[r] = "pass")
         => startedAt[r][at[r]] = began[r]
    /\ pc[r] = "write" /\ verdict[r] = "pass"
         => received[Station[r]][Watched(r, at[r])] > began[r]

\* The conjunction is inductive; StepsInOrder, CompletedHasResults and
\* CommandsInOrder follow from it, and so do SettledIsFinal and
\* ImplementsPipeline for its steps.
IInv ==
  /\ TypeOK
  /\ Located
  /\ RunPhase
  /\ Frontier
  /\ AtStep
  /\ HeldCommands
  /\ WaitEvidence
  /\ PassHasEvidence

=============================================================================
