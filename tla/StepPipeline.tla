---------------------------- MODULE StepPipeline ----------------------------
(***************************************************************************)
(* What the test suite promises its user, the page that polls              *)
(* GET /testsuite/runs/:id: every run is a pipeline whose steps are        *)
(* started and settled in the order of the catalog, whose results may be   *)
(* revised only for command steps, and which is closed once.               *)
(* TestSuiteRun implements it.                                             *)
(***************************************************************************)
EXTENDS Integers

CONSTANTS Runs, NumSteps, Kind

Steps == 1..NumSteps

VARIABLES runStatus, step

pipeline == <<runStatus, step>>

Results == {"pass", "fail", "timeout", "skipped"}

Init ==
  /\ runStatus = [r \in Runs |-> "absent"]
  /\ step = [r \in Runs |-> [i \in Steps |-> "pending"]]

\* Every step before i has a result.
Reached(r, i) == \A j \in Steps : j < i => step[r][j] \in Results

SetStep(r, i, v) ==
  /\ step' = [step EXCEPT ![r][i] = v]
  /\ UNCHANGED runStatus

Open(r) ==
  /\ runStatus[r] = "absent"
  /\ runStatus' = [runStatus EXCEPT ![r] = "running"]
  /\ UNCHANGED step

Start(r, i) ==
  /\ runStatus[r] = "running"
  /\ step[r][i] = "pending"
  /\ Reached(r, i)
  /\ SetStep(r, i, "running")

\* A step that was never started can only fail or be skipped.
Settle(r, i) ==
  /\ Reached(r, i)
  /\ \/ /\ step[r][i] = "pending"
        /\ runStatus[r] = "running"
        /\ \E v \in {"fail", "skipped"} : SetStep(r, i, v)
     \/ /\ step[r][i] = "running"
        /\ \E v \in {"pass", "fail", "timeout"} : SetStep(r, i, v)

\* The answer to a command may overtake, or be overtaken by, another result of
\* the step; only an open run reports a timeout.
Revise(r, i) ==
  /\ Kind[i] = "command"
  /\ step[r][i] \in Results \ {"skipped"}
  /\ \E v \in {"pass", "fail"} \cup (IF runStatus[r] = "running" THEN {"timeout"} ELSE {}) :
       SetStep(r, i, v)

Close(r) ==
  /\ runStatus[r] = "running"
  /\ \/ /\ \A i \in Steps : step[r][i] \in Results
        /\ runStatus' = [runStatus EXCEPT ![r] = "completed"]
     \/ runStatus' = [runStatus EXCEPT ![r] = "aborted"]
  /\ UNCHANGED step

Next ==
  \E r \in Runs :
    \/ Open(r)
    \/ Close(r)
    \/ \E i \in Steps : Start(r, i) \/ Settle(r, i) \/ Revise(r, i)

Spec == Init /\ [][Next]_pipeline

=============================================================================
