--------------------------- MODULE MCTestSuiteRun ---------------------------
(***************************************************************************)
(* Instances of TestSuiteRun for TLC: sub-sequences of the step catalog.   *)
(***************************************************************************)
EXTENDS TestSuiteRun, TLC

CONSTANT cp1

\* A trigger, a command, one without parameters and another command.
MCKind == <<"trigger", "command", "command", "command">>
MCAction == <<"Heartbeat", "RemoteStart", "RemoteStop", "Reset">>
MCStation == [r \in Runs |-> cp1]
MCProvided == [r \in Runs |-> {2, 4}]

\* Two commands in a row, both with their parameters.
CommandsKind == <<"command", "command">>
CommandsAction == <<"RemoteStart", "Reset">>
CommandsProvided == [r \in Runs |-> {1, 2}]

=============================================================================
