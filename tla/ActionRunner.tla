---------------------------- MODULE ActionRunner ----------------------------
(***************************************************************************)
(* pkg/sdk/action_runner.go: the run-and-report part shared by the taint,  *)
(* untaint, import and forceunlock plugins.  `armed' says that the runner  *)
(* has been given a spec; a runner keeps its last spec for ever.           *)
(***************************************************************************)

RunnerState == [status : {"idle", "loading", "done", "error"}, armed : BOOLEAN]

NewRunner == [status |-> "idle", armed |-> FALSE]

RunnerBusy(r) == r.status = "loading"

ResetRunner(r) == [r EXCEPT !.status = "idle"]

Arm(r) == [status |-> "idle", armed |-> TRUE]

Started(r) == [r EXCEPT !.status = "loading"]

\* Mutant: only success ends the wait.
ReportedSuccessOnly(r, ok) == [r EXCEPT !.status = IF ok THEN "done" ELSE @]

\* actionResultMsg names no runner: whoever gets it takes it for its own.
Reported(r, ok) == [r EXCEPT !.status = IF ok THEN "done" ELSE "error"]
=============================================================================
