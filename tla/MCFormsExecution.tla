---------------------------- MODULE MCFormsExecution ----------------------------
(* FormsExecution with an execution of the submission and one of a later      *)
(* status change on one runtime, or one execution on two runtimes.             *)
EXTENDS FormsExecution, TLC

CONSTANTS e1, e2, r1, r2

MCExecutions == {e1, e2}
MCOneExecution == {e1}
MCOneRuntime == {r1}
MCRuntimes == {r1, r2}
MCNone == {}
================================================================================
