---------------------------- MODULE MCTaskContext ---------------------------
(***************************************************************************)
(* The repairs of MCWorkflowControl with the contexts that agents are      *)
(* given.                                                                  *)
(***************************************************************************)
EXTENDS MCWorkflowControl, TaskContext
=============================================================================
