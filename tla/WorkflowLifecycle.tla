-------------------------- MODULE WorkflowLifecycle -------------------------
(***************************************************************************)
(* What an operator may rely on, whatever the tasks and the policies: the  *)
(* stage a workflow is in, when agents may run, and what survives a crash. *)
(* WorkflowControl implements it (WorkflowProperties states the mapping).  *)
(***************************************************************************)

VARIABLES
  stage,    \* the stage of the workflow in memory
  saved,    \* the stage recorded in the state file
  running,  \* an execution is in progress
  active    \* an agent is running

lifecycle == <<stage, saved, running, active>>

Stages == {"open", "paused", "cancelled", "closed"}

LifecycleTypeOK ==
  /\ stage \in Stages /\ saved \in Stages
  /\ running \in BOOLEAN /\ active \in BOOLEAN

LifecycleInit ==
  stage = "open" /\ saved = "open" /\ running = FALSE /\ active = FALSE

-----------------------------------------------------------------------------
\* A cancelled workflow is not executed.
Begin ==
  /\ ~running /\ stage # "cancelled"
  /\ running' = TRUE
  /\ UNCHANGED <<stage, saved, active>>

\* The execution of a closed workflow opens it again, in memory.
Reopen ==
  /\ running /\ ~active /\ stage = "closed"
  /\ stage' = "open"
  /\ UNCHANGED <<saved, running, active>>

\* Agents are started in an open workflow only.
StartAgent ==
  /\ running /\ ~active /\ stage = "open"
  /\ active' = TRUE
  /\ UNCHANGED <<stage, saved, running>>

\* An agent ends and the execution goes on; or the runtime checkpoints.
SaveProgress ==
  /\ running
  /\ active' = FALSE /\ saved' = stage
  /\ UNCHANGED <<stage, running>>

\* The execution ends, with or without a verdict; a cancelled workflow gets none.
End ==
  /\ running
  /\ running' = FALSE /\ active' = FALSE /\ saved' = stage'
  /\ \/ UNCHANGED stage /\ stage # "open"
     \/ stage # "cancelled" /\ stage' = "closed"

\* An operator's command takes effect at once and is saved at once.
Command ==
  /\ saved' = stage'
  /\ UNCHANGED <<running, active>>
  /\ \/ UNCHANGED stage
     \/ stage # "cancelled" /\ stage' \in {"paused", "cancelled"}
     \/ stage = "paused" /\ stage' = "open"
     \/ ~running /\ stage' = "open"

\* The execution is torn down, in memory or with the process.
Abort ==
  /\ running' = FALSE /\ active' = FALSE
  /\ UNCHANGED saved
  /\ UNCHANGED stage \/ stage' = saved

LifecycleNext ==
  Begin \/ Reopen \/ StartAgent \/ SaveProgress \/ End \/ Command \/ Abort

LifecycleSpec == LifecycleInit /\ [][LifecycleNext]_lifecycle

-----------------------------------------------------------------------------
\* An operator's word is durable: a pause or a cancellation in force is in the
\* state file, and no forgotten cancellation is left there.
OperatorWordIsDurable ==
  /\ stage \in {"paused", "cancelled"} => saved = stage
  /\ saved = "cancelled" => stage = "cancelled"
=============================================================================
