---------------------------- MODULE DurableState ----------------------------
(***************************************************************************)
(* What a state store promises the processes that save through it: the     *)
(* stored state is replaced in one step by a state that somebody is        *)
(* saving, never by a part of it, and between that step and the return of  *)
(* the save nobody else replaces it.  A save may also fail or die with its *)
(* process, before or after that step.                                     *)
(***************************************************************************)
CONSTANTS Processes, Payloads, Nothing

VARIABLES
  stored,     \* the state that a load would return
  wanted,     \* what each process is saving
  installed   \* the process whose state is stored but not yet acknowledged

vars == <<stored, wanted, installed>>

TypeOK ==
  /\ stored \in Payloads \cup {Nothing}
  /\ wanted \in [Processes -> Payloads \cup {Nothing}]
  /\ installed \in Processes \cup {Nothing}

Init ==
  /\ stored = Nothing
  /\ wanted = [p \in Processes |-> Nothing]
  /\ installed = Nothing

Begin(p) ==
  /\ wanted[p] = Nothing
  /\ wanted'[p] \in Payloads
  /\ wanted' = [wanted EXCEPT ![p] = wanted'[p]]
  /\ UNCHANGED <<stored, installed>>

Install(p) ==
  /\ wanted[p] # Nothing /\ installed = Nothing
  /\ stored' = wanted[p] /\ installed' = p
  /\ UNCHANGED wanted

Return(p) ==
  /\ installed = p
  /\ wanted' = [wanted EXCEPT ![p] = Nothing]
  /\ installed' = Nothing
  /\ UNCHANGED stored

Abort(p) ==
  /\ wanted[p] # Nothing
  /\ wanted' = [wanted EXCEPT ![p] = Nothing]
  /\ installed' = IF installed = p THEN Nothing ELSE installed
  /\ UNCHANGED stored

Next == \E p \in Processes : Begin(p) \/ Install(p) \/ Return(p) \/ Abort(p)

Spec == Init /\ [][Next]_vars
=============================================================================
