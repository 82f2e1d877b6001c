----------------------------- MODULE StateStore -----------------------------
(***************************************************************************)
(* ProjectState.save and load over one state file, by several processes    *)
(* (memory/project_state.py, memory/state_store.py).                       *)
(*                                                                         *)
(* A save takes the lock and writes the state, the integrity sidecar and,  *)
(* with a history, a snapshot.  A step is one of these writes or, where    *)
(* the file is written in place, its opening and its completion: between   *)
(* the two the file is Torn.  Every step can fail or be the last one of    *)
(* its process.  The SQLite backend replaces the state and changes the     *)
(* history in two transactions.                                            *)
(***************************************************************************)
EXTENDS Integers, FiniteSets

CONSTANTS
  Processes,
  Limits,       \* the values of snapshot_history_limit
  Nothing,      \* no file, no process
  Torn,         \* a file that was truncated and not yet written
  MaxChanges,   \* bound: changes of a state in memory
  MaxSaves,     \* bound: saves in a behaviour
  MaxFaults,    \* bound: failing writes and removals
  MaxCrashes    \* bound: crashes

ASSUME StoreAssumption ==
  /\ {MaxChanges, MaxSaves, MaxFaults, MaxCrashes} \cup Limits \subseteq Nat
  /\ Nothing # Torn /\ Nothing \notin Processes

\* A payload: which revision of the project state, and under a legal hold or not.
Payloads == [revision : Nat, hold : BOOLEAN]

ASSUME SentinelAssumption == {Nothing, Torn} \cap Payloads = {}

VARIABLES
  sqlite,    \* the backend, SqliteStateStore or JsonStateStore: chosen once
  limit,     \* snapshot_history_limit: chosen once
  file,      \* the state file
  sidecar,   \* the payload whose digest <state_file>.sha256 holds
  history,   \* the snapshots
  issued,    \* the highest snapshot version ever used
  lock,      \* the holder of the exclusive flock
  memory,    \* the project state of each process
  saving,    \* the payload of each save, taken before the lock
  pc,        \* where each process is
  tidy,      \* the last save that began to write also completed
  used       \* how much of the bounds is used up

disk == <<file, sidecar, history, issued>>
vars == <<sqlite, limit, disk, lock, memory, saving, pc, tidy, used>>

Snapshot == [version : Nat, copy : Payloads \cup {Torn}]

Writing == {"write", "sidecar", "sidecar_open", "snapshot", "snapshot_open", "prune"}
Points  == {"idle", "lock", "down"} \cup Writing

TypeOK ==
  /\ sqlite \in BOOLEAN /\ limit \in Limits
  /\ file \in Payloads \cup {Nothing}
  /\ sidecar \in Payloads \cup {Nothing, Torn}
  /\ history \subseteq Snapshot
  /\ issued \in Nat
  /\ lock \in Processes \cup {Nothing}
  /\ memory \in [Processes -> Payloads]
  /\ saving \in [Processes -> Payloads]
  /\ pc \in [Processes -> Points]
  /\ tidy \in BOOLEAN
  /\ used \in [changes : 0..MaxChanges, saves : 0..MaxSaves,
               faults : 0..MaxFaults, crashes : 0..MaxCrashes]

Blank == [revision |-> 0, hold |-> FALSE]

Init ==
  /\ sqlite \in BOOLEAN /\ limit \in Limits
  /\ file = Nothing /\ sidecar = Nothing /\ history = {} /\ issued = 0
  /\ lock = Nothing
  /\ memory = [p \in Processes |-> Blank]
  /\ saving = [p \in Processes |-> Blank]
  /\ pc = [p \in Processes |-> "idle"]
  /\ tidy = TRUE
  /\ used = [changes |-> 0, saves |-> 0, faults |-> 0, crashes |-> 0]

-----------------------------------------------------------------------------
(* The history of snapshots.                                               *)

Versions == {s.version : s \in history}

Newest == CHOOSE s \in history : \A t \in history : t.version <= s.version

\* load_state_snapshot: the payload that is stored for a version, if any; of a
\* torn one it says that it is no valid JSON.  It takes no lock.
LoadSnapshot(version) ==
  IF version \in Versions THEN (CHOOSE s \in history : s.version = version).copy ELSE Nothing

\* mutant: snapshots are numbered by how many there are
NextVersion_Count == Cardinality(history) + 1

\* The version after the last one listed, or the next AUTOINCREMENT key.
NextVersion ==
  IF sqlite THEN issued + 1 ELSE IF history = {} THEN 1 ELSE Newest.version + 1

\* What retention drops: all but the last limit snapshots.
Stale(snapshots) ==
  {s \in snapshots : Cardinality({t \in snapshots : t.version > s.version}) >= limit}

-----------------------------------------------------------------------------
(* A process and its save.                                                 *)

At(p, point) == pc' = [pc EXCEPT ![p] = point]

Change(p, hold) ==
  /\ pc[p] = "idle" /\ used.changes < MaxChanges
  /\ used' = [used EXCEPT !.changes = @ + 1]
  /\ memory' = [memory EXCEPT ![p] = [revision |-> used.changes + 1, hold |-> hold]]
  /\ UNCHANGED <<sqlite, limit, disk, lock, saving, pc, tidy>>

Save(p) ==
  /\ pc[p] = "idle" /\ used.saves < MaxSaves
  /\ used' = [used EXCEPT !.saves = @ + 1]
  /\ saving' = [saving EXCEPT ![p] = memory[p]]
  /\ At(p, "lock")
  /\ UNCHANGED <<sqlite, limit, disk, lock, memory, tidy>>

\* mutant: a save takes the lock as a reader
Lock_Shared(p) ==
  /\ pc[p] = "lock"
  /\ lock' = p
  /\ At(p, "write")
  /\ UNCHANGED <<sqlite, limit, disk, memory, saving, tidy, used>>

Lock(p) ==
  /\ pc[p] = "lock" /\ lock = Nothing
  /\ lock' = p
  /\ At(p, "write")
  /\ UNCHANGED <<sqlite, limit, disk, memory, saving, tidy, used>>

\* mutant: the state file is written in place
ReplaceFile_InPlace(p) ==
  /\ pc[p] = "write" /\ ~sqlite
  /\ file' = (IF file = Torn THEN saving[p] ELSE Torn)
  /\ (IF file = Torn THEN At(p, "sidecar") ELSE UNCHANGED pc)
  /\ tidy' = FALSE
  /\ UNCHANGED <<sqlite, limit, sidecar, history, issued, lock, memory, saving, used>>

\* JSON: a temporary file replaces the state file.
ReplaceFile(p) ==
  /\ pc[p] = "write" /\ ~sqlite
  /\ file' = saving[p]
  /\ At(p, "sidecar")
  /\ tidy' = FALSE
  /\ UNCHANGED <<sqlite, limit, sidecar, history, issued, lock, memory, saving, used>>

\* SQLite: a transaction updates the only row.
CommitState(p) ==
  /\ pc[p] = "write" /\ sqlite
  /\ file' = saving[p]
  /\ At(p, "sidecar")
  /\ tidy' = FALSE
  /\ UNCHANGED <<sqlite, limit, sidecar, history, issued, lock, memory, saving, used>>

\* mutant: an existing sidecar is kept
OpenSidecar_OnlyOnce(p) ==
  /\ pc[p] = "sidecar"
  /\ sidecar' = (IF sidecar = Nothing THEN Torn ELSE sidecar)
  /\ At(p, IF sidecar = Nothing THEN "sidecar_open" ELSE "snapshot")
  /\ UNCHANGED <<sqlite, limit, file, history, issued, lock, memory, saving, tidy, used>>

OpenSidecar(p) ==
  /\ pc[p] = "sidecar"
  /\ sidecar' = Torn
  /\ At(p, "sidecar_open")
  /\ UNCHANGED <<sqlite, limit, file, history, issued, lock, memory, saving, tidy, used>>

WriteSidecar(p) ==
  /\ pc[p] = "sidecar_open"
  /\ sidecar' = saving[p]
  /\ At(p, "snapshot")
  /\ UNCHANGED <<sqlite, limit, file, history, issued, lock, memory, saving, tidy, used>>

\* The payload of a save is local to it.
Forget(p) == saving' = [saving EXCEPT ![p] = Blank]

Return(p, complete) ==
  /\ At(p, "idle") /\ lock' = Nothing /\ tidy' = complete /\ Forget(p)

NoHistory(p) ==
  /\ pc[p] = "snapshot" /\ limit = 0
  /\ Return(p, TRUE)
  /\ UNCHANGED <<sqlite, limit, disk, memory, used>>

OpenSnapshot(p) ==
  /\ pc[p] = "snapshot" /\ limit > 0 /\ ~sqlite
  /\ history' = history \cup {[version |-> NextVersion, copy |-> Torn]}
  /\ issued' = IF NextVersion > issued THEN NextVersion ELSE issued
  /\ At(p, "snapshot_open")
  /\ UNCHANGED <<sqlite, limit, file, sidecar, lock, memory, saving, tidy, used>>

\* mutant: old snapshots go before the new one is written
WriteSnapshot_PruneFirst(p) ==
  /\ pc[p] = "snapshot_open"
  /\ IF \E s \in Stale(history) : ~saving[p].hold
     THEN history' = history \ Stale(history) /\ UNCHANGED pc
     ELSE /\ history' = (history \ {Newest})
                          \cup {[version |-> Newest.version, copy |-> saving[p]]}
          /\ At(p, "prune")
  /\ UNCHANGED <<sqlite, limit, file, sidecar, issued, lock, memory, saving, tidy, used>>

WriteSnapshot(p) ==
  /\ pc[p] = "snapshot_open"
  /\ history' = (history \ {Newest}) \cup {[version |-> Newest.version, copy |-> saving[p]]}
  /\ At(p, "prune")
  /\ UNCHANGED <<sqlite, limit, file, sidecar, issued, lock, memory, saving, tidy, used>>

\* mutant: a legal hold does not keep the snapshots
Prunable_DespiteHold(p) == Stale(history)

\* What this save may still remove.
Prunable(p) == IF saving[p].hold THEN {} ELSE Stale(history)

Prune(p) ==
  /\ pc[p] = "prune"
  /\ \E s \in Prunable(p) : history' = history \ {s}
  /\ UNCHANGED <<sqlite, limit, file, sidecar, issued, lock, memory, saving, pc, tidy, used>>

\* The removals that failed were ignored.
EndPrune(p) ==
  /\ pc[p] = "prune"
  /\ \/ Prunable(p) = {} /\ Return(p, TRUE) /\ UNCHANGED used
     \/ /\ Prunable(p) # {} /\ used.faults < MaxFaults
        /\ Return(p, FALSE)
        /\ used' = [used EXCEPT !.faults = @ + 1]
  /\ UNCHANGED <<sqlite, limit, disk, memory>>

\* SQLite inserts the snapshot and prunes in one transaction.
CommitSnapshot(p) ==
  /\ pc[p] = "snapshot" /\ limit > 0 /\ sqlite
  /\ LET longer == history \cup {[version |-> NextVersion, copy |-> saving[p]]}
     IN  history' = IF saving[p].hold THEN longer ELSE longer \ Stale(longer)
  /\ issued' = NextVersion
  /\ Return(p, TRUE)
  /\ UNCHANGED <<sqlite, limit, file, sidecar, memory, used>>

\* A write fails: the save raises and what is on the disk stays as it is.
Fault(p) ==
  /\ pc[p] \in Writing /\ used.faults < MaxFaults
  /\ used' = [used EXCEPT !.faults = @ + 1]
  /\ At(p, "idle") /\ lock' = Nothing /\ Forget(p)
  /\ UNCHANGED <<sqlite, limit, disk, memory, tidy>>

Crash(p) ==
  /\ pc[p] # "down" /\ used.crashes < MaxCrashes
  /\ used' = [used EXCEPT !.crashes = @ + 1]
  /\ At(p, "down") /\ Forget(p)
  /\ lock' = IF lock = p THEN Nothing ELSE lock
  /\ UNCHANGED <<sqlite, limit, disk, memory, tidy>>

\* The stores raise when there is nothing to load.
Found == file # Nothing

\* A load takes the lock as a reader, so no save is under way.
Load(p) ==
  /\ pc[p] \in {"idle", "down"} /\ lock = Nothing /\ Found
  /\ memory' = [memory EXCEPT ![p] = file]
  /\ At(p, "idle")
  /\ UNCHANGED <<sqlite, limit, disk, lock, saving, tidy, used>>

\* _check_sidecar of evidence.py: does the sidecar belong to the state?
SidecarCheck ==
  CASE sidecar = Nothing -> "skipped" [] sidecar = file -> "passed" [] OTHER -> "failed"

-----------------------------------------------------------------------------
Next ==
  \/ \E p \in Processes :
       \/ \E hold \in BOOLEAN : Change(p, hold)
       \/ Save(p) \/ Lock(p) \/ ReplaceFile(p) \/ CommitState(p)
       \/ OpenSidecar(p) \/ WriteSidecar(p)
       \/ NoHistory(p) \/ OpenSnapshot(p) \/ WriteSnapshot(p) \/ Prune(p) \/ EndPrune(p)
       \/ CommitSnapshot(p) \/ Fault(p) \/ Crash(p) \/ Load(p)

Spec == Init /\ [][Next]_vars
=============================================================================
