------------------------ MODULE StateStoreProperties ------------------------
(***************************************************************************)
(* What a state file, its sidecar and its history owe each other.          *)
(***************************************************************************)
EXTENDS StateStore

\* The store as the processes that save through it see it.
Register == INSTANCE DurableState WITH
  stored <- file,
  wanted <- [p \in Processes |-> IF pc[p] \in {"lock"} \cup Writing THEN saving[p]
                                 ELSE Nothing],
  installed <- IF lock # Nothing /\ pc[lock] # "write" THEN lock ELSE Nothing

\* JsonStateStore.save replaces the file and SqliteStateStore.save commits under
\* the exclusive lock, so whatever fails, crashes or runs concurrently, the state
\* file changes only to a whole payload that a process is saving, and stays that
\* payload until the save has returned.
ImplementsRegister == Register!Spec

\* From the replacement of the state file to the return of save, what a load would
\* return is what this process saved: an acknowledged save is a durable one.
SavedStays == \A p \in Processes : pc[p] \in Writing \ {"write"} => file = saving[p]

\* When no save is under way and the last one to write was not cut short, the
\* sidecar belongs to the state, the newest snapshot is a copy of it, and without
\* a hold the history is within its limit: what an audit at rest relies on.
AtRestConsistent ==
  lock = Nothing /\ tidy /\ file # Nothing =>
    /\ SidecarCheck = "passed"
    /\ limit > 0 => history # {} /\ LoadSnapshot(Newest.version) = file
    /\ ~file.hold => Cardinality(history) <= limit

\* A snapshot, once complete, is never overwritten, and no version is used twice,
\* whatever was pruned in between: load_state_snapshot(v) means one state for ever.
VersionsAreUnique ==
  [][/\ \A v \in Versions : LoadSnapshot(v)' \in {LoadSnapshot(v), Nothing} \/ LoadSnapshot(v) = Torn
     /\ \A t \in history' : t.version \notin Versions => t.version > issued]_vars

Complete(snapshots) == {s \in snapshots : s.copy # Torn}

\* Once there is a complete snapshot to go back to, there always is one: a save
\* that dies or fails, and the retention of the saves after it, never take the last.
HistoryKeepsOne ==
  [][Complete(history) # {} => Complete(history') # {}]_vars

\* As long as the state file says legal hold, no snapshot disappears, whichever
\* process saves and wherever its save is cut short.
HeldIsKept ==
  [][Versions \ {s.version : s \in history'} # {} => ~file.hold]_vars

\* Together: the parts of a stored project belong together whenever nobody saves,
\* and from the replacement of the state to the end of its save.
StoreIsConsistent == TypeOK /\ SavedStays /\ AtRestConsistent

\* Together: neither a cut-short save nor retention takes the last complete
\* snapshot, or any snapshot under a hold.
HistoryIsKept == HistoryKeepsOne /\ HeldIsKept
=============================================================================
