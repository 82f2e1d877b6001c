-------------------------- MODULE StateStoreProofs --------------------------
(***************************************************************************)
(* The state file of a store is a register: StateStore implements          *)
(* DurableState for every set of processes, both backends and every bound. *)
(* Sidecar, snapshots and history agree with it whenever nobody saves.     *)
(***************************************************************************)
EXTENDS StateStoreProperties, NaturalLemmas

\* One process writes at a time, and it holds the lock.
Exclusive == \A p \in Processes : pc[p] \in Writing <=> lock = p

\* How much of each bound is used up.
Usage == [changes : Nat, saves : Nat, faults : Nat, crashes : Nat]

\* The part of the type invariant that the register rests on.
Typed ==
  /\ file \in Payloads \cup {Nothing}
  /\ lock \in Processes \cup {Nothing}
  /\ memory \in [Processes -> Payloads]
  /\ saving \in [Processes -> Payloads]
  /\ pc \in [Processes -> Points]
  /\ used \in Usage

\* What is inductive about the lock.
Locked == Typed /\ Exclusive

\* The variables that mutual exclusion depends on.
core == <<file, lock, memory, saving, pc>>

\* The state of a new project is a payload.
LEMMA BlankIsPayload == Blank \in Payloads
BY DEF Blank, Payloads

\* Counting a use keeps the counters natural numbers.
LEMMA UsageGrows ==
  ASSUME NEW u \in Usage
  PROVE  /\ [u EXCEPT !.changes = @ + 1] \in Usage /\ [u EXCEPT !.saves = @ + 1] \in Usage
         /\ [u EXCEPT !.faults = @ + 1] \in Usage /\ [u EXCEPT !.crashes = @ + 1] \in Usage
BY DEF Usage

-----------------------------------------------------------------------------
(* The steps of a save, by what they do to the lock and the state file.    *)

\* A step within a save.
Advance(p, point) ==
  /\ lock = p /\ point \in Writing /\ At(p, point)
  /\ UNCHANGED <<lock, memory, saving, used>>

\* A step that ends a save, well or not.
Leave(p) ==
  /\ lock = p /\ lock' = Nothing /\ Forget(p)
  /\ At(p, "idle") \/ At(p, "down")
  /\ UNCHANGED <<file, memory>> /\ used' \in Usage

\* Within a save the lock stays where it is.
LEMMA AdvanceLocked ==
  ASSUME Locked, NEW p \in Processes, NEW point, Advance(p, point),
         file' \in Payloads \cup {Nothing}
  PROVE  Locked'
BY DEF Advance, Locked, Typed, Exclusive, At, Points, Writing

\* A save that ends leaves the lock free and nobody writing.
LEMMA LeaveLocked ==
  ASSUME Locked, NEW p \in Processes, Leave(p)
  PROVE  Locked'
<1>1. Typed'
  BY BlankIsPayload DEF Leave, Locked, Typed, At, Forget, Points
<1>2. Exclusive'
  BY StoreAssumption DEF Leave, Locked, Typed, Exclusive, At, Writing
<1> QED BY <1>1, <1>2 DEF Locked

\* A process that is not writing moves to a place where it does not write.
LEMMA OutsideLocked ==
  ASSUME Locked, NEW p \in Processes, NEW point \in {"idle", "lock", "down"},
         pc[p] \notin Writing, At(p, point), UNCHANGED <<file, lock>>,
         memory' \in [Processes -> Payloads], saving' \in [Processes -> Payloads],
         used' \in Usage
  PROVE  Locked'
BY DEF Locked, Typed, Exclusive, At, Points, Writing

-----------------------------------------------------------------------------
\* Initially nobody writes.
LEMMA LockedInit == Init => Locked
BY StoreAssumption, BlankIsPayload
   DEF Init, Locked, Typed, Exclusive, Points, Writing, Usage

\* What each action amounts to.
LEMMA Steps ==
  ASSUME Locked, NEW p \in Processes
  PROVE  /\ OpenSidecar(p) => Advance(p, "sidecar_open") /\ UNCHANGED file
         /\ WriteSidecar(p) => Advance(p, "snapshot") /\ UNCHANGED file
         /\ OpenSnapshot(p) => Advance(p, "snapshot_open") /\ UNCHANGED file
         /\ WriteSnapshot(p) => Advance(p, "prune") /\ UNCHANGED file
         /\ ReplaceFile(p) \/ CommitState(p) => 
               pc[p] = "write" /\ Advance(p, "sidecar") /\ file' = saving[p]
         /\ NoHistory(p) \/ CommitSnapshot(p) \/ EndPrune(p) =>
               Leave(p) /\ At(p, "idle") /\ pc[p] # "write"
         /\ Fault(p) => Leave(p)
<1> USE DEF Locked, Typed, Exclusive, Writing
<1>1. OpenSidecar(p) => Advance(p, "sidecar_open") /\ UNCHANGED file
  BY DEF OpenSidecar, Advance
<1>2. WriteSidecar(p) => Advance(p, "snapshot") /\ UNCHANGED file
  BY DEF WriteSidecar, Advance
<1>3. OpenSnapshot(p) => Advance(p, "snapshot_open") /\ UNCHANGED file
  BY DEF OpenSnapshot, Advance
<1>4. WriteSnapshot(p) => Advance(p, "prune") /\ UNCHANGED file
  BY DEF WriteSnapshot, Advance
<1>5. ReplaceFile(p) \/ CommitState(p) =>
        pc[p] = "write" /\ Advance(p, "sidecar") /\ file' = saving[p]
  BY DEF ReplaceFile, CommitState, Advance
<1>6. NoHistory(p) \/ CommitSnapshot(p) => Leave(p) /\ At(p, "idle") /\ pc[p] # "write"
  BY DEF NoHistory, CommitSnapshot, Leave, Return, disk
<1>7. EndPrune(p) => Leave(p) /\ At(p, "idle") /\ pc[p] # "write"
  BY UsageGrows DEF EndPrune, Leave, Return, disk
<1>8. Fault(p) => Leave(p)
  BY UsageGrows DEF Fault, Leave, disk
<1> QED BY <1>1, <1>2, <1>3, <1>4, <1>5, <1>6, <1>7, <1>8

\* No step loses the exclusion.
LEMMA LockedStep == Locked /\ [Next]_vars => Locked'
<1> SUFFICES ASSUME Locked, [Next]_vars PROVE Locked'
  OBVIOUS
<1> USE DEF disk
<1>1. CASE UNCHANGED <<core, used>>
  BY <1>1 DEF core, Locked, Typed, Exclusive
<1>2. ASSUME NEW p \in Processes, NEW hold \in BOOLEAN, Change(p, hold) PROVE Locked'
  <2>1. pc[p] = "idle" /\ UNCHANGED <<file, lock, saving, pc>> /\ used' \in Usage
    BY <1>2, UsageGrows DEF Change, Locked, Typed
  <2>2. [revision |-> used.changes + 1, hold |-> hold] \in Payloads
    BY DEF Locked, Typed, Usage, Payloads
  <2>3. memory' \in [Processes -> Payloads]
    BY <1>2, <2>2 DEF Change, Locked, Typed
  <2> QED BY <2>1, <2>3 DEF Locked, Typed, Exclusive
<1>3. ASSUME NEW p \in Processes, Save(p) PROVE Locked'
  <2>1. pc[p] \notin Writing /\ At(p, "lock") /\ UNCHANGED <<file, lock>>
    BY <1>3 DEF Save, Writing
  <2>2. memory' \in [Processes -> Payloads] /\ saving' \in [Processes -> Payloads]
    BY <1>3 DEF Save, Locked, Typed
  <2>3. used' \in Usage
    BY <1>3, UsageGrows DEF Save, Locked, Typed
  <2> QED BY <2>1, <2>2, <2>3, OutsideLocked
<1>4. ASSUME NEW p \in Processes, Lock(p) PROVE Locked'
  BY <1>4, StoreAssumption DEF Lock, At, Locked, Typed, Exclusive, Writing, Points
<1>5. ASSUME NEW p \in Processes,
             ReplaceFile(p) \/ CommitState(p) \/ OpenSidecar(p) \/ WriteSidecar(p)
               \/ OpenSnapshot(p) \/ WriteSnapshot(p)
      PROVE  Locked'
  <2>1. PICK point : Advance(p, point) /\ file' \in {file, saving[p]}
    BY <1>5, Steps
  <2>2. file' \in Payloads \cup {Nothing}
    BY <2>1 DEF Locked, Typed
  <2> QED BY <2>1, <2>2, AdvanceLocked
<1>6. ASSUME NEW p \in Processes,
             NoHistory(p) \/ CommitSnapshot(p) \/ EndPrune(p) \/ Fault(p)
      PROVE  Locked'
  BY <1>6, Steps, LeaveLocked
<1>7. ASSUME NEW p \in Processes, Prune(p) PROVE Locked'
  BY <1>7 DEF Prune, Locked, Typed, Exclusive
<1>8. ASSUME NEW p \in Processes, Crash(p) PROVE Locked'
  <2>1. used' \in Usage /\ UNCHANGED <<file, memory>> /\ At(p, "down") /\ Forget(p)
    BY <1>8, UsageGrows DEF Crash, Locked, Typed
  <2>2. CASE lock = p
    BY <1>8, <2>1, <2>2, LeaveLocked DEF Crash, Leave
  <2>3. CASE lock # p
    <3>1. saving' \in [Processes -> Payloads]
      BY <2>1, BlankIsPayload DEF Forget, Locked, Typed
    <3>2. pc[p] \notin Writing /\ UNCHANGED lock
      BY <1>8, <2>3 DEF Crash, Locked, Exclusive
    <3>3. memory' \in [Processes -> Payloads]
      BY <2>1 DEF Locked, Typed
    <3> QED BY <2>1, <3>1, <3>2, <3>3, OutsideLocked
  <2> QED BY <2>2, <2>3
<1>9. ASSUME NEW p \in Processes, Load(p) PROVE Locked'
  <2>1. pc[p] \notin Writing /\ At(p, "idle") /\ UNCHANGED <<file, lock, used>>
    BY <1>9 DEF Load, Writing
  <2>2. memory' \in [Processes -> Payloads] /\ saving' \in [Processes -> Payloads]
    BY <1>9 DEF Load, Found, Locked, Typed
  <2> QED BY <2>1, <2>2, OutsideLocked DEF Locked, Typed
<1> QED
  BY <1>1, <1>2, <1>3, <1>4, <1>5, <1>6, <1>7, <1>8, <1>9
     DEF Next, vars, core

\* One process writes at a time, whoever crashes and whatever fails.
THEOREM Exclusion == Spec => []Locked
<1>1. Locked /\ UNCHANGED vars => Locked'
  BY LockedStep
<1> QED BY LockedInit, LockedStep, PTL DEF Spec

-----------------------------------------------------------------------------
(* The refinement.                                                         *)

\* The mapping of the register: what each process wants to be stored.
Wanted == [p \in Processes |-> IF pc[p] \in {"lock"} \cup Writing THEN saving[p]
                               ELSE Nothing]

\* The process that has replaced the state file and not yet returned.
Installed == IF lock # Nothing /\ pc[lock] # "write" THEN lock ELSE Nothing

\* A process that saves wants a payload, and only such a process wants one.
LEMMA WantedPayload ==
  ASSUME Locked, NEW p \in Processes
  PROVE  Wanted[p] # Nothing <=> pc[p] \in {"lock"} \cup Writing
BY SentinelAssumption DEF Locked, Typed, Wanted

\* What a step within a save is to the register.
LEMMA AdvanceMaps ==
  ASSUME Locked, NEW p \in Processes, NEW point, Advance(p, point), point # "write"
  PROVE  /\ Wanted' = Wanted
         /\ Installed' = p
         /\ pc[p] = "write" => Installed = Nothing
         /\ pc[p] # "write" => Installed = p
BY StoreAssumption
   DEF Locked, Typed, Exclusive, Advance, At, Wanted, Installed, Writing

\* What the end of a save is to the register.
LEMMA LeaveMaps ==
  ASSUME Locked, NEW p \in Processes, Leave(p)
  PROVE  /\ Wanted' = [Wanted EXCEPT ![p] = Nothing]
         /\ Installed' = Nothing
         /\ Installed = IF pc[p] = "write" THEN Nothing ELSE p
         /\ Wanted[p] # Nothing
<1>1. Wanted' = [Wanted EXCEPT ![p] = Nothing]
  BY DEF Locked, Typed, Leave, At, Forget, Wanted, Writing
<1>2. Installed' = Nothing
  BY DEF Leave, Installed
<1>3. Installed = IF pc[p] = "write" THEN Nothing ELSE p
  BY StoreAssumption DEF Leave, Installed
<1>4. Wanted[p] # Nothing
  BY WantedPayload DEF Leave, Locked, Exclusive
<1> QED BY <1>1, <1>2, <1>3, <1>4

\* The register as the processes see it, in the terms of the store.
LEMMA RegisterActions ==
  ASSUME NEW p \in Processes
  PROVE  /\ Wanted[p] = Nothing /\ Wanted'[p] \in Payloads
              /\ Wanted' = [Wanted EXCEPT ![p] = Wanted'[p]]
              /\ UNCHANGED <<file, Installed>> => Register!Next
         /\ Wanted[p] # Nothing /\ Installed = Nothing /\ file' = Wanted[p]
              /\ Installed' = p /\ UNCHANGED Wanted => Register!Next
         /\ Installed = p /\ Wanted' = [Wanted EXCEPT ![p] = Nothing]
              /\ Installed' = Nothing /\ UNCHANGED file => Register!Next
         /\ Wanted[p] # Nothing /\ Wanted' = [Wanted EXCEPT ![p] = Nothing]
              /\ Installed' = (IF Installed = p THEN Nothing ELSE Installed)
              /\ UNCHANGED file => Register!Next
BY DEF Register!Next, Register!Begin, Register!Install, Register!Return,
       Register!Abort, Wanted, Installed

\* A step that leaves the state file, the wishes and the installer alone.
LEMMA RegisterStutters ==
  UNCHANGED <<file, Wanted, Installed>> => [Register!Next]_(Register!vars)
BY DEF Register!vars, Wanted, Installed

\* The initial register is empty.
LEMMA RegisterInit == Init => Register!Init
BY DEF Init, Register!Init, Writing

\* Every step of the store is a step of the register or none at all.
LEMMA RegisterStep == Locked /\ [Next]_vars => [Register!Next]_(Register!vars)
<1> SUFFICES ASSUME Locked, [Next]_vars PROVE [Register!Next]_(Register!vars)
  OBVIOUS
<1> USE DEF disk
<1>1. CASE UNCHANGED <<file, lock, saving, pc>>
  BY <1>1, RegisterStutters DEF Wanted, Installed
<1>2. ASSUME NEW p \in Processes, Save(p) PROVE Register!Next
  <2>1. pc[p] = "idle" /\ At(p, "lock") /\ UNCHANGED <<file, lock>>
    BY <1>2 DEF Save
  <2>2. saving' = [saving EXCEPT ![p] = memory[p]]
    BY <1>2 DEF Save
  <2>3. Wanted[p] = Nothing /\ Wanted'[p] = memory[p]
    BY <2>1, <2>2 DEF Wanted, At, Locked, Typed, Writing
  <2>4. Wanted' = [Wanted EXCEPT ![p] = Wanted'[p]]
    BY <2>1, <2>2, <2>3 DEF Wanted, At, Locked, Typed, Writing
  <2>5. UNCHANGED Installed
    BY <2>1, StoreAssumption DEF Installed, At, Locked, Typed, Exclusive, Writing
  <2>6. Wanted'[p] \in Payloads
    BY <2>3 DEF Locked, Typed
  <2> QED BY <2>1, <2>3, <2>4, <2>5, <2>6, RegisterActions
<1>3. ASSUME NEW p \in Processes, Lock(p) PROVE [Register!Next]_(Register!vars)
  <2>1. Wanted' = Wanted
    BY <1>3 DEF Lock, Wanted, At, Locked, Typed, Writing
  <2>2. Installed = Nothing /\ Installed' = Nothing /\ UNCHANGED file
    BY <1>3 DEF Lock, Installed, At, Locked, Typed
  <2> QED BY <2>1, <2>2, RegisterStutters
<1>4. ASSUME NEW p \in Processes, ReplaceFile(p) \/ CommitState(p) PROVE Register!Next
  <2>1. pc[p] = "write" /\ Advance(p, "sidecar") /\ file' = saving[p]
    BY <1>4, Steps
  <2>2. Wanted' = Wanted /\ Installed' = p /\ Installed = Nothing
    BY <2>1, AdvanceMaps
  <2>3. Wanted[p] = saving[p] /\ Wanted[p] # Nothing
    BY <2>1, WantedPayload DEF Wanted, Writing
  <2> QED BY <2>1, <2>2, <2>3, RegisterActions
<1>5. ASSUME NEW p \in Processes,
             OpenSidecar(p) \/ WriteSidecar(p) \/ OpenSnapshot(p) \/ WriteSnapshot(p)
      PROVE  [Register!Next]_(Register!vars)
  <2>1. PICK point \in {"sidecar_open", "snapshot", "snapshot_open", "prune"} :
          Advance(p, point) /\ UNCHANGED file
    BY <1>5, Steps
  <2>2. pc[p] # "write"
    BY <1>5 DEF OpenSidecar, WriteSidecar, OpenSnapshot, WriteSnapshot
  <2> QED BY <2>1, <2>2, AdvanceMaps, RegisterStutters
<1>6. ASSUME NEW p \in Processes, NoHistory(p) \/ CommitSnapshot(p) \/ EndPrune(p)
      PROVE  Register!Next
  <2>1. Leave(p) /\ pc[p] # "write" /\ UNCHANGED file
    BY <1>6, Steps DEF Leave
  <2> QED BY <2>1, LeaveMaps, RegisterActions
<1>7. ASSUME NEW p \in Processes, Leave(p) PROVE Register!Next
  <2>1. UNCHANGED file
    BY <1>7 DEF Leave
  <2> QED BY <1>7, <2>1, LeaveMaps, RegisterActions, StoreAssumption
<1>8. ASSUME NEW p \in Processes, Crash(p) PROVE [Register!Next]_(Register!vars)
  <2>1. CASE lock = p
    BY <1>7, <1>8, <2>1, UsageGrows DEF Crash, Leave, Locked, Typed
  <2>2. CASE lock # p
    <3>1. pc[p] \notin Writing /\ UNCHANGED <<file, lock>> /\ At(p, "down") /\ Forget(p)
      BY <1>8, <2>2 DEF Crash, Locked, Exclusive
    <3>2. Wanted' = [Wanted EXCEPT ![p] = Nothing]
      BY <3>1 DEF Wanted, At, Forget, Locked, Typed, Writing
    <3>3. UNCHANGED Installed /\ Installed # p
      BY <2>2, <3>1, StoreAssumption DEF Installed, At, Locked, Typed, Exclusive, Writing
    <3>4. CASE pc[p] = "lock"
      BY <3>1, <3>2, <3>3, <3>4, WantedPayload, RegisterActions
    <3>5. CASE pc[p] # "lock"
      <4>1. Wanted' = Wanted
        BY <3>1, <3>2, <3>5 DEF Wanted
      <4> QED BY <3>1, <3>3, <4>1, RegisterStutters
    <3> QED BY <3>4, <3>5
  <2> QED BY <2>1, <2>2
<1>9. ASSUME NEW p \in Processes, Load(p) PROVE [Register!Next]_(Register!vars)
  <2>1. Wanted' = Wanted
    BY <1>9 DEF Load, Wanted, At, Locked, Typed, Writing
  <2>2. UNCHANGED <<file, Installed>>
    BY <1>9 DEF Load, Installed
  <2> QED BY <2>1, <2>2, RegisterStutters
<1>10. ASSUME NEW p \in Processes, NEW hold \in BOOLEAN, Change(p, hold)
       PROVE  [Register!Next]_(Register!vars)
  BY <1>1, <1>10 DEF Change
<1>11. ASSUME NEW p \in Processes, Prune(p) PROVE [Register!Next]_(Register!vars)
  BY <1>1, <1>11 DEF Prune
<1>12. ASSUME NEW p \in Processes, Fault(p) PROVE Register!Next
  BY <1>7, <1>12, Steps
<1>13. CASE UNCHANGED vars
  BY <1>1, <1>13 DEF vars
<1> QED
  BY <1>2, <1>3, <1>4, <1>5, <1>6, <1>8, <1>9, <1>10, <1>11, <1>12, <1>13
     DEF Next

\* The state file is a register: it changes only to what somebody is saving, in
\* one step, and stays that until the save returns.
THEOREM StoreIsRegister == Spec => ImplementsRegister
<1> USE DEF ImplementsRegister
<1> QED BY RegisterInit, RegisterStep, LockedInit, LockedStep, PTL
        DEF Spec, Register!Spec

-----------------------------------------------------------------------------
\* No step of a save changes the state file after the replacement.
LEMMA SavedStaysStep == Locked /\ SavedStays /\ [Next]_vars => SavedStays'
<1> USE DEF SavedStays
<1> SUFFICES ASSUME Locked, SavedStays, [Next]_vars, NEW p \in Processes,
                    pc'[p] \in Writing \ {"write"}
             PROVE  file' = saving'[p]
  OBVIOUS
<1> USE DEF Locked, Typed, Exclusive, At, disk
<1>1. CASE UNCHANGED <<file, saving, pc>>
  BY <1>1
<1>2. ASSUME NEW q \in Processes, ReplaceFile(q) \/ CommitState(q)
      PROVE  file' = saving'[p]
  <2>1. pc[q] = "write" /\ Advance(q, "sidecar") /\ file' = saving[q]
    BY <1>2, Steps
  <2>2. p = q
    BY <2>1 DEF Advance, Writing
  <2> QED BY <2>1, <2>2 DEF Advance
<1>3. ASSUME NEW q \in Processes,
             OpenSidecar(q) \/ WriteSidecar(q) \/ OpenSnapshot(q) \/ WriteSnapshot(q)
      PROVE  file' = saving'[p]
  BY <1>3, Steps DEF Advance, OpenSidecar, WriteSidecar, OpenSnapshot, WriteSnapshot,
                     Writing
<1>4. ASSUME NEW q \in Processes, Leave(q) PROVE file' = saving'[p]
  BY <1>4 DEF Leave, Forget, Writing
<1>5. ASSUME NEW q \in Processes, Save(q) PROVE file' = saving'[p]
  BY <1>5 DEF Save, Writing
<1>6. ASSUME NEW q \in Processes, Crash(q) PROVE file' = saving'[p]
  BY <1>6 DEF Crash, Forget, Writing
<1>7. ASSUME NEW q \in Processes, Lock(q) \/ Load(q) PROVE file' = saving'[p]
  BY <1>7 DEF Lock, Load, Writing
<1>8. ASSUME NEW q \in Processes, NoHistory(q) \/ CommitSnapshot(q) \/ EndPrune(q) \/ Fault(q)
      PROVE  file' = saving'[p]
  BY <1>4, <1>8, Steps
<1>9. ASSUME NEW q \in Processes, NEW hold \in BOOLEAN, Change(q, hold) \/ Prune(q)
      PROVE  file' = saving'[p]
  BY <1>1, <1>9 DEF Change, Prune
<1>10. CASE UNCHANGED vars
  BY <1>1, <1>10 DEF vars
<1> QED BY <1>2, <1>3, <1>5, <1>6, <1>7, <1>8, <1>9, <1>10 DEF Next

\* When a save is about to return, what it saved is what a load would return.
THEOREM SavedStateStays == Spec => []SavedStays
<1>1. Init => SavedStays
  BY DEF Init, Writing, SavedStays
<1> QED BY <1>1, SavedStaysStep, LockedInit, LockedStep, PTL DEF Spec

-----------------------------------------------------------------------------
(* The history and the sidecar.                                            *)

\* Snapshots are numbered without repetition up to issued, which the newest one
\* has: retention never removes that one.
Ordered ==
  /\ IsFiniteSet(history) /\ history \subseteq Snapshot
  /\ issued \in Nat /\ limit \in Nat /\ sqlite \in BOOLEAN
  /\ \A s \in history : 0 < s.version /\ s.version <= issued
  /\ \A s, t \in history : s.version = t.version => s = t
  /\ issued > 0 => \E s \in history : s.version = issued
  /\ limit = 0 => issued = 0

\* What a save has done when it has come that far.
Stages ==
  \A p \in Processes :
    /\ pc[p] \in {"snapshot", "snapshot_open", "prune"} => sidecar = saving[p]
    /\ pc[p] = "snapshot_open" => issued > 0 /\ Newest.copy = Torn
    /\ pc[p] = "prune" => issued > 0 /\ Newest.copy = saving[p]
    /\ pc[p] \in Writing \ {"write"} => ~tidy

\* What the last save to write left behind, if it was complete.
Tidied ==
  tidy /\ file # Nothing =>
    /\ sidecar = file
    /\ limit > 0 => issued > 0 /\ Newest.copy = file
    /\ ~file.hold => Cardinality(history) <= limit

\* What is inductive about the stored parts.
Stored == Locked /\ SavedStays /\ Ordered /\ Stages /\ Tidied

\* No two snapshots of H have the same version.
DistinctVersions(H) == \A s, t \in H : s.version = t.version => s = t

\* The newest of some snapshots is the one with the highest version.
LEMMA NewestOf ==
  ASSUME NEW H, H \subseteq Snapshot, DistinctVersions(H),
         NEW n \in H, \A t \in H : t.version <= n.version
  PROVE  (CHOOSE s \in H : \A t \in H : t.version <= s.version) = n
<1> DEFINE m == CHOOSE s \in H : \A t \in H : t.version <= s.version
<1>1. m \in H /\ \A t \in H : t.version <= m.version
  OBVIOUS
<1>2. m.version \in Nat /\ n.version \in Nat
  BY <1>1 DEF Snapshot
<1> HIDE DEF m
<1>3. m.version = n.version
  BY <1>1, <1>2
<1>4. m = n
  BY <1>1, <1>3 DEF DistinctVersions
<1>5. QED BY <1>4 DEF m

\* It has the highest version ever used, and the next one gets the version after it.
LEMMA NewestIsIssued ==
  ASSUME Ordered
  PROVE  /\ NextVersion = issued + 1
         /\ issued > 0 => /\ Newest \in history /\ Newest.version = issued
                          /\ \A s \in history : s.version = issued => s = Newest
         /\ issued = 0 => history = {}
<1>1. issued = 0 => history = {}
  BY DEF Ordered, Snapshot
<1>2. ASSUME NEW n \in history, n.version = issued
      PROVE  Newest = n
  BY <1>2, NewestOf DEF Ordered, DistinctVersions, Newest
<1>3. issued > 0 => /\ Newest \in history /\ Newest.version = issued
                    /\ \A s \in history : s.version = issued => s = Newest
  BY <1>2 DEF Ordered
<1>4. history # {} => issued > 0
  BY DEF Ordered, Snapshot
<1>5. NextVersion = issued + 1
  BY <1>1, <1>3, <1>4 DEF NextVersion, Ordered
<1>6. QED BY <1>1, <1>3, <1>5

\* Of the snapshots that retention keeps there are at most limit: all but one of
\* them are newer than the oldest one.
LEMMA KeptAreFew ==
  ASSUME limit \in Nat, NEW H, IsFiniteSet(H), H \subseteq Snapshot, DistinctVersions(H)
  PROVE  /\ IsFiniteSet(H \ Stale(H))
         /\ Cardinality(H \ Stale(H)) <= limit
<1> DEFINE K == H \ Stale(H)
           V == {s.version : s \in K}
<1>1. K \subseteq H /\ IsFiniteSet(K)
  BY FS_Subset
<1>2. CASE K = {}
  BY <1>1, <1>2, FS_EmptySet
<1>3. CASE K # {}
  <2>1. V \in SUBSET Nat /\ V # {}
    BY <1>1, <1>3 DEF Snapshot
  <2>2. PICK v \in V : \A w \in V : v <= w
    <3> HIDE DEF V
    <3> QED BY <2>1, LeastNatural
  <2>3. PICK s \in K : s.version = v
    BY <2>2
  <2> DEFINE Newer == {t \in H : t.version > s.version}
  <2>4. s \in H /\ s.version \in Nat /\ ~ Cardinality(Newer) >= limit
    BY <2>3, <1>1 DEF Stale, Snapshot
  <2>5. IsFiniteSet(Newer) /\ Cardinality(Newer) \in Nat
    <3>1. Newer \in SUBSET H
      OBVIOUS
    <3> HIDE DEF Newer
    <3>2. QED BY <3>1, FS_Subset, FS_CardinalityType
  <2>6. K \ {s} \subseteq Newer
    <3> SUFFICES ASSUME NEW t \in K, t # s PROVE t \in Newer
      OBVIOUS
    <3>1. t \in H /\ t.version \in Nat /\ t.version \in V
      BY <1>1 DEF Snapshot
    <3>2. t.version # s.version
      BY <3>1, <2>4 DEF DistinctVersions
    <3>3. s.version <= t.version
      BY <2>2, <2>3, <3>1
    <3>4. QED BY <2>4, <3>1, <3>2, <3>3
  <2> HIDE DEF Newer, K
  <2>7. Cardinality(K \ {s}) <= Cardinality(Newer)
    BY <2>5, <2>6, FS_Subset
  <2>8. Cardinality(K \ {s}) = Cardinality(K) - 1
    BY <1>1, <2>3, FS_RemoveElement
  <2>9. Cardinality(K) \in Nat
    BY <1>1, FS_CardinalityType
  <2>10. Cardinality(K) <= limit
    BY <2>4, <2>5, <2>7, <2>8, <2>9
  <2>11. QED BY <1>1, <2>10 DEF K
<1>4. QED BY <1>2, <1>3

\* Retention never drops the newest snapshot.
LEMMA NewestIsKept ==
  ASSUME limit \in Nat, limit > 0, NEW H, H \subseteq Snapshot,
         NEW n \in H, \A t \in H : t.version <= n.version
  PROVE  n \notin Stale(H)
<1>1. {t \in H : t.version > n.version} = {}
  BY DEF Snapshot
<1>2. Cardinality({t \in H : t.version > n.version}) = 0
  BY <1>1, FS_EmptySet
<1>3. QED BY <1>2 DEF Stale

\* JSON: the next version appears, torn.
LEMMA SnapshotOpened ==
  ASSUME Ordered, NEW p \in Processes, OpenSnapshot(p)
  PROVE  Ordered' /\ issued' > 0 /\ Newest'.copy = Torn /\ issued' = issued + 1
<1> DEFINE new == [version |-> issued + 1, copy |-> Torn]
<1>1. NextVersion = issued + 1
  BY NewestIsIssued
<1>2. history' = history \cup {new} /\ issued' = issued + 1 /\ limit > 0
      /\ UNCHANGED <<sqlite, limit>>
  BY <1>1 DEF OpenSnapshot, Ordered
<1>3. IsFiniteSet(history')
  BY <1>2, FS_AddElement DEF Ordered
<1>4. new \in Snapshot /\ new.version = issued + 1 /\ new.copy = Torn
  BY DEF Snapshot, Ordered
<1> HIDE DEF new
<1>5. \A s \in history' : (s \in history /\ s.version <= issued /\ 0 < s.version /\ s.version \in Nat) \/ s = new
  BY <1>2 DEF Ordered, Snapshot
<1>6. Ordered'
  <2>1. \A s, t \in history' : s.version = t.version => s = t
    BY <1>4, <1>5 DEF Ordered
  <2>2. history' \subseteq Snapshot
    BY <1>2, <1>4 DEF Ordered
  <2>3. \A s \in history' : 0 < s.version /\ s.version <= issued'
    BY <1>2, <1>4, <1>5 DEF Ordered
  <2>4. \E s \in history' : s.version = issued'
    BY <1>2, <1>4
  <2>5. QED BY <1>2, <1>3, <2>1, <2>2, <2>3, <2>4 DEF Ordered
<1>7. Newest' = new
  <2>1. new \in history' /\ \A t \in history' : t.version <= new.version
    BY <1>2, <1>4, <1>5 DEF Ordered
  <2>2. history' \subseteq Snapshot /\ DistinctVersions(history')
    BY <1>6 DEF Ordered, DistinctVersions
  <2>3. QED BY <2>1, <2>2, NewestOf DEF Newest
<1>8. issued' > 0
  BY <1>2 DEF Ordered
<1>9. QED BY <1>2, <1>4, <1>6, <1>7, <1>8

\* Then it is written: the newest snapshot becomes a copy.
LEMMA SnapshotWritten ==
  ASSUME Ordered, issued > 0, NEW p \in Processes, WriteSnapshot(p), saving[p] \in Payloads
  PROVE  /\ Ordered' /\ issued' = issued /\ Newest'.copy = saving[p] /\ Newest' \in history'
         /\ \A s \in history' : s = Newest' \/ s \in history \ {Newest}
         /\ history \ {Newest} \subseteq history' /\ Newest'.version = issued
<1> DEFINE new == [version |-> Newest.version, copy |-> saving[p]]
<1>1. Newest \in history /\ Newest.version = issued
  BY NewestIsIssued
<1>2. history' = (history \ {Newest}) \cup {new}
      /\ UNCHANGED <<sqlite, limit, issued>>
  BY DEF WriteSnapshot
<1>3. IsFiniteSet(history')
  BY <1>2, FS_AddElement, FS_RemoveElement DEF Ordered
<1>4. new \in Snapshot /\ new.version = issued /\ new.copy = saving[p]
  BY <1>1 DEF Snapshot, Ordered
<1> HIDE DEF new
<1>5. \A s \in history' : (s \in history /\ s.version <= issued /\ 0 < s.version /\ s.version \in Nat
                             /\ s.version # issued) \/ s = new
  BY <1>1, <1>2 DEF Ordered, Snapshot
<1>6. Ordered'
  <2>1. \A s, t \in history' : s.version = t.version => s = t
    BY <1>4, <1>5 DEF Ordered
  <2>2. history' \subseteq Snapshot
    BY <1>2, <1>4 DEF Ordered
  <2>3. \A s \in history' : 0 < s.version /\ s.version <= issued'
    BY <1>2, <1>4, <1>5 DEF Ordered
  <2>4. \E s \in history' : s.version = issued'
    BY <1>2, <1>4
  <2>5. QED BY <1>2, <1>3, <2>1, <2>2, <2>3, <2>4 DEF Ordered
<1>7. Newest' = new
  <2>1. new \in history' /\ \A t \in history' : t.version <= new.version
    BY <1>2, <1>4, <1>5 DEF Ordered
  <2>2. history' \subseteq Snapshot /\ DistinctVersions(history')
    BY <1>6 DEF Ordered, DistinctVersions
  <2>3. QED BY <2>1, <2>2, NewestOf DEF Newest
<1>8. QED BY <1>2, <1>4, <1>6, <1>7

\* Some snapshots but the newest one go.
LEMMA SnapshotsDropped ==
  ASSUME Ordered, issued > 0, NEW K, K \subseteq history, Newest \in K,
         history' = K, UNCHANGED <<sqlite, limit, issued>>
  PROVE  Ordered' /\ Newest' = Newest
<1>1. Newest.version = issued
  BY NewestIsIssued
<1>2. IsFiniteSet(K)
  BY FS_Subset DEF Ordered
<1>3. Ordered'
  BY <1>1, <1>2 DEF Ordered
<1>4. Newest \in history' /\ \A t \in history' : t.version <= Newest.version
  BY <1>1 DEF Ordered
<1>5. Newest' = Newest
  <2> DEFINE n == Newest
  <2>1. history' \subseteq Snapshot /\ DistinctVersions(history') /\ n \in history'
        /\ \A t \in history' : t.version <= n.version
    BY <1>3, <1>4 DEF Ordered, DistinctVersions
  <2> HIDE DEF n
  <2>2. (CHOOSE s \in history' : \A t \in history' : t.version <= s.version) = n
    BY <2>1, NewestOf
  <2>3. QED BY <2>2 DEF n, Newest
<1>6. QED BY <1>3, <1>5

\* Retention removes one stale snapshot.
LEMMA SnapshotPruned ==
  ASSUME Ordered, NEW p \in Processes, Prune(p)
  PROVE  /\ Ordered' /\ Newest' = Newest /\ issued > 0 /\ UNCHANGED <<issued, limit>>
         /\ Newest \in history' /\ history' \subseteq history /\ ~saving[p].hold
<1>1. PICK s \in Prunable(p) : history' = history \ {s}
  BY DEF Prune
<1>2. UNCHANGED <<sqlite, limit, issued>> /\ s \in Stale(history) /\ ~saving[p].hold
  BY <1>1 DEF Prune, Prunable
<1>3. s \in history /\ issued > 0
  BY <1>2, NewestIsIssued DEF Stale, Ordered
<1>4. limit > 0
  BY <1>3 DEF Ordered
<1>5. Newest \in history /\ Newest.version = issued
  BY <1>3, NewestIsIssued
<1>6. Newest \notin Stale(history)
  BY <1>4, <1>5, NewestIsKept DEF Ordered
<1>7. QED BY <1>1, <1>2, <1>3, <1>5, <1>6, SnapshotsDropped

\* SQLite: the snapshot appears complete, and what is stale goes with it.
LEMMA SnapshotCommitted ==
  ASSUME Ordered, NEW p \in Processes, CommitSnapshot(p), saving[p] \in Payloads
  PROVE  /\ Ordered' /\ issued' > 0 /\ Newest'.copy = saving[p] /\ Newest' \in history'
         /\ \A s \in history' : s \in history \/ s.version = issued + 1
         /\ saving[p].hold => history \subseteq history'
         /\ ~saving[p].hold => Cardinality(history') <= limit
         /\ limit > 0
<1> DEFINE new == [version |-> issued + 1, copy |-> saving[p]]
           longer == history \cup {new}
<1>1. NextVersion = issued + 1
  BY NewestIsIssued
<1>2. /\ history' = (IF saving[p].hold THEN longer ELSE longer \ Stale(longer))
      /\ issued' = issued + 1 /\ limit > 0 /\ UNCHANGED <<sqlite, limit>>
  BY <1>1 DEF CommitSnapshot
<1>3. IsFiniteSet(longer)
  BY FS_AddElement DEF Ordered
<1>4. new \in Snapshot /\ new.version = issued + 1 /\ new.copy = saving[p]
  BY DEF Snapshot, Ordered
<1> HIDE DEF new
<1>5. \A s \in longer : (s \in history /\ s.version <= issued /\ 0 < s.version /\ s.version \in Nat) \/ s = new
  BY DEF Ordered, Snapshot
<1>6. DistinctVersions(longer) /\ longer \subseteq Snapshot
  BY <1>4, <1>5 DEF DistinctVersions, Ordered
<1>7. \A t \in longer : t.version <= new.version
  BY <1>4, <1>5 DEF Ordered
<1>8. new \notin Stale(longer) /\ new \in longer
  <2>1. new \in longer
    OBVIOUS
  <2> HIDE DEF longer
  <2>2. QED BY <1>2, <1>6, <1>7, <2>1, NewestIsKept DEF Ordered
<1>9. history' \subseteq longer /\ new \in history' /\ IsFiniteSet(history')
  BY <1>2, <1>3, <1>8, FS_Subset
<1>10. ~saving[p].hold => Cardinality(history') <= limit
  <2> HIDE DEF longer
  <2> QED BY <1>2, <1>3, <1>6, KeptAreFew DEF Ordered
<1>11. saving[p].hold => history \subseteq history'
  BY <1>2
<1>12. \A s \in history' : s \in history \/ s.version = issued + 1
  BY <1>4, <1>5, <1>9
<1>13. Ordered'
  <2>1. \A s, t \in history' : s.version = t.version => s = t
    BY <1>6, <1>9 DEF DistinctVersions
  <2>2. history' \subseteq Snapshot
    BY <1>6, <1>9
  <2>3. \A s \in history' : 0 < s.version /\ s.version <= issued'
    BY <1>2, <1>4, <1>5, <1>9 DEF Ordered
  <2>4. \E s \in history' : s.version = issued'
    BY <1>2, <1>4, <1>9
  <2>5. issued' \in Nat /\ limit' \in Nat /\ limit' # 0 /\ sqlite' \in BOOLEAN
    BY <1>2 DEF Ordered
  <2> HIDE DEF longer
  <2>6. QED BY <1>9, <2>1, <2>2, <2>3, <2>4, <2>5 DEF Ordered
<1>14. Newest' = new
  <2>1. history' \subseteq Snapshot /\ DistinctVersions(history')
        /\ \A t \in history' : t.version <= new.version
    BY <1>7, <1>9, <1>13 DEF Ordered, DistinctVersions
  <2>2. QED BY <1>9, <2>1, NewestOf DEF Newest
<1>15. issued' > 0
  BY <1>2 DEF Ordered
<1>16. QED BY <1>2, <1>4, <1>9, <1>10, <1>11, <1>12, <1>13, <1>14, <1>15

\* A step that leaves the history alone.
LEMMA HistoryStays ==
  ASSUME Ordered, UNCHANGED <<sqlite, limit, history, issued>>
  PROVE  Ordered' /\ Newest' = Newest
BY DEF Ordered, Newest

\* What a process outside of the write phase does to the disk: nothing.
Elsewhere(p) ==
  /\ UNCHANGED <<sqlite, limit, disk, tidy>>
  /\ \A q \in Processes :
       pc'[q] \in Writing \ {"write"} => pc'[q] = pc[q] /\ saving'[q] = saving[q]

\* What a process does elsewhere than in the store keeps its parts.
LEMMA ElsewhereKeeps ==
  ASSUME Ordered, Stages, Tidied, NEW p \in Processes, Elsewhere(p)
  PROVE  (Ordered /\ Stages /\ Tidied)'
<1>1. Ordered' /\ Newest' = Newest
  BY HistoryStays DEF Elsewhere, disk
<1>2. Stages'
  BY <1>1 DEF Stages, Elsewhere, disk, Writing
<1>3. Tidied'
  BY <1>1 DEF Tidied, Elsewhere, disk
<1>4. QED BY <1>1, <1>2, <1>3

\* Within a save only its own process is in the write phase.
LEMMA StageOfHolder ==
  ASSUME Locked, Ordered, NEW p \in Processes, NEW point, Advance(p, point),
         tidy' = FALSE,
         point \in {"snapshot", "snapshot_open", "prune"} => sidecar' = saving[p],
         point = "snapshot_open" => issued' > 0 /\ Newest'.copy = Torn,
         point = "prune" => issued' > 0 /\ Newest'.copy = saving[p]
  PROVE  Stages' /\ Tidied'
<1>1. \A q \in Processes : q # p => pc'[q] \notin Writing
  BY DEF Advance, Locked, Typed, Exclusive, At
<1>2. pc'[p] = point /\ saving'[p] = saving[p]
  BY DEF Advance, Locked, Typed, At
<1>3. Stages'
  BY <1>1, <1>2 DEF Stages, Writing
<1>4. QED BY <1>3 DEF Tidied

\* When a save ends nobody is in the write phase.
LEMMA StagesAfter ==
  ASSUME Locked, NEW p \in Processes, Leave(p)
  PROVE  Stages'
<1>1. \A q \in Processes : pc'[q] \notin Writing
  BY StoreAssumption DEF Leave, Locked, Typed, Exclusive, At, Writing
<1>2. QED BY <1>1 DEF Stages, Writing

\* The store starts empty.
LEMMA StoredInit == Init => Stored
<1> SUFFICES ASSUME Init PROVE Stored
  OBVIOUS
<1>1. Locked
  BY LockedInit
<1>2. Ordered
  BY StoreAssumption, FS_EmptySet DEF Init, Ordered
<1>3. SavedStays /\ Stages /\ Tidied
  BY DEF Init, SavedStays, Stages, Tidied, Writing
<1>4. QED BY <1>1, <1>2, <1>3 DEF Stored

\* Every step keeps what is stored in order.
LEMMA StoredStep == Stored /\ [Next]_vars => Stored'
<1> SUFFICES ASSUME Stored, [Next]_vars PROVE (Ordered /\ Stages /\ Tidied)'
  BY LockedStep, SavedStaysStep DEF Stored
<1> USE DEF Stored
<1>1. \A p \in Processes : pc[p] \in Writing => lock = p /\ saving[p] \in Payloads
  BY DEF Locked, Typed, Exclusive
<1>2. ASSUME NEW p \in Processes,
             (\E hold \in BOOLEAN : Change(p, hold)) \/ Save(p) \/ Lock(p) \/ Load(p)
      PROVE  (Ordered /\ Stages /\ Tidied)'
  <2>1. Elsewhere(p)
    BY <1>2 DEF Change, Save, Lock, Load, Elsewhere, At, Writing, Locked, Typed
  <2>2. QED BY <2>1, ElsewhereKeeps
<1>3. ASSUME NEW p \in Processes, Crash(p)
      PROVE  (Ordered /\ Stages /\ Tidied)'
  <2>1. Elsewhere(p)
    BY <1>3 DEF Crash, Elsewhere, At, Forget, Writing, Locked, Typed
  <2>2. QED BY <2>1, ElsewhereKeeps
<1>4. ASSUME NEW p \in Processes, Fault(p)
      PROVE  (Ordered /\ Stages /\ Tidied)'
  <2>1. Elsewhere(p)
    BY <1>4 DEF Fault, Elsewhere, At, Forget, Writing, Locked, Typed
  <2>2. QED BY <2>1, ElsewhereKeeps
<1>5. ASSUME NEW p \in Processes, ReplaceFile(p) \/ CommitState(p)
      PROVE  (Ordered /\ Stages /\ Tidied)'
  <2>1. Advance(p, "sidecar") /\ tidy' = FALSE /\ UNCHANGED <<sqlite, limit, history, issued>>
    BY <1>5, Steps DEF ReplaceFile, CommitState
  <2>2. Ordered'
    BY <2>1, HistoryStays
  <2>3. QED BY <2>1, <2>2, StageOfHolder
<1>6. ASSUME NEW p \in Processes, OpenSidecar(p)
      PROVE  (Ordered /\ Stages /\ Tidied)'
  <2>1. Advance(p, "sidecar_open") /\ UNCHANGED <<sqlite, limit, history, issued>>
    BY <1>6, Steps DEF OpenSidecar
  <2>2. Ordered' /\ tidy' = FALSE
    BY <1>6, <2>1, HistoryStays DEF OpenSidecar, Stages, Writing
  <2>3. QED BY <2>1, <2>2, StageOfHolder
<1>7. ASSUME NEW p \in Processes, WriteSidecar(p)
      PROVE  (Ordered /\ Stages /\ Tidied)'
  <2>1. Advance(p, "snapshot") /\ UNCHANGED <<sqlite, limit, history, issued>>
        /\ sidecar' = saving[p]
    BY <1>7, Steps DEF WriteSidecar
  <2>2. Ordered' /\ tidy' = FALSE
    BY <1>7, <2>1, HistoryStays DEF WriteSidecar, Stages, Writing
  <2>3. QED BY <2>1, <2>2, StageOfHolder
<1>8. ASSUME NEW p \in Processes, OpenSnapshot(p)
      PROVE  (Ordered /\ Stages /\ Tidied)'
  <2>1. Advance(p, "snapshot_open") /\ sidecar' = saving[p] /\ tidy' = FALSE
    BY <1>8, Steps DEF OpenSnapshot, Stages, Writing
  <2>2. Ordered' /\ issued' > 0 /\ Newest'.copy = Torn
    BY <1>8, SnapshotOpened
  <2>3. QED BY <2>1, <2>2, StageOfHolder
<1>9. ASSUME NEW p \in Processes, WriteSnapshot(p)
      PROVE  (Ordered /\ Stages /\ Tidied)'
  <2>1. Advance(p, "prune") /\ sidecar' = saving[p] /\ tidy' = FALSE /\ issued > 0
    BY <1>9, Steps DEF WriteSnapshot, Stages, Writing
  <2>2. saving[p] \in Payloads
    BY DEF Locked, Typed
  <2>3. Ordered' /\ issued' > 0 /\ Newest'.copy = saving[p]
    BY <1>9, <2>1, <2>2, SnapshotWritten
  <2>4. QED BY <2>1, <2>3, StageOfHolder
<1>10. ASSUME NEW p \in Processes, Prune(p)
       PROVE  (Ordered /\ Stages /\ Tidied)'
  <2>1. Ordered' /\ Newest' = Newest /\ UNCHANGED issued
    BY <1>10, SnapshotPruned
  <2>2. UNCHANGED <<sidecar, saving, pc, tidy>> /\ pc[p] = "prune"
    BY <1>10 DEF Prune
  <2>3. Stages'
    BY <2>1, <2>2 DEF Stages
  <2>4. ~tidy
    BY <2>2 DEF Stages, Writing
  <2>5. QED BY <2>1, <2>2, <2>3, <2>4 DEF Tidied
<1>11. ASSUME NEW p \in Processes, NoHistory(p)
       PROVE  (Ordered /\ Stages /\ Tidied)'
  <2>1. Leave(p) /\ UNCHANGED <<sqlite, limit, disk>> /\ pc[p] = "snapshot" /\ limit = 0
    BY <1>11, Steps DEF NoHistory
  <2>2. Ordered' /\ Stages'
    BY <2>1, HistoryStays, StagesAfter DEF disk
  <2>3. sidecar = saving[p] /\ file = saving[p]
    BY <2>1 DEF Stages, SavedStays, Writing
  <2>4. history = {} /\ Cardinality(history) = 0
    BY <2>1, NewestIsIssued, FS_EmptySet DEF Ordered
  <2>5. Tidied'
    BY <2>1, <2>3, <2>4 DEF Tidied, disk
  <2>6. QED BY <2>2, <2>5
<1>12. ASSUME NEW p \in Processes, EndPrune(p)
       PROVE  (Ordered /\ Stages /\ Tidied)'
  <2>1. Leave(p) /\ UNCHANGED <<sqlite, limit, disk>> /\ pc[p] = "prune"
    BY <1>12, Steps DEF EndPrune
  <2>2. Ordered' /\ Stages' /\ Newest' = Newest
    BY <2>1, HistoryStays, StagesAfter DEF disk
  <2>3. sidecar = saving[p] /\ file = saving[p] /\ issued > 0 /\ Newest.copy = saving[p]
    BY <2>1 DEF Stages, SavedStays, Writing
  <2>4. tidy' => Prunable(p) = {}
    BY <1>12 DEF EndPrune, Return
  <2>5. tidy' /\ ~saving[p].hold => Cardinality(history) <= limit
    <3> SUFFICES ASSUME tidy', ~saving[p].hold PROVE Cardinality(history) <= limit
      OBVIOUS
    <3>1. Stale(history) = {}
      BY <2>4 DEF Prunable
    <3>2. history \ Stale(history) = history
      BY <3>1
    <3>3. QED BY <3>2, KeptAreFew DEF Ordered, DistinctVersions
  <2>6. Tidied'
    BY <2>1, <2>2, <2>3, <2>5 DEF Tidied, disk
  <2>7. QED BY <2>2, <2>6
<1>13. ASSUME NEW p \in Processes, CommitSnapshot(p)
       PROVE  (Ordered /\ Stages /\ Tidied)'
  <2>1. Leave(p) /\ UNCHANGED <<sqlite, limit, file, sidecar>> /\ pc[p] = "snapshot"
    BY <1>13, Steps DEF CommitSnapshot
  <2>2. sidecar = saving[p] /\ file = saving[p] /\ saving[p] \in Payloads
    BY <2>1 DEF Stages, SavedStays, Writing, Locked, Typed
  <2>3. /\ Ordered' /\ issued' > 0 /\ Newest'.copy = saving[p]
        /\ ~saving[p].hold => Cardinality(history') <= limit
    BY <1>13, <2>2, SnapshotCommitted
  <2>4. Stages'
    BY <2>1, StagesAfter
  <2>5. Tidied'
    BY <2>1, <2>2, <2>3 DEF Tidied
  <2>6. QED BY <2>3, <2>4, <2>5
<1>14. CASE UNCHANGED vars
  <2>1. UNCHANGED <<sqlite, limit, disk, saving, pc, tidy>>
    BY <1>14 DEF vars
  <2>2. Ordered' /\ Newest' = Newest
    BY <2>1, HistoryStays DEF disk
  <2>3. QED BY <2>1, <2>2 DEF Stages, Tidied, disk
<1>15. QED
  BY <1>2, <1>3, <1>4, <1>5, <1>6, <1>7, <1>8, <1>9, <1>10, <1>11, <1>12, <1>13, <1>14
     DEF Next

\* The invariant holds of every behaviour.
LEMMA StoredKept == Spec => []Stored
BY StoredInit, StoredStep, PTL DEF Spec

-----------------------------------------------------------------------------
(* What follows for the reader of a store.                                 *)

\* The part of the type invariant that the steps above do not need.
Bounded ==
  /\ limit \in Limits /\ tidy \in BOOLEAN
  /\ sidecar \in Payloads \cup {Nothing, Torn}
  /\ used \in [changes : 0..MaxChanges, saves : 0..MaxSaves,
               faults : 0..MaxFaults, crashes : 0..MaxCrashes]

\* Every step stays within the bounds.
LEMMA BoundedStep == Locked /\ Bounded /\ [Next]_vars => Bounded'
<1> SUFFICES ASSUME Locked, Bounded, [Next]_vars PROVE Bounded'
  OBVIOUS
<1> USE StoreAssumption DEF Bounded, disk
<1>1. ASSUME NEW p \in Processes, NEW hold \in BOOLEAN, Change(p, hold) PROVE Bounded'
  BY <1>1 DEF Change
<1>2. ASSUME NEW p \in Processes, Save(p) PROVE Bounded'
  BY <1>2 DEF Save
<1>3. ASSUME NEW p \in Processes,
             Lock(p) \/ ReplaceFile(p) \/ CommitState(p) \/ Load(p) PROVE Bounded'
  BY <1>3 DEF Lock, ReplaceFile, CommitState, Load
<1>4. ASSUME NEW p \in Processes, OpenSidecar(p) \/ WriteSidecar(p) PROVE Bounded'
  BY <1>4 DEF OpenSidecar, WriteSidecar, Locked, Typed
<1>5. ASSUME NEW p \in Processes, OpenSnapshot(p) \/ WriteSnapshot(p) \/ Prune(p) PROVE Bounded'
  BY <1>5 DEF OpenSnapshot, WriteSnapshot, Prune
<1>6. ASSUME NEW p \in Processes, NoHistory(p) \/ CommitSnapshot(p) PROVE Bounded'
  BY <1>6 DEF NoHistory, CommitSnapshot, Return
<1>7. ASSUME NEW p \in Processes, EndPrune(p) PROVE Bounded'
  <2>1. tidy' \in BOOLEAN /\ UNCHANGED <<limit, sidecar>>
    BY <1>7 DEF EndPrune, Return
  <2>2. CASE UNCHANGED used
    BY <2>1, <2>2
  <2>3. CASE used.faults < MaxFaults /\ used' = [used EXCEPT !.faults = @ + 1]
    BY <2>1, <2>3
  <2>4. QED BY <1>7, <2>2, <2>3 DEF EndPrune
<1>8. ASSUME NEW p \in Processes, Fault(p) PROVE Bounded'
  BY <1>8 DEF Fault
<1>9. ASSUME NEW p \in Processes, Crash(p) PROVE Bounded'
  BY <1>9 DEF Crash
<1>10. CASE UNCHANGED vars
  BY <1>10 DEF vars
<1>11. QED
  BY <1>1, <1>2, <1>3, <1>4, <1>5, <1>6, <1>7, <1>8, <1>9, <1>10 DEF Next

\* Whenever no save is under way and the last one to write was not cut short, the
\* sidecar, the newest snapshot and the size of the history fit the state file; and
\* while a save returns, the state file is what it saved.
THEOREM Consistency == Spec => []StoreIsConsistent
<1>1. Init => Bounded
  BY StoreAssumption DEF Init, Bounded
<1>2. Stored /\ Bounded => TypeOK
  BY DEF Stored, Locked, Typed, Ordered, Bounded, TypeOK
<1>3. Stored => AtRestConsistent
  <2> SUFFICES ASSUME Stored, lock = Nothing, tidy, file # Nothing
               PROVE  /\ SidecarCheck = "passed"
                      /\ limit > 0 => history # {} /\ LoadSnapshot(Newest.version) = file
                      /\ ~file.hold => Cardinality(history) <= limit
    BY DEF AtRestConsistent
  <2>1. sidecar = file /\ (~file.hold => Cardinality(history) <= limit)
    BY DEF Stored, Tidied
  <2>2. SidecarCheck = "passed"
    BY <2>1 DEF SidecarCheck
  <2>3. ASSUME limit > 0
        PROVE  history # {} /\ LoadSnapshot(Newest.version) = file
    <3>1. issued > 0 /\ Newest.copy = file
      BY <2>3 DEF Stored, Tidied
    <3>2. Newest \in history /\ Newest.version = issued
          /\ \A s \in history : s.version = issued => s = Newest
      BY <3>1, NewestIsIssued DEF Stored
    <3>3. (CHOOSE s \in history : s.version = Newest.version) = Newest
      BY <3>2
    <3>4. Newest.version \in Versions
      BY <3>2 DEF Versions
    <3>5. QED BY <3>1, <3>2, <3>3, <3>4 DEF LoadSnapshot
  <2>4. QED BY <2>1, <2>2, <2>3
<1>4. Stored /\ Bounded => StoreIsConsistent
  BY <1>2, <1>3 DEF Stored, StoreIsConsistent
<1>5. Stored /\ Bounded /\ [Next]_vars => Bounded'
  BY BoundedStep DEF Stored
<1>6. QED BY <1>1, <1>4, <1>5, StoredKept, PTL DEF Spec

\* The steps that change the history; every other one leaves it alone.
HistoryStep ==
  \E p \in Processes : OpenSnapshot(p) \/ WriteSnapshot(p) \/ Prune(p) \/ CommitSnapshot(p)

\* Every step changes the history in one of these ways or not at all.
LEMMA OtherSteps == [Next]_vars => HistoryStep \/ UNCHANGED <<history, issued>>
<1> SUFFICES ASSUME [Next]_vars, ~ HistoryStep PROVE UNCHANGED <<history, issued>>
  OBVIOUS
<1> USE DEF disk
<1>1. CASE UNCHANGED vars
  BY <1>1 DEF vars
<1>2. ASSUME NEW p \in Processes, NEW hold \in BOOLEAN, Change(p, hold)
      PROVE  UNCHANGED <<history, issued>>
  BY <1>2 DEF Change
<1>3. ASSUME NEW p \in Processes,
             Save(p) \/ Lock(p) \/ ReplaceFile(p) \/ CommitState(p) \/ OpenSidecar(p)
               \/ WriteSidecar(p)
      PROVE  UNCHANGED <<history, issued>>
  BY <1>3 DEF Save, Lock, ReplaceFile, CommitState, OpenSidecar, WriteSidecar
<1>4. ASSUME NEW p \in Processes,
             NoHistory(p) \/ EndPrune(p) \/ Fault(p) \/ Crash(p) \/ Load(p)
      PROVE  UNCHANGED <<history, issued>>
  BY <1>4 DEF NoHistory, EndPrune, Fault, Crash, Load
<1>5. QED BY <1>1, <1>2, <1>3, <1>4 DEF Next, HistoryStep

\* What a save that writes a snapshot is writing is the state file.
LEMMA SavingIsFile ==
  ASSUME Stored, NEW p \in Processes, pc[p] \in Writing \ {"write"}
  PROVE  file = saving[p] /\ saving[p] \in Payloads /\ saving[p] # Torn
BY SentinelAssumption DEF Stored, SavedStays, Locked, Typed

\* A step that changes the history keeps what must be kept.
LEMMA HistoryKept ==
  ASSUME Stored, HistoryStep
  PROVE  /\ Complete(history) # {} => Complete(history') # {}
         /\ Versions \ {s.version : s \in history'} # {} => ~file.hold
<1> USE DEF Stored
<1>1. ASSUME NEW p \in Processes, OpenSnapshot(p)
      PROVE  history \subseteq history'
  BY <1>1 DEF OpenSnapshot
<1>2. ASSUME NEW p \in Processes, WriteSnapshot(p)
      PROVE  /\ Newest' \in history' /\ Newest'.copy # Torn
             /\ Versions \subseteq {s.version : s \in history'}
  <2>1. pc[p] = "snapshot_open" /\ issued > 0
    BY <1>2 DEF WriteSnapshot, Stages
  <2>2. saving[p] \in Payloads /\ saving[p] # Torn
    BY <2>1, SavingIsFile DEF Writing
  <2>3. /\ Newest'.copy = saving[p] /\ Newest' \in history'
        /\ history \ {Newest} \subseteq history' /\ Newest'.version = issued
    BY <1>2, <2>1, <2>2, SnapshotWritten
  <2>4. Newest.version = issued
    BY <2>1, NewestIsIssued
  <2>5. QED BY <2>2, <2>3, <2>4 DEF Versions
<1>3. ASSUME NEW p \in Processes, Prune(p)
      PROVE  Newest \in history' /\ Newest.copy # Torn /\ ~file.hold
  <2>1. pc[p] = "prune" /\ Newest.copy = saving[p]
    BY <1>3 DEF Prune, Stages
  <2>2. file = saving[p] /\ saving[p] # Torn
    BY <2>1, SavingIsFile DEF Writing
  <2>3. QED BY <1>3, <2>1, <2>2, SnapshotPruned
<1>4. ASSUME NEW p \in Processes, CommitSnapshot(p)
      PROVE  /\ Newest' \in history' /\ Newest'.copy # Torn
             /\ file.hold => history \subseteq history'
  <2>1. pc[p] = "snapshot"
    BY <1>4 DEF CommitSnapshot
  <2>2. file = saving[p] /\ saving[p] \in Payloads /\ saving[p] # Torn
    BY <2>1, SavingIsFile DEF Writing
  <2>3. QED BY <1>4, <2>2, SnapshotCommitted
<1>5. QED BY <1>1, <1>2, <1>3, <1>4 DEF HistoryStep, Complete, Versions

\* Neither a save that is cut short nor retention takes the last complete snapshot,
\* or any snapshot while the state file says legal hold.
THEOREM HistorySurvives == Spec => HistoryIsKept
<1>1. Stored /\ [Next]_vars =>
        /\ Complete(history) # {} => Complete(history') # {}
        /\ Versions \ {s.version : s \in history'} # {} => ~file.hold
  <2>1. ASSUME UNCHANGED <<history, issued>>
        PROVE  Versions \subseteq {s.version : s \in history'}
    BY <2>1 DEF Versions
  <2>2. QED BY <2>1, OtherSteps, HistoryKept DEF Complete
<1>2. QED BY <1>1, StoredKept, PTL DEF Spec, HistoryIsKept, HistoryKeepsOne, HeldIsKept

\* If a step keeps what it keeps, adds under new numbers, and rewrites only the
\* newest snapshot while it is torn, then a version means one state for ever.
LEMMA VersionsMeanOne ==
  ASSUME Ordered, Ordered',
         \A t \in history' :
           \/ t \in history
           \/ t.version > issued
           \/ t.version = issued /\ issued > 0 /\ Newest.copy = Torn
  PROVE  /\ \A v \in Versions : LoadSnapshot(v)' \in {LoadSnapshot(v), Nothing} \/ LoadSnapshot(v) = Torn
         /\ \A t \in history' : t.version \notin Versions => t.version > issued
<1>1. ASSUME NEW v \in Versions, LoadSnapshot(v) # Torn
      PROVE  LoadSnapshot(v)' \in {LoadSnapshot(v), Nothing}
  <2>1. PICK s \in history : s.version = v
    BY DEF Versions
  <2>2. (CHOOSE t \in history : t.version = v) = s
    BY <2>1 DEF Ordered
  <2>3. LoadSnapshot(v) = s.copy
    BY <2>2 DEF LoadSnapshot
  <2>4. v <= issued /\ v \in Nat /\ issued \in Nat
    BY <2>1 DEF Ordered, Snapshot
  <2>5. CASE v \notin Versions'
    BY <2>5 DEF LoadSnapshot
  <2>6. CASE v \in Versions'
    <3>1. PICK t \in history' : t.version = v
      BY <2>6 DEF Versions
    <3>2. (CHOOSE u \in history' : u.version = v) = t
      BY <3>1 DEF Ordered
    <3>3. LoadSnapshot(v)' = t.copy
      BY <2>6, <3>2 DEF LoadSnapshot
    <3>4. ~ (t.version = issued /\ issued > 0 /\ Newest.copy = Torn)
      <4>1. ASSUME t.version = issued, issued > 0 PROVE Newest = s
        BY <2>1, <3>1, <4>1, NewestIsIssued
      <4>2. QED BY <1>1, <2>3, <4>1
    <3>5. t \in history
      BY <2>4, <3>1, <3>4
    <3>6. t = s
      BY <2>1, <3>1, <3>5 DEF Ordered
    <3>7. QED BY <2>3, <3>3, <3>6
  <2>7. QED BY <2>5, <2>6
<1>2. ASSUME NEW t \in history', t.version \notin Versions
      PROVE  t.version > issued
  <2>1. t \notin history
    BY <1>2 DEF Versions
  <2>2. issued > 0 => issued \in Versions
    BY DEF Ordered, Versions
  <2>3. QED BY <1>2, <2>1, <2>2
<1>3. QED BY <1>1, <1>2

\* A complete snapshot is never overwritten and no version is used twice.
THEOREM VersionsMeanOneState == Spec => VersionsAreUnique
<1>1. Stored /\ Stored' /\ [Next]_vars =>
        /\ \A v \in Versions : LoadSnapshot(v)' \in {LoadSnapshot(v), Nothing} \/ LoadSnapshot(v) = Torn
        /\ \A t \in history' : t.version \notin Versions => t.version > issued
  <2> SUFFICES ASSUME Stored, Stored', [Next]_vars
               PROVE  \A t \in history' :
                        \/ t \in history
                        \/ t.version > issued
                        \/ t.version = issued /\ issued > 0 /\ Newest.copy = Torn
    BY VersionsMeanOne DEF Stored
  <2> USE DEF Stored
  <2>1. ASSUME NEW p \in Processes, OpenSnapshot(p)
        PROVE  \A t \in history' : t \in history \/ t.version > issued
    <3>1. NextVersion = issued + 1 /\ issued \in Nat
      BY NewestIsIssued DEF Ordered
    <3>2. QED BY <2>1, <3>1 DEF OpenSnapshot
  <2>2. ASSUME NEW p \in Processes, WriteSnapshot(p)
        PROVE  /\ \A t \in history' : t \in history \/ t.version = issued
               /\ issued > 0 /\ Newest.copy = Torn
    <3>1. pc[p] = "snapshot_open" /\ issued > 0 /\ Newest.copy = Torn
      BY <2>2 DEF WriteSnapshot, Stages
    <3>2. Newest.version = issued
      BY <3>1, NewestIsIssued
    <3>3. QED BY <2>2, <3>1, <3>2 DEF WriteSnapshot
  <2>3. ASSUME NEW p \in Processes, Prune(p)
        PROVE  \A t \in history' : t \in history
    BY <2>3, SnapshotPruned
  <2>4. ASSUME NEW p \in Processes, CommitSnapshot(p)
        PROVE  \A t \in history' : t \in history \/ t.version > issued
    <3>1. saving[p] \in Payloads /\ issued \in Nat
      BY DEF Locked, Typed, Ordered
    <3>2. \A t \in history' : t \in history \/ t.version = issued + 1
      BY <2>4, <3>1, SnapshotCommitted
    <3>3. QED BY <3>1, <3>2
  <2>5. QED BY <2>1, <2>2, <2>3, <2>4, OtherSteps DEF HistoryStep
<1>2. QED BY <1>1, StoredKept, PTL DEF Spec, VersionsAreUnique
=============================================================================
