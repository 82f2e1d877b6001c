----------------------------- MODULE EventChain -----------------------------
(***************************************************************************)
(* The execution events of a ProjectState: the hash chain they form, what  *)
(* save writes of it, what load and its migrations make of older files,    *)
(* and what the verifications accept (memory/project_state.py,             *)
(* evidence.py, providers/base.py).                                        *)
(*                                                                         *)
(* A hash is the content it was computed of: two hashes are equal exactly  *)
(* if the contents are.  Texts are values, and some look like secrets.     *)
(***************************************************************************)
EXTENDS Integers, Sequences, SequencesExt

CONSTANTS
  Texts,        \* what task ids and details say
  SecretLike,   \* the texts that redact_sensitive_text replaces
  TaskIds,      \* the ids that tasks have, a subset of Texts
  Redacted,     \* the replacement
  OlderFiles,   \* the files of older releases: schema version and sequences
  MaxEvents,    \* bound: events
  MaxLoads,     \* bound: loads
  MaxEdits      \* bound: edits of the file

ASSUME ChainAssumption ==
  /\ SecretLike \subseteq Texts /\ TaskIds \subseteq Texts /\ Redacted \notin Texts
  /\ TaskIds # {}
  /\ {MaxEvents, MaxLoads, MaxEdits} \subseteq Nat

\* An older file: version 2 stands for no file at all.
ASSUME OlderFilesAssumption ==
  \A older \in OlderFiles :
    /\ older.version \in 0..2 /\ older.sequences \in Seq(Nat)
    /\ older.version = 2 => older.sequences = <<>>

\* The numbers of an older file increase, where an event without one counts as its
\* position: an older release gave no numbers, or gave them in the order of the list.
ASSUME OlderNumbersAssumption ==
  \A older \in OlderFiles :
    LET Number(i) == IF older.sequences[i] = 0 THEN i ELSE older.sequences[i]
    IN  \A i, j \in DOMAIN older.sequences : i < j => Number(i) < Number(j)

Genesis == <<>>       \* EVENT_CHAIN_GENESIS_HASH
NoHash  == <<"none">> \* an event from before the chain
Missing == 0          \* an event without a sequence number
CurrentVersion == 2   \* PROJECT_STATE_SCHEMA_VERSION

VARIABLES
  events,    \* execution_events in memory
  sequence,  \* event_sequence
  disk,      \* the state file: version, events, event_sequence and integrity block
  saved,     \* the events that the last save wrote
  used       \* how much of the bounds is used up

vars == <<events, sequence, disk, saved, used>>

-----------------------------------------------------------------------------
(* Events and their hashes.                                                *)

Content(event) == <<event.sequence, event.task, event.details, event.prev>>

\* compute_execution_event_hash
HashOf(event) == Content(event)

IsHashed(event) == event.hash # NoHash

HashedAt(chain) == {i \in DOMAIN chain : IsHashed(chain[i])}

\* The hash of the last hashed event, as save records it.
ChainHead(chain) ==
  IF HashedAt(chain) = {} THEN NoHash
  ELSE LET last == CHOOSE i \in HashedAt(chain) : \A j \in HashedAt(chain) : j <= i
       IN  chain[last].hash

\* What prev_hash has to be: the expected_prev_hash of the loop.
ExpectedPrev(chain, i) ==
  IF i - 1 \in HashedAt(chain) THEN chain[i - 1].hash ELSE Genesis

\* verify_execution_event_chain: an unhashed prefix, then linked hashes.
VerifyChain(chain) ==
  \A i \in HashedAt(chain) :
    /\ i + 1 \in DOMAIN chain => i + 1 \in HashedAt(chain)
    /\ chain[i].prev = ExpectedPrev(chain, i)
    /\ chain[i].hash = HashOf(chain[i])

\* mutant: the recorded head is not compared
VerifyFile_NoHead(file) == VerifyChain(file.events)

\* verify_persisted_event_chain, and _check_event_chain of evidence.py.
VerifyFile(file) ==
  /\ VerifyChain(file.events)
  /\ file.head # NoHash => file.head = ChainHead(file.events)

\* mutant: any digest will do
VerifyDigest_Present(file) == file.digest # NoHash

\* verify_persisted_state_integrity: the digest is what it was computed of.
VerifyDigest(file) ==
  file.digest = <<file.events, file.sequence>>

\* verify_evidence: the checks of a state file on its own.
Checks(file) ==
  [state_digest |-> VerifyDigest(file), event_chain |-> VerifyFile(file)]

\* The exit code of "python -m kycortex_agents.evidence verify".
ExitCode(file) == IF Checks(file).state_digest /\ Checks(file).event_chain THEN 0 ELSE 1

-----------------------------------------------------------------------------
(* Redaction.                                                              *)

RedactText(text) == IF text \in SecretLike THEN Redacted ELSE text

\* What redact_sensitive_data makes of an event: the hashes are no secrets.
RedactEvent(event) ==
  [event EXCEPT !.task = RedactText(@), !.details = RedactText(@)]

RedactEvents(chain) == [i \in DOMAIN chain |-> RedactEvent(chain[i])]

-----------------------------------------------------------------------------
(* Migration.                                                              *)

\* An event of an older file that has no number gets its position.
Backfill(chain) ==
  [i \in DOMAIN chain |->
     IF chain[i].sequence = Missing THEN [chain[i] EXCEPT !.sequence = i] ELSE chain[i]]

Highest(chain) ==
  LET numbers == {0} \cup {chain[i].sequence : i \in DOMAIN chain}
  IN  CHOOSE n \in numbers : \A m \in numbers : m <= n

\* mutant: the counter of an older file is kept as it is
Migrate_KeepsCounter(file) ==
  IF file.version = CurrentVersion THEN file
  ELSE [file EXCEPT !.version = CurrentVersion, !.events = Backfill(file.events)]

\* _migrate_persisted_state: version 0 becomes 1, and 1 becomes 2.
Migrate(file) ==
  IF file.version = CurrentVersion THEN file
  ELSE LET filled == Backfill(file.events)
       IN  [file EXCEPT !.version = CurrentVersion, !.events = filled,
                        !.sequence = IF @ < Highest(filled) THEN Highest(filled) ELSE @]

-----------------------------------------------------------------------------
OlderEvents(sequences) ==
  [i \in DOMAIN sequences |->
     [sequence |-> sequences[i], task |-> CHOOSE t \in TaskIds : TRUE,
      details |-> CHOOSE t \in Texts : TRUE, prev |-> NoHash, hash |-> NoHash]]

\* A new project next to a file that an older release wrote.
Init ==
  /\ events = <<>> /\ sequence = 0
  /\ \E older \in OlderFiles :
       /\ saved = OlderEvents(older.sequences)
       /\ disk = [version |-> older.version, events |-> saved, sequence |-> 0,
                  head |-> NoHash, digest |-> NoHash]
  /\ used = [loads |-> 0, edits |-> 0]

\* mutant: an event is linked to the last event, hashed or not
Link_Last == IF events = <<>> THEN Genesis ELSE Last(events).hash

\* The previous hash that a new event carries.
Link == IF HashedAt(events) = {} THEN Genesis ELSE ChainHead(events)

\* _record_execution_event
Record(task, details) ==
  /\ Len(events) < MaxEvents
  /\ sequence' = sequence + 1
  /\ LET event == [sequence |-> sequence + 1, task |-> task,
                   details |-> RedactText(details), prev |-> Link, hash |-> NoHash]
     IN  events' = Append(events, [event EXCEPT !.hash = HashOf(event)])
  /\ UNCHANGED <<disk, saved, used>>

Save ==
  /\ disk' = [version |-> CurrentVersion, events |-> RedactEvents(events),
              sequence |-> sequence, head |-> ChainHead(events),
              digest |-> <<RedactEvents(events), sequence>>]
  /\ saved' = RedactEvents(events)
  /\ UNCHANGED <<events, sequence, used>>

\* A load trusts the file: it migrates and does not verify.
Load ==
  /\ used.loads < MaxLoads
  /\ events' = Migrate(disk).events
  /\ sequence' = Migrate(disk).sequence
  /\ used' = [used EXCEPT !.loads = @ + 1]
  /\ UNCHANGED <<disk, saved>>

\* Somebody edits the events in the file, and leaves the integrity block alone.
Edit(chain) ==
  /\ used.edits < MaxEdits
  /\ disk' = [disk EXCEPT !.events = chain]
  /\ used' = [used EXCEPT !.edits = @ + 1]
  /\ UNCHANGED <<events, sequence, saved>>

Delete(i) == Edit(RemoveAt(disk.events, i))
Swap(i, j) ==
  Edit([disk.events EXCEPT ![i] = disk.events[j], ![j] = disk.events[i]])
Rewrite(i, text) == Edit([disk.events EXCEPT ![i].details = text])
Unhash(i) == Edit([disk.events EXCEPT ![i].hash = NoHash])

Next ==
  \/ \E task \in TaskIds, details \in Texts : Record(task, details)
  \/ Save \/ Load
  \/ \E i, j \in DOMAIN disk.events : i < j /\ Swap(i, j)
  \/ \E i \in DOMAIN disk.events :
       Delete(i) \/ Unhash(i) \/ \E text \in Texts : Rewrite(i, text)

Spec == Init /\ [][Next]_vars

-----------------------------------------------------------------------------
EventFields == {"sequence", "task", "details", "prev", "hash"}

IsEvent(event) ==
  /\ event = [field \in EventFields |-> event[field]]
  /\ event.sequence \in Nat
  /\ event.task \in Texts \cup {Redacted} /\ event.details \in Texts \cup {Redacted}

TypeOK ==
  /\ sequence \in Nat
  /\ \A i \in DOMAIN events : IsEvent(events[i])
  /\ \A i \in DOMAIN disk.events : IsEvent(disk.events[i])
  /\ disk.version \in 0..CurrentVersion

\* _record_execution_event, save and load agree: whatever older file was loaded
\* and however often the project was saved and loaded again, the events in memory
\* and in the file verify as long as nobody edited the file.
ChainVerifies ==
  TypeOK /\ (used.edits = 0 => VerifyChain(events) /\ VerifyFile(disk))

\* docs/persistence.md:141: "event ordering no longer depends on list position": the
\* numbers of the events increase, across migrations of older files as well, and the
\* next event gets a number that no event has.
SequencesIncrease ==
  used.edits = 0 =>
    \A i \in DOMAIN events :
      events[i].sequence <= sequence /\ \A j \in 1 .. i - 1 : events[j].sequence < events[i].sequence

\* The events from the first hashed one on.
HashedSuffix(chain) ==
  IF HashedAt(chain) = {} THEN <<>>
  ELSE LET first == CHOOSE i \in HashedAt(chain) : \A j \in HashedAt(chain) : i <= j
       IN  SubSeq(chain, first, Len(chain))

\* docs/evidence.md:33: reordering, editing or deleting hashed events of a file that
\* carries its integrity block is detected, unless the file was already broken when
\* it was saved.
EditsAreDetected ==
  disk.head # NoHash /\ VerifyChain(saved) /\ HashedSuffix(disk.events) # HashedSuffix(saved) =>
    ~VerifyFile(disk)

\* The digest finds every edit, those of unhashed events included, so that the
\* audit of a file ends with 0 only if it is as it was saved; it ends with 1 for
\* every file that an older release wrote.
DigestFindsEdits ==
  /\ disk.digest # NoHash => (VerifyDigest(disk) <=> disk.events = saved)
  /\ ExitCode(disk) = 0 => disk.digest # NoHash /\ disk.events = saved

\* Together: which edits the chain finds, and that the digest finds them all.
EditsAreFound == EditsAreDetected /\ DigestFindsEdits

\* tests/test_evidence_foundation.py:727: what was saved and not edited verifies,
\* whatever the tasks are called.
SavedChainVerifies == used.edits = 0 => VerifyFile(disk)
=============================================================================
