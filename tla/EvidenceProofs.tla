--------------------------- MODULE EvidenceProofs ---------------------------
(***************************************************************************)
(* What the evidence of a workflow promises, whatever is written, edited or*)
(* interrupted: the chain of its events (EventChain) and the artifacts with*)
(* their manifest (ArtifactEvidence), two systems of their own.            *)
(*                                                                         *)
(* Events, for every set of texts, every older file and every bound.  The  *)
(* lists of events are sequences, in memory and in the file, whatever is   *)
(* recorded, saved, loaded and edited (Books); without edits they carry    *)
(* increasing numbers (Numbered) and, if no task id looks like a secret, a *)
(* valid chain that saving does not disturb (Chained).  That edits are     *)
(* found follows by going back through two chains from the same head.      *)
(*                                                                         *)
(* Artifacts, for every set of paths and contents: entries are honest,     *)
(* audits exact of what was not forgotten, bundles complete.               *)
(***************************************************************************)
EXTENDS EventChain, ArtifactEvidence, SequenceTheorems, NaturalLemmas

USE DEF Missing, CurrentVersion, EventFields

-----------------------------------------------------------------------------
(* Lists of events.                                                        *)

\* c is the sequence of its elements.
IsSequence(c) == Len(c) \in Nat /\ c = [i \in 1 .. Len(c) |-> c[i]]

\* c is a sequence of events.
IsList(c) == IsSequence(c) /\ \A i \in 1 .. Len(c) : IsEvent(c[i])

\* A function on 1 .. n is a sequence of length n.
LEMMA FunctionIsSequence ==
  ASSUME NEW n \in Nat, NEW f, f = [i \in 1 .. n |-> f[i]]
  PROVE  IsSequence(f) /\ Len(f) = n /\ DOMAIN f = 1 .. n
<1> DEFINE S == {f[i] : i \in 1 .. n}
<1>1. f \in [1 .. n -> S]
  OBVIOUS
<1>2. f \in Seq(S)
  BY <1>1, SeqDef
<1>3. Len(f) \in Nat /\ DOMAIN f = 1 .. Len(f) /\ f \in [1 .. Len(f) -> S]
  BY <1>2, LenProperties
<1>4. DOMAIN f = 1 .. n
  BY <1>1
<1>5. Len(f) = n
  BY <1>3, <1>4
<1>6. QED BY <1>4, <1>5 DEF IsSequence

\* A sequence belongs to the sequences of its elements.
LEMMA SequenceIsSeq ==
  ASSUME NEW c, IsSequence(c)
  PROVE  c \in Seq({c[i] : i \in 1 .. Len(c)}) /\ DOMAIN c = 1 .. Len(c)
<1> DEFINE S == {c[i] : i \in 1 .. Len(c)}
<1>1. c \in [1 .. Len(c) -> S]
  BY DEF IsSequence
<1>2. QED BY <1>1, SeqDef DEF IsSequence

\* A recorded event becomes the last one of the list.
LEMMA AppendToList ==
  ASSUME NEW c, IsList(c), NEW e, IsEvent(e)
  PROVE  /\ IsList(Append(c, e))
         /\ Len(Append(c, e)) = Len(c) + 1
         /\ \A i \in 1 .. Len(c) : Append(c, e)[i] = c[i]
         /\ Append(c, e)[Len(c) + 1] = e
<1> DEFINE S == {c[i] : i \in 1 .. Len(c)} \cup {e}
           d == Append(c, e)
<1>1. c \in Seq(S)
  <2>1. c \in Seq({c[i] : i \in 1 .. Len(c)})
    BY SequenceIsSeq DEF IsList
  <2>2. {c[i] : i \in 1 .. Len(c)} \subseteq S
    OBVIOUS
  <2>3. QED BY <2>1, <2>2, SeqMonotonic
<1>2. /\ d \in Seq(S) /\ Len(d) = Len(c) + 1
      /\ \A i \in 1 .. Len(c) : d[i] = c[i]
      /\ d[Len(c) + 1] = e
  BY <1>1, AppendProperties
<1>3. IsSequence(d)
  BY <1>2, LenProperties DEF IsSequence
<1>4. Len(c) \in Nat
  BY DEF IsList, IsSequence
<1> HIDE DEF d
<1>5. \A i \in 1 .. Len(d) : IsEvent(d[i])
  BY <1>2, <1>4 DEF IsList
<1>6. QED BY <1>2, <1>3, <1>5 DEF IsList, d

\* Redaction keeps the list, its numbers and its hashes.
LEMMA RedactList ==
  ASSUME NEW c, IsList(c)
  PROVE  /\ IsList(RedactEvents(c))
         /\ Len(RedactEvents(c)) = Len(c)
         /\ \A i \in 1 .. Len(c) :
              /\ RedactEvents(c)[i].task = RedactText(c[i].task)
              /\ RedactEvents(c)[i].details = RedactText(c[i].details)
              /\ RedactEvents(c)[i].sequence = c[i].sequence
              /\ RedactEvents(c)[i].prev = c[i].prev
              /\ RedactEvents(c)[i].hash = c[i].hash
<1> DEFINE d == RedactEvents(c)
<1>1. DOMAIN c = 1 .. Len(c) /\ Len(c) \in Nat
  BY SequenceIsSeq DEF IsList, IsSequence
<1>2. d = [i \in 1 .. Len(c) |-> RedactEvent(c[i])]
  BY <1>1 DEF RedactEvents
<1>3. IsSequence(d) /\ Len(d) = Len(c)
  BY <1>1, <1>2, FunctionIsSequence
<1>4. ASSUME NEW i \in 1 .. Len(c)
      PROVE  /\ IsEvent(RedactEvent(c[i]))
             /\ RedactEvent(c[i]).task = RedactText(c[i].task)
             /\ RedactEvent(c[i]).details = RedactText(c[i].details)
             /\ RedactEvent(c[i]).sequence = c[i].sequence
             /\ RedactEvent(c[i]).prev = c[i].prev
             /\ RedactEvent(c[i]).hash = c[i].hash
  BY DEF IsList, IsEvent, RedactEvent, RedactText
<1>5. QED BY <1>2, <1>3, <1>4 DEF IsList

\* Filling in missing numbers keeps the list, and the events that have a number.
LEMMA BackfillList ==
  ASSUME NEW c, IsList(c)
  PROVE  /\ IsList(Backfill(c))
         /\ Len(Backfill(c)) = Len(c)
         /\ \A i \in 1 .. Len(c) :
              /\ Backfill(c)[i].sequence = IF c[i].sequence = Missing THEN i ELSE c[i].sequence
              /\ Backfill(c)[i].hash = c[i].hash
<1> DEFINE d == Backfill(c)
           e(i) == IF c[i].sequence = Missing THEN [c[i] EXCEPT !.sequence = i] ELSE c[i]
<1>1. DOMAIN c = 1 .. Len(c) /\ Len(c) \in Nat
  BY SequenceIsSeq DEF IsList, IsSequence
<1>2. d = [i \in 1 .. Len(c) |-> e(i)]
  BY <1>1 DEF Backfill
<1>3. IsSequence(d) /\ Len(d) = Len(c)
  <2> HIDE DEF e
  <2> QED BY <1>1, <1>2, FunctionIsSequence
<1>4. ASSUME NEW i \in 1 .. Len(c)
      PROVE  /\ IsEvent(e(i))
             /\ e(i).sequence = IF c[i].sequence = Missing THEN i ELSE c[i].sequence
             /\ e(i).hash = c[i].hash
  BY <1>1 DEF IsList, IsEvent
<1>5. \A i \in 1 .. Len(c) : d[i] = e(i)
  BY <1>2
<1> HIDE DEF d, e
<1>6. QED BY <1>3, <1>4, <1>5 DEF IsList, d

\* The file after an edit is a list again.
LEMMA EditedList ==
  ASSUME NEW c, IsList(c), NEW i \in 1 .. Len(c)
  PROVE  /\ IsList(RemoveAt(c, i))
         /\ IsList([c EXCEPT ![i].hash = NoHash])
         /\ \A text \in Texts : IsList([c EXCEPT ![i].details = text])
         /\ \A j \in 1 .. Len(c) : IsList([c EXCEPT ![i] = c[j], ![j] = c[i]])
<1> DEFINE S == {c[k] : k \in 1 .. Len(c)}
<1>1. /\ DOMAIN c = 1 .. Len(c) /\ Len(c) \in Nat /\ c \in Seq(S)
      /\ c = [k \in 1 .. Len(c) |-> c[k]]
  BY SequenceIsSeq DEF IsList, IsSequence
<1>2. \A k \in 1 .. Len(c) : IsEvent(c[k])
  BY DEF IsList
<1>3. IsList(RemoveAt(c, i))
  <2>1. SubSeq(c, 1, i - 1) \in Seq(S) /\ SubSeq(c, i + 1, Len(c)) \in Seq(S)
    BY <1>1, SubSeqProperties
  <2>2. RemoveAt(c, i) \in Seq(S)
    BY <2>1, ConcatProperties DEF RemoveAt
  <2> DEFINE d == RemoveAt(c, i)
  <2> HIDE DEF d
  <2>3. Len(d) \in Nat /\ d \in [1 .. Len(d) -> S]
    BY <2>2, LenProperties DEF d
  <2>4. \A x \in S : IsEvent(x)
    BY <1>2
  <2> HIDE DEF S
  <2>5. IsList(d)
    BY <2>3, <2>4 DEF IsList, IsSequence
  <2>6. QED BY <2>5 DEF d
<1>4. ASSUME NEW d, d = [k \in 1 .. Len(c) |-> d[k]],
             \A k \in 1 .. Len(c) : IsEvent(d[k])
      PROVE  IsList(d)
  BY <1>1, <1>4, FunctionIsSequence DEF IsList
<1>5. IsList([c EXCEPT ![i].hash = NoHash])
  <2> DEFINE d == [c EXCEPT ![i].hash = NoHash]
  <2>1. d = [k \in 1 .. Len(c) |-> d[k]]
    BY <1>1
  <2>2. \A k \in 1 .. Len(c) : d[k] = IF k = i THEN [c[i] EXCEPT !.hash = NoHash] ELSE c[k]
    BY <1>1
  <2>3. IsEvent([c[i] EXCEPT !.hash = NoHash])
    BY <1>2 DEF IsEvent
  <2> HIDE DEF d
  <2>4. \A k \in 1 .. Len(c) : IsEvent(d[k])
    BY <1>2, <2>2, <2>3
  <2>5. IsList(d)
    BY <1>4, <2>1, <2>4
  <2>6. QED BY <2>5 DEF d
<1>6. ASSUME NEW text \in Texts
      PROVE  IsList([c EXCEPT ![i].details = text])
  <2> DEFINE d == [c EXCEPT ![i].details = text]
  <2>1. d = [k \in 1 .. Len(c) |-> d[k]]
    BY <1>1
  <2>2. \A k \in 1 .. Len(c) : d[k] = IF k = i THEN [c[i] EXCEPT !.details = text] ELSE c[k]
    BY <1>1
  <2>3. IsEvent([c[i] EXCEPT !.details = text])
    BY <1>2 DEF IsEvent
  <2> HIDE DEF d
  <2>4. \A k \in 1 .. Len(c) : IsEvent(d[k])
    BY <1>2, <2>2, <2>3
  <2>5. IsList(d)
    BY <1>4, <2>1, <2>4
  <2>6. QED BY <2>5 DEF d
<1>7. ASSUME NEW j \in 1 .. Len(c)
      PROVE  IsList([c EXCEPT ![i] = c[j], ![j] = c[i]])
  <2> DEFINE d == [c EXCEPT ![i] = c[j], ![j] = c[i]]
  <2>1. d = [k \in 1 .. Len(c) |-> d[k]]
    BY <1>1
  <2>2. \A k \in 1 .. Len(c) : d[k] \in {c[i], c[j], c[k]}
    BY <1>1
  <2> HIDE DEF d
  <2>3. \A k \in 1 .. Len(c) : IsEvent(d[k])
    BY <1>2, <2>2
  <2>4. IsList(d)
    BY <1>4, <2>1, <2>3
  <2>5. QED BY <2>4 DEF d
<1>8. QED BY <1>3, <1>5, <1>6, <1>7
-----------------------------------------------------------------------------
(* The head of a chain and the books of the file.                          *)

\* The hashed events of a list are at some of its positions.
LEMMA HashedPositions ==
  ASSUME NEW c, IsList(c)
  PROVE  /\ HashedAt(c) = {i \in 1 .. Len(c) : c[i].hash # NoHash}
         /\ DOMAIN c = 1 .. Len(c) /\ Len(c) \in Nat
BY SequenceIsSeq DEF HashedAt, IsHashed, IsList, IsSequence

\* The head is the hash of the hashed event after which there is none.
LEMMA HeadIsLastHash ==
  ASSUME NEW c, IsList(c), HashedAt(c) # {}
  PROVE  \E last \in HashedAt(c) :
           ChainHead(c) = c[last].hash /\ \A j \in HashedAt(c) : j <= last
<1>1. HashedAt(c) \in SUBSET (0 .. Len(c)) /\ Len(c) \in Nat
  BY HashedPositions
<1>2. \E last \in HashedAt(c) : \A j \in HashedAt(c) : j <= last
  BY <1>1, GreatestNatural
<1>3. QED BY <1>2 DEF ChainHead

\* Saving redacts the events and keeps their hashes, so the head is the same.
LEMMA HeadOfRedacted ==
  ASSUME NEW c, IsList(c)
  PROVE  HashedAt(RedactEvents(c)) = HashedAt(c) /\ ChainHead(RedactEvents(c)) = ChainHead(c)
<1> DEFINE d == RedactEvents(c)
<1>1. IsList(d) /\ Len(d) = Len(c) /\ \A i \in 1 .. Len(c) : d[i].hash = c[i].hash
  BY RedactList
<1> HIDE DEF d
<1>2. HashedAt(d) = HashedAt(c)
  BY <1>1, HashedPositions
<1>3. \A i \in HashedAt(c) : d[i].hash = c[i].hash
  BY <1>1, HashedPositions
<1>4. ASSUME HashedAt(c) # {}
      PROVE  ChainHead(d) = ChainHead(c)
  <2> DEFINE last == CHOOSE i \in HashedAt(c) : \A j \in HashedAt(c) : j <= i
  <2>1. \E i \in HashedAt(c) : \A j \in HashedAt(c) : j <= i
    BY <1>4, HeadIsLastHash
  <2>2. last \in HashedAt(c)
    BY <2>1
  <2>3. QED BY <1>2, <1>3, <1>4, <2>2 DEF ChainHead
<1>5. CASE HashedAt(c) = {}
  BY <1>2, <1>5 DEF ChainHead, d
<1>6. QED BY <1>2, <1>4, <1>5 DEF d

\* The highest number of a list bounds its numbers and is one of them, or 0.
LEMMA HighestNumber ==
  ASSUME NEW c, IsList(c)
  PROVE  /\ Highest(c) \in Nat
         /\ \A i \in 1 .. Len(c) : c[i].sequence <= Highest(c)
<1> DEFINE numbers == {0} \cup {c[i].sequence : i \in DOMAIN c}
<1>1. DOMAIN c = 1 .. Len(c) /\ Len(c) \in Nat
  BY HashedPositions
<1>2. \A i \in 1 .. Len(c) : c[i].sequence \in Nat
  BY DEF IsList, IsEvent
<1>3. PICK b \in Nat : \A i \in 1 .. Len(c) : c[i].sequence <= b
  <2> DEFINE f == [i \in 1 .. Len(c) |-> c[i].sequence]
  <2>1. \A i \in 1 .. Len(c) : f[i] = c[i].sequence
    OBVIOUS
  <2> HIDE DEF f
  <2>2. \E b \in Nat : \A i \in 1 .. Len(c) : f[i] <= b
    BY <1>1, <1>2, <2>1, UpperBound
  <2>3. QED BY <2>1, <2>2
<1>4. numbers \in SUBSET (0 .. b) /\ 0 \in numbers
  BY <1>1, <1>2, <1>3
<1>5. \E n \in numbers : \A m \in numbers : m <= n
  <2> HIDE DEF numbers
  <2> QED BY <1>4, GreatestNatural
<1>6. Highest(c) \in numbers /\ \A m \in numbers : m <= Highest(c)
  <2>1. Highest(c) = CHOOSE n \in numbers : \A m \in numbers : m <= n
    BY DEF Highest
  <2> HIDE DEF numbers
  <2> QED BY <1>5, <2>1
<1>7. QED BY <1>1, <1>2, <1>4, <1>6

\* The integrity block is that of the last save, whatever was edited since.
Books ==
  /\ IsList(events) /\ IsList(saved) /\ IsList(disk.events)
  /\ sequence \in Nat /\ disk.sequence \in Nat /\ disk.version \in 0..2
  /\ DOMAIN disk = {"version", "events", "sequence", "head", "digest"}
  /\ used \in [loads : Nat, edits : Nat]
  /\ disk.head # NoHash => disk.head = ChainHead(saved)
  /\ disk.digest # NoHash => disk.digest = <<saved, disk.sequence>>

\* What an older release wrote is a list of unhashed events.
LEMMA OlderList ==
  ASSUME NEW older \in OlderFiles
  PROVE  /\ IsList(OlderEvents(older.sequences))
         /\ Len(OlderEvents(older.sequences)) = Len(older.sequences)
         /\ \A i \in 1 .. Len(older.sequences) :
              /\ OlderEvents(older.sequences)[i].sequence = older.sequences[i]
              /\ OlderEvents(older.sequences)[i].hash = NoHash
         /\ HashedAt(OlderEvents(older.sequences)) = {}
<1> DEFINE c == OlderEvents(older.sequences)
           n == Len(older.sequences)
           e(i) == [sequence |-> older.sequences[i], task |-> CHOOSE t \in TaskIds : TRUE,
                    details |-> CHOOSE t \in Texts : TRUE, prev |-> NoHash, hash |-> NoHash]
<1>1. n \in Nat /\ DOMAIN older.sequences = 1 .. n /\ \A i \in 1 .. n : older.sequences[i] \in Nat
  BY OlderFilesAssumption, LenProperties
<1>2. (CHOOSE t \in TaskIds : TRUE) \in Texts /\ (CHOOSE t \in Texts : TRUE) \in Texts
  BY ChainAssumption
<1>3. c = [i \in 1 .. n |-> e(i)]
  BY <1>1 DEF OlderEvents
<1>4. \A i \in 1 .. n : c[i] = e(i)
  BY <1>3
<1>5. IsSequence(c) /\ Len(c) = n
  <2> HIDE DEF e, n
  <2> QED BY <1>1, <1>3, FunctionIsSequence
<1>6. \A i \in 1 .. n : IsEvent(e(i)) /\ e(i).sequence = older.sequences[i] /\ e(i).hash = NoHash
  BY <1>1, <1>2 DEF IsEvent
<1> HIDE DEF c, e, n
<1>7. IsList(c) /\ \A i \in 1 .. n : c[i].sequence = older.sequences[i] /\ c[i].hash = NoHash
  BY <1>4, <1>5, <1>6 DEF IsList
<1>8. HashedAt(c) = {}
  BY <1>5, <1>7, HashedPositions
<1>9. QED BY <1>5, <1>7, <1>8 DEF c, n

\* A new event is an event: what it is linked to does not matter.
LEMMA NewEvent ==
  ASSUME Books, NEW task \in TaskIds, NEW details \in Texts, Record(task, details)
  PROVE  \E e : /\ IsEvent(e) /\ events' = Append(events, e)
                /\ e.sequence = sequence + 1 /\ e.task = task
                /\ e.details = RedactText(details) /\ e.prev = Link
                /\ e.hash = HashOf(e)
<1> DEFINE new == [sequence |-> sequence + 1, task |-> task,
                   details |-> RedactText(details), prev |-> Link, hash |-> NoHash]
           e == [new EXCEPT !.hash = HashOf(new)]
<1>1. events' = Append(events, e)
  BY DEF Record
<1>2. HashOf(e) = HashOf(new)
  BY DEF HashOf, Content
<1>3. /\ e.sequence = sequence + 1 /\ e.task = task
      /\ e.details = RedactText(details) /\ e.prev = Link /\ e.hash = HashOf(new)
      /\ e = [f \in EventFields |-> e[f]]
  BY DEF EventFields
<1> HIDE DEF e
<1>4. IsEvent(e)
  BY <1>3, ChainAssumption DEF IsEvent, RedactText, Books
<1>5. QED BY <1>1, <1>2, <1>3, <1>4

\* What a load makes of the file: the list with the missing numbers filled in.
LEMMA MigratedFile ==
  ASSUME Books
  PROVE  /\ IsList(Migrate(disk).events) /\ Migrate(disk).sequence \in Nat
         /\ disk.version = 2 => Migrate(disk).events = disk.events /\ Migrate(disk).sequence = disk.sequence
         /\ disk.version # 2 => Migrate(disk).events = Backfill(disk.events)
                                /\ Highest(Backfill(disk.events)) <= Migrate(disk).sequence
<1>1. IsList(Backfill(disk.events)) /\ Highest(Backfill(disk.events)) \in Nat
  BY BackfillList, HighestNumber DEF Books
<1>2. CASE disk.version = 2
  BY <1>2 DEF Migrate, Books
<1>3. CASE disk.version # 2
  <2> DEFINE filled == Backfill(disk.events)
  <2>1. Migrate(disk) = [disk EXCEPT !.version = 2, !.events = filled,
           !.sequence = IF @ < Highest(filled) THEN Highest(filled) ELSE @]
    BY <1>3 DEF Migrate
  <2> HIDE DEF filled
  <2>2. /\ Migrate(disk).events = filled
        /\ Migrate(disk).sequence
             = IF disk.sequence < Highest(filled) THEN Highest(filled) ELSE disk.sequence
    BY <2>1 DEF Books
  <2>3. QED BY <1>1, <1>3, <2>2 DEF Books, filled
<1>4. QED BY <1>2, <1>3

\* A project starts with the books of an older file, or with none.
LEMMA BooksInit == Init => Books
<1> SUFFICES ASSUME Init PROVE Books
  OBVIOUS
<1>1. PICK older \in OlderFiles :
        /\ saved = OlderEvents(older.sequences)
        /\ disk = [version |-> older.version, events |-> saved, sequence |-> 0,
                   head |-> NoHash, digest |-> NoHash]
  BY DEF Init
<1>2. IsList(saved)
  BY <1>1, OlderList
<1>3. IsList(events)
  <2>1. events = [i \in 1 .. 0 |-> events[i]] /\ Len(events) = 0
    BY DEF Init
  <2>2. QED BY <2>1 DEF IsList, IsSequence
<1>4. older.version \in 0..2
  BY OlderFilesAssumption
<1>5. QED BY <1>1, <1>2, <1>3, <1>4 DEF Books, Init

\* An edit changes the events of the file and nothing else of it.
LEMMA EditKeepsBooks ==
  ASSUME Books, NEW chain, IsList(chain), Edit(chain)
  PROVE  Books' /\ used'.edits # 0
<1>1. /\ disk'.events = chain /\ disk'.sequence = disk.sequence
      /\ disk'.version = disk.version /\ disk'.head = disk.head /\ disk'.digest = disk.digest
      /\ DOMAIN disk' = DOMAIN disk
  BY DEF Edit, Books
<1>2. used' \in [loads : Nat, edits : Nat] /\ used'.edits # 0
  BY DEF Edit, Books
<1>3. UNCHANGED <<events, saved, sequence>>
  BY DEF Edit
<1>4. QED BY <1>1, <1>2, <1>3 DEF Books

\* Every edit is one of lists.
LEMMA EditStep ==
  ASSUME Books,
         \/ \E i, j \in DOMAIN disk.events : i < j /\ Swap(i, j)
         \/ \E i \in DOMAIN disk.events :
              Delete(i) \/ Unhash(i) \/ \E text \in Texts : Rewrite(i, text)
  PROVE  Books' /\ used'.edits # 0
<1>1. IsList(disk.events) /\ DOMAIN disk.events = 1 .. Len(disk.events)
  BY HashedPositions DEF Books
<1>2. ASSUME NEW i \in DOMAIN disk.events, NEW j \in DOMAIN disk.events, Swap(i, j)
      PROVE  Books' /\ used'.edits # 0
  BY <1>1, <1>2, EditedList, EditKeepsBooks DEF Swap
<1>3. ASSUME NEW i \in DOMAIN disk.events, Delete(i)
      PROVE  Books' /\ used'.edits # 0
  BY <1>1, <1>3, EditedList, EditKeepsBooks DEF Delete
<1>4. ASSUME NEW i \in DOMAIN disk.events, Unhash(i)
      PROVE  Books' /\ used'.edits # 0
  BY <1>1, <1>4, EditedList, EditKeepsBooks DEF Unhash
<1>5. ASSUME NEW i \in DOMAIN disk.events, NEW text \in Texts, Rewrite(i, text)
      PROVE  Books' /\ used'.edits # 0
  BY <1>1, <1>5, EditedList, EditKeepsBooks DEF Rewrite
<1>6. QED BY <1>2, <1>3, <1>4, <1>5

\* Every step keeps them.
LEMMA BooksStep == Books /\ [Next]_vars => Books'
<1> SUFFICES ASSUME Books, [Next]_vars PROVE Books'
  OBVIOUS
<1>1. ASSUME NEW task \in TaskIds, NEW details \in Texts, Record(task, details)
      PROVE  Books'
  <2>1. IsList(events') /\ sequence' \in Nat
    BY <1>1, NewEvent, AppendToList DEF Books, Record
  <2>2. QED BY <1>1, <2>1 DEF Books, Record
<1>2. CASE Save
  <2>1. IsList(saved') /\ ChainHead(saved') = ChainHead(events)
    BY <1>2, RedactList, HeadOfRedacted DEF Books, Save
  <2>2. /\ disk'.events = saved' /\ disk'.sequence = sequence /\ disk'.version = 2
        /\ disk'.head = ChainHead(events) /\ disk'.digest = <<saved', sequence>>
        /\ DOMAIN disk' = {"version", "events", "sequence", "head", "digest"}
    BY <1>2 DEF Save
  <2>3. UNCHANGED <<events, sequence, used>>
    BY <1>2 DEF Save
  <2>4. QED BY <2>1, <2>2, <2>3 DEF Books
<1>3. CASE Load
  <2>1. IsList(events') /\ sequence' \in Nat /\ UNCHANGED <<disk, saved>>
    BY <1>3, MigratedFile DEF Load
  <2>2. used' \in [loads : Nat, edits : Nat]
    BY <1>3 DEF Load, Books
  <2>3. QED BY <2>1, <2>2 DEF Books
<1>4. CASE UNCHANGED vars
  BY <1>4 DEF vars, Books
<1>5. QED BY <1>1, <1>2, <1>3, <1>4, EditStep DEF Next

\* The books are kept in every behaviour.
LEMMA BooksKept == Spec => []Books
BY BooksInit, BooksStep, PTL DEF Spec

-----------------------------------------------------------------------------
(* The numbers of the events.                                              *)

\* The numbers of c increase, up to highest at most.
Increasing(c, highest) ==
  \A i \in DOMAIN c :
    c[i].sequence <= highest /\ \A j \in 1 .. i - 1 : c[j].sequence < c[i].sequence

\* Without edits the file is what was saved, and a load of it would give
\* increasing numbers below the counter.
Numbered ==
  used.edits = 0 =>
    /\ disk.events = saved
    /\ Increasing(events, sequence)
    /\ Increasing(Migrate(disk).events, Migrate(disk).sequence)

\* The older files of which the numbers increase do so once they are filled.
LEMMA NumberedInit == Init => Numbered
<1> SUFFICES ASSUME Init PROVE Numbered
  OBVIOUS
<1>1. PICK older \in OlderFiles :
        /\ saved = OlderEvents(older.sequences)
        /\ disk = [version |-> older.version, events |-> saved, sequence |-> 0,
                   head |-> NoHash, digest |-> NoHash]
  BY DEF Init
<1> DEFINE n == Len(older.sequences)
           Number(i) == IF older.sequences[i] = 0 THEN i ELSE older.sequences[i]
           after == Migrate(disk)
<1>2. Books
  BY BooksInit
<1>3. /\ n \in Nat /\ DOMAIN older.sequences = 1 .. n
      /\ \A i \in 1 .. n : older.sequences[i] \in Nat
      /\ older.version = 2 => n = 0
  BY OlderFilesAssumption, LenProperties
<1>4. /\ IsList(saved) /\ Len(saved) = n
      /\ \A i \in 1 .. n : saved[i].sequence = older.sequences[i]
  BY <1>1, OlderList
<1>5. disk.events = saved /\ disk.version = older.version
  BY <1>1
<1>6. CASE older.version = 2
  <2>1. after.events = saved /\ Len(saved) = 0
    BY <1>2, <1>3, <1>4, <1>5, <1>6, MigratedFile
  <2>2. DOMAIN after.events = 1 .. 0
    BY <1>4, <2>1, HashedPositions
  <2>3. QED BY <1>5, <2>2 DEF Numbered, Increasing, Init
<1>7. CASE older.version # 2
  <2> DEFINE filled == Backfill(saved)
  <2>1. /\ after.events = filled /\ Highest(filled) <= after.sequence
        /\ after.sequence \in Nat
    BY <1>2, <1>5, <1>7, MigratedFile
  <2>2. /\ IsList(filled) /\ Len(filled) = n
        /\ \A i \in 1 .. n : filled[i].sequence = Number(i)
    BY <1>4, BackfillList
  <2>3. DOMAIN filled = 1 .. n
    BY <2>2, HashedPositions
  <2>4. \A i, j \in 1 .. n : i < j => Number(i) < Number(j)
    BY <1>3, OlderNumbersAssumption
  <2>5. \A i \in 1 .. n : filled[i].sequence <= after.sequence
    <3> HIDE DEF filled, after
    <3>1. Highest(filled) \in Nat /\ \A i \in 1 .. n : filled[i].sequence <= Highest(filled)
      BY <2>2, HighestNumber
    <3>2. \A i \in 1 .. n : filled[i].sequence \in Nat
      BY <2>2 DEF IsList, IsEvent
    <3>3. QED BY <2>1, <3>1, <3>2
  <2> HIDE DEF filled, after, Number
  <2>6. \A i \in 1 .. n : \A j \in 1 .. i - 1 : filled[j].sequence < filled[i].sequence
    <3> TAKE i \in 1 .. n
    <3> TAKE j \in 1 .. i - 1
    <3>1. j \in 1 .. n /\ j < i
      BY <1>3
    <3>2. QED BY <2>2, <2>4, <3>1
  <2>7. Increasing(after.events, after.sequence)
    BY <2>1, <2>3, <2>5, <2>6 DEF Increasing
  <2>8. QED BY <1>5, <2>7 DEF Numbered, Increasing, Init, after
<1>8. QED BY <1>6, <1>7

\* Every step keeps the numbers of an unedited file in order.
LEMMA NumberedStep == Books /\ Numbered /\ [Next]_vars => Numbered'
<1> SUFFICES ASSUME Books, Numbered, [Next]_vars PROVE Numbered'
  OBVIOUS
<1>1. ASSUME NEW task \in TaskIds, NEW details \in Texts, Record(task, details)
      PROVE  Numbered'
  <2>1. PICK e : IsEvent(e) /\ events' = Append(events, e) /\ e.sequence = sequence + 1
    BY <1>1, NewEvent
  <2> DEFINE n == Len(events)
             c == events'
  <2>2. /\ IsList(c) /\ Len(c) = n + 1 /\ c[n + 1] = e
        /\ \A i \in 1 .. n : c[i] = events[i]
    BY <2>1, AppendToList DEF Books
  <2> HIDE DEF c
  <2>3. DOMAIN c = 1 .. n + 1 /\ DOMAIN events = 1 .. n /\ n \in Nat
    BY <2>2, HashedPositions DEF Books
  <2>4. \A i \in 1 .. n : events[i].sequence \in Nat
    BY DEF Books, IsList, IsEvent
  <2>5. sequence' = sequence + 1 /\ sequence \in Nat /\ UNCHANGED <<disk, saved, used>>
    BY <1>1 DEF Record, Books
  <2>6. ASSUME used.edits = 0
        PROVE  Increasing(c, sequence + 1)
    <3>1. \A i \in 1 .. n : events[i].sequence <= sequence
                            /\ \A j \in 1 .. i - 1 : events[j].sequence < events[i].sequence
      BY <2>3, <2>6 DEF Numbered, Increasing
    <3>2. \A i \in 1 .. n : c[i].sequence <= sequence + 1
      BY <2>2, <2>4, <2>5, <3>1
    <3>3. \A j \in 1 .. n : c[j].sequence < c[n + 1].sequence
      BY <2>1, <2>2, <2>4, <2>5, <3>1
    <3>4. \A i \in 1 .. n : \A j \in 1 .. i - 1 : c[j].sequence < c[i].sequence
      <4> TAKE i \in 1 .. n
      <4> TAKE j \in 1 .. i - 1
      <4>1. j \in 1 .. n
        BY <2>3
      <4>2. QED BY <2>2, <3>1, <4>1
    <3>5. c[n + 1].sequence <= sequence + 1
      BY <2>1, <2>2, <2>5
    <3>6. \A i \in 1 .. n + 1 : i \in 1 .. n \/ i = n + 1
      BY <2>3
    <3>7. QED BY <2>3, <3>2, <3>3, <3>4, <3>5, <3>6 DEF Increasing
  <2>7. QED BY <2>5, <2>6 DEF Numbered, c
<1>2. CASE Save
  <2> DEFINE d == RedactEvents(events)
  <2>1. /\ IsList(d) /\ Len(d) = Len(events)
        /\ \A i \in 1 .. Len(events) : d[i].sequence = events[i].sequence
    BY RedactList DEF Books
  <2>2. DOMAIN d = 1 .. Len(events) /\ DOMAIN events = 1 .. Len(events) /\ Len(events) \in Nat
    BY <2>1, HashedPositions DEF Books
  <2>3. saved' = d /\ disk'.events = d /\ disk'.sequence = sequence /\ disk'.version = 2
    BY <1>2 DEF Save
  <2> HIDE DEF d
  <2>4. ASSUME used.edits = 0
        PROVE  Increasing(d, sequence)
    <3>1. \A i \in 1 .. Len(events) : events[i].sequence <= sequence
                            /\ \A j \in 1 .. i - 1 : events[j].sequence < events[i].sequence
      BY <2>2, <2>4 DEF Numbered, Increasing
    <3>2. \A i \in 1 .. Len(events) : \A j \in 1 .. i - 1 : j \in 1 .. Len(events)
      BY <2>2
    <3>3. QED BY <2>1, <2>2, <3>1, <3>2 DEF Increasing
  <2>5. Migrate(disk)' = disk'
    BY <2>3 DEF Migrate
  <2>6. UNCHANGED <<events, sequence, used>>
    BY <1>2 DEF Save
  <2>7. QED BY <2>3, <2>4, <2>5, <2>6 DEF Numbered
<1>3. CASE Load
  <2>1. /\ events' = Migrate(disk).events /\ sequence' = Migrate(disk).sequence
        /\ used'.edits = used.edits /\ UNCHANGED <<disk, saved>>
    BY <1>3 DEF Load, Books
  <2>2. Migrate(disk)' = Migrate(disk)
    BY <2>1 DEF Migrate, Backfill, Highest
  <2>3. QED BY <2>1, <2>2 DEF Numbered
<1>4. CASE UNCHANGED vars
  <2>1. UNCHANGED <<events, sequence, disk, saved, used>>
    BY <1>4 DEF vars
  <2>2. Migrate(disk)' = Migrate(disk)
    BY <2>1 DEF Migrate, Backfill, Highest
  <2>3. QED BY <2>1, <2>2 DEF Numbered, Increasing
<1>5. ASSUME used'.edits # 0
      PROVE  Numbered'
  BY <1>5 DEF Numbered
<1>6. QED BY <1>1, <1>2, <1>3, <1>4, <1>5, EditStep DEF Next

\* Across any sequence of records, saves, loads and migrations the numbers of the
\* events increase and stay below the counter, so that the next one is new.
THEOREM NumbersIncrease == Spec => []SequencesIncrease
<1>1. Numbered => SequencesIncrease
  BY DEF Numbered, Increasing, SequencesIncrease
<1>2. QED BY <1>1, BooksKept, NumberedInit, NumberedStep, PTL DEF Spec

-----------------------------------------------------------------------------
(* The links of the chain.                                                 *)

\* Saving does not change what it saves: what is hashed is redacted already.
Fixed(c) ==
  \A i \in HashedAt(c) :
    RedactText(c[i].task) = c[i].task /\ RedactText(c[i].details) = c[i].details

\* Without edits the events in memory and those in the file form chains that
\* saving and loading keep: what an older release wrote is not hashed.
Chained ==
  used.edits = 0 =>
    /\ disk.events = saved
    /\ VerifyChain(events) /\ Fixed(events)
    /\ VerifyChain(saved) /\ Fixed(saved)
    /\ disk.version # 2 => HashedAt(saved) = {}

\* In a chain every position after a hashed one is hashed.
LEMMA HashedIsSuffix ==
  ASSUME NEW c, IsList(c), VerifyChain(c), NEW i \in HashedAt(c)
  PROVE  i .. Len(c) \subseteq HashedAt(c)
<1> DEFINE Gap == {j \in i .. Len(c) : j \notin HashedAt(c)}
<1>1. /\ HashedAt(c) \in SUBSET (1 .. Len(c)) /\ DOMAIN c = 1 .. Len(c) /\ Len(c) \in Nat
  BY HashedPositions
<1>2. SUFFICES ASSUME Gap # {} PROVE FALSE
  OBVIOUS
<1>3. PICK j \in Gap : \A k \in Gap : j <= k
  <2>1. Gap \in SUBSET Nat
    BY <1>1
  <2> HIDE DEF Gap
  <2> QED BY <1>2, <2>1, LeastNatural
<1>4. j \in 1 .. Len(c) /\ j # i /\ j - 1 \in i .. Len(c) /\ j - 1 < j
  BY <1>1
<1>5. j - 1 \in HashedAt(c)
  BY <1>3, <1>4
<1>6. (j - 1) + 1 = j
  BY <1>4
<1>7. j \in HashedAt(c)
  BY <1>1, <1>4, <1>5, <1>6 DEF VerifyChain
<1>8. QED BY <1>7

\* The head of a chain is the hash of its last event, and a new event is linked
\* to it.
LEMMA HeadOfChain ==
  ASSUME NEW c, IsList(c), VerifyChain(c), HashedAt(c) # {}
  PROVE  Len(c) \in HashedAt(c) /\ ChainHead(c) = c[Len(c)].hash
<1>1. HashedAt(c) \in SUBSET (1 .. Len(c)) /\ Len(c) \in Nat
  BY HashedPositions
<1>2. PICK last \in HashedAt(c) : ChainHead(c) = c[last].hash /\ \A j \in HashedAt(c) : j <= last
  BY HeadIsLastHash
<1>3. Len(c) \in HashedAt(c)
  BY <1>1, HashedIsSuffix
<1>4. last = Len(c)
  BY <1>1, <1>2, <1>3
<1>5. QED BY <1>2, <1>3, <1>4

\* A chain goes on with an event that is linked to its head.
LEMMA ChainGrows ==
  ASSUME NEW c, IsList(c), VerifyChain(c), NEW e, IsEvent(e), e.hash = HashOf(e),
         e.prev = IF HashedAt(c) = {} THEN Genesis ELSE ChainHead(c)
  PROVE  /\ VerifyChain(Append(c, e))
         /\ HashedAt(Append(c, e)) = HashedAt(c) \cup {Len(c) + 1}
<1> DEFINE d == Append(c, e)
           n == Len(c)
<1>1. IsList(d) /\ Len(d) = n + 1 /\ d[n + 1] = e /\ \A i \in 1 .. n : d[i] = c[i]
  BY AppendToList
<1>2. e.hash # NoHash
  BY DEF HashOf, Content, NoHash
<1>3. /\ HashedAt(c) = {i \in 1 .. n : c[i].hash # NoHash}
      /\ DOMAIN c = 1 .. n /\ n \in Nat
  BY HashedPositions
<1> HIDE DEF d, n
<1>4. /\ HashedAt(d) = {i \in 1 .. n + 1 : d[i].hash # NoHash}
      /\ DOMAIN d = 1 .. n + 1
  BY <1>1, HashedPositions
<1>5. HashedAt(d) = HashedAt(c) \cup {n + 1}
  BY <1>1, <1>2, <1>3, <1>4
<1>6. ASSUME NEW i \in HashedAt(c)
      PROVE  /\ i + 1 \in DOMAIN d => i + 1 \in HashedAt(d)
             /\ d[i].prev = ExpectedPrev(d, i)
             /\ d[i].hash = HashOf(d[i])
  <2>1. /\ i + 1 \in DOMAIN c => i + 1 \in HashedAt(c)
        /\ c[i].prev = ExpectedPrev(c, i)
        /\ c[i].hash = HashOf(c[i])
    BY DEF VerifyChain
  <2>2. i \in 1 .. n /\ d[i] = c[i]
    BY <1>1, <1>3
  <2>3. i + 1 \in DOMAIN d => i + 1 \in HashedAt(d)
    BY <1>3, <1>4, <1>5, <2>1, <2>2
  <2>4. ExpectedPrev(d, i) = ExpectedPrev(c, i)
    <3>1. i - 1 \in HashedAt(d) <=> i - 1 \in HashedAt(c)
      BY <1>3, <1>5, <2>2
    <3>2. i - 1 \in HashedAt(c) => d[i - 1] = c[i - 1]
      BY <1>1, <1>3
    <3>3. QED BY <3>1, <3>2 DEF ExpectedPrev
  <2>5. QED BY <2>1, <2>2, <2>3, <2>4
<1>6a. (n + 1) + 1 = n + 2 /\ (n + 1) - 1 = n
  BY <1>3
<1>7. /\ n + 2 \notin DOMAIN d
      /\ d[n + 1].prev = ExpectedPrev(d, n + 1)
      /\ d[n + 1].hash = HashOf(d[n + 1])
  <2>1. CASE HashedAt(c) = {}
    <3>1. n # n + 1 /\ n \notin HashedAt(d)
      BY <1>3, <1>5, <2>1
    <3>2. QED BY <1>1, <1>3, <1>4, <1>6a, <2>1, <3>1 DEF ExpectedPrev
  <2>2. CASE HashedAt(c) # {}
    <3>1. n \in HashedAt(c) /\ ChainHead(c) = c[n].hash
      BY <2>2, HeadOfChain DEF n
    <3>2. d[n] = c[n] /\ n \in HashedAt(d)
      BY <1>1, <1>3, <1>5, <3>1
    <3>3. ExpectedPrev(d, n + 1) = c[n].hash
      BY <1>6a, <3>2 DEF ExpectedPrev
    <3>4. QED BY <1>1, <1>3, <1>4, <2>2, <3>1, <3>3
  <2>3. QED BY <2>1, <2>2
<1>9. VerifyChain(d)
  BY <1>5, <1>6, <1>6a, <1>7 DEF VerifyChain
<1>10. QED BY <1>5, <1>9 DEF d, n

\* Saving a chain of which every hashed event is redacted already keeps it.
LEMMA ChainIsSaved ==
  ASSUME NEW c, IsList(c), VerifyChain(c), Fixed(c)
  PROVE  VerifyChain(RedactEvents(c)) /\ Fixed(RedactEvents(c))
<1> DEFINE d == RedactEvents(c)
<1>1. /\ IsList(d) /\ Len(d) = Len(c)
      /\ \A i \in 1 .. Len(c) :
           /\ d[i].task = RedactText(c[i].task) /\ d[i].details = RedactText(c[i].details)
           /\ d[i].sequence = c[i].sequence /\ d[i].prev = c[i].prev /\ d[i].hash = c[i].hash
  BY RedactList
<1>2. HashedAt(d) = HashedAt(c)
  BY HeadOfRedacted
<1> HIDE DEF d
<1>3. DOMAIN d = DOMAIN c /\ HashedAt(c) \in SUBSET (1 .. Len(c))
  BY <1>1, HashedPositions
<1>4. \A i \in HashedAt(c) :
        /\ d[i].task = c[i].task /\ d[i].details = c[i].details
        /\ d[i].sequence = c[i].sequence /\ d[i].prev = c[i].prev /\ d[i].hash = c[i].hash
  BY <1>1, <1>3 DEF Fixed
<1>4a. \A i \in HashedAt(c) : HashOf(d[i]) = HashOf(c[i])
  BY <1>4 DEF HashOf, Content
<1>5. \A i \in HashedAt(c) : ExpectedPrev(d, i) = ExpectedPrev(c, i)
  BY <1>2, <1>4 DEF ExpectedPrev
<1>6. VerifyChain(d)
  BY <1>2, <1>3, <1>4, <1>4a, <1>5 DEF VerifyChain
<1>7. Fixed(d)
  BY <1>2, <1>4 DEF Fixed
<1>8. QED BY <1>6, <1>7 DEF d

\* Events that are not hashed form a chain.
LEMMA UnhashedIsChain ==
  ASSUME NEW c, HashedAt(c) = {}
  PROVE  VerifyChain(c) /\ Fixed(c)
BY DEF VerifyChain, Fixed

\* An unhashed list is a chain of its own.
LEMMA ChainedInit == Init => Chained
<1> SUFFICES ASSUME Init PROVE Chained
  OBVIOUS
<1>1. HashedAt(saved) = {} /\ disk.events = saved
  BY OlderList DEF Init
<1>2. HashedAt(events) = {}
  BY DEF Init, HashedAt
<1>3. QED BY <1>1, <1>2, UnhashedIsChain DEF Chained

\* Every step keeps the chains of an unedited file, if no task id is redacted.
LEMMA ChainedStep ==
  ASSUME TaskIds \cap SecretLike = {}
  PROVE  Books /\ Chained /\ [Next]_vars => Chained'
<1> SUFFICES ASSUME Books, Chained, [Next]_vars PROVE Chained'
  OBVIOUS
<1>1. ASSUME NEW task \in TaskIds, NEW details \in Texts, Record(task, details)
      PROVE  Chained'
  <2>1. UNCHANGED <<disk, saved, used>>
    BY <1>1 DEF Record
  <2>2. PICK e : /\ IsEvent(e) /\ events' = Append(events, e)
                 /\ e.task = task /\ e.details = RedactText(details)
                 /\ e.prev = Link /\ e.hash = HashOf(e)
    BY <1>1, NewEvent
  <2>3. RedactText(e.task) = e.task /\ RedactText(e.details) = e.details
    BY <2>2, ChainAssumption DEF RedactText
  <2>4. ASSUME used.edits = 0
        PROVE  VerifyChain(events') /\ Fixed(events')
    <3>1. VerifyChain(events) /\ Fixed(events) /\ IsList(events)
      BY <2>4 DEF Chained, Books
    <3>2. /\ VerifyChain(Append(events, e))
          /\ HashedAt(Append(events, e)) = HashedAt(events) \cup {Len(events) + 1}
      BY <2>2, <3>1, ChainGrows DEF Link
    <3>3. /\ \A i \in HashedAt(events) : Append(events, e)[i] = events[i]
          /\ Append(events, e)[Len(events) + 1] = e
      BY <2>2, <3>1, AppendToList, HashedPositions
    <3>4. QED BY <2>2, <2>3, <3>1, <3>2, <3>3 DEF Fixed
  <2>5. QED BY <2>1, <2>4 DEF Chained
<1>2. CASE Save
  <2>1. /\ disk'.events = saved' /\ saved' = RedactEvents(events) /\ disk'.version = 2
        /\ UNCHANGED <<events, used>>
    BY <1>2 DEF Save
  <2>2. ASSUME used.edits = 0
        PROVE  VerifyChain(saved') /\ Fixed(saved')
    BY <2>1, <2>2, ChainIsSaved DEF Chained, Books
  <2>3. QED BY <2>1, <2>2 DEF Chained
<1>3. CASE Load
  <2>1. /\ events' = Migrate(disk).events /\ used'.edits = used.edits
        /\ UNCHANGED <<disk, saved>>
    BY <1>3 DEF Load, Books
  <2>2. ASSUME used.edits = 0
        PROVE  VerifyChain(events') /\ Fixed(events')
    <3>1. disk.events = saved /\ VerifyChain(saved) /\ Fixed(saved)
          /\ (disk.version # 2 => HashedAt(saved) = {})
      BY <2>2 DEF Chained
    <3>2. CASE disk.version = 2
      BY <2>1, <3>1, <3>2, MigratedFile
    <3>3. CASE disk.version # 2
      <4>1. events' = Backfill(saved)
        BY <2>1, <3>1, <3>3, MigratedFile
      <4>2. /\ IsList(events') /\ Len(events') = Len(saved)
            /\ \A i \in 1 .. Len(saved) : events'[i].hash = saved[i].hash
        BY <4>1, BackfillList DEF Books
      <4>3. \A i \in 1 .. Len(saved) : saved[i].hash = NoHash
        BY <3>1, <3>3, HashedPositions DEF Books
      <4>4. HashedAt(events') = {}
        BY <4>2, <4>3, HashedPositions
      <4>5. QED BY <4>4, UnhashedIsChain
    <3>4. QED BY <3>2, <3>3
  <2>3. QED BY <2>1, <2>2 DEF Chained
<1>4. CASE UNCHANGED vars
  BY <1>4 DEF vars, Chained, VerifyChain, Fixed
<1>5. ASSUME used'.edits # 0
      PROVE  Chained'
  BY <1>5 DEF Chained
<1>6. QED BY <1>1, <1>2, <1>3, <1>4, <1>5, EditStep DEF Next

\* If no task id looks like a secret, then the events in memory and the file verify
\* as long as nobody edited the file, however often it is saved, loaded and migrated.
THEOREM UneditedChains ==
  ASSUME TaskIds \cap SecretLike = {}
  PROVE  Spec => []ChainVerifies
<1>1. Books => TypeOK
  BY HashedPositions DEF Books, TypeOK, IsList
<1>2. Books /\ Chained => ChainVerifies
  <2> SUFFICES ASSUME Books, Chained, used.edits = 0
               PROVE  VerifyChain(events) /\ VerifyFile(disk)
    BY <1>1 DEF ChainVerifies
  <2>1. VerifyChain(events) /\ VerifyChain(disk.events) /\ disk.events = saved
    BY DEF Chained
  <2>2. disk.head # NoHash => disk.head = ChainHead(disk.events)
    BY <2>1 DEF Books
  <2>3. QED BY <2>1, <2>2 DEF VerifyFile
<1>3. Books /\ Chained /\ [Next]_vars => Chained'
  BY ChainedStep
<1>4. QED BY <1>2, <1>3, BooksKept, ChainedInit, PTL DEF Spec

-----------------------------------------------------------------------------
(* Which edits are found.                                                  *)

\* A hash is the content of its event, the previous hash included.
LEMMA SameHashSameEvent ==
  ASSUME NEW x, NEW y, IsEvent(x), IsEvent(y),
         x.hash = HashOf(x), y.hash = HashOf(y), x.hash = y.hash
  PROVE  x = y
<1>1. x.sequence = y.sequence /\ x.task = y.task /\ x.details = y.details /\ x.prev = y.prev
  BY DEF HashOf, Content
<1>2. \A field \in EventFields : x[field] = y[field]
  BY <1>1
<1>3. QED BY <1>2 DEF IsEvent

\* Counted from their ends, c and s have the same event, hashed in both, or have
\* both none that is hashed.
SameFromEnd(c, s, k) ==
  /\ Len(c) - k \in HashedAt(c) <=> Len(s) - k \in HashedAt(s)
  /\ Len(c) - k \in HashedAt(c) => c[Len(c) - k] = s[Len(s) - k]

\* Two chains with the same head have the same hashed events: each event fixes the
\* hash of the one before it, and Genesis is nobody's hash.
LEMMA SameHeadSameChain ==
  ASSUME NEW c, NEW s, IsList(c), IsList(s), VerifyChain(c), VerifyChain(s),
         HashedAt(c) # {}, HashedAt(s) # {}, ChainHead(c) = ChainHead(s)
  PROVE  \A k \in Nat : SameFromEnd(c, s, k)
<1> DEFINE n == Len(c)
           m == Len(s)
           Wrong == {k \in Nat : ~ SameFromEnd(c, s, k)}
<1>1. /\ n \in Nat /\ m \in Nat
      /\ HashedAt(c) \in SUBSET (1 .. n) /\ HashedAt(s) \in SUBSET (1 .. m)
      /\ DOMAIN c = 1 .. n /\ DOMAIN s = 1 .. m
  BY HashedPositions
<1>2. /\ \A i \in HashedAt(c) : IsEvent(c[i]) /\ c[i].hash = HashOf(c[i])
      /\ \A i \in HashedAt(s) : IsEvent(s[i]) /\ s[i].hash = HashOf(s[i])
  BY <1>1 DEF VerifyChain, IsList
<1>3. SUFFICES ASSUME Wrong # {} PROVE FALSE
  OBVIOUS
<1>4. PICK k \in Wrong : \A l \in Wrong : k <= l
  <2>1. Wrong \in SUBSET Nat
    OBVIOUS
  <2> HIDE DEF Wrong
  <2> QED BY <1>3, <2>1, LeastNatural
<1>5. k # 0
  <2>1. n - 0 = n /\ m - 0 = m
    BY <1>1
  <2>2. n \in HashedAt(c) /\ m \in HashedAt(s) /\ c[n].hash = s[m].hash
    BY HeadOfChain
  <2>3. c[n] = s[m]
    BY <1>2, <2>2, SameHashSameEvent
  <2>4. SameFromEnd(c, s, 0)
    BY <2>1, <2>2, <2>3 DEF SameFromEnd
  <2>5. QED BY <2>4
<1> DEFINE i == n - (k - 1)
           j == m - (k - 1)
<1>6. /\ k - 1 \in Nat /\ i \in Int /\ j \in Int /\ n - k = i - 1 /\ m - k = j - 1
      /\ ~ k <= k - 1
  BY <1>1, <1>5
<1>7. SameFromEnd(c, s, k - 1)
  <2>1. k - 1 \notin Wrong
    BY <1>4, <1>6
  <2>2. QED BY <1>6, <2>1
<1>8. /\ i \in HashedAt(c) <=> j \in HashedAt(s)
      /\ i \in HashedAt(c) => c[i] = s[j]
  BY <1>7 DEF SameFromEnd
<1>9. ~ SameFromEnd(c, s, k)
  OBVIOUS
<1> HIDE DEF i, j, Wrong
<1>10. CASE i \notin HashedAt(c)
  \* What is before an unhashed event is not hashed either.
  <2>1. i - 1 \notin HashedAt(c)
    <3>1. ASSUME i - 1 \in HashedAt(c) PROVE FALSE
      <4>1. (i - 1) + 1 = i /\ i - 1 \in 1 .. n
        BY <1>1, <1>6, <3>1
      <4>2. i \in 1 .. n
        BY <1>1, <1>6, <4>1 DEF i
      <4>3. QED BY <1>1, <1>10, <3>1, <4>1, <4>2 DEF VerifyChain
    <3>2. QED BY <3>1
  <2>2. j - 1 \notin HashedAt(s)
    <3>1. ASSUME j - 1 \in HashedAt(s) PROVE FALSE
      <4>1. (j - 1) + 1 = j /\ j - 1 \in 1 .. m
        BY <1>1, <1>6, <3>1
      <4>2. j \in 1 .. m
        BY <1>1, <1>6, <4>1 DEF j
      <4>3. QED BY <1>1, <1>8, <1>10, <3>1, <4>1, <4>2 DEF VerifyChain
    <3>2. QED BY <3>1
  <2>3. QED BY <1>6, <1>9, <2>1, <2>2 DEF SameFromEnd
<1>11. CASE i \in HashedAt(c)
  <2>1. j \in HashedAt(s) /\ c[i].prev = s[j].prev
    BY <1>8, <1>11
  <2>2. ExpectedPrev(c, i) = ExpectedPrev(s, j)
    BY <1>11, <2>1 DEF VerifyChain
  <2>3. /\ \A l \in HashedAt(c) : c[l].hash # Genesis
        /\ \A l \in HashedAt(s) : s[l].hash # Genesis
    <3>1. \A e : HashOf(e) # Genesis
      BY DEF HashOf, Content, Genesis
    <3>2. QED BY <1>2, <3>1
  <2>4. i - 1 \in HashedAt(c) <=> j - 1 \in HashedAt(s)
    BY <2>2, <2>3 DEF ExpectedPrev
  <2>5. i - 1 \in HashedAt(c) => c[i - 1].hash = s[j - 1].hash
    BY <2>2, <2>4 DEF ExpectedPrev
  <2>6. i - 1 \in HashedAt(c) => c[i - 1] = s[j - 1]
    BY <1>2, <2>4, <2>5, SameHashSameEvent
  <2>7. QED BY <1>6, <1>9, <2>4, <2>6 DEF SameFromEnd
<1>12. QED BY <1>10, <1>11

\* So they have the same hashed suffix.
LEMMA SameHeadSameSuffix ==
  ASSUME NEW c, NEW s, IsList(c), IsList(s), VerifyChain(c), VerifyChain(s),
         HashedAt(c) # {}, HashedAt(s) # {}, ChainHead(c) = ChainHead(s)
  PROVE  HashedSuffix(c) = HashedSuffix(s)
<1> DEFINE n == Len(c)
           m == Len(s)
           f == CHOOSE i \in HashedAt(c) : \A j \in HashedAt(c) : i <= j
           g == CHOOSE i \in HashedAt(s) : \A j \in HashedAt(s) : i <= j
<1>1. /\ n \in Nat /\ m \in Nat
      /\ HashedAt(c) \in SUBSET (1 .. n) /\ HashedAt(s) \in SUBSET (1 .. m)
  BY HashedPositions
<1>2. f \in HashedAt(c) /\ \A j \in HashedAt(c) : f <= j
  <2>1. \E i \in HashedAt(c) : \A j \in HashedAt(c) : i <= j
    <3>1. HashedAt(c) \in SUBSET Nat
      BY <1>1
    <3>2. QED BY <3>1, LeastNatural
  <2>2. QED BY <2>1
<1>3. g \in HashedAt(s) /\ \A j \in HashedAt(s) : g <= j
  <2>1. \E i \in HashedAt(s) : \A j \in HashedAt(s) : i <= j
    <3>1. HashedAt(s) \in SUBSET Nat
      BY <1>1
    <3>2. QED BY <3>1, LeastNatural
  <2>2. QED BY <2>1
<1>4. HashedSuffix(c) = SubSeq(c, f, n) /\ HashedSuffix(s) = SubSeq(s, g, m)
  BY DEF HashedSuffix
<1> HIDE DEF f, g, n, m
<1>5. f \in 1 .. n /\ g \in 1 .. m
  BY <1>1, <1>2, <1>3
<1>6. \A k \in Nat : /\ n - k \in HashedAt(c) <=> m - k \in HashedAt(s)
                     /\ n - k \in HashedAt(c) => c[n - k] = s[m - k]
  BY SameHeadSameChain DEF SameFromEnd, n, m
<1>7. n - f = m - g
  <2>1. /\ n - f \in Nat /\ m - g \in Nat
        /\ n - (n - f) = f /\ m - (m - g) = g
    BY <1>1, <1>5
  <2>2. m - (n - f) \in HashedAt(s) /\ n - (m - g) \in HashedAt(c)
    BY <1>2, <1>3, <1>6, <2>1
  <2>3. g <= m - (n - f) /\ f <= n - (m - g)
    BY <1>2, <1>3, <2>2
  <2>4. QED BY <1>1, <1>5, <2>3
<1>8. \A i \in f .. n : i \in HashedAt(c)
  BY <1>2, HashedIsSuffix DEF n
<1> DEFINE S == {c[i] : i \in 1 .. n} \cup {s[i] : i \in 1 .. m}
           a == SubSeq(c, f, n)
           b == SubSeq(s, g, m)
<1>9. c \in Seq(S) /\ s \in Seq(S)
  <2>1. c \in Seq({c[i] : i \in 1 .. n}) /\ s \in Seq({s[i] : i \in 1 .. m})
    BY SequenceIsSeq DEF IsList, n, m
  <2>2. {c[i] : i \in 1 .. n} \subseteq S /\ {s[i] : i \in 1 .. m} \subseteq S
    OBVIOUS
  <2> HIDE DEF S
  <2>3. QED BY <2>1, <2>2, SeqMonotonic
<1> HIDE DEF S
<1>10. /\ a \in Seq(S) /\ Len(a) = n - f + 1 /\ \A i \in 1 .. n - f + 1 : a[i] = c[f + i - 1]
       /\ b \in Seq(S) /\ Len(b) = m - g + 1 /\ \A i \in 1 .. m - g + 1 : b[i] = s[g + i - 1]
  BY <1>1, <1>5, <1>9, SubSeqProperties DEF n, m
<1>11. ASSUME NEW i \in 1 .. n - f + 1
       PROVE  a[i] = b[i]
  <2> DEFINE k == n - (f + i - 1)
  <2>1. k \in Nat /\ n - k = f + i - 1 /\ f + i - 1 \in f .. n
    BY <1>1, <1>5
  <2>2. m - k = g + i - 1
    BY <1>1, <1>5, <1>7, <2>1
  <2> HIDE DEF k
  <2>3. c[n - k] = s[m - k]
    BY <1>6, <1>8, <2>1
  <2>4. QED BY <1>7, <1>10, <2>1, <2>2, <2>3
<1>12. a = b
  <2> HIDE DEF a, b
  <2> QED BY <1>7, <1>10, <1>11, SeqEqual
<1>13. QED BY <1>4, <1>12

\* Whatever is edited in the file after a save: the digest finds every edit, and the
\* chain with the recorded head every edit of the hashed events.
THEOREM EditsFound == Spec => []EditsAreFound
<1>1. Books => EditsAreDetected
  <2> SUFFICES ASSUME Books, disk.head # NoHash, VerifyChain(saved), VerifyFile(disk)
               PROVE  HashedSuffix(disk.events) = HashedSuffix(saved)
    BY DEF EditsAreDetected
  <2>1. /\ IsList(disk.events) /\ IsList(saved)
        /\ ChainHead(disk.events) = ChainHead(saved) /\ ChainHead(saved) # NoHash
        /\ VerifyChain(disk.events)
    BY DEF Books, VerifyFile
  <2>2. HashedAt(disk.events) # {} /\ HashedAt(saved) # {}
    BY <2>1 DEF ChainHead
  <2>3. QED BY <2>1, <2>2, SameHeadSameSuffix
<1>2. Books => DigestFindsEdits
  <2> SUFFICES ASSUME Books PROVE DigestFindsEdits
    OBVIOUS
  <2>1. disk.digest # NoHash => (VerifyDigest(disk) <=> disk.events = saved)
    BY DEF Books, VerifyDigest
  <2>2. VerifyDigest(disk) => disk.digest # NoHash
    BY DEF VerifyDigest, NoHash
  <2>3. ExitCode(disk) = 0 => VerifyDigest(disk)
    BY DEF ExitCode, Checks
  <2>4. QED BY <2>1, <2>2, <2>3 DEF DigestFindsEdits
<1>3. Books => EditsAreFound
  BY <1>1, <1>2 DEF EditsAreFound
<1>4. QED BY <1>3, BooksKept, PTL

-----------------------------------------------------------------------------
(* Artifacts and their manifest.                                           *)

\* The artifacts that remain to be written after one of them.
LEMMA RestOfBatch ==
  ASSUME NEW todo \in {<<>>} \cup Batches, todo # <<>>
  PROVE  Head(todo) \in Artifacts /\ Tail(todo) \in {<<>>} \cup Batches
<1>1. CASE \E a \in Artifacts : todo = <<a>>
  BY <1>1
<1>2. CASE \E a, b \in Artifacts : todo = <<a, b>>
  <2>1. PICK a \in Artifacts, b \in Artifacts : todo = <<a, b>>
    BY <1>2
  <2>2. Head(todo) = a /\ Tail(todo) = <<b>>
    BY <2>1
  <2>3. QED BY <2>2 DEF Batches
<1>3. QED BY <1>1, <1>2 DEF Batches

\* Merging entries makes entries.
LEMMA UpdatedType ==
  ASSUME NEW f \in Entries, NEW g \in Entries
  PROVE  Updated(f, g) \in Entries
BY DEF Updated, Entries

\* The type invariant with the whole of every record.
Typed ==
  /\ output \in [Paths -> File]
  /\ \A p \in Paths \ {ManifestAt} : output[p] \notin Entries
  /\ call \in [pc : {"idle", "artifacts", "writing", "manifest"},
               todo : {<<>>} \cup Batches, done : Entries, entries : Entries]
  /\ call.pc = "writing" => /\ call.todo # <<>>
                            /\ Head(call.todo) \in Paths \X Contents
  /\ persisted \in Entries /\ forgotten \subseteq Paths
  /\ written \in [Paths -> SUBSET Contents]
  /\ spent \in [calls : Nat, stops : Nat, unread : Nat, edits : Nat]

\* Everything that a manifest, or a call on its way to one, lists was written.
Honest ==
  /\ EntriesWereWritten
  /\ \A p \in Paths :
       /\ call.done[p] # Absent => call.done[p] \in written[p]
       /\ call.entries[p] # Absent => call.entries[p] \in written[p]

\* The entries are those of these artifacts, without the forgotten ones.
ListsWhatIsKept(entries, artifacts) ==
  \A p \in Paths : entries[p] = IF p \in forgotten THEN Absent ELSE artifacts[p]

\* As long as no call is cut short, a manifest that can be parsed lists what was
\* persisted, or is about to.
Exact ==
  spent.stops = 0 =>
    IF call.pc = "manifest"
    THEN ListsWhatIsKept(call.entries, Updated(persisted, call.done))
    ELSE Intact => ListsWhatIsKept(output[ManifestAt], persisted)

\* An artifact is being written over the manifest.
Overwriting == call.pc = "writing" /\ Artifact[1] = ManifestAt

\* Then there is also a manifest as soon as something was persisted, unless an
\* artifact was written over it, and only one that cannot be read is forgotten.
Kept ==
  spent.stops = 0 /\ written[ManifestAt] = {} =>
    /\ call.pc = "manifest" \/ Overwriting \/ Intact \/ persisted = NoEntries
    /\ spent.unread = 0 => forgotten = {}

\* What is inductive.
EvidenceInv == Typed /\ Honest /\ Exact /\ Kept

-----------------------------------------------------------------------------
(* Every step keeps each of the parts.                                     *)

\* The manifest is at one of the paths, and neither artifacts nor sentinels are lists
\* of entries.
LEMMA ManifestIsFile ==
  /\ ManifestAt \in Paths /\ Absent \notin Entries /\ Torn \notin Entries
  /\ \A content \in Contents : content \notin Entries
BY ArtifactAssumption, SentinelAssumption

\* The records are well formed in the beginning.
LEMMA TypedInit == ArtifactInit => Typed
BY ManifestIsFile DEF ArtifactInit, Typed, File, NoCall, NoEntries, Entries

\* What a file becomes when something that is no list of entries is written to it.
LEMMA FileWritten ==
  ASSUME Typed, NEW p \in Paths, NEW content \in Contents \cup {Absent, Torn},
         output' = [output EXCEPT ![p] = content]
  PROVE  /\ output' \in [Paths -> File]
         /\ \A q \in Paths \ {ManifestAt} : output'[q] \notin Entries
         /\ p = ManifestAt => ~ Intact'
         /\ p # ManifestAt => output'[ManifestAt] = output[ManifestAt]
BY ManifestIsFile DEF Typed, File, Intact

\* The entries that are known are entries.
LEMMA KnownType == Typed => KnownEntries \in Entries /\ NoEntries \in Entries
BY DEF KnownEntries, Intact, NoEntries, Entries

\* A call that has written its artifacts goes on with entries.
LEMMA ListOverStep ==
  ASSUME Typed, NEW entries \in Entries, ListOver(entries)
  PROVE  /\ call.pc = "artifacts" /\ call'.pc = "manifest" /\ call'.done = call.done
         /\ call'.todo = call.todo
         /\ call'.entries = Updated(entries, call.done) /\ call'.entries \in Entries
         /\ ~ Intact'
         /\ output' \in [Paths -> File]
         /\ \A q \in Paths \ {ManifestAt} : output'[q] \notin Entries
         /\ call' \in [pc : {"idle", "artifacts", "writing", "manifest"},
                       todo : {<<>>} \cup Batches, done : Entries, entries : Entries]
         /\ UNCHANGED <<persisted, written, bundle>>
<1>1. Updated(entries, call.done) \in Entries
  BY UpdatedType DEF Typed
<1>2. output' = [output EXCEPT ![ManifestAt] = Torn]
  BY DEF ListOver
<1>3. QED BY <1>1, <1>2, FileWritten, ManifestIsFile DEF ListOver, Typed

\* Every step keeps the records well formed.
LEMMA TypedStep == Typed /\ [ArtifactNext]_artifactVars => Typed'
<1> SUFFICES ASSUME Typed, [ArtifactNext]_artifactVars PROVE Typed'
  OBVIOUS
<1>1. NoEntries \in Entries /\ NoCall.pc = "idle"
      /\ NoCall \in [pc : {"idle", "artifacts", "writing", "manifest"},
                     todo : {<<>>} \cup Batches, done : Entries, entries : Entries]
  BY DEF NoEntries, NoCall, Entries
<1>2. ASSUME NEW batch \in Batches, Persist(batch) PROVE Typed'
  <2>1. call'.pc = "artifacts" /\ call' \in [pc : {"idle", "artifacts", "writing", "manifest"},
                todo : {<<>>} \cup Batches, done : Entries, entries : Entries]
    BY <1>1, <1>2 DEF Persist
  <2>2. spent' \in [calls : Nat, stops : Nat, unread : Nat, edits : Nat]
    BY <1>2 DEF Persist, Typed
  <2>3. QED BY <1>2, <2>1, <2>2 DEF Persist, Typed
<1>3. CASE SkipBlank
  BY <1>3, RestOfBatch DEF SkipBlank, Typed
<1>4. CASE Refuse
  BY <1>1, <1>4 DEF Refuse, Typed
<1>5. CASE OpenArtifact
  <2>1. Artifact \in Paths \X Contents
    BY <1>5, RestOfBatch DEF OpenArtifact, Artifact, Artifacts, Typed
  <2>2. /\ output' \in [Paths -> File]
        /\ \A q \in Paths \ {ManifestAt} : output'[q] \notin Entries
    BY <1>5, <2>1, FileWritten DEF OpenArtifact
  <2>3. QED BY <1>5, <2>1, <2>2 DEF OpenArtifact, Artifact, Typed
<1>6. CASE WriteArtifact
  <2>1. Artifact \in Paths \X Contents /\ Tail(call.todo) \in {<<>>} \cup Batches
    BY <1>6, RestOfBatch DEF WriteArtifact, Artifact, Typed
  <2>2. /\ output' \in [Paths -> File]
        /\ \A q \in Paths \ {ManifestAt} : output'[q] \notin Entries
    BY <1>6, <2>1, FileWritten DEF WriteArtifact
  <2>3. written' \in [Paths -> SUBSET Contents]
    BY <1>6, <2>1 DEF WriteArtifact, Typed
  <2>4. [call.done EXCEPT ![Artifact[1]] = Artifact[2]] \in Entries
    BY <2>1 DEF Entries, Typed
  <2>5. QED BY <1>6, <2>1, <2>2, <2>3, <2>4 DEF WriteArtifact, Typed
<1>7. CASE NothingToList
  BY <1>1, <1>7, UpdatedType DEF NothingToList, Return, Typed
<1>8. ASSUME NEW entries \in Entries, ListOver(entries), forgotten' \subseteq Paths,
             spent' \in [calls : Nat, stops : Nat, unread : Nat, edits : Nat]
      PROVE  Typed'
  BY <1>8, ListOverStep DEF Typed
<1>9. CASE OpenManifest
  BY <1>8, <1>9, KnownType DEF OpenManifest, Lasting, Typed
<1>10. CASE OpenUnread
  <2>1. spent' \in [calls : Nat, stops : Nat, unread : Nat, edits : Nat]
    BY <1>10 DEF OpenUnread, Typed
  <2>2. QED BY <1>8, <1>10, <2>1, KnownType DEF OpenUnread, Lasting
<1>11. CASE WriteManifest
  <2>1. output' = [output EXCEPT ![ManifestAt] = call.entries] /\ call.entries \in Entries
    BY <1>11 DEF WriteManifest, Typed
  <2>2. /\ output' \in [Paths -> File]
        /\ \A q \in Paths \ {ManifestAt} : output'[q] \notin Entries
    BY <2>1, ManifestIsFile DEF Typed, File
  <2>3. QED BY <1>1, <1>11, <2>2, UpdatedType DEF WriteManifest, Return, Typed
<1>12. CASE Stop
  BY <1>1, <1>12 DEF Stop, Typed
<1>13. ASSUME NEW p \in Paths, NEW content \in Contents \cup {Absent}, Tamper(p, content)
       PROVE  Typed'
  <2>1. /\ output' \in [Paths -> File]
        /\ \A q \in Paths \ {ManifestAt} : output'[q] \notin Entries
    BY <1>13, FileWritten DEF Tamper
  <2>2. spent' \in [calls : Nat, stops : Nat, unread : Nat, edits : Nat]
    BY <1>13 DEF Tamper, Typed
  <2>3. QED BY <1>13, <2>1, <2>2 DEF Tamper, Typed
<1>14. CASE Export
  BY <1>14 DEF Export, Typed
<1>15. CASE UNCHANGED artifactVars
  BY <1>15 DEF artifactVars, Typed
<1>16. QED
  BY <1>2, <1>3, <1>4, <1>5, <1>6, <1>7, <1>9, <1>10, <1>11, <1>12, <1>13, <1>14, <1>15
     DEF ArtifactNext

\* What two honest lists of entries are merged to is honest.
LEMMA UpdatedIsHonest ==
  ASSUME NEW f \in Entries, NEW g \in Entries, NEW w \in [Paths -> SUBSET Contents],
         \A p \in Paths : f[p] # Absent => f[p] \in w[p],
         \A p \in Paths : g[p] # Absent => g[p] \in w[p],
         NEW p \in Paths, Updated(f, g)[p] # Absent
  PROVE  Updated(f, g)[p] \in w[p]
BY DEF Updated, Entries

\* Every step keeps entries honest: an entry follows the text that it is about.
LEMMA HonestStep == Typed /\ Honest /\ [ArtifactNext]_artifactVars => Honest'
<1> SUFFICES ASSUME Typed, Honest, [ArtifactNext]_artifactVars PROVE Honest'
  OBVIOUS
<1> USE DEF Honest, EntriesWereWritten, Listed
<1>1. \A p \in Paths : NoCall.done[p] = Absent /\ NoCall.entries[p] = Absent
  BY DEF NoCall, NoEntries
<1>2. ASSUME NEW batch \in Batches, Persist(batch) PROVE Honest'
  BY <1>1, <1>2 DEF Persist, NoCall, Intact
<1>3. CASE SkipBlank
  BY <1>3 DEF SkipBlank, Typed, Intact
<1>4. CASE Refuse \/ Stop
  BY <1>1, <1>4 DEF Refuse, Stop, Intact
<1>5. CASE OpenArtifact
  <2>1. Artifact[1] \in Paths
    BY <1>5, RestOfBatch DEF OpenArtifact, Artifact, Artifacts, Typed
  <2>2. ~ Intact' \/ output'[ManifestAt] = output[ManifestAt]
    BY <1>5, <2>1, FileWritten DEF OpenArtifact
  <2>3. QED BY <1>5, <2>2 DEF OpenArtifact, Typed, Intact
<1>6. CASE WriteArtifact
  <2>1. Artifact \in Paths \X Contents
    BY <1>6 DEF Typed, WriteArtifact, Artifact
  <2>2. /\ written' = [written EXCEPT ![Artifact[1]] = @ \cup {Artifact[2]}]
        /\ call'.done = [call.done EXCEPT ![Artifact[1]] = Artifact[2]]
        /\ call'.entries = call.entries
    BY <1>6 DEF WriteArtifact, Typed
  <2>3. \A p \in Paths : written[p] \subseteq written'[p]
    BY <2>1, <2>2 DEF Typed
  <2>4. \A p \in Paths : call'.done[p] = call.done[p]
                           \/ call'.done[p] \in written'[p]
    BY <2>1, <2>2 DEF Typed, Entries
  <2>5. ~ Intact' \/ output'[ManifestAt] = output[ManifestAt]
    BY <1>6, <2>1, FileWritten DEF WriteArtifact
  <2>6. QED BY <2>2, <2>3, <2>4, <2>5 DEF Intact
<1>7. CASE NothingToList
  BY <1>1, <1>7 DEF NothingToList, Return, Intact
<1>8. ASSUME NEW entries \in Entries, ListOver(entries),
             \A p \in Paths : entries[p] # Absent => entries[p] \in written[p]
      PROVE  Honest'
  <2>1. \A p \in Paths : Updated(entries, call.done)[p] # Absent =>
                           Updated(entries, call.done)[p] \in written[p]
    BY <1>8, UpdatedIsHonest DEF Typed
  <2>2. QED BY <1>8, <2>1, ListOverStep
<1>9. CASE OpenManifest
  <2>1. \A p \in Paths : KnownEntries[p] # Absent => KnownEntries[p] \in written[p]
    BY DEF KnownEntries, NoEntries
  <2>2. QED BY <1>8, <1>9, <2>1, KnownType DEF OpenManifest
<1>10. CASE OpenUnread
  BY <1>8, <1>10, KnownType DEF OpenUnread, NoEntries
<1>11. CASE WriteManifest
  <2>1. output'[ManifestAt] = call.entries
    BY <1>11, ManifestIsFile DEF WriteManifest, Typed
  <2>2. QED BY <1>1, <1>11, <2>1 DEF WriteManifest, Return
<1>12. ASSUME NEW p \in Paths \ {ManifestAt}, NEW content \in Contents \cup {Absent},
              Tamper(p, content)
       PROVE  Honest'
  <2>1. output'[ManifestAt] = output[ManifestAt]
    BY <1>12, FileWritten DEF Tamper
  <2>2. QED BY <1>12, <2>1 DEF Tamper, Intact
<1>13. CASE Export \/ UNCHANGED artifactVars
  BY <1>13 DEF Export, artifactVars, Intact
<1>14. QED
  BY <1>2, <1>3, <1>4, <1>5, <1>6, <1>7, <1>9, <1>10, <1>11, <1>12, <1>13 DEF ArtifactNext

\* An update with nothing changes nothing.
LEMMA UpdatedByNothing == ASSUME NEW f \in Entries PROVE Updated(f, NoEntries) = f
BY DEF Updated, NoEntries, Entries

\* A call that goes on with the entries that are kept lists what will be kept.
LEMMA ListOverIsExact ==
  ASSUME Typed, NEW known \in Entries, ListOver(known), NEW lost,
         forgotten' = lost \ ListedNow,
         \A p \in Paths : known[p] = IF p \in lost THEN Absent ELSE persisted[p]
  PROVE  Exact'
<1>1. /\ call'.pc = "manifest" /\ call'.entries = Updated(known, call.done)
      /\ call'.done = call.done /\ persisted' = persisted
  BY ListOverStep
<1>2. ASSUME NEW p \in Paths
      PROVE  Updated(known, call.done)[p] =
               IF p \in forgotten' THEN Absent ELSE Updated(persisted, call.done)[p]
  BY DEF Updated, ListedNow
<1>3. QED BY <1>1, <1>2 DEF Exact, ListsWhatIsKept

\* Every step of calls that nothing interrupts keeps the manifest exact.
LEMMA ExactStep == Typed /\ Exact /\ [ArtifactNext]_artifactVars => Exact'
<1> SUFFICES ASSUME Typed, Exact, [ArtifactNext]_artifactVars, spent'.stops = 0 PROVE Exact'
  BY DEF Exact
<1> USE DEF Exact, ListsWhatIsKept
<1>1. NoCall.pc = "idle"
  BY DEF NoCall
<1>2. ASSUME call.pc # "manifest", call'.pc # "manifest", spent'.stops = spent.stops,
             ~ Intact' \/ output'[ManifestAt] = output[ManifestAt],
             persisted' = persisted, forgotten' = forgotten
      PROVE  Exact'
  BY <1>2 DEF Intact
<1>3. ASSUME NEW batch \in Batches, Persist(batch) PROVE Exact'
  BY <1>2, <1>3 DEF Persist, Typed, NoCall
<1>4. CASE SkipBlank \/ Refuse
  BY <1>1, <1>2, <1>4 DEF SkipBlank, Refuse, Typed
<1>5. CASE OpenArtifact \/ WriteArtifact
  <2>1. Artifact[1] \in Paths /\ (WriteArtifact => Artifact[2] \in Contents)
    BY <1>5, RestOfBatch DEF OpenArtifact, WriteArtifact, Artifact, Artifacts, Typed
  <2>2. ~ Intact' \/ output'[ManifestAt] = output[ManifestAt]
    BY <1>5, <2>1, FileWritten DEF OpenArtifact, WriteArtifact
  <2>3. QED BY <1>2, <1>5, <2>2 DEF OpenArtifact, WriteArtifact, Typed
<1>6. CASE NothingToList
  <2>1. persisted' = persisted
    BY <1>6, UpdatedByNothing DEF NothingToList, Return, Typed
  <2>2. QED BY <1>1, <1>2, <1>6, <2>1 DEF NothingToList, Return
<1>7. CASE OpenManifest
  <2> DEFINE lost == IF Intact THEN forgotten ELSE Lasting
  <2>1. ListOver(KnownEntries) /\ forgotten' = lost \ ListedNow /\ spent' = spent
    BY <1>7 DEF OpenManifest
  <2>2. call.pc = "artifacts"
    BY <2>1 DEF ListOver
  <2>3. \A p \in Paths : KnownEntries[p] = IF p \in lost THEN Absent ELSE persisted[p]
    BY <2>1, <2>2 DEF KnownEntries, Lasting, NoEntries
  <2> HIDE DEF lost, Exact
  <2>4. QED BY <2>1, <2>3, KnownType, ListOverIsExact
<1>8. CASE OpenUnread
  <2>1. ListOver(NoEntries) /\ forgotten' = Lasting \ ListedNow
    BY <1>8 DEF OpenUnread
  <2>2. \A p \in Paths : NoEntries[p] = IF p \in Lasting THEN Absent ELSE persisted[p]
    BY DEF Lasting, NoEntries
  <2> HIDE DEF Exact
  <2>3. QED BY <2>1, <2>2, KnownType, ListOverIsExact
<1>9. CASE WriteManifest
  <2>1. output'[ManifestAt] = call.entries
    BY <1>9, ManifestIsFile DEF WriteManifest, Typed
  <2>2. QED BY <1>1, <1>9, <2>1 DEF WriteManifest, Return
<1>10. CASE Stop
  BY <1>10 DEF Stop, Typed
<1>11. ASSUME NEW p \in Paths \ {ManifestAt}, NEW content \in Contents \cup {Absent},
              Tamper(p, content)
       PROVE  Exact'
  <2>1. output'[ManifestAt] = output[ManifestAt]
    BY <1>11, FileWritten DEF Tamper
  <2>2. QED BY <1>2, <1>11, <2>1 DEF Tamper, Typed
<1>12. CASE Export \/ UNCHANGED artifactVars
  BY <1>12 DEF Export, artifactVars, Intact
<1>13. QED
  BY <1>3, <1>4, <1>5, <1>6, <1>7, <1>8, <1>9, <1>10, <1>11, <1>12 DEF ArtifactNext

\* Every step keeps the manifest where it is.
LEMMA KeptStep == Typed /\ Kept /\ [ArtifactNext]_artifactVars => Kept'
<1> SUFFICES ASSUME Typed, Kept, [ArtifactNext]_artifactVars,
                    spent'.stops = 0, written'[ManifestAt] = {}
             PROVE  Kept'
  BY DEF Kept
<1>1. NoCall.pc = "idle"
  BY DEF NoCall
<1>2. ASSUME spent'.stops = spent.stops, spent'.unread = spent.unread,
             written'[ManifestAt] = written[ManifestAt],
             call.pc # "manifest", ~ Overwriting, Overwriting' \/ (Intact' <=> Intact),
             persisted' = persisted, forgotten' = forgotten
      PROVE  Kept'
  BY <1>2 DEF Kept
<1>3. ASSUME NEW batch \in Batches, Persist(batch) PROVE Kept'
  BY <1>2, <1>3 DEF Persist, Typed, Overwriting, Intact
<1>4. CASE SkipBlank \/ Refuse
  BY <1>2, <1>4 DEF SkipBlank, Refuse, Overwriting, Intact
<1>5. CASE OpenArtifact
  <2>1. Artifact[1] \in Paths
    BY <1>5, RestOfBatch DEF OpenArtifact, Artifact, Artifacts, Typed
  <2>2. Overwriting' \/ output'[ManifestAt] = output[ManifestAt]
    <3>1. call'.pc = "writing" /\ Artifact' = Artifact
      BY <1>5 DEF OpenArtifact, Typed, Artifact
    <3>2. QED BY <1>5, <2>1, <3>1, FileWritten DEF OpenArtifact, Overwriting
  <2>3. QED BY <1>2, <1>5, <2>2 DEF OpenArtifact, Overwriting, Intact
<1>6. CASE WriteArtifact
  <2>1. Artifact \in Paths \X Contents
    BY <1>6 DEF Typed, WriteArtifact, Artifact
  <2>2. written' = [written EXCEPT ![Artifact[1]] = @ \cup {Artifact[2]}]
    BY <1>6 DEF WriteArtifact
  <2>3. Artifact[1] # ManifestAt
    BY <2>1, <2>2, ManifestIsFile DEF Typed
  <2>4. written'[ManifestAt] = written[ManifestAt] /\ output'[ManifestAt] = output[ManifestAt]
    BY <1>6, <2>1, <2>2, <2>3, FileWritten, ManifestIsFile DEF WriteArtifact, Typed
  <2>5. QED BY <1>2, <1>6, <2>3, <2>4 DEF WriteArtifact, Overwriting, Intact
<1>7. CASE NothingToList
  <2>1. persisted' = persisted
    BY <1>7, UpdatedByNothing DEF NothingToList, Return, Typed
  <2>2. QED BY <1>2, <1>7, <2>1 DEF NothingToList, Overwriting, Intact
<1>8. CASE OpenManifest
  <2>1. /\ call.pc = "artifacts" /\ call'.pc = "manifest" /\ UNCHANGED <<written, spent>>
        /\ forgotten' = (IF Intact THEN forgotten ELSE Lasting) \ ListedNow
    BY <1>8, KnownType, ListOverStep DEF OpenManifest
  <2>2. persisted = NoEntries => Lasting = {}
    BY DEF Lasting, NoEntries
  <2>3. spent'.unread = 0 => forgotten' = {}
    BY <2>1, <2>2 DEF Kept, Overwriting
  <2>4. QED BY <2>1, <2>3 DEF Kept
<1>9. CASE OpenUnread
  <2>1. call'.pc = "manifest"
    BY <1>9, KnownType, ListOverStep DEF OpenUnread
  <2>2. spent'.unread # 0
    BY <1>9 DEF OpenUnread, Typed
  <2>3. QED BY <2>1, <2>2 DEF Kept
<1>10. CASE WriteManifest
  <2>1. Intact'
    BY <1>10, ManifestIsFile DEF WriteManifest, Typed, Intact
  <2>2. UNCHANGED <<forgotten, written, spent>>
    BY <1>10 DEF WriteManifest
  <2>3. QED BY <2>1, <2>2 DEF Kept
<1>11. CASE Stop
  BY <1>11 DEF Stop, Typed
<1>12. ASSUME NEW p \in Paths \ {ManifestAt}, NEW content \in Contents \cup {Absent},
              Tamper(p, content)
       PROVE  Kept'
  <2>1. output'[ManifestAt] = output[ManifestAt]
    BY <1>12, FileWritten DEF Tamper
  <2>2. QED BY <1>2, <1>12, <2>1 DEF Tamper, Typed, Overwriting, Intact
<1>13. CASE Export \/ UNCHANGED artifactVars
  BY <1>13 DEF Export, artifactVars, Kept, Overwriting, Artifact, Intact
<1>14. QED
  BY <1>3, <1>4, <1>5, <1>6, <1>7, <1>8, <1>9, <1>10, <1>11, <1>12, <1>13 DEF ArtifactNext

\* The invariant holds of every behaviour.
LEMMA EvidenceInvHolds == ArtifactSpec => []EvidenceInv
<1>1. ArtifactInit => EvidenceInv
  <2>1. ArtifactInit => ~ Intact
    BY ManifestIsFile DEF ArtifactInit, Intact
  <2>2. ArtifactInit => Honest /\ Exact /\ Kept
    BY <2>1 DEF ArtifactInit, Honest, EntriesWereWritten, Exact, Kept, Listed, NoCall, NoEntries
  <2>3. QED BY <2>2, TypedInit DEF EvidenceInv
<1>2. EvidenceInv /\ [ArtifactNext]_artifactVars => EvidenceInv'
  BY TypedStep, HonestStep, ExactStep, KeptStep DEF EvidenceInv
<1>3. QED BY <1>1, <1>2, PTL DEF ArtifactSpec

-----------------------------------------------------------------------------
(* What an audit sees.                                                     *)

\* An audit of the output directory compares every artifact that the manifest
\* lists with its entry, and fails without a manifest.
LEMMA AuditOfOutput ==
  ASSUME Typed
  PROVE  VerifyArtifacts(output, <<>>) <=>
           /\ Intact
           /\ \A p \in Paths :
                output[ManifestAt][p] # Absent => output[p] = output[ManifestAt][p]
<1>1. <<>> \o ManifestAt = ManifestAt /\ \A p \in Paths : <<>> \o p = p
  BY ArtifactAssumption DEF ManifestAt
<1>2. DOMAIN output = Paths /\ ManifestAt \in Paths
  BY ManifestIsFile DEF Typed
<1>3. QED BY <1>1, <1>2 DEF VerifyArtifacts, Intact

\* A bundle is only made by an export, and never changed.
LEMMA BundleStays == [ArtifactNext]_artifactVars /\ ~ Export => bundle' = bundle
<1> SUFFICES ASSUME [ArtifactNext]_artifactVars, ~ Export PROVE bundle' = bundle
  OBVIOUS
<1>1. CASE UNCHANGED artifactVars
  BY <1>1 DEF artifactVars
<1>2. CASE ArtifactNext
  BY <1>2 DEF ArtifactNext, Persist, SkipBlank, Refuse, OpenArtifact, WriteArtifact, NothingToList,
              ListOver, OpenManifest, OpenUnread, WriteManifest, Stop, Tamper
<1>3. QED BY <1>1, <1>2

\* Between calls that nothing cut short an audit passes exactly when the artifacts
\* are what was persisted, but for those that were forgotten, and what is forgotten
\* was forgotten for a reason; whatever is cut short, every entry was written.
THEOREM ExactEvidence == ArtifactSpec => []EvidenceIsExact
<1>1. EvidenceInv => AuditIsExact
  <2> SUFFICES ASSUME EvidenceInv, call.pc = "idle", spent.stops = 0, Intact
               PROVE  VerifyArtifacts(output, <<>>) <=>
                        \A p \in Lasting \ forgotten : output[p] = persisted[p]
    BY DEF AuditIsExact
  <2>1. \A p \in Paths :
          output[ManifestAt][p] = IF p \in forgotten THEN Absent ELSE persisted[p]
    BY DEF EvidenceInv, Exact, ListsWhatIsKept
  <2>2. VerifyArtifacts(output, <<>>) <=>
          \A p \in Paths : output[ManifestAt][p] # Absent => output[p] = output[ManifestAt][p]
    BY AuditOfOutput DEF EvidenceInv
  <2>3. QED BY <2>1, <2>2 DEF Lasting
<1>2. EvidenceInv => EntriesWereWritten /\ EntriesAreKept
  BY DEF EvidenceInv, Honest, Kept, EntriesAreKept
<1> DEFINE Summarised == bundle = Absent \/ bundle.passed \in BOOLEAN
<1>3. ArtifactInit => Summarised
  BY DEF ArtifactInit
<1>4. Summarised /\ [ArtifactNext]_artifactVars => Summarised'
  <2> SUFFICES ASSUME Summarised, [ArtifactNext]_artifactVars PROVE Summarised'
    OBVIOUS
  <2>1. CASE Export
    <3>1. VerifyArtifacts(output, <<>>) \in BOOLEAN
      BY DEF VerifyArtifacts
    <3>2. bundle'.passed = VerifyArtifacts(output, <<>>)
      BY <2>1 DEF Export
    <3>3. QED BY <3>1, <3>2
  <2>2. CASE ~ Export
    BY <2>2, BundleStays
  <2>3. QED BY <2>1, <2>2
<1>5. EvidenceInv /\ Summarised => ArtifactTypeOK
  BY DEF EvidenceInv, Typed, ArtifactTypeOK
<1>6. EvidenceInv /\ Summarised => EvidenceIsExact
  BY <1>1, <1>2, <1>5 DEF EvidenceIsExact
<1>7. QED BY <1>3, <1>4, <1>6, EvidenceInvHolds, PTL DEF ArtifactSpec

\* Two artifacts are never archived at one place, nor where the manifest is.
LEMMA PlacesAreDistinct ==
  /\ \A p, q \in Paths : Archived(p) = Archived(q) => p = q
  /\ \A p \in Paths : Archived(p) # ManifestAt
<1>1. ASSUME NEW p \in Paths, NEW q \in Paths, Archived(p) = Archived(q)
      PROVE  p = q
  <2>1. p \in Seq(STRING) /\ q \in Seq(STRING)
    BY ArtifactAssumption
  <2>2. Len(Archived(p)) = Len(p) + 1 /\ Len(Archived(q)) = Len(q) + 1
    BY <2>1 DEF Archived
  <2>3. /\ \A i \in 1 .. Len(p) : p[i] = Archived(p)[i + 1]
        /\ \A i \in 1 .. Len(q) : q[i] = Archived(q)[i + 1]
    BY <2>1 DEF Archived
  <2>4. Len(p) = Len(q) /\ \A i \in 1 .. Len(p) : p[i] = q[i]
    BY <1>1, <2>1, <2>2, <2>3
  <2>5. QED BY <2>1, <2>4
<1>2. ASSUME NEW p \in Paths PROVE Archived(p) # ManifestAt
  <2>1. p \in Seq(STRING)
    BY ArtifactAssumption
  <2>2. Archived(p)[1] = "artifacts"
    BY <2>1 DEF Archived
  <2>3. ManifestAt[1] = "artifacts_manifest.json"
    BY DEF ManifestAt
  <2>4. QED BY <2>2, <2>3
<1>3. QED BY <1>1, <1>2

\* A bundle with a good summary is complete: what its summary was made of is what
\* was copied, each artifact to a place of its own.
THEOREM CompleteBundles == ArtifactSpec => []BundleIsComplete
<1>1. ArtifactInit => BundleIsComplete
  BY DEF ArtifactInit, BundleIsComplete
<1>2. EvidenceInv /\ BundleIsComplete /\ [ArtifactNext]_artifactVars => BundleIsComplete'
  <2> SUFFICES ASSUME EvidenceInv, BundleIsComplete, [ArtifactNext]_artifactVars PROVE BundleIsComplete'
    OBVIOUS
  <2>1. CASE ~ Export
    BY <2>1, BundleStays DEF BundleIsComplete
  <2>2. CASE Export
    <3>1. bundle'.tree = BundleTree /\ bundle'.manifest = output[ManifestAt]
          /\ bundle'.passed = VerifyArtifacts(output, <<>>)
      BY <2>2 DEF Export
    <3>2. SUFFICES ASSUME VerifyArtifacts(output, <<>>),
                          NEW p \in Paths, output[ManifestAt][p] # Absent
                   PROVE  Archived(p) \in DOMAIN BundleTree
                          /\ BundleTree[Archived(p)] = output[ManifestAt][p]
      BY <3>1 DEF BundleIsComplete
    <3> DEFINE archived == {q \in Listed : output[q] # Absent}
    <3>3. Intact /\ output[p] = output[ManifestAt][p]
      BY <3>2, AuditOfOutput DEF EvidenceInv
    <3>4. p \in archived /\ archived \subseteq Paths
      BY <3>2, <3>3 DEF Listed
    <3>5. (CHOOSE q \in archived : Archived(q) = Archived(p)) = p
      BY <3>4, PlacesAreDistinct
    <3>6. Archived(p) \in DOMAIN BundleTree
      BY <3>4 DEF BundleTree
    <3>7. BundleTree[Archived(p)] = output[CHOOSE q \in archived : Archived(q) = Archived(p)]
      BY <3>4, <3>6, PlacesAreDistinct DEF BundleTree
    <3>8. QED BY <3>3, <3>5, <3>6, <3>7
  <2>3. QED BY <2>1, <2>2
<1>3. QED BY <1>1, <1>2, EvidenceInvHolds, PTL DEF ArtifactSpec
=============================================================================
