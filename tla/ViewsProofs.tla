------------------------------ MODULE ViewsProofs ------------------------------
(***************************************************************************)
(* What a reader of a project may rely on, for every workflow, and for     *)
(* every call and failure that may occur: the recorded events and the task *)
(* histories tell the status of every task, a task shows the call of the   *)
(* outcome that it shows, and a snapshot publishes no text of an event.    *)
(*                                                                         *)
(* Every method records events of which the last about a task tells the    *)
(* status that the task is left with, so what a follower of the events and *)
(* the histories know are functions of the project.                        *)
(*                                                                         *)
(* The views are computed from the calls of the tasks.  Each is a record   *)
(* as an agent writes it, cleaned or not, and a view depends on no more of *)
(* it than cleaning keeps; a failed task has the reason that it was given. *)
(***************************************************************************)
EXTENDS WorkflowViews, ProjectStateProofs, SequenceTheorems

-----------------------------------------------------------------------------
(* Lists of events.                                                        *)

\* A list has a length, and its elements are what its places hold.
LEMMA Lists ==
  ASSUME NEW s, IsList(s)
  PROVE  /\ Len(s) \in Nat /\ DOMAIN s = 1 .. Len(s)
         /\ \A k \in 1 .. Len(s) : s[k] \in Elements(s)
BY DEF IsList, Elements

\* Nothing, and one event.
LEMMA ShortLists ==
  /\ IsList(<< >>) /\ Elements(<< >>) = {}
  /\ \A e : IsList(<<e>>) /\ Elements(<<e>>) = {e}
<1>1. Elements(<< >>) = {}
  BY DEF Elements
<1>2. ASSUME NEW e
      PROVE  IsList(<<e>>) /\ Elements(<<e>>) = {e}
  <2>1. Elements(<<e>>) = {e}
    BY DEF Elements
  <2> QED BY <2>1 DEF IsList
<1> QED BY <1>1, <1>2 DEF IsList

\* One list after another.
LEMMA JoinedLists ==
  ASSUME NEW s, NEW t, IsList(s), IsList(t)
  PROVE  /\ IsList(s \o t)
         /\ Elements(s \o t) = Elements(s) \cup Elements(t)
         /\ Len(s \o t) = Len(s) + Len(t)
         /\ \A k \in 1 .. Len(s) : (s \o t)[k] = s[k]
         /\ \A k \in 1 .. Len(t) : (s \o t)[Len(s) + k] = t[k]
<1> DEFINE All == Elements(s) \cup Elements(t)
           u == s \o t
<1>1. s \in Seq(All) /\ t \in Seq(All)
  BY DEF IsList
<1>2. u \in Seq(All) /\ Len(u) = Len(s) + Len(t)
  BY <1>1
<1>3. \A k \in 1 .. Len(s) : u[k] = s[k]
  BY <1>1
<1>4. \A k \in 1 .. Len(t) : u[Len(s) + k] = t[k]
  BY <1>1
<1>5. Elements(u) = All
  <2>1. Elements(u) \subseteq All
    BY <1>2 DEF Elements
  <2>2. ASSUME NEW k \in DOMAIN s PROVE s[k] \in Elements(u)
    BY <1>1, <1>2, <1>3 DEF Elements
  <2>3. ASSUME NEW k \in DOMAIN t PROVE t[k] \in Elements(u)
    <3>1. k \in 1 .. Len(t) /\ Len(s) + k \in 1 .. Len(u)
      BY <1>1, <1>2
    <3>2. u[Len(s) + k] \in Elements(u)
      BY <1>2, <3>1 DEF Elements
    <3> QED BY <3>1, <3>2, <1>4
  <2> QED BY <2>1, <2>2, <2>3 DEF Elements
<1> QED BY <1>2, <1>3, <1>4, <1>5 DEF IsList

\* What FlattenSeq computes step by step.
Joins(g, n, lists) ==
  g = [i \in 1 .. n |-> IF i = 1 THEN lists[i] ELSE g[i - 1] \o lists[i]]

LEMMA JoinsExists ==
  ASSUME NEW n \in Nat, NEW lists
  PROVE  \E g : Joins(g, n, lists)
<1> DEFINE Solved == {k \in 0 .. n : \E g : Joins(g, k, lists)}
<1>1. 0 \in Solved
  <2>1. Joins([i \in 1 .. 0 |-> << >>], 0, lists)
    BY DEF Joins
  <2> QED BY <2>1
<1>2. ASSUME NEW k \in 0 .. n, k \in Solved, k < n
      PROVE  k + 1 \in Solved
  <2>1. PICK g : Joins(g, k, lists)
    BY <1>2
  <2> DEFINE h == [i \in 1 .. k + 1 |->
                     IF i = k + 1 THEN (IF i = 1 THEN lists[i] ELSE g[k] \o lists[i]) ELSE g[i]]
  <2>2. ASSUME NEW i \in 1 .. k + 1
        PROVE  h[i] = IF i = 1 THEN lists[i] ELSE h[i - 1] \o lists[i]
    <3>1. CASE i = k + 1
      <4>1. i # 1 => i - 1 = k /\ k \in 1 .. k + 1 /\ k # k + 1
        BY <3>1
      <4> QED BY <3>1, <4>1
    <3>2. CASE i # k + 1
      <4>1. i \in 1 .. k /\ (i # 1 => i - 1 \in 1 .. k + 1 /\ i - 1 # k + 1)
        BY <3>2
      <4>2. g[i] = IF i = 1 THEN lists[i] ELSE g[i - 1] \o lists[i]
        BY <2>1, <4>1 DEF Joins
      <4> QED BY <3>2, <4>1, <4>2
    <3> QED BY <3>1, <3>2
  <2>3. h = [i \in 1 .. k + 1 |-> h[i]]
    OBVIOUS
  <2>4. \E x : Joins(x, k + 1, lists)
    <3> HIDE DEF h
    <3>1. Joins(h, k + 1, lists)
      BY <2>2, <2>3 DEF Joins
    <3> QED BY <3>1
  <2>5. k + 1 \in 0 .. n
    BY <1>2
  <2> HIDE DEF h
  <2> QED BY <2>4, <2>5
<1>3. n \in Solved
  <2> HIDE DEF Solved
  <2>1. \A k \in 0 .. n : k \in Solved
    BY <1>1, <1>2, InductionUpTo
  <2> QED BY <2>1
<1> QED BY <1>3

\* FlattenSeq gives a list of what is in the lists.
LEMMA FlattenedLists ==
  ASSUME NEW n \in Nat, NEW lists, lists = [k \in 1 .. n |-> lists[k]],
         \A k \in 1 .. n : IsList(lists[k])
  PROVE  /\ IsList(FlattenSeq(lists))
         /\ Elements(FlattenSeq(lists)) = UNION {Elements(lists[k]) : k \in 1 .. n}
<1> DEFINE g == CHOOSE x : Joins(x, n, lists)
           Part(k) == UNION {Elements(lists[i]) : i \in 1 .. k}
<1>1. Joins(g, n, lists)
  BY JoinsExists
<1>2. lists \in Seq({lists[k] : k \in 1 .. n}) /\ Len(lists) = n
  OBVIOUS
<1>3. CASE n = 0
  <2>1. FlattenSeq(lists) = << >>
    BY <1>2, <1>3 DEF FlattenSeq
  <2> QED BY <1>3, <2>1, ShortLists
<1>4. CASE n # 0
  <2>1. FlattenSeq(lists) = g[n]
    BY <1>2, <1>4 DEF FlattenSeq, Joins
  <2> HIDE DEF g
  <2> DEFINE Good == {0} \cup {k \in 1 .. n : IsList(g[k]) /\ Elements(g[k]) = Part(k)}
  <2>2. ASSUME NEW k \in 0 .. n, k \in Good, k < n
        PROVE  k + 1 \in Good
    <3>1. k + 1 \in 1 .. n /\ IsList(lists[k + 1])
      BY <2>2
    <3>2. Part(k + 1) = Part(k) \cup Elements(lists[k + 1])
      <4>1. 1 .. k + 1 = (1 .. k) \cup {k + 1}
        OBVIOUS
      <4> QED BY <4>1
    <3>3. CASE k = 0
      <4>1. g[1] = lists[1] /\ Part(0) = {}
        BY <1>1, <3>1, <3>3 DEF Joins
      <4>2. 0 + 1 = 1
        OBVIOUS
      <4> QED BY <3>1, <3>2, <3>3, <4>1, <4>2
    <3>4. CASE k # 0
      <4>1. g[k + 1] = g[k] \o lists[k + 1]
        <5>1. k + 1 # 1 /\ (k + 1) - 1 = k
          BY <3>4
        <5> QED BY <1>1, <3>1, <5>1 DEF Joins
      <4>2. IsList(g[k]) /\ Elements(g[k]) = Part(k)
        BY <2>2, <3>4
      <4>3. IsList(g[k + 1]) /\ Elements(g[k + 1]) = Part(k + 1)
        <5> HIDE DEF Part
        <5>1. /\ IsList(g[k] \o lists[k + 1])
              /\ Elements(g[k] \o lists[k + 1]) = Elements(g[k]) \cup Elements(lists[k + 1])
          BY <3>1, <4>2, JoinedLists
        <5> QED BY <3>2, <4>1, <4>2, <5>1, Zenon
      <4> QED BY <3>1, <4>3
    <3> QED BY <3>3, <3>4
  <2>3. n \in Good
    <3>1. 0 \in Good
      OBVIOUS
    <3> HIDE DEF Good
    <3>2. \A k \in 0 .. n : k \in Good
      BY <2>2, <3>1, InductionUpTo
    <3> QED BY <3>2
  <2> QED BY <1>4, <2>1, <2>3
<1> QED BY <1>3, <1>4

\* A finite set can be listed.
LEMMA ListingOfSet ==
  ASSUME NEW S, IsFiniteSet(S)
  PROVE  /\ Cardinality(S) \in Nat
         /\ \A k \in 1 .. Cardinality(S) : SetToSeq(S)[k] \in S
         /\ \A x \in S : \E k \in 1 .. Cardinality(S) : SetToSeq(S)[k] = x
<1> DEFINE n == Cardinality(S)
           order == SetToSeq(S)
<1>1. n \in Nat /\ \E h : h \in Bijection(1 .. n, S)
  BY FS_CardinalityType DEF ExistsBijection
<1>2. \E h \in [1 .. n -> S] : IsInjective(h)
  BY <1>1 DEF Bijection, Injection, IsInjective
<1>3. order \in [1 .. n -> S] /\ IsInjective(order)
  BY <1>2 DEF SetToSeq
<1> DEFINE Shown == {order[k] : k \in 1 .. n}
<1>4. Shown \subseteq S /\ IsFiniteSet(Shown) /\ Cardinality(Shown) = n
  <2> HIDE DEF n, order
  <2>1. Shown \subseteq S
    BY <1>3
  <2>2. IsFiniteSet(Shown)
    BY <2>1, FS_Subset
  <2>3. order \in Bijection(1 .. n, Shown)
    BY <1>3 DEF IsInjective, Bijection, Injection, Surjection
  <2>4. Cardinality(Shown) = n
    <3> HIDE DEF Shown
    <3>1. ExistsBijection(1 .. n, Shown)
      BY <2>3 DEF ExistsBijection
    <3>2. n \in Nat
      BY <1>1
    <3> QED BY <3>1, <3>2, FS_CountingElements
  <2> QED BY <2>1, <2>2, <2>4
<1>5. Shown = S
  <2> HIDE DEF Shown
  <2> QED BY <1>4, FS_Subset
<1> QED BY <1>1, <1>3, <1>5

\* The lists of the members of a finite set, one after the other.
LEMMA ListsForEach ==
  ASSUME NEW lists, IsFiniteSet(DOMAIN lists), \A x \in DOMAIN lists : IsList(lists[x])
  PROVE  /\ IsList(ForEach(lists))
         /\ Elements(ForEach(lists)) = UNION {Elements(lists[x]) : x \in DOMAIN lists}
<1> DEFINE S == DOMAIN lists
           n == Cardinality(S)
           order == SetToSeq(S)
           all == [k \in 1 .. n |-> lists[order[k]]]
<1>1. ForEach(lists) = FlattenSeq(all)
  BY DEF ForEach
<1>2. /\ n \in Nat
      /\ \A k \in 1 .. n : order[k] \in S
      /\ \A x \in S : \E k \in 1 .. n : order[k] = x
  BY ListingOfSet
<1>3. all = [k \in 1 .. n |-> all[k]] /\ \A k \in 1 .. n : all[k] = lists[order[k]]
  OBVIOUS
<1> HIDE DEF n, order, all
<1>4. \A k \in 1 .. n : IsList(all[k])
  BY <1>2, <1>3
<1>5. /\ IsList(FlattenSeq(all))
      /\ Elements(FlattenSeq(all)) = UNION {Elements(all[k]) : k \in 1 .. n}
  BY <1>2, <1>3, <1>4, FlattenedLists
<1>6. {Elements(all[k]) : k \in 1 .. n} = {Elements(lists[x]) : x \in S}
  BY <1>2, <1>3
<1> QED BY <1>1, <1>5, <1>6

-----------------------------------------------------------------------------
(* Events.                                                                 *)

\* What of an event could carry a text is published as a flag only.
Covered(e) == DOMAIN e.details \cap Sensitive \subseteq Minimized(e.event)

AboutTask(name) == IsTaskEvent([event |-> name])

\* The tasks that events are about
Subjects(events) == {e.task : e \in {x \in Elements(events) : IsTaskEvent(x)}}

\* Events as a call records them that leads to the project q.
Honest(q, events) ==
  /\ IsList(events)
  /\ \A e \in Elements(events) :
       /\ Covered(e) /\ e.event # "workflow_replayed"
       /\ IsTaskEvent(e) => e.status = q.tasks[e.task].status

\* The fields of an event.
LEMMA EventFields ==
  ASSUME NEW name, NEW task, NEW status, NEW details
  PROVE  LET e == Event(name, task, status, details) IN
         /\ e.event = name /\ e.task = task /\ e.status = status
         /\ Covered(e) <=> DOMAIN details \cap Sensitive \subseteq Minimized(name)
         /\ IsTaskEvent(e) <=> AboutTask(name)
<1> DEFINE e == Event(name, task, status, details)
<1>1. e.event = name /\ e.task = task /\ e.status = status
  BY DEF Event
<1>2. DOMAIN e.details = DOMAIN details \cup {"provider_budget"}
  BY DEF Event, With
<1>3. "provider_budget" \notin Sensitive
  BY DEF Sensitive
<1> HIDE DEF e
<1>4. Covered(e) <=> DOMAIN details \cap Sensitive \subseteq Minimized(name)
  BY <1>1, <1>2, <1>3 DEF Covered
<1>5. IsTaskEvent(e) <=> AboutTask(name)
  BY <1>1 DEF AboutTask, IsTaskEvent
<1> QED BY <1>1, <1>4, <1>5 DEF e

\* Events about the tasks of a set.
Records(q, events, tasks) == Honest(q, events) /\ Subjects(events) = tasks

\* One event.
LEMMA OneEvent ==
  ASSUME NEW q, NEW name, NEW task, NEW status, NEW details,
         name # "workflow_replayed",
         DOMAIN details \cap Sensitive \subseteq Minimized(name),
         AboutTask(name) => status = q.tasks[task].status
  PROVE  Records(q, <<Event(name, task, status, details)>>, IF AboutTask(name) THEN {task} ELSE {})
<1> DEFINE e == Event(name, task, status, details)
<1>1. /\ e.event = name /\ e.task = task /\ e.status = status
      /\ Covered(e)
      /\ IsTaskEvent(e) <=> AboutTask(name)
  BY EventFields
<1>2. IsList(<<e>>) /\ Elements(<<e>>) = {e}
  BY ShortLists
<1> HIDE DEF e
<1>3. Honest(q, <<e>>)
  BY <1>1, <1>2 DEF Honest
<1>4. Subjects(<<e>>) = IF AboutTask(name) THEN {task} ELSE {}
  BY <1>1, <1>2 DEF Subjects
<1> QED BY <1>3, <1>4 DEF e, Records

\* No event, and the events of two parts of a call.
LEMMA NoEvents ==
  \A q : Records(q, << >>, {})
BY ShortLists DEF Honest, Subjects, Records

LEMMA MoreEvents ==
  ASSUME NEW q, NEW a, NEW b, NEW A, NEW B, Records(q, a, A), Records(q, b, B)
  PROVE  Records(q, a \o b, A \cup B)
<1>1. IsList(a) /\ IsList(b)
  BY DEF Honest, Records
<1>2. IsList(a \o b) /\ Elements(a \o b) = Elements(a) \cup Elements(b)
  BY <1>1, JoinedLists
<1>3. Honest(q, a \o b)
  BY <1>2 DEF Honest, Records
<1>4. Subjects(a \o b) = A \cup B
  BY <1>2 DEF Records, Subjects
<1> QED BY <1>3, <1>4 DEF Records

\* The events of every task of a set.
LEMMA EventsForEach ==
  ASSUME NEW q, NEW lists, NEW about, IsFiniteSet(DOMAIN lists),
         \A x \in DOMAIN lists : Records(q, lists[x], about[x])
  PROVE  Records(q, ForEach(lists), UNION {about[x] : x \in DOMAIN lists})
<1>1. \A x \in DOMAIN lists : IsList(lists[x])
  BY DEF Records, Honest
<1>2. /\ IsList(ForEach(lists))
      /\ Elements(ForEach(lists)) = UNION {Elements(lists[x]) : x \in DOMAIN lists}
  BY <1>1, ListsForEach
<1>3. Honest(q, ForEach(lists))
  BY <1>2 DEF Honest, Records
<1>4. Subjects(ForEach(lists)) = UNION {about[x] : x \in DOMAIN lists}
  BY <1>2 DEF Subjects, Records
<1> QED BY <1>3, <1>4 DEF Records

LEMMA OwnEventForEach ==
  ASSUME NEW q, NEW lists, IsFiniteSet(DOMAIN lists),
         \A x \in DOMAIN lists : Records(q, lists[x], {x})
  PROVE  Records(q, ForEach(lists), DOMAIN lists)
<1> DEFINE about == [x \in DOMAIN lists |-> {x}]
<1>1. \A x \in DOMAIN lists : Records(q, lists[x], about[x])
  OBVIOUS
<1>2. UNION {about[x] : x \in DOMAIN lists} = DOMAIN lists
  OBVIOUS
<1> HIDE DEF about
<1>3. Records(q, ForEach(lists), UNION {about[x] : x \in DOMAIN lists})
  BY <1>1, EventsForEach
<1> QED BY <1>2, <1>3

-----------------------------------------------------------------------------
(* What the methods record.                                                *)

\* The names of the events, and what some of them hide.
TaskNames ==
  {"task_started", "task_repair_started", "task_retry_scheduled", "task_failed",
   "task_repair_retry_scheduled", "task_repair_failed", "task_completed", "task_repaired",
   "task_repair_superseded", "task_skipped", "task_overridden", "task_resumed",
   "task_requeued", "task_cancelled", "task_repair_planned",
   "task_budget_decomposition_created", "task_repair_created"}
WorkflowNames ==
  {"workflow_started", "workflow_finished", "workflow_progress", "workflow_paused",
   "workflow_resumed", "workflow_cancelled", "workflow_repair_cycle_started",
   "policy_enforcement"}

LEMMA Names ==
  /\ \A name \in TaskNames : AboutTask(name) /\ name # "workflow_replayed"
  /\ \A name \in WorkflowNames : ~AboutTask(name) /\ name # "workflow_replayed"
BY DEF AboutTask, IsTaskEvent, TaskNames, WorkflowNames

\* An event about a task, and one that is not.
LEMMA OneTaskEvent ==
  ASSUME NEW q, NEW name \in TaskNames, NEW i, NEW details,
         DOMAIN details \cap Sensitive \subseteq Minimized(name)
  PROVE  Records(q, TaskEvent(name, q, i, details), {i})
<1>1. AboutTask(name) /\ name # "workflow_replayed"
  BY Names
<1> DEFINE status == q.tasks[i].status
<1>2. AboutTask(name) => status = q.tasks[i].status
  OBVIOUS
<1> HIDE DEF status
<1>3. Records(q, <<Event(name, i, status, details)>>, IF AboutTask(name) THEN {i} ELSE {})
  BY <1>1, <1>2, OneEvent
<1> QED BY <1>1, <1>3 DEF TaskEvent, status

LEMMA OneOtherEvent ==
  ASSUME NEW q, NEW name \in WorkflowNames, NEW task, NEW status, NEW details,
         DOMAIN details \cap Sensitive \subseteq Minimized(name)
  PROVE  Records(q, <<Event(name, task, status, details)>>, {})
<1>1. ~AboutTask(name) /\ name # "workflow_replayed"
  BY Names
<1>2. Records(q, <<Event(name, task, status, details)>>, IF AboutTask(name) THEN {task} ELSE {})
  BY <1>1, OneEvent
<1> QED BY <1>1, <1>2

LEMMA HiddenFields ==
  /\ {"error_message", "provider_call"} \subseteq Minimized("task_failed")
  /\ "error_type" \in Minimized("task_failed")
  /\ {"error_type", "provider_call"} \subseteq Minimized("task_retry_scheduled")
  /\ "provider_call" \in Minimized("task_completed")
  /\ "error_type" \in Minimized("task_repair_failed")
  /\ "error_type" \in Minimized("task_repair_retry_scheduled")
  /\ "task_ids" \in Minimized("workflow_resumed")
  /\ {"message", "error_type", "provider_call"} \subseteq Minimized("policy_enforcement")
  /\ {"failure_task_id", "failure_message", "failure_error_type", "provider_call"}
       \subseteq Minimized("workflow_finished")
  /\ ContextFields \subseteq Minimized("task_repair_planned")
<1> USE DEF Minimized, WorkflowFields, AttemptFields, RepairFields, OutcomeFields,
            Calling, Timing, Blaming, Reason, Repairing
<1>1. /\ {"error_message", "provider_call"} \subseteq Minimized("task_failed")
      /\ "error_type" \in Minimized("task_failed")
  OBVIOUS
<1>2. {"error_type", "provider_call"} \subseteq Minimized("task_retry_scheduled")
  OBVIOUS
<1>3. "provider_call" \in Minimized("task_completed")
  OBVIOUS
<1>4. "error_type" \in Minimized("task_repair_failed")
  OBVIOUS
<1>5. "error_type" \in Minimized("task_repair_retry_scheduled")
  OBVIOUS
<1>6. "task_ids" \in Minimized("workflow_resumed")
  OBVIOUS
<1>7. {"message", "error_type", "provider_call"} \subseteq Minimized("policy_enforcement")
  OBVIOUS
<1>8. {"failure_task_id", "failure_message", "failure_error_type", "provider_call"}
        \subseteq Minimized("workflow_finished")
  OBVIOUS
<1>9. ContextFields \subseteq Minimized("task_repair_planned")
  OBVIOUS
<1> QED BY <1>1, <1>2, <1>3, <1>4, <1>5, <1>6, <1>7, <1>8, <1>9

\* The tasks whose events a call for the task i of the project a records
Served(a, i) == {i} \cup (IF HasOrigin(a, i) THEN {Origin(i)} ELSE {})

LEMMA WithOrigin ==
  ASSUME NEW q, NEW a, NEW i, NEW own, NEW others, NEW more,
         Records(q, own, {i}), Records(q, others, {Origin(i)} \cup more)
  PROVE  Records(q, own \o (IF HasOrigin(a, i) THEN others ELSE << >>),
                 Served(a, i) \cup (IF HasOrigin(a, i) THEN more ELSE {}))
<1>1. CASE HasOrigin(a, i)
  <2>1. Records(q, own \o others, {i} \cup ({Origin(i)} \cup more))
    BY MoreEvents
  <2>2. {i} \cup ({Origin(i)} \cup more) = Served(a, i) \cup more
    BY <1>1 DEF Served
  <2> QED BY <1>1, <2>1, <2>2, Zenon
<1>2. CASE ~HasOrigin(a, i)
  <2>1. Records(q, own \o << >>, {i} \cup {})
    BY MoreEvents, NoEvents
  <2>2. {i} \cup {} = Served(a, i) \cup {}
    BY <1>2 DEF Served
  <2> QED BY <1>2, <2>1, <2>2, Zenon
<1> QED BY <1>1, <1>2

\* start_task.
LEMMA StartRecords ==
  ASSUME NEW a, NEW q, NEW i
  PROVE  Records(q, StartEvents(a, q, i), Served(a, i))
<1> DEFINE d == [attempts |-> Number(q.tasks[i].attempts), assigned_to |-> "plain"]
           own == TaskEvent("task_started", q, i, d)
           repaired == TaskEvent("task_repair_started", q, Origin(i), RepairDetails(i))
<1>1. Records(q, own, {i})
  <2>1. DOMAIN d \cap Sensitive = {}
    BY DEF Sensitive
  <2> HIDE DEF d
  <2> QED BY <2>1, OneTaskEvent DEF TaskNames
<1>2. Records(q, repaired, {Origin(i)} \cup {})
  <2>1. DOMAIN RepairDetails(i) \cap Sensitive = {}
    BY DEF Sensitive, RepairDetails
  <2>2. Records(q, repaired, {Origin(i)})
    BY <2>1, OneTaskEvent DEF TaskNames
  <2>3. {Origin(i)} \cup {} = {Origin(i)}
    OBVIOUS
  <2> QED BY <2>2, <2>3, Zenon
<1>3. StartEvents(a, q, i) = own \o (IF HasOrigin(a, i) THEN repaired ELSE << >>)
  BY DEF StartEvents
<1> HIDE DEF own, repaired
<1>4. Records(q, StartEvents(a, q, i), Served(a, i) \cup (IF HasOrigin(a, i) THEN {} ELSE {}))
  BY <1>1, <1>2, <1>3, WithOrigin
<1>5. Served(a, i) \cup (IF HasOrigin(a, i) THEN {} ELSE {}) = Served(a, i)
  OBVIOUS
<1> QED BY <1>4, <1>5, Zenon

\* _record_policy_enforcement_event.
LEMMA PolicyRecords ==
  ASSUME NEW q, NEW category, NEW source, NEW task, NEW status, NEW details,
         DOMAIN details \cap Sensitive \subseteq {"message", "error_type", "provider_call"}
  PROVE  Records(q, PolicyEvents(category, source, task, status, details), {})
<1> DEFINE d(area) == With(details, [policy_area |-> area, source_event |-> source,
                                     failure_category |-> category])
           lists == [area \in PolicyAreas(category) |->
                       <<Event("policy_enforcement", task, status, d(area))>>]
           about == [area \in PolicyAreas(category) |-> {}]
<1>1. ASSUME NEW area \in PolicyAreas(category)
      PROVE  Records(q, <<Event("policy_enforcement", task, status, d(area))>>, {})
  <2>1. DOMAIN d(area) = DOMAIN details \cup {"policy_area", "source_event", "failure_category"}
    BY DEF With
  <2>2. DOMAIN d(area) \cap Sensitive \subseteq {"message", "error_type", "provider_call"}
    BY <2>1 DEF Sensitive
  <2>3. DOMAIN d(area) \cap Sensitive \subseteq Minimized("policy_enforcement")
    BY <2>2, HiddenFields
  <2> HIDE DEF d
  <2> QED BY <2>3, OneOtherEvent DEF WorkflowNames
<1>2. \A area \in DOMAIN lists : Records(q, lists[area], about[area])
  <2> HIDE DEF d
  <2> QED BY <1>1
<1>3. IsFiniteSet(DOMAIN lists)
  <2>1. PolicyAreas(category) = {} \/ PolicyAreas(category) = {"sandbox"}
    BY DEF PolicyAreas
  <2>2. IsFiniteSet({}) /\ IsFiniteSet({"sandbox"})
    BY FS_EmptySet, FS_Singleton
  <2>3. DOMAIN lists = PolicyAreas(category)
    OBVIOUS
  <2> HIDE DEF lists
  <2> QED BY <2>1, <2>2, <2>3, Zenon
<1>4. UNION {about[area] : area \in DOMAIN lists} = {}
  OBVIOUS
<1>5. PolicyEvents(category, source, task, status, details) = ForEach(lists)
  BY DEF PolicyEvents
<1> HIDE DEF lists, about
<1>6. Records(q, ForEach(lists), UNION {about[area] : area \in DOMAIN lists})
  BY <1>2, <1>3, EventsForEach
<1> QED BY <1>4, <1>5, <1>6, Zenon

\* fail_task, for an attempt that is retried and one that is not.
LEMMA FailRecords ==
  ASSUME NEW a, NEW q, NEW i, NEW category, NEW call
  PROVE  Records(q, FailEvents(a, q, i, category, call), Served(a, i))
<1> DEFINE retried == q.tasks[i].status = "pending"
           name   == IF retried THEN "task_retry_scheduled" ELSE "task_failed"
           called == If(call # {}, "plain")
           told   == [message |-> "plain", error_type |-> "plain", provider_call |-> called,
                      retryable |-> IF retried THEN "true" ELSE "false"]
           common == [attempts |-> Number(q.tasks[i].attempts), error_type |-> "plain",
                      error_category |-> "plain", provider_call |-> called,
                      last_attempt_duration_ms |-> "plain"]
           further == IF retried THEN [retry_limit |-> Number(RetryLimit[i[1]])]
                      ELSE [error_message |-> "plain"]
           repair == [repair_task_id |-> "plain", repair_attempt |-> "plain",
                      error_type |-> "plain", error_category |-> "plain"]
           served == IF retried THEN "task_repair_retry_scheduled" ELSE "task_repair_failed"
           policy == PolicyEvents(category, name, i, q.tasks[i].status, told)
           d      == With(common, further)
           own    == TaskEvent(name, q, i, d)
           others == TaskEvent(served, q, Origin(i), repair)
<1>1. Records(q, policy, {})
  <2>1. DOMAIN told \cap Sensitive \subseteq {"message", "error_type", "provider_call"}
    BY DEF Sensitive
  <2> HIDE DEF told, name
  <2> QED BY <2>1, PolicyRecords
<1>2. Records(q, own, {i})
  <2>1. CASE retried
    <3>1. DOMAIN d = {"attempts", "error_type", "error_category", "provider_call",
                      "last_attempt_duration_ms", "retry_limit"}
      BY <2>1 DEF With
    <3>2. DOMAIN d \cap Sensitive \subseteq Minimized("task_retry_scheduled")
      BY <3>1, HiddenFields DEF Sensitive
    <3>3. name = "task_retry_scheduled" /\ name \in TaskNames
      BY <2>1 DEF TaskNames
    <3> HIDE DEF d, name
    <3> QED BY <3>2, <3>3, OneTaskEvent
  <2>2. CASE ~retried
    <3>1. DOMAIN d = {"attempts", "error_type", "error_category", "provider_call",
                      "last_attempt_duration_ms", "error_message"}
      BY <2>2 DEF With
    <3>2. DOMAIN d \cap Sensitive \subseteq Minimized("task_failed")
      BY <3>1, HiddenFields DEF Sensitive
    <3>3. name = "task_failed" /\ name \in TaskNames
      BY <2>2 DEF TaskNames
    <3> HIDE DEF d, name
    <3> QED BY <3>2, <3>3, OneTaskEvent
  <2> QED BY <2>1, <2>2
<1>3. Records(q, others, {Origin(i)})
  <2>1. served \in TaskNames /\ DOMAIN repair \cap Sensitive \subseteq Minimized(served)
    BY HiddenFields DEF Sensitive, TaskNames
  <2> HIDE DEF served, repair
  <2> QED BY <2>1, OneTaskEvent
<1>4. FailEvents(a, q, i, category, call) =
        policy \o own \o (IF HasOrigin(a, i) THEN others ELSE << >>)
  BY DEF FailEvents
<1> HIDE DEF policy, own, others
<1>5. {} \cup {i} = {i} /\ {Origin(i)} \cup {} = {Origin(i)}
  OBVIOUS
<1>6. Records(q, policy \o own, {i})
  <2>1. Records(q, policy \o own, {} \cup {i})
    BY <1>1, <1>2, MoreEvents
  <2> QED BY <1>5, <2>1, Zenon
<1>7. CASE HasOrigin(a, i)
  <2>1. Records(q, policy \o own \o others, {i} \cup {Origin(i)})
    BY <1>3, <1>6, MoreEvents
  <2> QED BY <1>4, <1>7, <2>1 DEF Served
<1>8. CASE ~HasOrigin(a, i)
  <2>1. Records(q, policy \o own \o << >>, {i} \cup {})
    BY <1>6, MoreEvents, NoEvents
  <2> QED BY <1>4, <1>8, <2>1 DEF Served
<1> QED BY <1>7, <1>8

\* One event for each task of a finite set, with few details.
LEMMA SameEventForEach ==
  ASSUME NEW q, NEW name \in TaskNames, NEW S, IsFiniteSet(S), NEW details,
         DOMAIN details \cap Sensitive \subseteq Minimized(name)
  PROVE  Records(q, ForEach([i \in S |-> TaskEvent(name, q, i, details)]), S)
<1> DEFINE lists == [i \in S |-> TaskEvent(name, q, i, details)]
<1>1. \A i \in S : Records(q, lists[i], {i})
  BY OneTaskEvent
<1>2. DOMAIN lists = S
  OBVIOUS
<1> HIDE DEF lists
<1>3. Records(q, ForEach(lists), DOMAIN lists)
  BY <1>1, <1>2, OwnEventForEach
<1> QED BY <1>2, <1>3 DEF lists

\* skip_task, skip_dependent_tasks, override_task, resume_interrupted_tasks,
\* resume_failed_tasks and cancel_workflow, of their tasks.
LEMMA DecisionRecords ==
  ASSUME NEW q, NEW S, IsFiniteSet(S), NEW i
  PROVE  /\ Records(q, SkipEvents(q, S), S)
         /\ Records(q, ResumedEvents(q, S), S)
         /\ Records(q, RequeuedEvents(q, S), S)
         /\ Records(q, ForEach([j \in S |-> Because("task_cancelled", q, j)]), S)
         /\ Records(q, OverrideEvents(q, i), {i})
<1> DEFINE d == [reason |-> "plain"]
<1>1. DOMAIN d \cap Sensitive = {}
  BY DEF Sensitive
<1>2. /\ SkipEvents(q, S) = ForEach([j \in S |-> TaskEvent("task_skipped", q, j, d)])
      /\ ResumedEvents(q, S) = ForEach([j \in S |-> TaskEvent("task_resumed", q, j, d)])
      /\ RequeuedEvents(q, S) = ForEach([j \in S |-> TaskEvent("task_requeued", q, j, d)])
      /\ ForEach([j \in S |-> Because("task_cancelled", q, j)])
           = ForEach([j \in S |-> TaskEvent("task_cancelled", q, j, d)])
      /\ OverrideEvents(q, i) = TaskEvent("task_overridden", q, i, d)
  BY DEF SkipEvents, ResumedEvents, RequeuedEvents, OverrideEvents, Because
<1> HIDE DEF d
<1>3. ASSUME NEW name \in TaskNames
      PROVE  Records(q, ForEach([j \in S |-> TaskEvent(name, q, j, d)]), S)
  BY <1>1, SameEventForEach
<1>4. Records(q, TaskEvent("task_overridden", q, i, d), {i})
  BY <1>1, OneTaskEvent DEF TaskNames
<1>5. {"task_skipped", "task_resumed", "task_requeued", "task_cancelled"} \subseteq TaskNames
  BY DEF TaskNames
<1>6. Records(q, SkipEvents(q, S), S)
  BY <1>2, <1>3, <1>5
<1>7. Records(q, ResumedEvents(q, S), S)
  BY <1>2, <1>3, <1>5
<1>8. Records(q, RequeuedEvents(q, S), S)
  BY <1>2, <1>3, <1>5
<1>9. Records(q, ForEach([j \in S |-> Because("task_cancelled", q, j)]), S)
  BY <1>2, <1>3, <1>5
<1> QED BY <1>2, <1>4, <1>6, <1>7, <1>8, <1>9

\* complete_task, with the repairs that it makes superfluous, and
\* skip_superseded_pending_repairs.
SweptBy(a, q, i) == IF HasOrigin(a, i) THEN Superseded(a, q) ELSE {}

LEMMA SweptIsFinite ==
  ASSUME NEW a, NEW q, IsFiniteSet(DOMAIN a.tasks)
  PROVE  IsFiniteSet(Superseded(a, q)) /\ Superseded(a, q) \subseteq DOMAIN a.tasks
<1>1. Superseded(a, q) \subseteq DOMAIN a.tasks
  BY DEF Superseded, Pending, WithStatus
<1> QED BY <1>1, FS_Subset

LEMMA CompleteRecords ==
  ASSUME NEW a, NEW q, NEW i, NEW call, IsFiniteSet(DOMAIN a.tasks)
  PROVE  Records(q, CompleteEvents(a, q, i, call), Served(a, i) \cup SweptBy(a, q, i))
<1> DEFINE S == Superseded(a, q)
           d == [attempts |-> Number(q.tasks[i].attempts), assigned_to |-> "plain",
                 provider_call |-> If(call # {}, "plain"),
                 execution_mode |-> IF call # {} THEN "provider" ELSE "deterministic",
                 last_attempt_duration_ms |-> "plain", task_duration_ms |-> "plain"]
           e == [repair_origin_task_id |-> "plain", repair_task_id |-> "plain"]
           own == TaskEvent("task_completed", q, i, d)
           repaired == TaskEvent("task_repaired", q, Origin(i), RepairDetails(i))
           swept == ForEach([j \in S |-> TaskEvent("task_repair_superseded", q, j, e)])
<1>1. Records(q, own, {i})
  <2>1. DOMAIN d \cap Sensitive \subseteq Minimized("task_completed")
    BY HiddenFields DEF Sensitive
  <2> HIDE DEF d
  <2> QED BY <2>1, OneTaskEvent DEF TaskNames
<1>2. Records(q, repaired, {Origin(i)})
  <2>1. DOMAIN RepairDetails(i) \cap Sensitive = {}
    BY DEF Sensitive, RepairDetails
  <2> QED BY <2>1, OneTaskEvent DEF TaskNames
<1>3. Records(q, swept, S)
  <2>1. DOMAIN e \cap Sensitive = {}
    BY DEF Sensitive
  <2>2. IsFiniteSet(S)
    BY SweptIsFinite
  <2>3. "task_repair_superseded" \in TaskNames
    BY DEF TaskNames
  <2> HIDE DEF e, S
  <2> QED BY <2>1, <2>2, <2>3, SameEventForEach
<1>4. CompleteEvents(a, q, i, call) =
        own \o (IF ~HasOrigin(a, i) THEN << >> ELSE repaired \o swept)
  BY DEF CompleteEvents
<1> HIDE DEF own, repaired, swept, S
<1>5. CASE HasOrigin(a, i)
  <2>1. Records(q, repaired \o swept, {Origin(i)} \cup S)
    BY <1>2, <1>3, MoreEvents
  <2>2. Records(q, own \o (repaired \o swept), {i} \cup ({Origin(i)} \cup S))
    BY <1>1, <2>1, MoreEvents
  <2>3. {i} \cup ({Origin(i)} \cup S) = Served(a, i) \cup SweptBy(a, q, i)
    BY <1>5 DEF Served, SweptBy, S
  <2> QED BY <1>4, <1>5, <2>2, <2>3, Zenon
<1>6. CASE ~HasOrigin(a, i)
  <2>1. Records(q, own \o << >>, {i} \cup {})
    BY <1>1, MoreEvents, NoEvents
  <2>2. {i} \cup {} = Served(a, i) \cup SweptBy(a, q, i)
    BY <1>6 DEF Served, SweptBy
  <2> QED BY <1>4, <1>6, <2>1, <2>2, Zenon
<1> QED BY <1>5, <1>6

LEMMA SupersededRecords ==
  ASSUME NEW a, NEW q, IsFiniteSet(DOMAIN a.tasks)
  PROVE  Records(q, SupersededEvents(a, q), Superseded(a, q))
<1> DEFINE e == [repair_origin_task_id |-> "plain"]
           S == Superseded(a, q)
<1>1. DOMAIN e \cap Sensitive = {}
  BY DEF Sensitive
<1>2. IsFiniteSet(S)
  BY SweptIsFinite
<1>3. SupersededEvents(a, q) = ForEach([j \in S |-> TaskEvent("task_repair_superseded", q, j, e)])
  BY DEF SupersededEvents
<1>4. "task_repair_superseded" \in TaskNames
  BY DEF TaskNames
<1> HIDE DEF e, S
<1>5. Records(q, ForEach([j \in S |-> TaskEvent("task_repair_superseded", q, j, e)]), S)
  BY <1>1, <1>2, <1>4, SameEventForEach
<1> QED BY <1>3, <1>5 DEF S

\* The events about the workflow: each tells of no task.
LEMMA OneWorkflowEvent ==
  ASSUME NEW q, NEW name \in WorkflowNames, NEW details, NEW r,
         DOMAIN details \cap Sensitive \subseteq Minimized(name)
  PROVE  Records(q, WorkflowEvent(name, r, details), {})
<1> DEFINE phase == r.phase
<1> HIDE DEF phase
<1>1. Records(q, <<Event(name, NoTask, phase, details)>>, {})
  BY OneOtherEvent
<1> QED BY <1>1 DEF WorkflowEvent, phase

LEMMA WorkflowRecords ==
  ASSUME NEW q, NEW r, NEW ids, NEW i
  PROVE  /\ Records(q, WorkflowResumed(r, ids), {})
         /\ Records(q, WorkflowPaused(r), {})
         /\ Records(q, WorkflowStarted(r), {})
         /\ Records(q, WorkflowProgressed(r, i), {})
         /\ Records(q, CycleStarted(r, ids), {})
<1>1. Records(q, WorkflowResumed(r, ids), {})
  <2> DEFINE d == [reason |-> "plain", task_ids |-> Listed(ids)]
  <2>1. DOMAIN d \cap Sensitive \subseteq Minimized("workflow_resumed")
    BY HiddenFields DEF Sensitive
  <2>2. WorkflowResumed(r, ids) = WorkflowEvent("workflow_resumed", r, d)
    BY DEF WorkflowResumed
  <2> HIDE DEF d
  <2>3. Records(q, WorkflowEvent("workflow_resumed", r, d), {})
    BY <2>1, OneWorkflowEvent DEF WorkflowNames
  <2> QED BY <2>2, <2>3
<1>2. Records(q, WorkflowPaused(r), {})
  <2> DEFINE d == [reason |-> "plain"]
  <2>1. DOMAIN d \cap Sensitive = {}
    BY DEF Sensitive
  <2>2. WorkflowPaused(r) = WorkflowEvent("workflow_paused", r, d)
    BY DEF WorkflowPaused
  <2> HIDE DEF d
  <2>3. Records(q, WorkflowEvent("workflow_paused", r, d), {})
    BY <2>1, OneWorkflowEvent DEF WorkflowNames
  <2> QED BY <2>2, <2>3
<1>3. Records(q, WorkflowStarted(r), {})
  <2> DEFINE d == [repair_cycle_count |-> Number(r.cycles), repair_max_cycles |-> Number(r.budget)]
  <2>1. DOMAIN d \cap Sensitive = {}
    BY DEF Sensitive
  <2>2. WorkflowStarted(r) = WorkflowEvent("workflow_started", r, d)
    BY DEF WorkflowStarted
  <2> HIDE DEF d
  <2>3. Records(q, WorkflowEvent("workflow_started", r, d), {})
    BY <2>1, OneWorkflowEvent DEF WorkflowNames
  <2> QED BY <2>2, <2>3
<1>4. Records(q, WorkflowProgressed(r, i), {})
  <2> DEFINE d == [task_status |-> r.tasks[i].status]
             phase == r.phase
  <2>1. DOMAIN d \cap Sensitive = {}
    BY DEF Sensitive
  <2>2. WorkflowProgressed(r, i) = <<Event("workflow_progress", i, phase, d)>>
    BY DEF WorkflowProgressed
  <2> HIDE DEF d, phase
  <2>3. Records(q, <<Event("workflow_progress", i, phase, d)>>, {})
    BY <2>1, OneOtherEvent DEF WorkflowNames
  <2> QED BY <2>2, <2>3
<1>5. Records(q, CycleStarted(r, ids), {})
  <2> DEFINE d == [cycle |-> "number", reason |-> "plain", failure_category |-> "plain",
                   failed_task_ids |-> Listed(ids), budget_remaining |-> Number(BudgetLeft(r))]
  <2>1. DOMAIN d \cap Sensitive = {}
    BY DEF Sensitive
  <2>2. CycleStarted(r, ids) = WorkflowEvent("workflow_repair_cycle_started", r, d)
    BY DEF CycleStarted
  <2> HIDE DEF d
  <2>3. Records(q, WorkflowEvent("workflow_repair_cycle_started", r, d), {})
    BY <2>1, OneWorkflowEvent DEF WorkflowNames
  <2> QED BY <2>2, <2>3
<1> QED BY <1>1, <1>2, <1>3, <1>4, <1>5

\* mark_workflow_finished.
LEMMA FinishRecords ==
  ASSUME NEW q, NEW r, NEW g, NEW culprit
  PROVE  Records(q, WorkflowFinished(r, g, culprit), {})
<1> DEFINE told == [message |-> If(culprit # {}, "plain"), error_type |-> If(culprit # {}, "plain"),
                    provider_call |-> FinishedDetails(g, culprit).provider_call,
                    terminal_outcome |-> r.outcome]
           more == [workflow_duration_ms |-> If(r.started, "plain"), acceptance_policy |-> "plain",
                    terminal_outcome |-> r.outcome, failure_category |-> r.failure,
                    acceptance_criteria_met |-> "plain", acceptance_evaluation |-> "public"]
           d == With(FinishedDetails(g, culprit), more)
           task == IF culprit = {} THEN NoTask ELSE The(culprit)
           policy == PolicyEvents(r.failure, "workflow_finished", task, r.phase, told)
           own == WorkflowEvent("workflow_finished", r, d)
<1>1. Records(q, policy, {})
  <2>1. DOMAIN told \cap Sensitive \subseteq {"message", "error_type", "provider_call"}
    BY DEF Sensitive
  <2> HIDE DEF told, task
  <2> QED BY <2>1, PolicyRecords
<1>2. Records(q, own, {})
  <2>1. DOMAIN FinishedDetails(g, culprit) =
          {"failure_task_id", "failure_message", "failure_error_type", "provider_call"}
    BY DEF FinishedDetails
  <2>2. DOMAIN more \cap Sensitive = {}
    BY DEF Sensitive
  <2> HIDE DEF more
  <2>3. DOMAIN d = DOMAIN FinishedDetails(g, culprit) \cup DOMAIN more
    BY DEF With
  <2>4. DOMAIN d \cap Sensitive \subseteq Minimized("workflow_finished")
    BY <2>1, <2>2, <2>3, HiddenFields
  <2> HIDE DEF d
  <2> QED BY <2>4, OneWorkflowEvent DEF WorkflowNames
<1>3. WorkflowFinished(r, g, culprit) = (IF r.failure \notin Categories THEN << >> ELSE policy) \o own
  BY DEF WorkflowFinished
<1> HIDE DEF policy, own
<1>4. {} \cup {} = {}
  OBVIOUS
<1>5. Records(q, policy \o own, {})
  <2>1. Records(q, policy \o own, {} \cup {})
    BY <1>1, <1>2, MoreEvents
  <2> QED BY <1>4, <2>1, Zenon
<1>6. Records(q, << >> \o own, {})
  <2>1. Records(q, << >> \o own, {} \cup {})
    BY <1>2, MoreEvents, NoEvents
  <2> QED BY <1>4, <2>1, Zenon
<1> QED BY <1>3, <1>5, <1>6

\* cancel_workflow.
LEMMA CancelRecords ==
  ASSUME NEW a, NEW q, NEW g, IsFiniteSet(DOMAIN a.tasks)
  PROVE  Records(q, CancelEvents(a, q, g), Pending(a))
<1> DEFINE d == [reason |-> "plain", cancelled_task_ids |-> Listed(Pending(a)),
                 terminal_outcome |-> q.outcome]
           tasks == ForEach([i \in Pending(a) |-> Because("task_cancelled", q, i)])
           finished == WorkflowFinished(q, g, {})
           own == WorkflowEvent("workflow_cancelled", q, d)
           S == Pending(a)
<1>1. Records(q, tasks, S)
  <2>1. S \subseteq DOMAIN a.tasks
    BY DEF Pending, WithStatus
  <2>2. IsFiniteSet(S)
    BY <2>1, FS_Subset
  <2> QED BY <2>2, DecisionRecords
<1>2. Records(q, finished, {})
  BY FinishRecords
<1>3. Records(q, own, {})
  <2>1. DOMAIN d \cap Sensitive = {}
    BY DEF Sensitive
  <2> HIDE DEF d
  <2> QED BY <2>1, OneWorkflowEvent DEF WorkflowNames
<1>4. CancelEvents(a, q, g) = tasks \o finished \o own
  BY DEF CancelEvents
<1> HIDE DEF tasks, finished, own, S
<1>5. Records(q, tasks \o finished, S \cup {})
  BY <1>1, <1>2, MoreEvents
<1>6. Records(q, tasks \o finished \o own, (S \cup {}) \cup {})
  BY <1>3, <1>5, MoreEvents
<1>7. (S \cup {}) \cup {} = S
  OBVIOUS
<1>8. Records(q, CancelEvents(a, q, g), S)
  BY <1>4, <1>6, <1>7, Zenon
<1> QED BY <1>8 DEF S

\* The planning of a repair cycle, by a project a that becomes the project q.
LEMMA PlanRecords ==
  ASSUME NEW a, NEW q, NEW F, NEW c, NEW g,
         IsFiniteSet(Targets(a, F)), IsFiniteSet(CycleIds(a, F, c)),
         \A x \in Targets(a, F) : a.tasks[x].status = q.tasks[x].status
  PROVE  \E A : Records(q, PlanEvents(a, q, F, c, g), A)
<1> DEFINE T == Targets(a, F)
           new == CycleIds(a, F, c) \ DOMAIN a.tasks
           plans == new \cap PlanIds(a, F, c)
           repairs == new \cap RepairIds(a, F, c)
           D(x) == ContextDetails(a, F, x, g.calls[x] # {})
           d == [decomposition_target_task_id |-> "plain", repair_attempt |-> "plain",
                 assigned_to |-> "plain"]
           e == [repair_origin_task_id |-> "plain", repair_attempt |-> "plain",
                 assigned_to |-> "plain"]
           h == [reason |-> "plain", repair_task_id |-> "plain"]
           Both(i) == TaskEvent("task_repair_created", q, i, e)
                        \o TaskEvent("task_requeued", q, Origin(i), h)
           planned == [x \in T |-> TaskEvent("task_repair_planned", a, x, D(x))]
           decomposed == ForEach([i \in plans |->
                           TaskEvent("task_budget_decomposition_created", q, i, d)])
           created == [i \in repairs |-> Both(i)]
<1>1. ASSUME NEW x \in T
      PROVE  Records(q, planned[x], {x})
  <2> DEFINE ds == D(x)
             status == a.tasks[x].status
  <2>1. DOMAIN ds \cap Sensitive \subseteq ContextFields
    <3> DEFINE own == [cycle |-> "number", failure_category |-> "validation",
                failure_message |-> "plain", failure_error_type |-> "plain",
                instruction |-> "plain", repair_owner |-> "plain",
                original_assigned_to |-> "plain", failed_output |-> "plain",
                validation_summary |-> "plain", failed_artifact_content |-> "plain",
                provider_call |-> If(g.calls[x] # {}, "plain")]
               suite == [source_failure_task_id |-> "plain", existing_tests |-> "plain",
                source_failure_category |-> "validation"]
               used  == [helper_surface_usages |-> "plain", helper_surface_symbols |-> "plain"]
    <3>1. ds \in {own, With(own, suite), With(own, used)}
      BY DEF ContextDetails
    <3>2. DOMAIN own \cap Sensitive \subseteq ContextFields
      BY DEF Sensitive, ContextFields, Calling
    <3>3. DOMAIN suite \cap Sensitive \subseteq ContextFields
      BY DEF Sensitive, ContextFields
    <3>4. DOMAIN used \cap Sensitive \subseteq ContextFields
      BY DEF Sensitive, ContextFields
    <3> HIDE DEF own, suite, used, ds
    <3>5. /\ DOMAIN With(own, suite) = DOMAIN own \cup DOMAIN suite
          /\ DOMAIN With(own, used) = DOMAIN own \cup DOMAIN used
      BY DEF With
    <3> QED BY <3>1, <3>2, <3>3, <3>4, <3>5
  <2>2. DOMAIN ds \cap Sensitive \subseteq Minimized("task_repair_planned")
    <3> HIDE DEF ds
    <3> QED BY <2>1, HiddenFields
  <2>3. AboutTask("task_repair_planned") => status = q.tasks[x].status
    OBVIOUS
  <2>4. AboutTask("task_repair_planned") /\ "task_repair_planned" # "workflow_replayed"
    BY Names DEF TaskNames
  <2>5. planned[x] = <<Event("task_repair_planned", x, status, ds)>>
    BY DEF TaskEvent
  <2> HIDE DEF ds, status, planned
  <2>6. Records(q, <<Event("task_repair_planned", x, status, ds)>>,
                IF AboutTask("task_repair_planned") THEN {x} ELSE {})
    BY <2>2, <2>3, <2>4, OneEvent
  <2> QED BY <2>4, <2>5, <2>6
<1>2. Records(q, ForEach(planned), T)
  <2>1. DOMAIN planned = T
    OBVIOUS
  <2>2. IsFiniteSet(DOMAIN planned)
    BY <2>1
  <2> HIDE DEF planned, T
  <2>3. Records(q, ForEach(planned), DOMAIN planned)
    BY <1>1, <2>1, <2>2, OwnEventForEach
  <2> QED BY <2>1, <2>3
<1>3. IsFiniteSet(plans) /\ IsFiniteSet(repairs)
  <2>1. plans \subseteq CycleIds(a, F, c) /\ repairs \subseteq CycleIds(a, F, c)
    OBVIOUS
  <2> QED BY <2>1, FS_Subset
<1>4. Records(q, decomposed, plans)
  <2>1. DOMAIN d \cap Sensitive = {}
    BY DEF Sensitive
  <2>2. "task_budget_decomposition_created" \in TaskNames
    BY DEF TaskNames
  <2> HIDE DEF d, plans
  <2> QED BY <1>3, <2>1, <2>2, SameEventForEach
<1>5. \E B : Records(q, ForEach(created), B)
  <2> DEFINE about == [i \in repairs |-> {i} \cup {Origin(i)}]
  <2>1. ASSUME NEW i \in repairs
        PROVE  Records(q, created[i], about[i])
    <3>1. DOMAIN e \cap Sensitive = {} /\ DOMAIN h \cap Sensitive = {}
      BY DEF Sensitive
    <3>2. {"task_repair_created", "task_requeued"} \subseteq TaskNames
      BY DEF TaskNames
    <3> DEFINE j == Origin(i)
    <3>3. created[i] = TaskEvent("task_repair_created", q, i, e) \o TaskEvent("task_requeued", q, j, h)
      OBVIOUS
    <3>4. about[i] = {i} \cup {j}
      OBVIOUS
    <3> HIDE DEF e, h, j, created, about
    <3>5. Records(q, TaskEvent("task_repair_created", q, i, e), {i})
      BY <3>1, <3>2, OneTaskEvent
    <3>6. Records(q, TaskEvent("task_requeued", q, j, h), {j})
      BY <3>1, <3>2, OneTaskEvent
    <3>7. Records(q, TaskEvent("task_repair_created", q, i, e)
                       \o TaskEvent("task_requeued", q, j, h), {i} \cup {j})
      BY <3>5, <3>6, MoreEvents
    <3> QED BY <3>3, <3>4, <3>7, Zenon
  <2>2. DOMAIN created = repairs
    OBVIOUS
  <2> HIDE DEF created, about, repairs
  <2>3. Records(q, ForEach(created), UNION {about[i] : i \in DOMAIN created})
    BY <1>3, <2>1, <2>2, EventsForEach
  <2> QED BY <2>3
<1>6. PlanEvents(a, q, F, c, g) = ForEach(planned) \o decomposed \o ForEach(created)
  BY DEF PlanEvents
<1> HIDE DEF planned, decomposed, created, T, plans
<1>7. PICK B : Records(q, ForEach(created), B)
  BY <1>5
<1>8. Records(q, ForEach(planned) \o decomposed, T \cup plans)
  BY <1>2, <1>4, MoreEvents
<1>9. Records(q, ForEach(planned) \o decomposed \o ForEach(created), (T \cup plans) \cup B)
  BY <1>7, <1>8, MoreEvents
<1> QED BY <1>6, <1>9

-----------------------------------------------------------------------------
(* Who follows the events knows the status of every task.                  *)

Trail(q) == [i \in DOMAIN q.tasks |-> q.tasks[i].status]

\* The events of a call in two parts: the later ones tell the final status, the
\* earlier ones that of a project r, which may still change for the tasks that the
\* later events are about.
LEMMA LastEventsTell ==
  ASSUME NEW q, NEW r, NEW early, NEW late, NEW A, NEW B,
         Records(r, early, A), Records(q, late, B),
         \A i \in DOMAIN q.tasks :
           \/ i \in B
           \/ i \in A /\ r.tasks[i].status = q.tasks[i].status
           \/ i \notin A /\ i \in DOMAIN trail /\ trail[i] = q.tasks[i].status
           \/ i \notin A /\ i \notin DOMAIN trail /\ q.tasks[i].status = "pending"
  PROVE  Followed(q, early \o late) = Trail(q)
<1> DEFINE all == early \o late
           About(i) == {k \in DOMAIN all : IsTaskEvent(all[k]) /\ all[k].task = i}
           restarted == \E k \in DOMAIN all : all[k].event = "workflow_replayed"
           m == Len(early)
           n == Len(late)
<1>1. /\ IsList(early) /\ IsList(late)
      /\ \A e \in Elements(early) :
           /\ e.event # "workflow_replayed"
           /\ IsTaskEvent(e) => e.task \in A /\ e.status = r.tasks[e.task].status
      /\ \A e \in Elements(late) :
           /\ e.event # "workflow_replayed"
           /\ IsTaskEvent(e) => e.task \in B /\ e.status = q.tasks[e.task].status
      /\ \A i \in A : \E e \in Elements(early) : IsTaskEvent(e) /\ e.task = i
      /\ \A i \in B : \E e \in Elements(late) : IsTaskEvent(e) /\ e.task = i
  BY DEF Records, Honest, Subjects
<1>2. /\ m \in Nat /\ DOMAIN early = 1 .. m
      /\ n \in Nat /\ DOMAIN late = 1 .. n
  BY <1>1, Lists
<1>3. /\ IsList(all) /\ Len(all) = m + n
      /\ \A k \in 1 .. m : all[k] = early[k]
      /\ \A k \in 1 .. n : all[m + k] = late[k]
  BY <1>1, JoinedLists
<1>4. DOMAIN all = 1 .. m + n
  BY <1>3, Lists
<1> HIDE DEF all, m, n
<1>5. ASSUME NEW k \in 1 .. m + n
      PROVE  \/ k \in 1 .. m /\ all[k] \in Elements(early)
             \/ k > m /\ all[k] \in Elements(late)
  <2>1. CASE k <= m
    <3>1. k \in 1 .. m
      BY <1>2, <2>1
    <3> QED BY <1>2, <1>3, <3>1 DEF Elements
  <2>2. CASE k > m
    <3>1. k - m \in 1 .. n /\ m + (k - m) = k
      BY <1>2, <2>2
    <3>2. all[k] = late[k - m]
      BY <1>3, <3>1
    <3> QED BY <1>2, <2>2, <3>1, <3>2 DEF Elements
  <2> QED BY <1>2, <2>1, <2>2
<1>6. ~restarted
  BY <1>1, <1>4, <1>5
<1>7. \A i : About(i) \in SUBSET (1 .. m + n)
  BY <1>4
<1>8. m + n \in Nat
  BY <1>2
<1>9. ASSUME NEW i \in DOMAIN q.tasks
      PROVE  (IF About(i) # {} THEN all[Max(About(i))].status
              ELSE IF restarted \/ i \notin DOMAIN trail THEN "pending" ELSE trail[i])
                = q.tasks[i].status
  <2>1. ASSUME About(i) # {}
        PROVE  /\ Max(About(i)) \in About(i)
               /\ \A k \in About(i) : k <= Max(About(i))
    <3> HIDE DEF About
    <3> QED BY <1>7, <1>8, <2>1, MaxIsGreatest
  <2> DEFINE k == Max(About(i))
  <2>2. CASE i \in B
    <3>1. PICK e \in Elements(late) : IsTaskEvent(e) /\ e.task = i
      BY <1>1, <2>2
    <3>2. PICK j \in 1 .. n : late[j] = e
      BY <1>2 DEF Elements
    <3>3. m + j \in 1 .. m + n /\ m + j > m
      BY <1>2
    <3>4. m + j \in About(i)
      BY <1>3, <1>4, <3>1, <3>2, <3>3
    <3>5. k \in About(i) /\ m + j <= k
      BY <2>1, <3>4
    <3> HIDE DEF k
    <3>6. k \in 1 .. m + n /\ IsTaskEvent(all[k]) /\ all[k].task = i
      BY <1>4, <3>5
    <3>7. k > m
      BY <1>2, <3>3, <3>5, <3>6
    <3>8. all[k] \in Elements(late)
      BY <1>2, <1>5, <3>6, <3>7
    <3>9. all[k].status = q.tasks[i].status
      BY <1>1, <3>6, <3>8
    <3> QED BY <3>4, <3>9 DEF k
  <2>3. CASE i \notin B /\ i \in A
    <3>1. PICK e \in Elements(early) : IsTaskEvent(e) /\ e.task = i
      BY <1>1, <2>3
    <3>2. PICK j \in 1 .. m : early[j] = e
      BY <1>2 DEF Elements
    <3>3. j \in 1 .. m + n
      BY <1>2
    <3>4. j \in About(i)
      BY <1>3, <1>4, <3>1, <3>2, <3>3
    <3>5. k \in About(i)
      BY <2>1, <3>4
    <3> HIDE DEF k
    <3>6. k \in 1 .. m + n /\ IsTaskEvent(all[k]) /\ all[k].task = i
      BY <1>4, <3>5
    <3>7. all[k] \in Elements(early)
      BY <1>1, <1>5, <2>3, <3>6
    <3>8. all[k].status = r.tasks[i].status
      BY <1>1, <3>6, <3>7
    <3>9. r.tasks[i].status = q.tasks[i].status
      BY <2>3
    <3> QED BY <3>4, <3>8, <3>9 DEF k
  <2>4. CASE i \notin B /\ i \notin A
    <3>1. About(i) = {}
      BY <1>1, <1>4, <1>5, <2>4
    <3> QED BY <1>6, <2>4, <3>1
  <2> QED BY <2>2, <2>3, <2>4
<1>10. Followed(q, all) = [i \in DOMAIN q.tasks |->
         IF About(i) # {} THEN all[Max(About(i))].status
         ELSE IF restarted \/ i \notin DOMAIN trail THEN "pending" ELSE trail[i]]
  BY DEF Followed
<1> HIDE DEF About, restarted
<1>11. Followed(q, all) = Trail(q)
  BY <1>9, <1>10 DEF Trail
<1> QED BY <1>11 DEF all

\* The same for events that all tell the final status.
LEMMA EventsTell ==
  ASSUME NEW q, NEW events, NEW A, Records(q, events, A),
         \A i \in DOMAIN q.tasks :
           \/ i \in A
           \/ i \in DOMAIN trail /\ trail[i] = q.tasks[i].status
  PROVE  Followed(q, events) = Trail(q)
<1>1. Records(q, << >>, {})
  BY NoEvents
<1>2. Followed(q, events \o << >>) = Trail(q)
  BY <1>1, LastEventsTell
<1>3. events \o << >> = events
  <2>1. events \in Seq(Elements(events))
    BY DEF Records, Honest, IsList
  <2> QED BY <2>1
<1> QED BY <1>2, <1>3

-----------------------------------------------------------------------------
(* The invariant.                                                          *)

\* The facts of a project with the tasks of T.
HasFacts(g, T) ==
  /\ g = [calls |-> g.calls, errors |-> g.errors, evaluation |-> g.evaluation,
          accepted |-> g.accepted, resumed |-> g.resumed, cycles |-> g.cycles]
  /\ DOMAIN g.calls = T /\ g.errors \in [T -> BOOLEAN]

\* A task shows the call of the outcome that it shows.
Shown(r, call, error) ==
  /\ r.status = "skipped" => call = {} /\ error = TRUE
  /\ r.status = "failed" => error = TRUE
  /\ r.status = "done" => \A c \in call : Failing(c) => c \in UNION OlderCalls
  /\ r.status = "pending" /\ call # {} => r.category # "none" /\ error = TRUE

Histories(q) == [i \in DOMAIN q.tasks |-> Noted(q.tasks[i])]

ViewsInv ==
  /\ IsProject(project) /\ IsFiniteSet(DOMAIN project.tasks)
  /\ HasFacts(facts, DOMAIN project.tasks)
  /\ trail = Trail(project)
  /\ noted = Histories(project)
  /\ \A i \in DOMAIN project.tasks : Shown(project.tasks[i], facts.calls[i], facts.errors[i])
  /\ \A k \in DOMAIN batch : Covered(batch[k])

\* What the invariant says is what a reader relies on.
LEMMA InvariantShows ==
  ASSUME ViewsInv
  PROVE  TrailIsComplete /\ EventsHideTexts
<1>1. TrailIsComplete
  <2>1. SUFFICES ASSUME NEW i \in Tasks
                 PROVE  LET r == p.tasks[i] IN
                        /\ trail[i] = r.status
                        /\ noted[i] = Noted(r)
                        /\ r.status = "skipped" => f.calls[i] = {} /\ f.errors[i]
                        /\ r.status = "failed" => f.errors[i]
                        /\ r.status = "done" => \A c \in f.calls[i] : Failing(c) => c \in UNION OlderCalls
                        /\ r.status = "pending" /\ f.calls[i] # {} => r.category # "none" /\ f.errors[i]
    BY DEF TrailIsComplete
  <2>2. trail[i] = p.tasks[i].status /\ noted[i] = Noted(p.tasks[i])
    BY DEF ViewsInv, Trail, Histories, p, Tasks
  <2>3. Shown(p.tasks[i], f.calls[i], f.errors[i])
    BY DEF ViewsInv, p, f, Tasks
  <2> QED BY <2>2, <2>3 DEF Shown
<1>2. EventsHideTexts
  <2>1. SUFFICES ASSUME NEW k \in DOMAIN batch
                 PROVE  LET e == batch[k]
                            shown == Published(e)
                            there == {x \in DOMAIN e.details \cap Sensitive : e.details[x] # "none"}
                        IN  /\ DOMAIN shown.kept \cap Sensitive = {}
                            /\ \A x \in there : <<x, "present">> \in shown.flags
                            /\ {y[1] : y \in shown.flags}
                                 \subseteq {x \in DOMAIN e.details : e.details[x] # "none"}
    BY DEF EventsHideTexts
  <2> DEFINE e == batch[k]
             fields == DOMAIN e.details
             stay == IF e.event \in AsStored THEN fields
                     ELSE IF e.event \in Copied
                       THEN fields \ (Minimized(e.event) \cup Dropped(e.event))
                     ELSE fields \cap Listing(e.event)
             hidden == {x \in fields \cap Minimized(e.event) : e.details[x] # "none"}
             there == {x \in fields \cap Sensitive : e.details[x] # "none"}
             flags == {<<x, "present">> : x \in hidden}
                        \cup {<<x, "several">> : x \in {y \in hidden \cap Plural : e.details[y] = "many"}}
  <2>2. fields \cap Sensitive \subseteq Minimized(e.event)
    BY DEF ViewsInv, Covered
  <2>3. DOMAIN Published(e).kept = stay /\ Published(e).flags = flags
    BY DEF Published
  <2>4. stay \cap Sensitive = {}
    <3> HIDE DEF e
    <3>1. CASE e.event \in AsStored
      <4>1. Minimized(e.event) = {}
        BY <3>1 DEF AsStored, Minimized, WorkflowFields, AttemptFields, RepairFields, OutcomeFields
      <4> QED BY <2>2, <3>1, <4>1
    <3>2. CASE e.event \notin AsStored /\ e.event \in Copied
      BY <2>2, <3>2
    <3>3. CASE e.event \notin AsStored /\ e.event \notin Copied
      <4>1. Listing(e.event) \cap Sensitive = {}
        BY DEF Listing, Sensitive
      <4> QED BY <3>3, <4>1
    <3> QED BY <3>1, <3>2, <3>3
  <2>5. there \subseteq hidden
    BY <2>2
  <2>6. \A x \in there : <<x, "present">> \in flags
    <3> HIDE DEF there, hidden
    <3> QED BY <2>5
  <2>7. {y[1] : y \in flags} \subseteq {x \in fields : e.details[x] # "none"}
    OBVIOUS
  <2> HIDE DEF stay, hidden, flags
  <2> QED BY <2>3, <2>4, <2>6, <2>7
<1> QED BY <1>1, <1>2

-----------------------------------------------------------------------------
(* What a call keeps.                                                      *)

\* The facts of the tasks of T become facts of the tasks of D.
Spreads(g, h, T, D) ==
  /\ HasFacts(h, D)
  /\ \A i \in D : h.calls[i] = IF i \in T THEN g.calls[i] ELSE {}
  /\ \A i \in D : h.errors[i] = IF i \in T THEN g.errors[i] ELSE FALSE

LEMMA SpreadFacts ==
  ASSUME NEW T, NEW g, HasFacts(g, T), NEW q
  PROVE  Spreads(g, Spread(g, q), T, DOMAIN q.tasks)
<1> DEFINE D == DOMAIN q.tasks
           calls == [i \in D |-> IF i \in T THEN g.calls[i] ELSE {}]
           errors == [i \in D |-> IF i \in T THEN g.errors[i] ELSE FALSE]
<1>1. /\ Spread(g, q).calls = calls /\ Spread(g, q).errors = errors
      /\ Spread(g, q) = [calls |-> calls, errors |-> errors, evaluation |-> g.evaluation,
                         accepted |-> g.accepted, resumed |-> g.resumed, cycles |-> g.cycles]
  <2>1. DOMAIN g.calls = T /\ DOMAIN g.errors = T
    BY DEF HasFacts
  <2>2. Spread(g, q) = [g EXCEPT !.calls = calls, !.errors = errors]
    BY <2>1 DEF Spread
  <2> HIDE DEF calls, errors
  <2>3. [g EXCEPT !.calls = calls, !.errors = errors] =
          [calls |-> calls, errors |-> errors, evaluation |-> g.evaluation,
           accepted |-> g.accepted, resumed |-> g.resumed, cycles |-> g.cycles]
    <3> DEFINE h == [g EXCEPT !.calls = calls]
    <3>1. h = [calls |-> calls, errors |-> g.errors, evaluation |-> g.evaluation,
               accepted |-> g.accepted, resumed |-> g.resumed, cycles |-> g.cycles]
      BY DEF HasFacts
    <3>2. [g EXCEPT !.calls = calls, !.errors = errors] = [h EXCEPT !.errors = errors]
      OBVIOUS
    <3> HIDE DEF h
    <3> QED BY <3>1, <3>2
  <2> QED BY <2>2, <2>3
<1>2. HasFacts(Spread(g, q), D)
  <2>1. errors \in [D -> BOOLEAN]
    BY DEF HasFacts
  <2>2. DOMAIN calls = D
    OBVIOUS
  <2> HIDE DEF calls, errors, D
  <2> QED BY <1>1, <2>1, <2>2 DEF HasFacts
<1>3. /\ \A i \in D : calls[i] = IF i \in T THEN g.calls[i] ELSE {}
      /\ \A i \in D : errors[i] = IF i \in T THEN g.errors[i] ELSE FALSE
  OBVIOUS
<1> HIDE DEF calls, errors
<1> QED BY <1>1, <1>2, <1>3 DEF Spreads

LEMMA DoKeeps ==
  ASSUME ViewsInv, NEW q, NEW g, NEW events, NEW S, NEW T, Do(q, g, events, S),
         IsProject(q), IsFiniteSet(DOMAIN q.tasks), HasFacts(g, T),
         Followed(q, events) = Trail(q),
         \A k \in DOMAIN events : Covered(events[k]),
         \A i \in DOMAIN q.tasks :
           \/ i \in S
           \/ i \in DOMAIN project.tasks /\ Noted(q.tasks[i]) = Noted(project.tasks[i])
           \/ i \notin DOMAIN project.tasks /\ Noted(q.tasks[i]) = Fresh,
         \A i \in DOMAIN q.tasks :
           Shown(q.tasks[i], IF i \in T THEN g.calls[i] ELSE {},
                 IF i \in T THEN g.errors[i] ELSE FALSE)
  PROVE  ViewsInv'
<1> DEFINE D == DOMAIN q.tasks
<1>1. project' = q /\ facts' = Spread(g, q) /\ batch' = events /\ trail' = Followed(q, events)
  BY DEF Do
<1>2. noted' = Histories(q)
  <2>1. \A i \in DOMAIN project.tasks : noted[i] = Noted(project.tasks[i])
    BY DEF ViewsInv, Histories
  <2>2. DOMAIN noted = DOMAIN project.tasks
    BY DEF ViewsInv, Histories
  <2>3. noted' = [i \in D |-> IF i \in S THEN Noted(q.tasks[i])
                              ELSE IF i \in DOMAIN noted THEN noted[i] ELSE Fresh]
    BY DEF Do
  <2>4. \A i \in D : (IF i \in S THEN Noted(q.tasks[i])
                      ELSE IF i \in DOMAIN noted THEN noted[i] ELSE Fresh) = Noted(q.tasks[i])
    BY <2>1, <2>2
  <2> QED BY <2>3, <2>4 DEF Histories
<1>3. Spreads(g, Spread(g, q), T, D)
  BY SpreadFacts
<1> DEFINE h == Spread(g, q)
<1> HIDE DEF h
<1>4. HasFacts(h, D)
  BY <1>3 DEF Spreads, h
<1>5. ASSUME NEW i \in D
      PROVE  Shown(q.tasks[i], h.calls[i], h.errors[i])
  <2>1. h.calls[i] = IF i \in T THEN g.calls[i] ELSE {}
    BY <1>3 DEF Spreads, h
  <2>2. h.errors[i] = IF i \in T THEN g.errors[i] ELSE FALSE
    BY <1>3, Zenon DEF Spreads, h
  <2>3. Shown(q.tasks[i], IF i \in T THEN g.calls[i] ELSE {},
              IF i \in T THEN g.errors[i] ELSE FALSE)
    OBVIOUS
  <2> QED BY <2>1, <2>2, <2>3, Zenon
<1> QED BY <1>1, <1>2, <1>4, <1>5 DEF ViewsInv, h

\* A call that keeps the set of tasks and changes some of them.
LEMMA CallKeeps ==
  ASSUME ViewsInv, NEW q, NEW g, NEW events, NEW S, Do(q, g, events, S),
         IsProject(q), DOMAIN q.tasks = DOMAIN project.tasks,
         HasFacts(g, DOMAIN project.tasks),
         Records(q, events, S),
         \A i \in DOMAIN project.tasks :
           \/ i \in S /\ Shown(q.tasks[i], g.calls[i], g.errors[i])
           \/ /\ q.tasks[i] = project.tasks[i]
              /\ g.calls[i] = facts.calls[i] /\ g.errors[i] = facts.errors[i]
  PROVE  ViewsInv'
<1> DEFINE T == DOMAIN project.tasks
<1>1. IsFiniteSet(DOMAIN q.tasks)
  BY DEF ViewsInv
<1>2. \A i \in DOMAIN q.tasks : i \in S \/ (i \in DOMAIN trail /\ trail[i] = q.tasks[i].status)
  BY DEF ViewsInv, Trail
<1>3. Followed(q, events) = Trail(q)
  BY <1>2, EventsTell
<1>4. \A k \in DOMAIN events : Covered(events[k])
  BY DEF Records, Honest, Elements
<1>5. \A i \in DOMAIN q.tasks :
        \/ i \in S
        \/ i \in DOMAIN project.tasks /\ Noted(q.tasks[i]) = Noted(project.tasks[i])
        \/ i \notin DOMAIN project.tasks /\ Noted(q.tasks[i]) = Fresh
  OBVIOUS
<1>6. \A i \in DOMAIN q.tasks :
        Shown(q.tasks[i], IF i \in T THEN g.calls[i] ELSE {},
              IF i \in T THEN g.errors[i] ELSE FALSE)
  BY DEF ViewsInv
<1> QED BY <1>1, <1>3, <1>4, <1>5, <1>6, DoKeeps

\* A call that leaves the tasks alone.
LEMMA QuietKeeps ==
  ASSUME ViewsInv, NEW q, NEW g, NEW events, Do(q, g, events, {}),
         IsProject(q), q.tasks = project.tasks,
         HasFacts(g, DOMAIN project.tasks),
         g.calls = facts.calls, g.errors = facts.errors,
         Records(q, events, {})
  PROVE  ViewsInv'
BY CallKeeps

\* The updates of the facts: the call, or the error, of the tasks of S.
UpdatesCalls(g, h, T, S, call) ==
  /\ HasFacts(h, T) /\ h.errors = g.errors
  /\ \A i \in T : h.calls[i] = IF i \in S THEN call ELSE g.calls[i]
UpdatesErrors(g, h, T, S, there) ==
  /\ HasFacts(h, T) /\ h.calls = g.calls
  /\ \A i \in T : h.errors[i] = IF i \in S THEN there ELSE g.errors[i]

LEMMA CallUpdate ==
  ASSUME NEW T, NEW g, HasFacts(g, T), NEW S, NEW call
  PROVE  UpdatesCalls(g, WithCalls(g, S, call), T, S, call)
<1> DEFINE calls == [i \in T |-> IF i \in S THEN call ELSE g.calls[i]]
<1>1. /\ WithCalls(g, S, call).calls = calls /\ WithCalls(g, S, call).errors = g.errors
      /\ WithCalls(g, S, call) =
           [calls |-> calls, errors |-> g.errors, evaluation |-> g.evaluation,
            accepted |-> g.accepted, resumed |-> g.resumed, cycles |-> g.cycles]
  BY DEF WithCalls, HasFacts
<1>2. g.errors \in [T -> BOOLEAN] /\ DOMAIN calls = T
  BY DEF HasFacts
<1>3. \A i \in T : calls[i] = IF i \in S THEN call ELSE g.calls[i]
  OBVIOUS
<1> HIDE DEF calls
<1>4. HasFacts(WithCalls(g, S, call), T)
  BY <1>1, <1>2 DEF HasFacts
<1> QED BY <1>1, <1>3, <1>4 DEF UpdatesCalls

LEMMA ErrorUpdate ==
  ASSUME NEW T, NEW g, HasFacts(g, T), NEW S, NEW there \in BOOLEAN
  PROVE  UpdatesErrors(g, WithErrors(g, S, there), T, S, there)
<1> DEFINE errors == [i \in T |-> IF i \in S THEN there ELSE g.errors[i]]
<1>1. /\ WithErrors(g, S, there).calls = g.calls /\ WithErrors(g, S, there).errors = errors
      /\ WithErrors(g, S, there) =
           [calls |-> g.calls, errors |-> errors, evaluation |-> g.evaluation,
            accepted |-> g.accepted, resumed |-> g.resumed, cycles |-> g.cycles]
  BY DEF WithErrors, HasFacts
<1>2. errors \in [T -> BOOLEAN] /\ DOMAIN g.calls = T
  BY DEF HasFacts
<1>3. \A i \in T : errors[i] = IF i \in S THEN there ELSE g.errors[i]
  OBVIOUS
<1> HIDE DEF errors
<1>4. HasFacts(WithErrors(g, S, there), T)
  BY <1>1, <1>2 DEF HasFacts
<1> QED BY <1>1, <1>3, <1>4 DEF UpdatesErrors

\* A task whose call is dropped shows none, whatever becomes of it.
ClearsFacts(g, h, T, S) ==
  /\ HasFacts(h, T)
  /\ \A i \in T : i \in S => \A r : Shown(r, h.calls[i], h.errors[i])
  /\ \A i \in T : i \notin S => h.calls[i] = g.calls[i] /\ h.errors[i] = g.errors[i]

LEMMA ClearedFacts ==
  ASSUME NEW T, NEW g, HasFacts(g, T), NEW S
  PROVE  ClearsFacts(g, Cleared(g, S), T, S)
<1> DEFINE none == {}
           h == WithCalls(g, S, none)
           k == WithErrors(h, S, TRUE)
<1>1. UpdatesCalls(g, h, T, S, none)
  <2> HIDE DEF none
  <2> QED BY CallUpdate
<1> HIDE DEF h
<1>2. UpdatesErrors(h, k, T, S, TRUE)
  <2>1. HasFacts(h, T)
    BY <1>1 DEF UpdatesCalls
  <2> QED BY <2>1, ErrorUpdate
<1> HIDE DEF k
<1>3. Cleared(g, S) = k
  BY DEF Cleared, h, k
<1>4. ASSUME NEW i \in T, i \in S, NEW r
      PROVE  Shown(r, Cleared(g, S).calls[i], Cleared(g, S).errors[i])
  BY <1>1, <1>2, <1>3, <1>4 DEF Shown, UpdatesCalls, UpdatesErrors
<1>5. ASSUME NEW i \in T, i \notin S
      PROVE  Cleared(g, S).calls[i] = g.calls[i] /\ Cleared(g, S).errors[i] = g.errors[i]
  <2>1. Cleared(g, S).calls[i] = g.calls[i]
    BY <1>1, <1>2, <1>3, <1>5 DEF UpdatesCalls, UpdatesErrors
  <2>2. k.errors[i] = h.errors[i] /\ h.errors = g.errors
    BY <1>1, <1>2, <1>5, Zenon DEF UpdatesCalls, UpdatesErrors
  <2> QED BY <1>3, <2>1, <2>2, Zenon
<1>6. HasFacts(Cleared(g, S), T)
  BY <1>2, <1>3 DEF UpdatesErrors
<1> QED BY <1>4, <1>5, <1>6 DEF ClearsFacts

\* The other facts do not matter for what tasks show.
SameTaskFacts(g, h, T) == HasFacts(h, T) /\ h.calls = g.calls /\ h.errors = g.errors

LEMMA OtherFacts ==
  ASSUME NEW T, NEW g, HasFacts(g, T), NEW a, NEW b
  PROVE  /\ SameTaskFacts(g, [g EXCEPT !.evaluation = a, !.accepted = b], T)
         /\ SameTaskFacts(g, [g EXCEPT !.resumed = a], T)
         /\ SameTaskFacts(g, [g EXCEPT !.cycles = a], T)
         /\ SameTaskFacts(g, g, T)
<1>1. SameTaskFacts(g, [g EXCEPT !.evaluation = a, !.accepted = b], T)
  <2> DEFINE h == [g EXCEPT !.evaluation = a]
  <2>1. SameTaskFacts(g, h, T)
    BY DEF HasFacts, SameTaskFacts
  <2>2. [g EXCEPT !.evaluation = a, !.accepted = b] = [h EXCEPT !.accepted = b]
    OBVIOUS
  <2> HIDE DEF h
  <2>3. SameTaskFacts(h, [h EXCEPT !.accepted = b], T)
    BY <2>1 DEF HasFacts, SameTaskFacts
  <2> QED BY <2>1, <2>2, <2>3 DEF SameTaskFacts
<1>2. SameTaskFacts(g, [g EXCEPT !.resumed = a], T)
  BY DEF HasFacts, SameTaskFacts
<1>3. SameTaskFacts(g, [g EXCEPT !.cycles = a], T)
  BY DEF HasFacts, SameTaskFacts
<1>4. SameTaskFacts(g, g, T)
  BY DEF SameTaskFacts
<1> QED BY <1>1, <1>2, <1>3, <1>4

-----------------------------------------------------------------------------
(* Tasks.                                                                  *)

\* The tables that the methods leave.
LEMMA StartTable ==
  ASSUME NEW a, IsProject(a), NEW i
  PROVE  \A j \in DOMAIN a.tasks :
           StartTask(a, i).tasks[j] =
              IF j = i THEN StartedRecord(a.tasks[j])
              ELSE IF Repairs(i, j) THEN [a.tasks[j] EXCEPT !.attempts = @ + 1]
              ELSE a.tasks[j]
BY TableOf DEF StartTask

LEMMA FailTable ==
  ASSUME NEW a, IsProject(a), NEW i, NEW c, NEW e
  PROVE  \A j \in DOMAIN a.tasks :
           FailTask(a, i, c, e).tasks[j] =
              LET final == ~RetriesLeft(a, i)
                  left  == IF final THEN e ELSE a.tasks[j].evidence
              IN  IF j = i
                    THEN FailedRecord(a.tasks[j], IF final THEN "failed" ELSE "pending", c, left)
                  ELSE IF Repairs(i, j) THEN FailedRecord(a.tasks[j], "failed", c, left)
                  ELSE a.tasks[j]
BY TableOf DEF FailTask

LEMMA CompleteTable ==
  ASSUME NEW a, IsProject(a), NEW i
  PROVE  \A j \in DOMAIN a.tasks :
           CompleteTask(a, i).tasks[j] =
              IF j = i
                THEN DoneRecord(a.tasks[j], IF IsRepair(i) THEN a.tasks[j].context ELSE NoContext)
              ELSE IF Repairs(i, j) THEN DoneRecord(a.tasks[j], NoContext)
              ELSE IF /\ HasOrigin(a, i) /\ IsRepair(j) /\ Origin(j) = Origin(i)
                      /\ a.tasks[j].status = "pending"
                THEN SkippedRecord(a.tasks[j], "superseded_repair", a.tasks[j].context)
              ELSE a.tasks[j]
BY TableOf DEF CompleteTask

LEMMA SkipDependentsTable ==
  ASSUME NEW a, IsProject(a), NEW i
  PROVE  \A j \in DOMAIN a.tasks :
           SkipDependents(a, i).tasks[j] =
              IF j \in Descendants(a, i) \cap Pending(a)
                THEN SkippedRecord(a.tasks[j], "dependency_failed", NoContext)
              ELSE a.tasks[j]
BY TableOf DEF SkipDependents

LEMMA SkipSupersededTable ==
  ASSUME NEW a, IsProject(a)
  PROVE  \A j \in DOMAIN a.tasks :
           SkipSuperseded(a).tasks[j] =
              IF a.tasks[j].status = "pending" /\ OriginDone(a, j) /\ ~StillRequired(a, j)
                THEN SkippedRecord(a.tasks[j], "superseded_repair", a.tasks[j].context)
              ELSE a.tasks[j]
BY TableOf DEF SkipSuperseded

LEMMA CancelTable ==
  ASSUME NEW a, IsProject(a)
  PROVE  \A j \in DOMAIN a.tasks :
           CancelProject(a).tasks[j] =
              IF a.tasks[j].status = "pending"
                THEN SkippedRecord(a.tasks[j], "workflow_cancelled", a.tasks[j].context)
              ELSE a.tasks[j]
<1> DEFINE T == [k \in DOMAIN a.tasks |-> IF a.tasks[k].status = "pending"
                     THEN SkippedRecord(a.tasks[k], "workflow_cancelled", a.tasks[k].context)
                     ELSE a.tasks[k]]
           b == [a EXCEPT !.tasks = T]
<1>1. IsTable(T)
  <2>1. ASSUME NEW k \in DOMAIN a.tasks
        PROVE  /\ k \in Ids /\ a.tasks[k] \in TaskRecord
               /\ SkippedRecord(a.tasks[k], "workflow_cancelled", a.tasks[k].context) \in TaskRecord
    <3>1. k \in Ids /\ a.tasks[k] \in TaskRecord
      BY Entry
    <3>2. a.tasks[k].context \in Contexts
      BY <3>1, RecordFields
    <3> QED BY <3>1, <3>2, Vocabulary, RecordOperators
  <2> QED BY <2>1 DEF IsTable
<1> HIDE DEF T
<1>2. IsProject(b) /\ b.tasks = T
  BY <1>1, Rebuilt
<1>3. CancelProject(a) = MarkFinished(b, "cancelled", "cancelled", "cancelled")
  BY DEF CancelProject, T
<1> HIDE DEF b
<1>4. MarkFinished(b, "cancelled", "cancelled", "cancelled").tasks = b.tasks
  BY <1>2, MarkFinishedType DEF Phases, Outcomes, Failures
<1> QED BY <1>2, <1>3, <1>4 DEF T

\* What the changed records show.
LEMMA RecordsShow ==
  ASSUME NEW r \in TaskRecord, NEW s, NEW c, NEW e, NEW k, NEW x
  PROVE  /\ StartedRecord(r).status = "running"
         /\ FailedRecord(r, s, c, e).status = s /\ FailedRecord(r, s, c, e).category = c
         /\ SkippedRecord(r, k, x).status = "skipped" /\ SkippedRecord(r, k, x).skip = k
         /\ DoneRecord(r, x).status = "done"
         /\ [r EXCEPT !.attempts = @ + 1].status = r.status
         /\ [r EXCEPT !.attempts = @ + 1].category = r.category
BY DEF StartedRecord, FailedRecord, SkippedRecord, DoneRecord, TaskRecord

LEMMA ServedTasks ==
  ASSUME NEW i
  PROVE  Served(project, i) = {i} \cup Origins(i)
BY DEF Served, Origins, p

\* start_task.
LEMMA StartKeeps ==
  ASSUME ViewsInv, NEW i, Start(i)
  PROVE  ViewsInv'
<1> DEFINE T == DOMAIN project.tasks
           q == StartTask(project, i)
           g == WithErrors(facts, {i}, FALSE)
           S == {i} \cup Origins(i)
<1>1. Do(q, g, StartEvents(project, q, i), S)
  BY DEF Start, p, f
<1>2. IsProject(project) /\ HasFacts(facts, T)
      /\ \A j \in T : Shown(project.tasks[j], facts.calls[j], facts.errors[j])
  BY DEF ViewsInv
<1>3. IsProject(q) /\ DOMAIN q.tasks = T
  BY <1>2, StartTaskType
<1>4. UpdatesErrors(facts, g, T, {i}, FALSE)
  BY <1>2, ErrorUpdate
<1>5. Records(q, StartEvents(project, q, i), S)
  BY StartRecords, ServedTasks
<1>6. ASSUME NEW j \in T
      PROVE  \/ j \in S /\ Shown(q.tasks[j], g.calls[j], g.errors[j])
             \/ /\ q.tasks[j] = project.tasks[j]
                /\ g.calls[j] = facts.calls[j] /\ g.errors[j] = facts.errors[j]
  <2>1. q.tasks[j] = IF j = i THEN StartedRecord(project.tasks[j])
                     ELSE IF Repairs(i, j) THEN [project.tasks[j] EXCEPT !.attempts = @ + 1]
                     ELSE project.tasks[j]
    BY <1>2, StartTable
  <2>2. project.tasks[j] \in TaskRecord
    BY <1>2, Entry
  <2>3. CASE j = i
    <3>1. q.tasks[j].status = "running"
      BY <2>1, <2>2, <2>3, RecordsShow
    <3>2. Shown(q.tasks[j], g.calls[j], g.errors[j])
      BY <3>1 DEF Shown
    <3> QED BY <2>3, <3>2
  <2>4. CASE j # i
    <3> HIDE DEF q, g
    <3>1. g.calls[j] = facts.calls[j]
      BY <1>4 DEF UpdatesErrors
    <3>2. g.errors[j] = facts.errors[j]
      BY <1>4, <2>4, Zenon DEF UpdatesErrors
    <3>3. CASE Repairs(i, j)
      <4>1. j \in S
        BY <3>3 DEF Origins, HasOrigin, Repairs, p
      <4>2. q.tasks[j].status = project.tasks[j].status /\ q.tasks[j].category = project.tasks[j].category
        BY <2>1, <2>2, <2>4, <3>3, RecordsShow
      <4>3. Shown(project.tasks[j], g.calls[j], g.errors[j])
        BY <1>2, <3>1, <3>2, Zenon
      <4>4. Shown(q.tasks[j], g.calls[j], g.errors[j])
        BY <4>2, <4>3 DEF Shown
      <4> QED BY <4>1, <4>4
    <3>4. CASE ~Repairs(i, j)
      <4>1. q.tasks[j] = project.tasks[j]
        BY <2>1, <2>4, <3>4
      <4> QED BY <3>1, <3>2, <4>1
    <3> QED BY <3>3, <3>4
  <2> QED BY <2>3, <2>4
<1>7. HasFacts(g, T)
  BY <1>4 DEF UpdatesErrors
<1> HIDE DEF q, g, S
<1> QED BY <1>1, <1>3, <1>5, <1>6, <1>7, CallKeeps

\* Cleaning a record keeps whether the call failed.
LEMMA CleaningKeepsFailure ==
  ASSUME NEW c, DOMAIN c = DOMAIN PlainCall(Blank, Blank, TRUE)
  PROVE  Failing(Strict(c)) <=> Failing(c)
<1>1. "success" \in DOMAIN c
  BY DEF PlainCall
<1>2. Strict(c).success = c.success
  BY <1>1 DEF Strict, Clean
<1> QED BY <1>2 DEF Failing

\* fail_task.
LEMMA FailKeeps ==
  ASSUME ViewsInv, NEW i, NEW kind \in FailureKinds, NEW call, Fail(i, kind, call)
  PROVE  ViewsInv'
<1> DEFINE T == DOMAIN project.tasks
           c == kind.category
           e == kind.evidence
           q == FailTask(project, i, c, e)
           S == {i} \cup Origins(i)
           h == WithCalls(facts, S, Stored(call))
           g == WithErrors(h, S, TRUE)
<1>1. Do(q, g, FailEvents(project, q, i, c, call), S)
  BY DEF Fail, p, f
<1>2. IsProject(project) /\ HasFacts(facts, T)
  BY DEF ViewsInv
<1>3. c \in Categories /\ c # "none" /\ e \in SUBSET Evidence
  BY FailureAssumption
<1>4. IsProject(q) /\ DOMAIN q.tasks = T
  BY <1>2, <1>3, FailTaskType
<1> HIDE DEF S
<1>5. UpdatesCalls(facts, h, T, S, Stored(call))
  BY <1>2, CallUpdate
<1>6. HasFacts(h, T)
  BY <1>5 DEF UpdatesCalls
<1> HIDE DEF h
<1>7. UpdatesErrors(h, g, T, S, TRUE)
  BY <1>6, ErrorUpdate
<1>8. HasFacts(g, T)
  BY <1>7 DEF UpdatesErrors
<1>9. Records(q, FailEvents(project, q, i, c, call), S)
  <2> HIDE DEF q, c
  <2>1. Records(q, FailEvents(project, q, i, c, call), Served(project, i))
    BY FailRecords
  <2> QED BY <2>1, ServedTasks DEF S
<1>10. ASSUME NEW j \in T
       PROVE  \/ j \in S /\ Shown(q.tasks[j], g.calls[j], g.errors[j])
              \/ /\ q.tasks[j] = project.tasks[j]
                 /\ g.calls[j] = facts.calls[j] /\ g.errors[j] = facts.errors[j]
  <2> DEFINE final == ~RetriesLeft(project, i)
             left == IF final THEN e ELSE project.tasks[j].evidence
             r == project.tasks[j]
  <2>1. q.tasks[j] = IF j = i THEN FailedRecord(r, IF final THEN "failed" ELSE "pending", c, left)
                     ELSE IF Repairs(i, j) THEN FailedRecord(r, "failed", c, left)
                     ELSE r
    BY <1>2, FailTable
  <2>2. r \in TaskRecord
    BY <1>2, Entry
  <2> HIDE DEF final, left, r
  <2>3. CASE j \in S
    <3>1. g.errors[j] = TRUE
      BY <1>7, <2>3 DEF UpdatesErrors
    <3>2. q.tasks[j] = FailedRecord(r, "failed", c, left) \/ q.tasks[j] = FailedRecord(r, "pending", c, left)
      <4>1. CASE j = i
        BY <2>1, <4>1
      <4>2. CASE j # i
        <5>1. Repairs(i, j)
          BY <2>3, <4>2 DEF S, Origins, HasOrigin, Repairs
        <5> QED BY <2>1, <4>2, <5>1
      <4> QED BY <4>1, <4>2
    <3>3. q.tasks[j].status \in {"failed", "pending"} /\ q.tasks[j].category = c
      BY <2>2, <3>2, RecordsShow
    <3>4. Shown(q.tasks[j], g.calls[j], g.errors[j])
      BY <1>3, <3>1, <3>3 DEF Shown
    <3> QED BY <2>3, <3>4
  <2>4. CASE j \notin S
    <3>1. j # i /\ ~Repairs(i, j)
      BY <2>4 DEF S, Origins, HasOrigin, Repairs, p
    <3>2. q.tasks[j] = project.tasks[j]
      BY <2>1, <3>1 DEF r
    <3>3. g.calls[j] = facts.calls[j]
      BY <1>5, <1>7, <2>4 DEF UpdatesCalls, UpdatesErrors
    <3>4. g.errors[j] = h.errors[j] /\ h.errors = facts.errors
      BY <1>5, <1>7, <2>4, Zenon DEF UpdatesCalls, UpdatesErrors
    <3>5. g.errors[j] = facts.errors[j]
      BY <3>4, Zenon
    <3> QED BY <3>2, <3>3, <3>5
  <2> QED BY <2>3, <2>4
<1> HIDE DEF q, g
<1> QED BY <1>1, <1>4, <1>8, <1>9, <1>10, CallKeeps

\* complete_task, with what it does to the repaired task and the other repairs.
LEMMA CompleteKeeps ==
  ASSUME ViewsInv, NEW i, NEW call \in GoodCalls, Complete(i, call)
  PROVE  ViewsInv'
<1> DEFINE T == DOMAIN project.tasks
           q == CompleteTask(project, i)
           S == {i} \cup Origins(i)
           swept == SweptBy(project, q, i)
           h == WithCalls(facts, S, Stored(call))
           k == WithErrors(h, S, FALSE)
           g == Cleared(k, swept)
<1>1. Do(q, g, CompleteEvents(project, q, i, call), S \cup swept)
  BY DEF Complete, SweptBy, p, f
<1>2. IsProject(project) /\ IsFiniteSet(T) /\ HasFacts(facts, T)
  BY DEF ViewsInv
<1>3. project.tasks[i].status = "running"
  BY DEF Complete, p
<1>4. IsProject(q) /\ DOMAIN q.tasks = T
  BY <1>2, CompleteTaskType
<1> HIDE DEF S
<1>5. UpdatesCalls(facts, h, T, S, Stored(call))
  BY <1>2, CallUpdate
<1>6. HasFacts(h, T)
  BY <1>5 DEF UpdatesCalls
<1> HIDE DEF h
<1>7. UpdatesErrors(h, k, T, S, FALSE)
  BY <1>6, ErrorUpdate
<1>8. HasFacts(k, T)
  BY <1>7 DEF UpdatesErrors
<1> HIDE DEF k
<1>9. /\ HasFacts(g, T)
      /\ \A j \in T : j \in swept => \A r : Shown(r, g.calls[j], g.errors[j])
      /\ \A j \in T : j \notin swept => g.calls[j] = k.calls[j] /\ g.errors[j] = k.errors[j]
  <2> HIDE DEF swept
  <2>1. ClearsFacts(k, g, T, swept)
    BY <1>8, ClearedFacts
  <2> HIDE DEF g
  <2> QED BY <2>1, Zenon DEF ClearsFacts
<1>10. Records(q, CompleteEvents(project, q, i, call), S \cup swept)
  <2>1. Records(q, CompleteEvents(project, q, i, call), Served(project, i) \cup SweptBy(project, q, i))
    BY <1>2, CompleteRecords
  <2> QED BY <2>1, ServedTasks DEF S
<1>11. \A c \in Stored(call) : Failing(c) => c \in UNION OlderCalls
  <2>1. ASSUME NEW c \in call
        PROVE  ~Failing(Strict(c))
    BY CallAssumption, GoodCallAssumption, CleaningKeepsFailure DEF IsCall
  <2> QED BY <2>1 DEF Stored
<1>12. ASSUME NEW j \in T
       PROVE  \/ j \in S \cup swept /\ Shown(q.tasks[j], g.calls[j], g.errors[j])
              \/ /\ q.tasks[j] = project.tasks[j]
                 /\ g.calls[j] = facts.calls[j] /\ g.errors[j] = facts.errors[j]
  <2> DEFINE r == project.tasks[j]
             x == IF IsRepair(i) THEN r.context ELSE NoContext
             stale == /\ HasOrigin(project, i) /\ IsRepair(j) /\ Origin(j) = Origin(i)
                      /\ r.status = "pending"
  <2>1. q.tasks[j] = IF j = i THEN DoneRecord(r, x)
                     ELSE IF Repairs(i, j) THEN DoneRecord(r, NoContext)
                     ELSE IF stale THEN SkippedRecord(r, "superseded_repair", r.context)
                     ELSE r
    BY <1>2, CompleteTable
  <2>2. r \in TaskRecord
    BY <1>2, Entry
  <2> HIDE DEF x, r
  <2>3. CASE j \in swept
    BY <1>9, <2>3
  <2>4. CASE j \notin swept /\ j \in S
    <3>1. q.tasks[j] = DoneRecord(r, x) \/ q.tasks[j] = DoneRecord(r, NoContext)
      <4>1. CASE j = i
        BY <2>1, <4>1
      <4>2. CASE j # i
        <5>1. Repairs(i, j)
          BY <2>4, <4>2 DEF S, Origins, HasOrigin, Repairs
        <5> QED BY <2>1, <4>2, <5>1
      <4> QED BY <4>1, <4>2
    <3>2. q.tasks[j].status = "done"
      BY <2>2, <3>1, RecordsShow
    <3>3. g.calls[j] = Stored(call)
      <4>1. g.calls[j] = k.calls[j]
        BY <1>9, <2>4
      <4>2. k.calls = h.calls
        BY <1>7 DEF UpdatesErrors
      <4>3. h.calls[j] = Stored(call)
        BY <1>5, <2>4 DEF UpdatesCalls
      <4> QED BY <4>1, <4>2, <4>3
    <3>4. Shown(q.tasks[j], g.calls[j], g.errors[j])
      BY <1>11, <3>2, <3>3 DEF Shown
    <3> QED BY <2>4, <3>4
  <2>5. CASE j \notin swept /\ j \notin S
    <3>1. j # i /\ ~Repairs(i, j)
      BY <2>5 DEF S, Origins, HasOrigin, Repairs, p
    <3>2. ~stale
      <4>1. SUFFICES ASSUME stale PROVE FALSE
        OBVIOUS
      <4>2. q.tasks[j].skip = "superseded_repair"
        BY <2>1, <2>2, <3>1, <4>1, RecordsShow
      <4>3. j \in swept
        BY <4>1, <4>2 DEF SweptBy, Superseded, Pending, WithStatus, r
      <4> QED BY <2>5, <4>3
    <3>3. q.tasks[j] = project.tasks[j]
      BY <2>1, <3>1, <3>2 DEF r
    <3>4. g.calls[j] = facts.calls[j]
      <4>1. g.calls[j] = k.calls[j]
        BY <1>9, <2>5
      <4>2. k.calls = h.calls
        BY <1>7 DEF UpdatesErrors
      <4>3. h.calls[j] = facts.calls[j]
        BY <1>5, <2>5 DEF UpdatesCalls
      <4> QED BY <4>1, <4>2, <4>3
    <3>5. g.errors[j] = facts.errors[j]
      <4>1. g.errors[j] = k.errors[j]
        BY <1>9, <2>5, Zenon
      <4>2. k.errors[j] = h.errors[j]
        BY <1>7, <2>5, Zenon DEF UpdatesErrors
      <4>3. h.errors = facts.errors
        BY <1>5 DEF UpdatesCalls
      <4> QED BY <4>1, <4>2, <4>3, Zenon
    <3> QED BY <3>3, <3>4, <3>5
  <2> QED BY <2>3, <2>4, <2>5
<1>13. HasFacts(g, T)
  BY <1>9
<1> HIDE DEF q, g, swept
<1> QED BY <1>1, <1>4, <1>10, <1>12, <1>13, CallKeeps

\* A call that drops the calls of the tasks that it changes.
LEMMA ClearKeeps ==
  ASSUME ViewsInv, NEW q, NEW g, NEW events, NEW S, Do(q, g, events, S),
         IsProject(q), DOMAIN q.tasks = DOMAIN project.tasks,
         SameTaskFacts(Cleared(facts, S), g, DOMAIN project.tasks),
         Records(q, events, S),
         \A j \in DOMAIN project.tasks : j \notin S => q.tasks[j] = project.tasks[j]
  PROVE  ViewsInv'
<1> DEFINE T == DOMAIN project.tasks
           h == Cleared(facts, S)
<1>1. HasFacts(facts, T)
  BY DEF ViewsInv
<1>2. ClearsFacts(facts, h, T, S)
  BY <1>1, ClearedFacts
<1> HIDE DEF h
<1>3. HasFacts(g, T) /\ g.calls = h.calls /\ g.errors = h.errors
  BY DEF SameTaskFacts, h
<1>4. ASSUME NEW j \in T
      PROVE  \/ j \in S /\ Shown(q.tasks[j], g.calls[j], g.errors[j])
             \/ /\ q.tasks[j] = project.tasks[j]
                /\ g.calls[j] = facts.calls[j] /\ g.errors[j] = facts.errors[j]
  <2>1. CASE j \in S
    <3>1. Shown(q.tasks[j], h.calls[j], h.errors[j])
      BY <1>2, <2>1 DEF ClearsFacts
    <3> QED BY <1>3, <2>1, <3>1, Zenon
  <2>2. CASE j \notin S
    <3>1. h.calls[j] = facts.calls[j] /\ h.errors[j] = facts.errors[j]
      BY <1>2, <2>2, Zenon DEF ClearsFacts
    <3>2. g.calls[j] = facts.calls[j] /\ g.errors[j] = facts.errors[j]
      BY <1>3, <3>1, Zenon
    <3> QED BY <2>2, <3>2, Zenon
  <2> QED BY <2>1, <2>2
<1> QED BY <1>3, <1>4, CallKeeps

\* skip_task.
LEMMA SkipKeeps ==
  ASSUME ViewsInv, NEW i \in Tasks, Skip(i)
  PROVE  ViewsInv'
<1> DEFINE T == DOMAIN project.tasks
           q == SkipTask(project, i, "manual")
           S == {i}
           g == Cleared(facts, S)
           r == SkippedRecord(project.tasks[i], "manual", NoContext)
           table == [project.tasks EXCEPT ![i] = r]
<1>1. Do(q, g, SkipEvents(q, S), S)
  BY DEF Skip, p, f
<1>2. IsProject(project) /\ HasFacts(facts, T)
  BY DEF ViewsInv
<1>3. i \in T /\ "manual" \in SkipReasons
  BY DEF Tasks, p, SkipReasons
<1>4. IsProject(q) /\ DOMAIN q.tasks = T
  BY <1>2, <1>3, SkipTaskType
<1>5. q.tasks = table
  <2>1. q = [project EXCEPT !.tasks = table]
    BY DEF SkipTask
  <2> HIDE DEF q, table
  <2> QED BY <1>2, <2>1, TableOf
<1>6. \A j \in T : j \notin S => q.tasks[j] = project.tasks[j]
  BY <1>3, <1>5
<1>7. HasFacts(g, T)
  BY <1>2, ClearedFacts DEF ClearsFacts
<1> HIDE DEF q, S
<1>8. SameTaskFacts(g, g, T)
  BY <1>7 DEF SameTaskFacts
<1>9. IsFiniteSet(S)
  BY FS_Singleton DEF S
<1>10. Records(q, SkipEvents(q, S), S)
  BY <1>9, DecisionRecords
<1> QED BY <1>1, <1>4, <1>6, <1>8, <1>10, ClearKeeps

\* skip_dependent_tasks.
LEMMA SkipBehindKeeps ==
  ASSUME ViewsInv, NEW i, SkipBehind(i)
  PROVE  ViewsInv'
<1> DEFINE T == DOMAIN project.tasks
           q == SkipDependents(project, i)
           S == Descendants(project, i) \cap Pending(project)
           g == Cleared(facts, S)
<1>1. Do(q, g, SkipEvents(q, S), S)
  BY DEF SkipBehind, p, f
<1>2. IsProject(project) /\ IsFiniteSet(T) /\ HasFacts(facts, T)
  BY DEF ViewsInv
<1>3. IsProject(q) /\ DOMAIN q.tasks = T
  BY <1>2, SkipDependentsType
<1>4. \A j \in T : j \notin S => q.tasks[j] = project.tasks[j]
  BY <1>2, SkipDependentsTable
<1>5. HasFacts(g, T)
  BY <1>2, ClearedFacts DEF ClearsFacts
<1>6. S \subseteq T
  BY DEF Pending, WithStatus
<1> HIDE DEF q, S
<1>7. SameTaskFacts(g, g, T)
  BY <1>5 DEF SameTaskFacts
<1>8. IsFiniteSet(S)
  BY <1>2, <1>6, FS_Subset
<1>9. Records(q, SkipEvents(q, S), S)
  BY <1>8, DecisionRecords
<1> QED BY <1>1, <1>3, <1>4, <1>7, <1>9, ClearKeeps

\* skip_superseded_pending_repairs.
LEMMA SkipServedKeeps ==
  ASSUME ViewsInv, SkipServed
  PROVE  ViewsInv'
<1> DEFINE T == DOMAIN project.tasks
           q == SkipSuperseded(project)
           S == Superseded(project, q)
           g == Cleared(facts, S)
<1>1. Do(q, g, SupersededEvents(project, q), S)
  BY DEF SkipServed, p, f
<1>2. IsProject(project) /\ IsFiniteSet(T) /\ HasFacts(facts, T)
  BY DEF ViewsInv
<1>3. IsProject(q) /\ DOMAIN q.tasks = T
  BY <1>2, SkipSupersededType
<1>4. ASSUME NEW j \in T, j \notin S
      PROVE  q.tasks[j] = project.tasks[j]
  <2> DEFINE r == project.tasks[j]
             stale == r.status = "pending" /\ OriginDone(project, j) /\ ~StillRequired(project, j)
  <2>1. q.tasks[j] = IF stale THEN SkippedRecord(r, "superseded_repair", r.context) ELSE r
    BY <1>2, SkipSupersededTable
  <2>2. r \in TaskRecord
    BY <1>2, Entry
  <2> HIDE DEF q, r
  <2>3. ~stale
    <3>1. SUFFICES ASSUME stale PROVE FALSE
      OBVIOUS
    <3>2. q.tasks[j].skip = "superseded_repair"
      BY <2>1, <2>2, <3>1, RecordsShow
    <3>3. j \in S
      BY <3>1, <3>2 DEF Superseded, Pending, WithStatus, r
    <3> QED BY <1>4, <3>3
  <2> QED BY <2>1, <2>3 DEF r
<1>5. HasFacts(g, T)
  BY <1>2, ClearedFacts DEF ClearsFacts
<1> HIDE DEF q
<1>6. SameTaskFacts(g, g, T)
  BY <1>5 DEF SameTaskFacts
<1>7. Records(q, SupersededEvents(project, q), S)
  BY <1>2, SupersededRecords
<1> HIDE DEF S
<1> QED BY <1>1, <1>3, <1>4, <1>6, <1>7, ClearKeeps

\* override_task.
LEMMA OverrideKeeps ==
  ASSUME ViewsInv, NEW i \in Tasks, Override(i)
  PROVE  ViewsInv'
<1> DEFINE T == DOMAIN project.tasks
           q == OverrideTask(project, i)
           S == {i}
           none == {}
           h == WithCalls(facts, S, none)
           g == WithErrors(h, S, FALSE)
           r == [DoneRecord(project.tasks[i], NoContext) EXCEPT !.skip = "none"]
           table == [project.tasks EXCEPT ![i] = r]
<1>1. Do(q, g, OverrideEvents(q, i), S)
  BY DEF Override, p, f
<1>2. IsProject(project) /\ HasFacts(facts, T)
  BY DEF ViewsInv
<1>3. i \in T
  BY DEF Tasks, p
<1>4. IsProject(q) /\ DOMAIN q.tasks = T
  BY <1>2, <1>3, OverrideTaskType
<1>5. q.tasks = table
  <2>1. q = [project EXCEPT !.tasks = table]
    BY DEF OverrideTask
  <2> HIDE DEF q, table
  <2> QED BY <1>2, <2>1, TableOf
<1>6. r.status = "done"
  <2>1. project.tasks[i] \in TaskRecord
    BY <1>2, <1>3, Entry
  <2> QED BY <2>1 DEF DoneRecord, TaskRecord
<1>7. q.tasks[i] = r /\ \A j \in T : j # i => q.tasks[j] = project.tasks[j]
  <2> HIDE DEF q, r
  <2> QED BY <1>3, <1>5
<1> HIDE DEF q, r, S
<1>8. UpdatesCalls(facts, h, T, S, none)
  <2> HIDE DEF none
  <2> QED BY <1>2, CallUpdate
<1> HIDE DEF h
<1>9. UpdatesErrors(h, g, T, S, FALSE)
  <2>1. HasFacts(h, T)
    BY <1>8 DEF UpdatesCalls
  <2> QED BY <2>1, ErrorUpdate
<1> HIDE DEF g
<1>10. Records(q, OverrideEvents(q, i), S)
  <2>1. IsFiniteSet({i})
    BY FS_Singleton
  <2> QED BY <2>1, DecisionRecords DEF S
<1>11. ASSUME NEW j \in T
       PROVE  \/ j \in S /\ Shown(q.tasks[j], g.calls[j], g.errors[j])
              \/ /\ q.tasks[j] = project.tasks[j]
                 /\ g.calls[j] = facts.calls[j] /\ g.errors[j] = facts.errors[j]
  <2>1. CASE j = i
    <3>1. j \in S
      BY <2>1 DEF S
    <3>2. g.calls[j] = none
      BY <1>8, <1>9, <3>1 DEF UpdatesCalls, UpdatesErrors
    <3>3. q.tasks[j].status = "done"
      BY <1>6, <1>7, <2>1
    <3>4. Shown(q.tasks[j], g.calls[j], g.errors[j])
      BY <3>2, <3>3 DEF Shown
    <3> QED BY <3>1, <3>4
  <2>2. CASE j # i
    <3>1. j \notin S
      BY <2>2 DEF S
    <3>2. g.calls[j] = facts.calls[j]
      BY <1>8, <1>9, <3>1 DEF UpdatesCalls, UpdatesErrors
    <3>3. g.errors[j] = h.errors[j] /\ h.errors = facts.errors
      BY <1>8, <1>9, <3>1, Zenon DEF UpdatesCalls, UpdatesErrors
    <3>4. g.errors[j] = facts.errors[j]
      BY <3>3, Zenon
    <3>5. q.tasks[j] = project.tasks[j]
      BY <1>7, <2>2
    <3> QED BY <3>2, <3>4, <3>5
  <2> QED BY <2>1, <2>2
<1>12. HasFacts(g, T)
  BY <1>9 DEF UpdatesErrors
<1> QED BY <1>1, <1>4, <1>10, <1>11, <1>12, CallKeeps

-----------------------------------------------------------------------------
(* The workflow.                                                           *)

\* mark_workflow_running.
LEMMA RunKeeps ==
  ASSUME ViewsInv, Run
  PROVE  ViewsInv'
<1> DEFINE T == DOMAIN project.tasks
           q == MarkRunning(project, CycleBudget)
           none == {}
           g == [facts EXCEPT !.evaluation = none, !.accepted = FALSE]
<1>1. Do(q, g, WorkflowStarted(q), {})
  BY DEF Run, p, f
<1>2. IsProject(project) /\ HasFacts(facts, T)
  BY DEF ViewsInv
<1>3. IsProject(q) /\ q.tasks = project.tasks
  BY <1>2, BoundAssumption, MarkRunningType
<1>4. SameTaskFacts(facts, g, T)
  <2> HIDE DEF none
  <2> QED BY <1>2, OtherFacts
<1> HIDE DEF q, g
<1>5. Records(q, WorkflowStarted(q), {})
  BY WorkflowRecords
<1> QED BY <1>1, <1>3, <1>4, <1>5, QuietKeeps DEF SameTaskFacts

\* record_workflow_progress.
LEMMA ReportKeeps ==
  ASSUME ViewsInv, NEW i, Report(i)
  PROVE  ViewsInv'
<1>1. Do(project, facts, WorkflowProgressed(project, i), {})
  BY DEF Report, p, f
<1>2. IsProject(project) /\ HasFacts(facts, DOMAIN project.tasks)
  BY DEF ViewsInv
<1>3. Records(project, WorkflowProgressed(project, i), {})
  BY WorkflowRecords
<1> QED BY <1>1, <1>2, <1>3, QuietKeeps

\* mark_workflow_finished.
LEMMA FinishKeeps ==
  ASSUME ViewsInv, Finish
  PROVE  ViewsInv'
<1> DEFINE T == DOMAIN project.tasks
           failures == {project.tasks[i].category : i \in WithStatus(project, {"failed"})}
                         \cup (IF Terminal(project) = Tasks /\ WithStatus(project, {"failed"}) = {}
                               THEN {"none"} ELSE {})
           Phase(failure) == IF failure = "none" THEN "completed" ELSE "failed"
           Q(failure) == MarkFinished(project, Phase(failure), Phase(failure), failure)
           G(failure) == [facts EXCEPT !.evaluation = {Evaluation(project)},
                                       !.accepted = (failure = "none")]
<1>1. \E failure \in failures : \E culprit :
        Do(Q(failure), G(failure), WorkflowFinished(Q(failure), G(failure), culprit), {})
  BY DEF Finish, p, f
<1>2. PICK failure \in failures : \E culprit :
        Do(Q(failure), G(failure), WorkflowFinished(Q(failure), G(failure), culprit), {})
  BY <1>1
<1>3. IsProject(project) /\ HasFacts(facts, T)
  BY DEF ViewsInv
<1>4. failure \in Failures
  <2>1. CASE failure = "none"
    BY <2>1 DEF Failures, Categories
  <2>2. CASE failure # "none"
    <3>1. PICK i \in WithStatus(project, {"failed"}) : failure = project.tasks[i].category
      BY <1>2, <2>2
    <3>2. project.tasks[i] \in TaskRecord
      BY <1>3, <3>1, Entry DEF WithStatus
    <3> QED BY <3>1, <3>2, RecordFields DEF Failures
  <2> QED BY <2>1, <2>2
<1> DEFINE phase == Phase(failure)
           q == Q(failure)
           evaluation == {Evaluation(project)}
           good == failure = "none"
           g == G(failure)
<1>5. phase \in Phases /\ phase \in Outcomes
  BY DEF Phases, Outcomes
<1>6. IsProject(q) /\ q.tasks = project.tasks
  <2> HIDE DEF phase, failures
  <2>1. /\ IsProject(MarkFinished(project, phase, phase, failure))
        /\ MarkFinished(project, phase, phase, failure).tasks = project.tasks
    BY <1>3, <1>4, <1>5, MarkFinishedType
  <2> QED BY <2>1 DEF phase
<1>7. SameTaskFacts(facts, g, T)
  <2>1. g = [facts EXCEPT !.evaluation = evaluation, !.accepted = good]
    OBVIOUS
  <2> HIDE DEF g, evaluation, good
  <2>2. SameTaskFacts(facts, [facts EXCEPT !.evaluation = evaluation, !.accepted = good], T)
    BY <1>3, OtherFacts
  <2> QED BY <2>1, <2>2
<1>8. PICK culprit : Do(q, g, WorkflowFinished(q, g, culprit), {})
  BY <1>2
<1> HIDE DEF q, g
<1>9. Records(q, WorkflowFinished(q, g, culprit), {})
  BY FinishRecords
<1> QED BY <1>6, <1>7, <1>8, <1>9, QuietKeeps DEF SameTaskFacts

\* pause_workflow and resume_workflow.
LEMMA PauseKeeps ==
  ASSUME ViewsInv, Pause
  PROVE  ViewsInv'
<1> DEFINE q == PauseProject(project)
<1>1. Do(q, facts, WorkflowPaused(q), {})
  BY DEF Pause, p, f
<1>2. IsProject(project) /\ HasFacts(facts, DOMAIN project.tasks)
  BY DEF ViewsInv
<1>3. IsProject(q) /\ q.tasks = project.tasks
  BY <1>2, PauseResumeType
<1> HIDE DEF q
<1>4. Records(q, WorkflowPaused(q), {})
  BY WorkflowRecords
<1> QED BY <1>1, <1>2, <1>3, <1>4, QuietKeeps

LEMMA ResumeKeeps ==
  ASSUME ViewsInv, Resume
  PROVE  ViewsInv'
<1> DEFINE q == ResumeProject(project)
           T == DOMAIN project.tasks
           none == {}
           g == Resumed(facts, "paused_workflow", none)
<1>1. Do(q, g, WorkflowResumed(q, none), {})
  BY DEF Resume, p, f
<1>2. IsProject(project) /\ HasFacts(facts, T)
  BY DEF ViewsInv
<1>3. IsProject(q) /\ q.tasks = project.tasks
  BY <1>2, PauseResumeType
<1>4. SameTaskFacts(facts, g, T)
  <2> DEFINE told == Append(facts.resumed, [reason |-> "paused_workflow", tasks |-> none])
  <2>1. g = [facts EXCEPT !.resumed = told]
    BY DEF Resumed
  <2> HIDE DEF g, told
  <2> QED BY <1>2, <2>1, OtherFacts
<1> HIDE DEF q, g, none
<1>5. Records(q, WorkflowResumed(q, none), {})
  BY WorkflowRecords
<1> QED BY <1>1, <1>3, <1>4, <1>5, QuietKeeps DEF SameTaskFacts

\* cancel_workflow.
LEMMA CancelKeeps ==
  ASSUME ViewsInv, Cancel
  PROVE  ViewsInv'
<1> DEFINE T == DOMAIN project.tasks
           q == CancelProject(project)
           S == Pending(project)
           h == Cleared(facts, S)
           g == [h EXCEPT !.evaluation = {Evaluation(q)}, !.accepted = FALSE]
<1>1. Do(q, g, CancelEvents(project, q, g), S)
  BY DEF Cancel, p, f
<1>2. IsProject(project) /\ IsFiniteSet(T) /\ HasFacts(facts, T)
  BY DEF ViewsInv
<1>3. IsProject(q) /\ DOMAIN q.tasks = T
  BY <1>2, CancelType
<1>4. \A j \in T : j \notin S => q.tasks[j] = project.tasks[j]
  BY <1>2, CancelTable DEF Pending, WithStatus
<1>5. HasFacts(h, T)
  BY <1>2, ClearedFacts DEF ClearsFacts
<1>6. SameTaskFacts(h, g, T)
  <2> DEFINE evaluation == {Evaluation(q)}
  <2> HIDE DEF h, q, evaluation
  <2>1. SameTaskFacts(h, [h EXCEPT !.evaluation = evaluation, !.accepted = FALSE], T)
    BY <1>5, OtherFacts
  <2> QED BY <2>1 DEF evaluation
<1> HIDE DEF q, g
<1>7. Records(q, CancelEvents(project, q, g), S)
  BY <1>2, CancelRecords
<1> HIDE DEF S
<1> QED BY <1>1, <1>3, <1>4, <1>6, <1>7, ClearKeeps

\* resume_interrupted_tasks.
LEMMA RecoverTable ==
  ASSUME NEW a, IsProject(a)
  PROVE  \A j \in DOMAIN a.tasks :
           j \notin WithStatus(a, {"running"}) => ResumeInterrupted(a).tasks[j] = a.tasks[j]
<1> DEFINE left == WithStatus(a, {"running"})
           table == [j \in DOMAIN a.tasks |->
                       IF j \in left
                         THEN [a.tasks[j] EXCEPT !.status = "pending", !.category = "none"]
                       ELSE a.tasks[j]]
<1>1. ResumeInterrupted(a) \in {a, [a EXCEPT !.finished = FALSE, !.tasks = table]}
  BY DEF ResumeInterrupted
<1>2. [a EXCEPT !.finished = FALSE, !.tasks = table].tasks = table
  <2> HIDE DEF table
  <2> QED BY TableOf
<1>3. \A j \in DOMAIN a.tasks : j \notin left => table[j] = a.tasks[j]
  OBVIOUS
<1> HIDE DEF table, left
<1> QED BY <1>1, <1>2, <1>3 DEF left

LEMMA RecoverKeeps ==
  ASSUME ViewsInv, Recover
  PROVE  ViewsInv'
<1> DEFINE T == DOMAIN project.tasks
           q == ResumeInterrupted(project)
           S == WithStatus(project, {"running"})
           h == Cleared(facts, S)
           g == Resumed(h, "interrupted_tasks", S)
<1>1. Do(q, g, ResumedEvents(q, S) \o WorkflowResumed(q, S), S)
  BY DEF Recover, p, f
<1>2. IsProject(project) /\ IsFiniteSet(T) /\ HasFacts(facts, T)
  BY DEF ViewsInv
<1>3. IsProject(q) /\ DOMAIN q.tasks = T
  BY <1>2, ResumeInterruptedType
<1>4. \A j \in T : j \notin S => q.tasks[j] = project.tasks[j]
  BY <1>2, RecoverTable
<1>5. HasFacts(h, T)
  BY <1>2, ClearedFacts DEF ClearsFacts
<1>6. SameTaskFacts(h, g, T)
  <2> DEFINE told == Append(h.resumed, [reason |-> "interrupted_tasks", tasks |-> S])
  <2>1. g = [h EXCEPT !.resumed = told]
    BY DEF Resumed
  <2> HIDE DEF g, told, h
  <2> QED BY <1>5, <2>1, OtherFacts
<1> HIDE DEF q, g
<1>7. Records(q, ResumedEvents(q, S) \o WorkflowResumed(q, S), S)
  <2>1. S \subseteq T
    BY DEF WithStatus
  <2>2. IsFiniteSet(S)
    BY <1>2, <2>1, FS_Subset
  <2> HIDE DEF S
  <2>3. Records(q, ResumedEvents(q, S), S)
    BY <2>2, DecisionRecords
  <2>4. Records(q, WorkflowResumed(q, S), {})
    BY WorkflowRecords
  <2>5. Records(q, ResumedEvents(q, S) \o WorkflowResumed(q, S), S \cup {})
    BY <2>3, <2>4, MoreEvents
  <2>6. S \cup {} = S
    OBVIOUS
  <2> QED BY <2>5, <2>6, Zenon
<1> HIDE DEF S
<1> QED BY <1>1, <1>3, <1>4, <1>6, <1>7, ClearKeeps

-----------------------------------------------------------------------------
(* A new start, and the repair cycle.                                      *)

\* The facts of tasks that nothing has happened to.
LEMMA BlankFacts ==
  ASSUME NEW T
  PROVE  /\ HasFacts(NoFacts(T), T)
         /\ \A i \in T : NoFacts(T).calls[i] = {}
<1> DEFINE calls == [i \in T |-> {}]
           errors == [i \in T |-> FALSE]
<1>1. /\ NoFacts(T).calls = calls /\ NoFacts(T).errors = errors
      /\ NoFacts(T) = [calls |-> NoFacts(T).calls, errors |-> NoFacts(T).errors,
                       evaluation |-> NoFacts(T).evaluation, accepted |-> NoFacts(T).accepted,
                       resumed |-> NoFacts(T).resumed, cycles |-> NoFacts(T).cycles]
  BY DEF NoFacts
<1>2. errors \in [T -> BOOLEAN] /\ DOMAIN calls = T /\ \A i \in T : calls[i] = {}
  OBVIOUS
<1> HIDE DEF calls, errors
<1> QED BY <1>1, <1>2 DEF HasFacts

\* replay_workflow.
LEMMA ReplayKeeps ==
  ASSUME ViewsInv, Replay
  PROVE  ViewsInv'
<1> DEFINE T == DOMAIN project.tasks
           q == ReplayProject(project)
           D == DOMAIN q.tasks
           told == facts.resumed
           g == [NoFacts(D) EXCEPT !.resumed = told]
           d == [reason |-> "plain", replayed_task_ids |-> Listed(D),
                 removed_task_ids |-> Listed(T \ D)]
           phase == q.phase
           e == Event("workflow_replayed", NoTask, phase, d)
           events == <<e>>
<1>1. Do(q, g, events, D)
  BY DEF Replay, ReplayEvents, WorkflowEvent, p, f
<1>2. IsProject(project) /\ IsFiniteSet(T)
  BY DEF ViewsInv
<1>3. IsProject(q)
  BY <1>2, ReplayType
<1>4. /\ D \subseteq T
      /\ \A i \in D : q.tasks[i].status = "pending"
  BY DEF ReplayProject, InitialProject, NewTask
<1>5. IsFiniteSet(D)
  BY <1>2, <1>4, FS_Subset
<1>6. /\ e.event = "workflow_replayed"
      /\ ~IsTaskEvent(e) /\ Covered(e)
  <2>1. DOMAIN d \cap Sensitive = {}
    BY DEF Sensitive
  <2>2. ~AboutTask("workflow_replayed")
    BY DEF AboutTask, IsTaskEvent
  <2> HIDE DEF d, phase
  <2> QED BY <2>1, <2>2, EventFields
<1>7. /\ HasFacts(g, D)
      /\ \A i \in D : g.calls[i] = {}
  <2> HIDE DEF told, D
  <2>1. HasFacts(NoFacts(D), D) /\ \A i \in D : NoFacts(D).calls[i] = {}
    BY BlankFacts
  <2>2. SameTaskFacts(NoFacts(D), g, D)
    BY <2>1, OtherFacts
  <2> HIDE DEF g
  <2> QED BY <2>1, <2>2 DEF SameTaskFacts
<1> HIDE DEF e, q, g
<1>8. DOMAIN events = {1} /\ events[1] = e
  OBVIOUS
<1> HIDE DEF events
<1>9. Followed(q, events) = Trail(q)
  <2> DEFINE About(i) == {k \in DOMAIN events : IsTaskEvent(events[k]) /\ events[k].task = i}
             restarted == \E k \in DOMAIN events : events[k].event = "workflow_replayed"
  <2>1. \A i : About(i) = {}
    BY <1>6, <1>8
  <2>2. restarted
    BY <1>6, <1>8
  <2>3. Followed(q, events) =
          [i \in D |-> IF About(i) # {} THEN events[Max(About(i))].status
                       ELSE IF restarted \/ i \notin DOMAIN trail THEN "pending" ELSE trail[i]]
    BY DEF Followed
  <2> HIDE DEF About, restarted
  <2> QED BY <1>4, <2>1, <2>2, <2>3 DEF Trail
<1>10. \A k \in DOMAIN events : Covered(events[k])
  BY <1>6, <1>8
<1>11. \A i \in D : Shown(q.tasks[i], IF i \in D THEN g.calls[i] ELSE {},
                          IF i \in D THEN g.errors[i] ELSE FALSE)
  BY <1>4, <1>7 DEF Shown
<1>12. \A i \in D : i \in D
  OBVIOUS
<1> QED BY <1>1, <1>3, <1>5, <1>7, <1>9, <1>10, <1>11, <1>12, DoKeeps

\* What planning and requeuing leave of the tables.
LEMMA PlanTable ==
  ASSUME NEW a, IsProject(a), NEW F \in SUBSET DOMAIN a.tasks, NEW c \in Nat
  PROVE  /\ \A j \in DOMAIN a.tasks :
              LET r == PlanRepairs(a, F, c).tasks[j] IN
              /\ r.status = a.tasks[j].status /\ r.attempts = a.tasks[j].attempts
              /\ r.category = a.tasks[j].category
         /\ \A j \in CycleIds(a, F, c) \ DOMAIN a.tasks :
              LET r == PlanRepairs(a, F, c).tasks[j] IN r.status = "pending" /\ r.attempts = 0
<1> DEFINE D == DOMAIN a.tasks \cup CycleIds(a, F, c)
           repairs == RepairIds(a, F, c)
           Base(i) == IF i \in DOMAIN a.tasks THEN a.tasks[i]
                      ELSE NewTask(InheritedDeps(a, TargetOf(a, F, c, i)))
           Context(i) == IF i \in repairs THEN NewContext(a, F, Origin(i))
                         ELSE IF i \in Targets(a, F) THEN NewContext(a, F, i)
                         ELSE Base(i).context
           E(i) == [Base(i) EXCEPT !.deps = @ \cup AddedDeps(a, F, c, i), !.context = Context(i)]
           table == [i \in D |-> E(i)]
<1>1. PlanRepairs(a, F, c) = [a EXCEPT !.tasks = table]
  BY DEF PlanRepairs
<1>2. PlanRepairs(a, F, c).tasks = table
  <2> HIDE DEF table
  <2> QED BY <1>1, TableOf
<1>3. ASSUME NEW i \in D
      PROVE  /\ E(i).status = Base(i).status /\ E(i).attempts = Base(i).attempts
             /\ E(i).category = Base(i).category
  <2>1. Base(i) = [status |-> Base(i).status, attempts |-> Base(i).attempts,
                   category |-> Base(i).category, evidence |-> Base(i).evidence,
                   skip |-> Base(i).skip, deps |-> Base(i).deps, context |-> Base(i).context]
    <3>1. CASE i \in DOMAIN a.tasks
      <4>1. a.tasks[i] \in TaskRecord
        BY <3>1, Entry
      <4> QED BY <3>1, <4>1 DEF TaskRecord
    <3>2. CASE i \notin DOMAIN a.tasks
      BY <3>2 DEF NewTask
    <3> QED BY <3>1, <3>2
  <2> DEFINE deps == Base(i).deps \cup AddedDeps(a, F, c, i)
             context == Context(i)
  <2>2. E(i) = [Base(i) EXCEPT !.deps = deps, !.context = context]
    OBVIOUS
  <2> HIDE DEF deps, context, Base, E
  <2> QED BY <2>1, <2>2
<1>4. \A i \in CycleIds(a, F, c) \ DOMAIN a.tasks : Base(i).status = "pending" /\ Base(i).attempts = 0
  BY DEF NewTask
<1>5. \A i \in DOMAIN a.tasks : Base(i) = a.tasks[i]
  OBVIOUS
<1> HIDE DEF Base, E
<1> QED BY <1>2, <1>3, <1>4, <1>5

LEMMA ResumeTable ==
  ASSUME NEW a, IsProject(a), NEW F, NEW extra, NEW j \in DOMAIN a.tasks
  PROVE  LET q == ResumeFailed(a, F, extra) IN
         \/ q.tasks[j] = a.tasks[j]
         \/ a.tasks[j].status # "pending" /\ q.tasks[j].status = "pending"
<1> DEFINE named == extra \cap WithStatus(a, {"done", "failed", "skipped"})
           freed == Freed(a, F \cup named)
           E(i) == IF i \in named \cup freed
                     THEN [a.tasks[i] EXCEPT
                             !.status = "pending", !.category = "none",
                             !.evidence = {}, !.skip = "none",
                             !.context = IF i \in named THEN @ ELSE NoContext]
                     ELSE a.tasks[i]
           table == [i \in DOMAIN a.tasks |-> E(i)]
<1>1. ResumeFailed(a, F, extra) = [a EXCEPT !.finished = FALSE, !.tasks = table]
  BY DEF ResumeFailed
<1>2. ResumeFailed(a, F, extra).tasks = table
  <2> HIDE DEF table
  <2> QED BY <1>1, TableOf
<1>3. \/ E(j) = a.tasks[j]
      \/ a.tasks[j].status # "pending" /\ E(j).status = "pending"
  <2>1. CASE j \notin named \cup freed
    BY <2>1
  <2>2. CASE j \in named \cup freed
    <3>1. a.tasks[j].status \in {"done", "failed", "skipped"}
      BY <2>2 DEF Freed, Waiting, WithStatus
    <3> DEFINE context == IF j \in named THEN a.tasks[j].context ELSE NoContext
               r == a.tasks[j]
    <3>2. E(j) = [r EXCEPT !.status = "pending", !.category = "none",
                           !.evidence = {}, !.skip = "none", !.context = context]
      BY <2>2
    <3>3. r \in TaskRecord
      BY Entry
    <3> HIDE DEF E, context, r
    <3>4. E(j).status = "pending"
      BY <3>2, <3>3 DEF TaskRecord
    <3> QED BY <3>1, <3>4
  <2> QED BY <2>1, <2>2
<1> HIDE DEF E
<1> QED BY <1>2, <1>3

\* The events of a call, in whatever way their parts are put together.
Joined(s, t, u, v) == s \o t \o u \o v = (s \o t) \o (u \o v)

LEMMA FourParts ==
  ASSUME NEW s, NEW t, NEW u, NEW v, IsList(s), IsList(t), IsList(u), IsList(v)
  PROVE  Joined(s, t, u, v)
<1> DEFINE All == Elements(s) \cup Elements(t) \cup Elements(u) \cup Elements(v)
<1>1. s \in Seq(All) /\ t \in Seq(All) /\ u \in Seq(All) /\ v \in Seq(All)
  BY DEF IsList
<1>2. s \o t \in Seq(All)
  BY <1>1
<1> DEFINE st == s \o t
<1> HIDE DEF All, st
<1>3. st \o u \o v = st \o (u \o v)
  BY <1>1, <1>2 DEF st
<1> QED BY <1>3 DEF st, Joined

\* start_repair_cycle, the planning of the cycle and resume_failed_tasks.
LEMMA RepairKeeps ==
  ASSUME ViewsInv, Repair
  PROVE  ViewsInv'
<1> DEFINE T == DOMAIN project.tasks
           F == FailedForRepair(project)
           c == project.cycles + 1
           new == CycleIds(project, F, c)
           a == StartCycle(project)
           b == PlanRepairs(a, F, c)
           q == ResumeFailed(b, F, new)
           D == DOMAIN q.tasks
           freed == {i \in Tasks : project.tasks[i].status # "pending" /\ q.tasks[i].status = "pending"}
           ids == freed \cup new
           created == {Origin(i) : i \in {r \in new \ Tasks : IsRepair(r)}}
           category == project.tasks[CHOOSE i \in F : TRUE].category
           told == Append(facts.cycles, [reason |-> "resume_failed_tasks", failed |-> F,
                                         category |-> category])
           g == [facts EXCEPT !.cycles = told]
           h == Spread(g, q)
           k == Cleared(h, freed)
           w == Resumed(k, "failed_workflow", ids)
           begun == CycleStarted(a, F)
           planned == PlanEvents(a, b, F, c, facts)
           requeued == RequeuedEvents(q, freed)
           resumed == WorkflowResumed(q, ids)
           S == freed \cup created
<1>1. Do(q, w, begun \o planned \o requeued \o resumed, S)
  BY DEF Repair, p, f
<1>2. IsProject(project) /\ IsFiniteSet(T) /\ HasFacts(facts, T)
  BY DEF ViewsInv
<1>3. F \in SUBSET T /\ c \in Nat
  <2>1. project.cycles \in Nat
    BY <1>2 DEF IsProject, ProjectRecord
  <2> QED BY <2>1 DEF FailedForRepair, WithStatus
<1> HIDE DEF F, c, new
<1>4. IsProject(a) /\ a.tasks = project.tasks
  BY <1>2, StartCycleType
<1> HIDE DEF a
<1>5. IsProject(b) /\ DOMAIN b.tasks = T \cup CycleIds(a, F, c)
  BY <1>3, <1>4, PlanRepairsType
<1>6. /\ \A j \in T :
           /\ b.tasks[j].status = project.tasks[j].status
           /\ b.tasks[j].attempts = project.tasks[j].attempts
           /\ b.tasks[j].category = project.tasks[j].category
      /\ \A j \in CycleIds(a, F, c) \ T : b.tasks[j].status = "pending" /\ b.tasks[j].attempts = 0
  BY <1>3, <1>4, PlanTable
<1>7. IsFiniteSet(Targets(a, F)) /\ IsFiniteSet(CycleIds(a, F, c))
  <2>1. Targets(a, F) \subseteq T
    BY <1>3, <1>4, TargetsAreTasks
  <2>2. IsFiniteSet(CycleIds(a, F, c))
    BY <1>2, <1>3, <1>4, CycleIdsFinite
  <2> QED BY <1>2, <2>1, <2>2, FS_Subset
<1>8. \A x \in Targets(a, F) : a.tasks[x].status = b.tasks[x].status
  BY <1>3, <1>4, <1>6, TargetsAreTasks
<1> HIDE DEF b
<1>9. IsProject(q) /\ D = DOMAIN b.tasks
  BY <1>5, ResumeFailedType
<1>10. \A j \in DOMAIN b.tasks :
         \/ q.tasks[j] = b.tasks[j]
         \/ b.tasks[j].status # "pending" /\ q.tasks[j].status = "pending"
  BY <1>5, ResumeTable
<1> HIDE DEF q
<1>11. \A j \in D : j \in freed \/ q.tasks[j] = b.tasks[j]
  BY <1>5, <1>6, <1>9, <1>10 DEF Tasks, p
<1>12. T \subseteq D /\ \A j \in D \ T : q.tasks[j].status = "pending" /\ q.tasks[j].attempts = 0
  BY <1>5, <1>6, <1>9, <1>10
<1>13. freed \subseteq T /\ IsFiniteSet(freed) /\ IsFiniteSet(D)
  <2>1. freed \subseteq T
    BY DEF Tasks, p
  <2>2. IsFiniteSet(D)
    BY <1>2, <1>5, <1>7, <1>9, FS_Union
  <2> QED BY <1>2, <2>1, <2>2, FS_Subset
<1> HIDE DEF freed, ids, created
<1>14. PICK A : Records(b, planned, A)
  BY <1>7, <1>8, PlanRecords
<1>15. /\ Records(b, begun, {}) /\ Records(q, requeued, freed) /\ Records(q, resumed, {})
  BY <1>13, WorkflowRecords, DecisionRecords
<1> HIDE DEF begun, planned, requeued, resumed
<1>16. Records(b, begun \o planned, {} \cup A)
  BY <1>14, <1>15, MoreEvents
<1>17. Records(q, requeued \o resumed, freed \cup {})
  BY <1>15, MoreEvents
<1>18. begun \o planned \o requeued \o resumed = (begun \o planned) \o (requeued \o resumed)
  <2>1. IsList(begun) /\ IsList(planned) /\ IsList(requeued) /\ IsList(resumed)
    BY <1>14, <1>15 DEF Records, Honest
  <2>2. Joined(begun, planned, requeued, resumed)
    BY <2>1, FourParts
  <2> QED BY <2>2 DEF Joined
<1> DEFINE early == begun \o planned
           late == requeued \o resumed
           events == early \o late
<1>19. Do(q, w, events, S)
  BY <1>1, <1>18
<1>20. Records(b, early, A) /\ Records(q, late, freed)
  <2>1. {} \cup A = A /\ freed \cup {} = freed
    OBVIOUS
  <2> HIDE DEF early, late
  <2> QED BY <1>16, <1>17, <2>1, Zenon DEF early, late
<1> HIDE DEF early, late
<1>21. Followed(q, events) = Trail(q)
  <2>1. ASSUME NEW i \in D
        PROVE  \/ i \in freed
               \/ i \in A /\ b.tasks[i].status = q.tasks[i].status
               \/ i \notin A /\ i \in DOMAIN trail /\ trail[i] = q.tasks[i].status
               \/ i \notin A /\ i \notin DOMAIN trail /\ q.tasks[i].status = "pending"
    <3>1. CASE i \in T
      <4>1. i \in DOMAIN trail /\ trail[i] = project.tasks[i].status
        BY <3>1 DEF ViewsInv, Trail
      <4> QED BY <1>6, <1>11, <3>1, <4>1
    <3>2. CASE i \notin T
      <4>1. i \notin DOMAIN trail
        BY <3>2 DEF ViewsInv, Trail
      <4> QED BY <1>11, <1>12, <3>2, <4>1
    <3> QED BY <3>1, <3>2
  <2> QED BY <1>20, <2>1, LastEventsTell
<1>22. \A i \in DOMAIN events : Covered(events[i])
  <2>1. IsList(early) /\ IsList(late)
    BY <1>20 DEF Records, Honest
  <2>2. Elements(events) = Elements(early) \cup Elements(late)
    BY <2>1, JoinedLists
  <2>3. \A e \in Elements(events) : Covered(e)
    BY <1>20, <2>2 DEF Records, Honest
  <2> HIDE DEF events
  <2> QED BY <2>3 DEF Elements
<1>23. HasFacts(g, T) /\ g.calls = facts.calls /\ g.errors = facts.errors
  <2> HIDE DEF told
  <2>1. SameTaskFacts(facts, g, T)
    BY <1>2, OtherFacts
  <2> HIDE DEF g
  <2> QED BY <2>1 DEF SameTaskFacts
<1> HIDE DEF g
<1>24. Spreads(g, h, T, D)
  BY <1>23, SpreadFacts
<1> HIDE DEF h, D
<1>25. ClearsFacts(h, k, D, freed)
  <2>1. HasFacts(h, D)
    BY <1>24 DEF Spreads
  <2> QED BY <2>1, ClearedFacts
<1> HIDE DEF k
<1>26. SameTaskFacts(k, w, D)
  <2> DEFINE list == Append(k.resumed, [reason |-> "failed_workflow", tasks |-> ids])
  <2>1. HasFacts(k, D)
    BY <1>25 DEF ClearsFacts
  <2>2. w = [k EXCEPT !.resumed = list]
    BY DEF Resumed
  <2> HIDE DEF w, list
  <2> QED BY <2>1, <2>2, OtherFacts
<1> HIDE DEF w
<1>27. HasFacts(w, D) /\ w.calls = k.calls /\ w.errors = k.errors
  BY <1>26, Zenon DEF SameTaskFacts
<1>28. ASSUME NEW i \in D
       PROVE  Shown(q.tasks[i], IF i \in D THEN w.calls[i] ELSE {},
                    IF i \in D THEN w.errors[i] ELSE FALSE)
  <2>1. CASE i \in freed
    <3>1. Shown(q.tasks[i], k.calls[i], k.errors[i])
      BY <1>25, <2>1 DEF ClearsFacts
    <3> QED BY <1>27, <3>1, Zenon
  <2>2. CASE i \notin freed /\ i \in T
    <3>1. w.calls[i] = facts.calls[i]
      BY <1>23, <1>24, <1>25, <1>27, <2>2, Zenon DEF Spreads, ClearsFacts
    <3>2. w.errors[i] = facts.errors[i]
      BY <1>23, <1>24, <1>25, <1>27, <2>2, Zenon DEF Spreads, ClearsFacts
    <3>3. q.tasks[i].status = project.tasks[i].status /\ q.tasks[i].category = project.tasks[i].category
      BY <1>6, <1>11, <2>2
    <3>4. Shown(project.tasks[i], facts.calls[i], facts.errors[i])
      BY <2>2 DEF ViewsInv
    <3>5. Shown(q.tasks[i], facts.calls[i], facts.errors[i])
      BY <3>3, <3>4 DEF Shown
    <3> QED BY <3>1, <3>2, <3>5, Zenon
  <2>3. CASE i \notin freed /\ i \notin T
    <3>1. w.calls[i] = {}
      BY <1>24, <1>25, <1>27, <2>3 DEF Spreads, ClearsFacts
    <3>2. q.tasks[i].status = "pending"
      BY <1>12, <2>3 DEF D
    <3> QED BY <3>1, <3>2 DEF Shown
  <2> QED BY <2>1, <2>2, <2>3
<1>29. ASSUME NEW i \in D
       PROVE  \/ i \in S
              \/ i \in T /\ Noted(q.tasks[i]) = Noted(project.tasks[i])
              \/ i \notin T /\ Noted(q.tasks[i]) = Fresh
  <2>1. CASE i \in T /\ i \notin freed
    BY <1>6, <1>11, <2>1 DEF Noted, D
  <2>2. CASE i \notin T
    BY <1>12, <2>2 DEF Noted, Fresh, D
  <2> QED BY <2>1, <2>2
<1> HIDE DEF S, events
<1>30. D = DOMAIN q.tasks
  BY DEF D
<1> QED BY <1>9, <1>13, <1>19, <1>21, <1>22, <1>27, <1>28, <1>29, <1>30, DoKeeps

-----------------------------------------------------------------------------
(* The views at every moment.                                              *)

\* A project as it is created, or as an older file has it.
LEMMA InitShows ==
  ASSUME Init
  PROVE  ViewsInv
<1> DEFINE T == DOMAIN project.tasks
<1>1. /\ noted = Histories(project) /\ trail = Trail(project)
      /\ \A k \in DOMAIN batch : Covered(batch[k])
  <2>1. noted = Histories(project)
    BY DEF Init, Histories
  <2>2. trail = Trail(project)
    BY DEF Init, Trail
  <2>3. batch = << >>
    BY DEF Init
  <2> QED BY <2>1, <2>2, <2>3
<1>2. /\ IsProject(InitialProject) /\ IsFiniteSet(DOMAIN InitialProject.tasks)
      /\ \A i \in DOMAIN InitialProject.tasks : InitialProject.tasks[i].status = "pending"
  <2>1. IsFiniteSet(DOMAIN InitialProject.tasks)
    BY InitialIsStructured DEF IsStructured
  <2>2. \A i \in DOMAIN InitialProject.tasks : InitialProject.tasks[i].status = "pending"
    BY DEF InitialProject, NewTask
  <2> QED BY <2>1, <2>2, InitialType
<1>3. CASE project = InitialProject /\ facts = NoFacts(T)
  <2>1. HasFacts(facts, T) /\ \A i \in T : facts.calls[i] = {}
    BY <1>3, BlankFacts
  <2>2. \A i \in T : Shown(project.tasks[i], facts.calls[i], facts.errors[i])
    BY <1>2, <1>3, <2>1 DEF Shown
  <2> QED BY <1>1, <1>2, <1>3, <2>1, <2>2 DEF ViewsInv
<1>4. CASE \E i \in DOMAIN InitialProject.tasks, call \in OlderCalls :
             /\ project = [InitialProject EXCEPT !.tasks[i].status = "done",
                                                 !.tasks[i].attempts = 1]
             /\ facts = [NoFacts(T) EXCEPT !.calls[i] = call]
  <2>1. PICK i \in DOMAIN InitialProject.tasks, call \in OlderCalls :
             /\ project = [InitialProject EXCEPT !.tasks[i].status = "done",
                                                 !.tasks[i].attempts = 1]
             /\ facts = [NoFacts(T) EXCEPT !.calls[i] = call]
    BY <1>4
  <2> DEFINE r == [InitialProject.tasks[i] EXCEPT !.status = "done", !.attempts = 1]
             table == [InitialProject.tasks EXCEPT ![i] = r]
             calls == [NoFacts(T).calls EXCEPT ![i] = call]
  <2>2. project = [InitialProject EXCEPT !.tasks = table]
    BY <2>1
  <2>3. r \in TaskRecord /\ r.status = "done"
    <3>1. InitialProject.tasks[i] \in TaskRecord
      BY <1>2, Entry
    <3> QED BY <3>1 DEF TaskRecord, Statuses
  <2>4. IsTable(table) /\ DOMAIN table = DOMAIN InitialProject.tasks
    <3>1. IsTable(InitialProject.tasks)
      BY <1>2 DEF IsProject
    <3> HIDE DEF r
    <3> QED BY <2>3, <3>1 DEF IsTable
  <2>5. /\ table[i] = r
        /\ \A j \in DOMAIN InitialProject.tasks : j # i => table[j] = InitialProject.tasks[j]
    OBVIOUS
  <2> HIDE DEF table, r
  <2>6. IsProject(project) /\ project.tasks = table
    BY <1>2, <2>2, <2>4, Rebuilt
  <2>7. HasFacts(NoFacts(T), T) /\ \A j \in T : NoFacts(T).calls[j] = {}
    BY BlankFacts
  <2>8. /\ HasFacts(facts, T) /\ facts.calls[i] = call
        /\ \A j \in T : j # i => facts.calls[j] = {}
    <3> DEFINE n == NoFacts(T)
    <3>1. facts = [n EXCEPT !.calls = calls]
      BY <2>1
    <3>2. DOMAIN calls = T /\ calls[i] = call /\ \A j \in T : j # i => calls[j] = {}
      BY <2>4, <2>6, <2>7 DEF HasFacts
    <3> HIDE DEF n, calls
    <3>3. HasFacts(n, T)
      BY <2>7 DEF n
    <3>4. HasFacts(facts, T) /\ facts.calls = calls
      BY <3>1, <3>2, <3>3 DEF HasFacts
    <3> QED BY <3>2, <3>4
  <2>9. ASSUME NEW j \in T
        PROVE  Shown(project.tasks[j], facts.calls[j], facts.errors[j])
    <3>1. CASE j = i
      <4>1. project.tasks[j].status = "done" /\ facts.calls[j] = call
        BY <2>3, <2>5, <2>6, <2>8, <3>1
      <4> QED BY <4>1 DEF Shown
    <3>2. CASE j # i
      <4>1. project.tasks[j].status = "pending" /\ facts.calls[j] = {}
        BY <1>2, <2>4, <2>5, <2>6, <2>8, <3>2
      <4> QED BY <4>1 DEF Shown
    <3> QED BY <3>1, <3>2
  <2> QED BY <1>1, <1>2, <2>4, <2>6, <2>8, <2>9 DEF ViewsInv
<1>5. \/ project = InitialProject /\ facts = NoFacts(T)
      \/ \E i \in DOMAIN InitialProject.tasks, call \in OlderCalls :
             /\ project = [InitialProject EXCEPT !.tasks[i].status = "done",
                                                 !.tasks[i].attempts = 1]
             /\ facts = [NoFacts(T) EXCEPT !.calls[i] = call]
  BY DEF Init
<1> QED BY <1>3, <1>4, <1>5

\* Every call keeps what the views rely on.
LEMMA NextKeeps ==
  ASSUME ViewsInv, [Next]_vars
  PROVE  ViewsInv'
<1>1. ASSUME NEW i \in Tasks, Start(i) PROVE ViewsInv'
  BY <1>1, StartKeeps
<1>2. ASSUME NEW i \in Tasks, SkipBehind(i) PROVE ViewsInv'
  BY <1>2, SkipBehindKeeps
<1>3. ASSUME NEW i \in Tasks, Report(i) PROVE ViewsInv'
  BY <1>3, ReportKeeps
<1>4. ASSUME NEW i \in Tasks, NEW kind \in FailureKinds, NEW call \in BadCalls, Fail(i, kind, call)
      PROVE  ViewsInv'
  BY <1>4, FailKeeps
<1>5. ASSUME NEW i \in Tasks, NEW call \in GoodCalls, Complete(i, call) PROVE ViewsInv'
  BY <1>5, CompleteKeeps
<1>6. ASSUME SkipServed \/ Run \/ Finish \/ Resume \/ Repair PROVE ViewsInv'
  BY <1>6, SkipServedKeeps, RunKeeps, FinishKeeps, ResumeKeeps, RepairKeeps
<1>7. ASSUME NEW i \in Tasks, Skip(i) \/ Override(i) PROVE ViewsInv'
  BY <1>7, SkipKeeps, OverrideKeeps
<1>8. ASSUME Pause \/ Cancel \/ Replay \/ Recover PROVE ViewsInv'
  BY <1>8, PauseKeeps, CancelKeeps, ReplayKeeps, RecoverKeeps
<1>9. ASSUME UNCHANGED vars PROVE ViewsInv'
  BY <1>9 DEF vars, ViewsInv
<1> QED
  BY <1>1, <1>2, <1>3, <1>4, <1>5, <1>6, <1>7, <1>8, <1>9 DEF Next, Work, Intervention

\* What the views rely on holds at every moment, for any tasks, calls and failures.
THEOREM ViewsAreKept == Spec => []ViewsInv
<1>1. Init => ViewsInv
  BY InitShows
<1>2. ViewsInv /\ [Next]_vars => ViewsInv'
  BY NextKeeps
<1> QED BY <1>1, <1>2, PTL DEF Spec

\* Reading only the recorded events, or only the task histories, one knows the status
\* of every task (the methods of memory/project_state.py that record), and the call
\* that a task shows is the one of the outcome it shows.
THEOREM TrailIsAlwaysComplete == Spec => []TrailIsComplete
<1>1. ViewsInv => TrailIsComplete
  BY InvariantShows
<1> QED BY <1>1, ViewsAreKept, PTL

\* A snapshot publishes no text of any event that any call records, and tells of each
\* that there is one (_redacted_execution_event).
THEOREM EventsAlwaysHideTexts == Spec => []EventsHideTexts
<1>1. ViewsInv => EventsHideTexts
  BY InvariantShows
<1> QED BY <1>1, ViewsAreKept, PTL

-----------------------------------------------------------------------------
(* Sums over finite sets.                                                  *)

\* g sums up F over the subsets of S.
Taken(s) == CHOOSE x \in s : TRUE
IsSum(g, S, F) ==
  g = [s \in SUBSET S |-> IF s = {} THEN 0 ELSE F[Taken(s)] + g[s \ {Taken(s)}]]

\* The sum over a finite set exists: it is taken one element at a time.
LEMMA SumExists ==
  ASSUME NEW S, IsFiniteSet(S), NEW F, \A x \in S : F[x] \in Nat
  PROVE  \E g \in [SUBSET S -> Nat] : IsSum(g, S, F)
<1> DEFINE Small(k) == {s \in SUBSET S : Cardinality(s) <= k}
           Step(g, s) == IF s = {} THEN 0 ELSE F[Taken(s)] + g[s \ {Taken(s)}]
           Solves(g, k) == g \in [Small(k) -> Nat] /\ \A s \in Small(k) : g[s] = Step(g, s)
           n == Cardinality(S)
           Solved == {k \in 0 .. n : \E g : Solves(g, k)}
<1>1. n \in Nat /\ \A s \in SUBSET S : IsFiniteSet(s) /\ Cardinality(s) \in 0 .. n
  <2>1. n \in Nat
    BY FS_CardinalityType
  <2>2. ASSUME NEW s \in SUBSET S PROVE IsFiniteSet(s) /\ Cardinality(s) \in 0 .. n
    BY FS_Subset, FS_CardinalityType, <2>1
  <2> QED BY <2>1, <2>2
<1>2. ASSUME NEW s \in SUBSET S, s # {}
      PROVE  /\ Taken(s) \in s /\ s \ {Taken(s)} \in SUBSET S
             /\ Cardinality(s \ {Taken(s)}) = Cardinality(s) - 1
  <2>1. Taken(s) \in s
    BY <1>2 DEF Taken
  <2>2. Cardinality(s \ {Taken(s)}) = Cardinality(s) - 1
    BY <1>1, <2>1, FS_RemoveElement
  <2> QED BY <2>1, <2>2
<1>3. 0 \in Solved
  <2>1. \A s \in Small(0) : s = {}
    <3>1. SUFFICES ASSUME NEW s \in Small(0), s # {} PROVE FALSE
      OBVIOUS
    <3>2. s \in SUBSET S /\ Cardinality(s) <= 0
      OBVIOUS
    <3> HIDE DEF Small
    <3>3. Cardinality(s) = 0
      BY <1>1, <3>2
    <3> QED BY <1>1, <3>1, <3>2, <3>3, FS_EmptySet
  <2> DEFINE g == [s \in Small(0) |-> 0]
  <2>2. Solves(g, 0)
    <3> HIDE DEF Small
    <3> QED BY <2>1
  <2>3. \E h : Solves(h, 0)
    BY <2>2
  <2> HIDE DEF Solves
  <2> QED BY <1>1, <2>3
<1>4. ASSUME NEW k \in 0 .. n, k \in Solved, k < n
      PROVE  k + 1 \in Solved
  <2>1. PICK g : Solves(g, k)
    BY <1>4
  <2> DEFINE h == [s \in Small(k + 1) |-> IF s \in Small(k) THEN g[s] ELSE Step(g, s)]
  <2>2. ASSUME NEW s \in Small(k + 1), s \notin Small(k)
        PROVE  s \in SUBSET S /\ s # {} /\ Taken(s) \in S /\ s \ {Taken(s)} \in Small(k)
    <3>1. s \in SUBSET S /\ ~ Cardinality(s) <= k /\ Cardinality(s) <= k + 1
      BY <2>2
    <3>2. s # {}
      BY <3>1, FS_EmptySet
    <3>3. Taken(s) \in s /\ s \ {Taken(s)} \in SUBSET S /\ Cardinality(s \ {Taken(s)}) = Cardinality(s) - 1
      BY <1>2, <3>1, <3>2
    <3>4. Cardinality(s) - 1 <= k
      BY <1>1, <3>1
    <3> QED BY <3>1, <3>2, <3>3, <3>4
  <2>3. ASSUME NEW s \in Small(k)
        PROVE  /\ s \in Small(k + 1) /\ s \in SUBSET S
               /\ s # {} => s \ {Taken(s)} \in Small(k)
    <3>1. s \in SUBSET S /\ Cardinality(s) <= k
      BY <2>3
    <3>2. Cardinality(s) <= k + 1
      BY <1>1, <3>1
    <3>3. s # {} => s \ {Taken(s)} \in SUBSET S /\ Cardinality(s \ {Taken(s)}) = Cardinality(s) - 1
      BY <1>2, <3>1
    <3>4. s # {} => Cardinality(s) - 1 <= k
      BY <1>1, <3>1
    <3> QED BY <3>1, <3>2, <3>3, <3>4
  <2> HIDE DEF Small
  <2>4. ASSUME NEW s \in Small(k + 1)
        PROVE  h[s] \in Nat /\ h[s] = Step(h, s)
    <3>1. CASE s \in Small(k)
      <4>1. h[s] = g[s] /\ g[s] \in Nat /\ g[s] = Step(g, s)
        BY <2>1, <3>1
      <4>2. s # {} => h[s \ {Taken(s)}] = g[s \ {Taken(s)}]
        BY <2>3, <3>1
      <4> QED BY <4>1, <4>2
    <3>2. CASE s \notin Small(k)
      <4>1. s # {} /\ Taken(s) \in S /\ s \ {Taken(s)} \in Small(k) /\ s \ {Taken(s)} \in Small(k + 1)
        BY <2>2, <2>3, <3>2
      <4>2. h[s] = F[Taken(s)] + g[s \ {Taken(s)}] /\ h[s \ {Taken(s)}] = g[s \ {Taken(s)}]
        BY <3>2, <4>1
      <4>3. g[s \ {Taken(s)}] \in Nat /\ F[Taken(s)] \in Nat
        BY <2>1, <4>1
      <4> HIDE DEF h
      <4> QED BY <4>1, <4>2, <4>3
    <3> QED BY <3>1, <3>2
  <2>5. h \in [Small(k + 1) -> Nat]
    <3>1. h = [s \in Small(k + 1) |-> h[s]]
      OBVIOUS
    <3> HIDE DEF h
    <3> QED BY <2>4, <3>1
  <2>6. Solves(h, k + 1)
    <3> HIDE DEF h, Step
    <3> QED BY <2>4, <2>5
  <2>7. \E x : Solves(x, k + 1)
    BY <2>6
  <2>8. k + 1 \in 0 .. n
    BY <1>1, <1>4
  <2> HIDE DEF Solves, h
  <2> QED BY <2>7, <2>8
<1>5. n \in Solved
  <2> HIDE DEF Solved, n
  <2>1. \A k \in 0 .. n : k \in Solved
    BY <1>1, <1>3, <1>4, InductionUpTo
  <2> QED BY <1>1, <2>1
<1>6. PICK g : Solves(g, n)
  BY <1>5
<1>7. Small(n) = SUBSET S
  BY <1>1
<1> HIDE DEF Small
<1>8. g \in [SUBSET S -> Nat] /\ \A s \in SUBSET S : g[s] = Step(g, s)
  BY <1>6, <1>7
<1>9. IsSum(g, S, F)
  BY <1>8 DEF IsSum
<1> QED BY <1>8, <1>9

\* The sum of finitely many naturals is such a sum of its parts.
LEMMA SumInSteps ==
  ASSUME NEW F, IsFiniteSet(DOMAIN F), \A x \in DOMAIN F : F[x] \in Nat
  PROVE  \E g \in [SUBSET DOMAIN F -> Nat] :
           /\ SumOf(F) = g[DOMAIN F]
           /\ g[{}] = 0
           /\ \A s \in SUBSET DOMAIN F : s # {} => g[s] = F[Taken(s)] + g[s \ {Taken(s)}]
<1> DEFINE S == DOMAIN F
           g == CHOOSE x : IsSum(x, S, F)
<1>1. PICK h \in [SUBSET S -> Nat] : IsSum(h, S, F)
  BY SumExists
<1>2. IsSum(g, S, F)
  BY <1>1
<1>3. SumOf(F) = g[S]
  BY DEF SumOf, MapThenSumSet, MapThenFoldSet, IsSum, Taken
<1> HIDE DEF g
<1> DEFINE Same == {s \in SUBSET S : g[s] = h[s]}
<1>4. ASSUME NEW x, IsSum(x, S, F), NEW s \in SUBSET S
      PROVE  x[s] = IF s = {} THEN 0 ELSE F[Taken(s)] + x[s \ {Taken(s)}]
  BY <1>4 DEF IsSum
<1>5. ASSUME NEW s \in SUBSET S, \A r \in SUBSET s : r # s => r \in Same
      PROVE  s \in Same
  <2>1. CASE s = {}
    BY <1>1, <1>2, <1>4, <2>1
  <2>2. CASE s # {}
    <3>1. Taken(s) \in s
      BY <2>2 DEF Taken
    <3>2. s \ {Taken(s)} \in SUBSET s /\ s \ {Taken(s)} # s
      BY <3>1
    <3>3. g[s \ {Taken(s)}] = h[s \ {Taken(s)}]
      BY <1>5, <3>2
    <3> QED BY <1>1, <1>2, <1>4, <2>2, <3>3
  <2> QED BY <2>1, <2>2
<1>6. \A s \in SUBSET S : s \in Same
  <2> HIDE DEF Same
  <2> QED BY <1>5, SubsetInduction
<1>7. SumOf(F) = h[S]
  BY <1>3, <1>6
<1>8. h[{}] = 0 /\ \A s \in SUBSET S : s # {} => h[s] = F[Taken(s)] + h[s \ {Taken(s)}]
  BY <1>1, <1>4
<1> QED BY <1>7, <1>8

\* A sum of naturals is a natural, and positive if one of them is.
LEMMA PositiveSum ==
  ASSUME NEW F, IsFiniteSet(DOMAIN F), \A x \in DOMAIN F : F[x] \in Nat
  PROVE  SumOf(F) \in Nat /\ (SumOf(F) > 0 <=> \E x \in DOMAIN F : F[x] > 0)
<1> DEFINE S == DOMAIN F
<1>1. PICK g \in [SUBSET S -> Nat] :
           /\ SumOf(F) = g[S]
           /\ g[{}] = 0
           /\ \A s \in SUBSET S : s # {} => g[s] = F[Taken(s)] + g[s \ {Taken(s)}]
  BY SumInSteps
<1> DEFINE Good == {s \in SUBSET S : g[s] > 0 <=> \E x \in s : F[x] > 0}
<1>2. ASSUME NEW s \in SUBSET S, \A r \in SUBSET s : r # s => r \in Good
      PROVE  s \in Good
  <2>1. CASE s = {}
    BY <1>1, <2>1
  <2>2. CASE s # {}
    <3>1. Taken(s) \in s
      BY <2>2 DEF Taken
    <3> DEFINE r == s \ {Taken(s)}
    <3>2. r \in SUBSET s /\ r # s
      BY <3>1
    <3>3. g[r] > 0 <=> \E x \in r : F[x] > 0
      BY <1>2, <3>2
    <3>4. g[s] = F[Taken(s)] + g[r] /\ F[Taken(s)] \in Nat /\ g[r] \in Nat
      BY <1>1, <2>2, <3>1
    <3>5. g[s] > 0 <=> F[Taken(s)] > 0 \/ g[r] > 0
      <4> HIDE DEF r
      <4> QED BY <3>4
    <3> QED BY <3>1, <3>3, <3>5
  <2> QED BY <2>1, <2>2
<1>3. S \in Good
  <2> HIDE DEF Good
  <2>1. \A s \in SUBSET S : s \in Good
    BY <1>2, SubsetInduction
  <2> QED BY <2>1
<1> QED BY <1>1, <1>3

\* Sets have no more elements together than one by one.
LEMMA SumOfSets ==
  ASSUME NEW D, IsFiniteSet(D), NEW Sets, \A x \in D : IsFiniteSet(Sets[x])
  PROVE  LET all == UNION {Sets[x] : x \in D} IN
         IsFiniteSet(all) /\ Cardinality(all) <= SumOf([x \in D |-> Cardinality(Sets[x])])
<1> DEFINE F == [x \in D |-> Cardinality(Sets[x])]
           All(s) == UNION {Sets[x] : x \in s}
<1>1. \A x \in D : F[x] = Cardinality(Sets[x]) /\ F[x] \in Nat
  BY FS_CardinalityType
<1>2. PICK g \in [SUBSET D -> Nat] :
           /\ SumOf(F) = g[D]
           /\ g[{}] = 0
           /\ \A s \in SUBSET D : s # {} => g[s] = F[Taken(s)] + g[s \ {Taken(s)}]
  <2>1. DOMAIN F = D
    OBVIOUS
  <2> HIDE DEF F
  <2>2. IsFiniteSet(DOMAIN F) /\ \A x \in DOMAIN F : F[x] \in Nat
    BY <1>1, <2>1
  <2>3. \E g \in [SUBSET DOMAIN F -> Nat] :
           /\ SumOf(F) = g[DOMAIN F]
           /\ g[{}] = 0
           /\ \A s \in SUBSET DOMAIN F : s # {} => g[s] = F[Taken(s)] + g[s \ {Taken(s)}]
    BY <2>2, SumInSteps
  <2> QED BY <2>1, <2>3
<1> HIDE DEF F
<1> DEFINE Good == {s \in SUBSET D : IsFiniteSet(All(s)) /\ Cardinality(All(s)) <= g[s]}
<1>3. ASSUME NEW s \in SUBSET D, \A r \in SUBSET s : r # s => r \in Good
      PROVE  s \in Good
  <2>1. CASE s = {}
    <3>1. All(s) = {}
      BY <2>1
    <3>2. IsFiniteSet(All(s)) /\ Cardinality(All(s)) = 0
      BY <3>1, FS_EmptySet
    <3>3. g[s] = 0
      BY <1>2, <2>1
    <3> QED BY <3>2, <3>3
  <2>2. CASE s # {}
    <3> DEFINE x == Taken(s)
               r == s \ {x}
               old == All(r)
               new == Sets[x]
    <3>1. x \in s /\ x \in D
      BY <2>2 DEF Taken
    <3>2. r \in SUBSET s /\ r # s
      BY <3>1
    <3>3. IsFiniteSet(old) /\ Cardinality(old) <= g[r]
      BY <1>3, <3>2
    <3>4. g[s] = Cardinality(new) + g[r] /\ g[r] \in Nat /\ Cardinality(new) \in Nat
      BY <1>1, <1>2, <2>2, <3>1
    <3>5. All(s) = new \cup old
      BY <3>1
    <3> HIDE DEF x, r, new, old
    <3>6. IsFiniteSet(new)
      BY <3>1 DEF new
    <3>7. /\ IsFiniteSet(new \cup old)
          /\ Cardinality(new \cup old) = Cardinality(new) + Cardinality(old) - Cardinality(new \cap old)
      BY <3>3, <3>6, FS_Union
    <3>8. Cardinality(old) \in Nat /\ Cardinality(new \cap old) \in Nat
      BY <3>3, <3>6, FS_CardinalityType, FS_Intersection
    <3>9. Cardinality(new \cup old) <= g[s]
      BY <3>3, <3>4, <3>7, <3>8
    <3> QED BY <3>5, <3>7, <3>9
  <2> QED BY <2>1, <2>2
<1>4. D \in Good
  <2> HIDE DEF Good
  <2>1. \A s \in SUBSET D : s \in Good
    BY <1>3, SubsetInduction
  <2> QED BY <2>1
<1> QED BY <1>2, <1>4 DEF F

-----------------------------------------------------------------------------
(* Cleaning the record of a provider call (providers/base.py).             *)

CallFields == DOMAIN PlainCall(Blank, Blank, TRUE)

\* The fields of a call record (base_agent.py writes all of them).
LEMMA CallFieldNames ==
  CallFields = {"provider", "model", "success", "error", "message", "reason", "history",
                "used", "total", "latency", "usage", "fallback", "health", "counters",
                "flags", "clock", "elapsed"}
BY DEF CallFields, PlainCall

\* A cleaned record, field by field.
Cleans(c, d, mode) ==
  /\ d = [x \in CallFields |-> d[x]]
  /\ d.provider = c.provider /\ d.model = c.model /\ d.success = c.success
  /\ d.error = Kept(mode, c.error) /\ d.message = Kept(mode, c.message) /\ d.reason = Flag(c.reason)
  /\ d.history = {CleanHistory(h, mode) : h \in c.history}
  /\ d.used = c.used /\ d.total = c.total /\ d.latency = c.latency /\ d.usage = c.usage
  /\ d.fallback = CleanFallback(c.fallback, mode) /\ d.health = CleanHealth(c.health)
  /\ d.counters = {} /\ d.flags = CleanBudget(c)
  /\ d.clock = {} /\ d.elapsed = CleanElapsed(c)

\* sanitize_provider_call_metadata cleans each field in its own way.
LEMMA CleanFields ==
  ASSUME NEW c, DOMAIN c = CallFields, NEW mode
  PROVE  Cleans(c, Clean(c, mode), mode)
<1> DEFINE a == Kept(mode, c.error)
           b == Kept(mode, c.message)
           d == Flag(c.reason)
           h == {CleanHistory(x, mode) : x \in c.history}
           s == CleanFallback(c.fallback, mode)
           hs == CleanHealth(c.health)
           none == {}
           m == CleanBudget(c)
           e == CleanElapsed(c)
           all == [c EXCEPT !.error = a, !.message = b, !.reason = d, !.history = h,
                          !.fallback = s, !.health = hs, !.counters = none, !.flags = m,
                          !.clock = none, !.elapsed = e]
<1>1. Clean(c, mode) = all
  BY DEF Clean
<1> HIDE DEF a, b, d, h, s, hs, m, e
<1>2. all = [x \in CallFields |-> all[x]]
  OBVIOUS
<1>3. /\ all.provider = c.provider /\ all.model = c.model /\ all.success = c.success
      /\ all.used = c.used /\ all.total = c.total /\ all.latency = c.latency /\ all.usage = c.usage
  BY CallFieldNames
<1>4. /\ all.error = a /\ all.message = b /\ all.reason = d
      /\ all.history = h /\ all.fallback = s
  BY CallFieldNames
<1>5. /\ all.health = hs /\ all.counters = {} /\ all.flags = m /\ all.clock = {} /\ all.elapsed = e
  BY CallFieldNames
<1> HIDE DEF all
<1> QED BY <1>1, <1>2, <1>3, <1>4, <1>5 DEF Cleans, a, b, d, h, s, hs, m, e

\* Records with the same fields are the same.
LEMMA SameRecords ==
  ASSUME NEW c, NEW d, c = [x \in CallFields |-> c[x]], d = [x \in CallFields |-> d[x]],
         c.provider = d.provider, c.model = d.model, c.success = d.success, c.error = d.error,
         c.message = d.message, c.reason = d.reason, c.history = d.history, c.used = d.used,
         c.total = d.total, c.latency = d.latency, c.usage = d.usage, c.fallback = d.fallback,
         c.health = d.health, c.counters = d.counters, c.flags = d.flags, c.clock = d.clock,
         c.elapsed = d.elapsed
  PROVE  c = d
<1>1. \A x \in CallFields : c[x] = d[x]
  BY CallFieldNames
<1> QED BY <1>1

\* What redaction leaves of a text, and what a second redaction leaves of that.
LEMMA KeptTexts ==
  ASSUME NEW t \in Texts
  PROVE  /\ Kept("strict", Kept("audit", t)) = Kept("strict", t)
         /\ Kept("audit", Kept("strict", t)) = Kept("strict", t)
         /\ Kept("strict", Kept("strict", t)) = Kept("strict", t)
         /\ Kept("audit", t) # "secret" /\ Kept("strict", t) \in {"none", "flag"}
         /\ \A mode : Kept(mode, t) \in Texts /\ (Present(Kept(mode, t)) <=> Present(t))
         /\ Flag(Flag(t)) = Flag(t) /\ Flag(t) \in {"none", "flag"}
BY DEF Texts, Kept, Redact, Flag, Present

\* A later cleaning of a text, as strict as the first or stricter, or in audit mode.
Settles(one, two) == <<one, two>> \in {<<"audit", "strict">>, <<"strict", "audit">>, <<"strict", "strict">>}

\* Two cleanings of a text leave what the strict one leaves.
LEMMA KeptTwice ==
  ASSUME NEW t \in Texts, NEW one, NEW two, Settles(one, two)
  PROVE  Kept(two, Kept(one, t)) = Kept("strict", t)
BY KeptTexts DEF Settles

\* Cleaning an attempt history keeps everything of it but the error texts.
LEMMA CleanAttempts ==
  ASSUME NEW h \in Seq(Attempt), NEW mode
  PROVE  /\ CleanHistory(h, mode) \in Seq(Attempt)
         /\ Len(CleanHistory(h, mode)) = Len(h) /\ DOMAIN CleanHistory(h, mode) = DOMAIN h
         /\ \A k \in DOMAIN h :
              /\ h[k] \in Attempt
              /\ CleanHistory(h, mode)[k] \in Attempt
              /\ CleanHistory(h, mode)[k].success = h[k].success
              /\ CleanHistory(h, mode)[k].retryable = h[k].retryable
              /\ CleanHistory(h, mode)[k].error = Kept(mode, h[k].error)
<1> DEFINE g == CleanHistory(h, mode)
<1>1. g = [k \in 1 .. Len(h) |-> CleanEntry(h[k], mode)] /\ DOMAIN h = 1 .. Len(h) /\ Len(h) \in Nat
  BY DEF CleanHistory
<1>2. ASSUME NEW e \in Attempt
      PROVE  /\ CleanEntry(e, mode) \in Attempt
             /\ CleanEntry(e, mode).success = e.success
             /\ CleanEntry(e, mode).retryable = e.retryable
             /\ CleanEntry(e, mode).error = Kept(mode, e.error)
  <2>1. Kept(mode, e.error) \in Texts
    BY KeptTexts DEF Attempt
  <2>2. CleanEntry(e, mode) = [e EXCEPT !.error = Kept(mode, e.error)]
    BY DEF CleanEntry
  <2> DEFINE t == Kept(mode, e.error)
  <2>3. t \in Texts /\ CleanEntry(e, mode) = [e EXCEPT !.error = t]
    BY <2>1, <2>2
  <2> HIDE DEF t
  <2>4. /\ CleanEntry(e, mode) \in Attempt
        /\ CleanEntry(e, mode).success = e.success
        /\ CleanEntry(e, mode).retryable = e.retryable
        /\ CleanEntry(e, mode).error = t
    BY <2>3 DEF Attempt
  <2> QED BY <2>4 DEF t
<1>3. \A k \in 1 .. Len(h) : h[k] \in Attempt /\ g[k] = CleanEntry(h[k], mode)
  BY <1>1
<1>4. g \in Seq(Attempt) /\ Len(g) = Len(h)
  BY <1>1, <1>2, <1>3
<1> QED BY <1>1, <1>2, <1>3, <1>4

\* Cleaning an attempt history twice is cleaning it strictly.
LEMMA CleanTwice ==
  ASSUME NEW h \in Seq(Attempt), NEW one, NEW two, Settles(one, two)
  PROVE  CleanHistory(CleanHistory(h, one), two) = CleanHistory(h, "strict")
<1> DEFINE a == CleanHistory(h, one)
           b == CleanHistory(a, two)
           d == CleanHistory(h, "strict")
<1>1. a \in Seq(Attempt) /\ DOMAIN a = DOMAIN h /\ b \in Seq(Attempt) /\ DOMAIN b = DOMAIN h
      /\ d \in Seq(Attempt) /\ DOMAIN d = DOMAIN h
  BY CleanAttempts
<1>2. ASSUME NEW k \in DOMAIN h
      PROVE  b[k] = d[k]
  <2>1. h[k] \in Attempt /\ a[k] \in Attempt /\ b[k] \in Attempt /\ d[k] \in Attempt
    BY <1>1, CleanAttempts
  <2>2. /\ b[k].success = d[k].success /\ b[k].retryable = d[k].retryable
        /\ b[k].error = Kept(two, a[k].error) /\ a[k].error = Kept(one, h[k].error)
        /\ d[k].error = Kept("strict", h[k].error)
    BY <1>1, CleanAttempts
  <2>3. b[k].error = d[k].error
    BY <2>1, <2>2, KeptTwice DEF Attempt
  <2> HIDE DEF a, b, d
  <2> QED BY <2>1, <2>2, <2>3 DEF Attempt
<1>3. b = [k \in DOMAIN h |-> b[k]] /\ d = [k \in DOMAIN h |-> d[k]]
  BY <1>1, Zenon DEF CleanHistory
<1> HIDE DEF a, b, d
<1> QED BY <1>2, <1>3 DEF a, b, d

\* Cleaning a fallback history keeps the providers and the statuses.
LEMMA CleanFallbackEntries ==
  ASSUME NEW s, IsList(s), \A k \in DOMAIN s : IsFallback(s[k]), NEW mode
  PROVE  LET d == CleanFallback(s, mode) IN
         /\ DOMAIN d = DOMAIN s /\ IsList(d) /\ Len(d) = Len(s)
         /\ \A k \in DOMAIN s :
              /\ IsFallback(d[k])
              /\ d[k].provider = s[k].provider /\ d[k].status = s[k].status
              /\ d[k].model = IF mode = "audit" THEN s[k].model ELSE Blank
              /\ d[k].error = Kept(mode, s[k].error)
<1> DEFINE d == CleanFallback(s, mode)
           Cut(e) == [CleanEntry(e, mode) EXCEPT !.model = IF mode = "audit" THEN @ ELSE Blank]
<1>1. d = [k \in DOMAIN s |-> Cut(s[k])]
  BY DEF CleanFallback
<1>2. ASSUME NEW e, IsFallback(e)
      PROVE  Cut(e) = [provider |-> e.provider,
                       model |-> IF mode = "audit" THEN e.model ELSE Blank,
                       status |-> e.status, error |-> Kept(mode, e.error)]
  <2> DEFINE t == Kept(mode, e.error)
  <2>1. CleanEntry(e, mode) = [e EXCEPT !.error = t]
    BY DEF CleanEntry
  <2> HIDE DEF t
  <2>2. CleanEntry(e, mode) = [provider |-> e.provider, model |-> e.model, status |-> e.status, error |-> t]
    BY <1>2, <2>1 DEF IsFallback
  <2>3. Cut(e) = [provider |-> e.provider, model |-> IF mode = "audit" THEN e.model ELSE Blank,
                  status |-> e.status, error |-> t]
    BY <2>2
  <2> QED BY <2>3 DEF t
<1>3. DOMAIN s = 1 .. Len(s) /\ Len(s) \in Nat
  BY DEF IsList
<1> HIDE DEF Cut
<1>4. d \in Seq(Elements(d)) /\ Len(d) = Len(s)
  <2>1. d = [k \in 1 .. Len(s) |-> d[k]]
    BY <1>1, <1>3
  <2>2. \A k \in 1 .. Len(s) : d[k] \in Elements(d)
    BY <1>1, <1>3 DEF Elements
  <2> HIDE DEF d
  <2> QED BY <1>3, <2>1, <2>2
<1>5. ASSUME NEW k \in DOMAIN s
      PROVE  /\ IsFallback(d[k])
             /\ d[k].provider = s[k].provider /\ d[k].status = s[k].status
             /\ d[k].model = IF mode = "audit" THEN s[k].model ELSE Blank
             /\ d[k].error = Kept(mode, s[k].error)
  <2>1. s[k].error \in Texts
    BY DEF IsFallback
  <2>2. Kept(mode, s[k].error) \in Texts
    BY <2>1, KeptTexts
  <2> DEFINE t == Kept(mode, s[k].error)
  <2>3. d[k] = [provider |-> s[k].provider, model |-> IF mode = "audit" THEN s[k].model ELSE Blank,
                status |-> s[k].status, error |-> t] /\ t \in Texts
    BY <1>1, <1>2, <2>2
  <2> HIDE DEF t, d
  <2> QED BY <2>3 DEF IsFallback, t
<1> HIDE DEF d
<1>6. DOMAIN d = DOMAIN s
  BY <1>1
<1> QED BY <1>4, <1>5, <1>6 DEF d, IsList

\* Cleaning a fallback history twice is cleaning it strictly.
LEMMA CleanFallbackTwice ==
  ASSUME NEW s, IsList(s), \A k \in DOMAIN s : IsFallback(s[k]), NEW one, NEW two, Settles(one, two)
  PROVE  CleanFallback(CleanFallback(s, one), two) = CleanFallback(s, "strict")
<1> DEFINE a == CleanFallback(s, one)
           b == CleanFallback(a, two)
           d == CleanFallback(s, "strict")
<1>1. DOMAIN a = DOMAIN s /\ IsList(a) /\ (\A k \in DOMAIN a : IsFallback(a[k]))
      /\ DOMAIN d = DOMAIN s
  BY CleanFallbackEntries
<1>2. DOMAIN b = DOMAIN s
  BY <1>1, CleanFallbackEntries
<1>3. ASSUME NEW k \in DOMAIN s
      PROVE  b[k] = d[k]
  <2>1. /\ IsFallback(s[k]) /\ IsFallback(a[k]) /\ IsFallback(d[k])
        /\ a[k].provider = s[k].provider /\ a[k].status = s[k].status
        /\ a[k].model = (IF one = "audit" THEN s[k].model ELSE Blank)
        /\ a[k].error = Kept(one, s[k].error)
        /\ d[k].provider = s[k].provider /\ d[k].status = s[k].status
        /\ d[k].model = (IF "strict" = "audit" THEN s[k].model ELSE Blank)
        /\ d[k].error = Kept("strict", s[k].error)
    BY CleanFallbackEntries
  <2>2. /\ IsFallback(b[k]) /\ b[k].provider = a[k].provider /\ b[k].status = a[k].status
        /\ b[k].model = (IF two = "audit" THEN a[k].model ELSE Blank)
        /\ b[k].error = Kept(two, a[k].error)
    BY <1>1, CleanFallbackEntries
  <2>3. b[k].error = d[k].error
    BY <2>1, <2>2, KeptTwice DEF IsFallback
  <2>4. b[k].model = d[k].model
    BY <2>1, <2>2 DEF Settles
  <2> HIDE DEF a, b, d
  <2> QED BY <2>1, <2>2, <2>3, <2>4 DEF IsFallback
<1>4. b = [k \in DOMAIN b |-> b[k]] /\ d = [k \in DOMAIN d |-> d[k]]
  BY DEF CleanFallback
<1> HIDE DEF a, b, d
<1> QED BY <1>1, <1>2, <1>3, <1>4 DEF a, b, d

\* Cleaning a health record keeps what a view tells of it, and is done once.
LEMMA CleanHealthEntries ==
  ASSUME NEW entries, \A q \in DOMAIN entries : IsHealth(entries[q])
  PROVE  LET d == CleanHealth(entries) IN
         /\ DOMAIN d = DOMAIN entries
         /\ \A q \in DOMAIN entries :
              /\ IsHealth(d[q]) /\ d[q].model = entries[q].model /\ d[q].status = entries[q].status
              /\ d[q].outcome = entries[q].outcome /\ d[q].check = entries[q].check
              /\ d[q].retryable = {}
              /\ RetryableFailure(d[q]) <=> RetryableFailure(entries[q])
              /\ LiveCheck(d[q]) <=> LiveCheck(entries[q])
         /\ CleanHealth(d) = d
<1> DEFINE d == CleanHealth(entries)
<1>1. DOMAIN d = DOMAIN entries /\ \A q \in DOMAIN entries : d[q] = [entries[q] EXCEPT !.retryable = {}]
  BY DEF CleanHealth
<1>2. ASSUME NEW e, NEW x, IsHealth(e), x = [e EXCEPT !.retryable = {}]
      PROVE  /\ IsHealth(x) /\ x.model = e.model /\ x.status = e.status
             /\ x.outcome = e.outcome /\ x.check = e.check /\ x.retryable = {}
             /\ RetryableFailure(x) <=> RetryableFailure(e)
             /\ LiveCheck(x) <=> LiveCheck(e)
             /\ [x EXCEPT !.retryable = {}] = x
  <2>1. x = [model |-> e.model, status |-> e.status, outcome |-> e.outcome, retryable |-> {}, check |-> e.check]
    BY <1>2 DEF IsHealth
  <2>2. x.model = e.model /\ x.status = e.status /\ x.outcome = e.outcome /\ x.check = e.check /\ x.retryable = {}
    BY <2>1
  <2>3. IsHealth(x)
    <3>1. x = [model |-> x.model, status |-> x.status, outcome |-> x.outcome,
               retryable |-> x.retryable, check |-> x.check]
      BY <2>1
    <3> QED BY <2>2, <3>1 DEF IsHealth
  <2>4. RetryableFailure(x) <=> RetryableFailure(e)
    BY <1>2, <2>2 DEF RetryableFailure, IsHealth
  <2>5. [x EXCEPT !.retryable = {}] = x
    BY <2>1
  <2> QED BY <2>2, <2>3, <2>4, <2>5 DEF LiveCheck
<1> HIDE DEF d
<1>3. ASSUME NEW q \in DOMAIN entries
      PROVE  /\ IsHealth(d[q]) /\ d[q].model = entries[q].model /\ d[q].status = entries[q].status
             /\ d[q].outcome = entries[q].outcome /\ d[q].check = entries[q].check
             /\ d[q].retryable = {}
             /\ RetryableFailure(d[q]) <=> RetryableFailure(entries[q])
             /\ LiveCheck(d[q]) <=> LiveCheck(entries[q])
             /\ [d[q] EXCEPT !.retryable = {}] = d[q]
  <2>1. IsHealth(entries[q]) /\ d[q] = [entries[q] EXCEPT !.retryable = {}]
    BY <1>1
  <2> QED BY <1>2, <2>1
<1>4. CleanHealth(d) = d
  <2>1. CleanHealth(d) = [q \in DOMAIN entries |-> d[q]]
    BY <1>1, <1>3 DEF CleanHealth
  <2>2. d = [q \in DOMAIN entries |-> d[q]]
    BY DEF d, CleanHealth
  <2> QED BY <2>1, <2>2
<1> QED BY <1>1, <1>3, <1>4 DEF d

\* The flags and the clock of a record that was cleaned already.
LEMMA CleanBudgetAgain ==
  ASSUME NEW c, NEW d, c.flags.limited \in BOOLEAN, d.counters = {}, d.flags = CleanBudget(c)
  PROVE  CleanBudget(d) = CleanBudget(c)
<1>1. CleanBudget(d) = CallFlags(d.flags.limited \/ d.flags.limitedOf # {}, d.flags.exhausted, d.flags.limitedOf,
                   {q \in d.flags.exhaustedOf : q \in d.flags.limitedOf \/ d.flags.limitedOf = {}})
  BY DEF CleanBudget
<1>2. CASE c.counters = {}
  <2> DEFINE m == c.flags
             of == m.limitedOf
             spent == {q \in m.exhaustedOf : q \in of \/ of = {}}
             any == m.limited \/ of # {}
  <2>1. CleanBudget(c) = CallFlags(any, m.exhausted, of, spent)
    BY <1>2 DEF CleanBudget
  <2>2. (any \/ of # {}) = any
    OBVIOUS
  <2>3. {q \in spent : q \in of \/ of = {}} = spent
    OBVIOUS
  <2>4. d.flags = CallFlags(any, m.exhausted, of, spent)
    BY <2>1
  <2> HIDE DEF any, of, spent
  <2>5. d.flags.limited = any /\ d.flags.exhausted = m.exhausted /\ d.flags.limitedOf = of /\ d.flags.exhaustedOf = spent
    BY <2>4 DEF CallFlags
  <2>6. CleanBudget(d) = CallFlags(any \/ of # {}, m.exhausted, of, {q \in spent : q \in of \/ of = {}})
    BY <1>1, <2>5
  <2> QED BY <2>1, <2>2, <2>3, <2>6
<1>3. CASE c.counters # {}
  <2> DEFINE n == The(c.counters)
             of == Limited(n.max)
             spent == {q \in of : n.leftOf[q] <= 0}
             any == Budgeted(n.perAgent, n.max)
             out == n.perAgent > 0 /\ n.left <= 0
  <2>1. CleanBudget(c) = CallFlags(any, out, of, spent)
    BY <1>3 DEF CleanBudget
  <2>2. (any \/ of # {}) = any
    BY DEF Budgeted
  <2>3. {q \in spent : q \in of \/ of = {}} = spent
    OBVIOUS
  <2>4. d.flags = CallFlags(any, out, of, spent)
    BY <2>1
  <2> HIDE DEF any, of, spent, out
  <2>5. d.flags.limited = any /\ d.flags.exhausted = out /\ d.flags.limitedOf = of /\ d.flags.exhaustedOf = spent
    BY <2>4 DEF CallFlags
  <2>6. CleanBudget(d) = CallFlags(any \/ of # {}, out, of, {q \in spent : q \in of \/ of = {}})
    BY <1>1, <2>5
  <2> QED BY <2>1, <2>2, <2>3, <2>6
<1> QED BY <1>2, <1>3

\* The clock of a record that was cleaned already.
LEMMA CleanElapsedAgain ==
  ASSUME NEW c, NEW d, d.clock = {}, d.elapsed = CleanElapsed(c)
  PROVE  CleanElapsed(d) = CleanElapsed(c)
<1> DEFINE a == c.elapsed.limited \/ \E k \in c.clock : k.max > 0
           b == c.elapsed.exhausted \/ \E k \in c.clock : \E left \in k.left : left <= 0
<1>1. d.elapsed = [limited |-> a, exhausted |-> b]
  BY DEF CleanElapsed
<1>2. a \in BOOLEAN /\ b \in BOOLEAN
  OBVIOUS
<1> HIDE DEF a, b
<1>3. CleanElapsed(d) = [limited |-> a, exhausted |-> b]
  BY <1>1, <1>2 DEF CleanElapsed
<1> QED BY <1>1, <1>3

\* What the parts of a record are.
LEMMA CallParts ==
  ASSUME NEW c, IsCall(c)
  PROVE  /\ DOMAIN c = CallFields
         /\ c.error \in Texts /\ c.message \in Texts /\ c.reason \in Texts
         /\ IsOption(c.success) /\ IsOption(c.used) /\ IsOption(c.total) /\ IsOption(c.latency)
         /\ IsOption(c.counters) /\ IsOption(c.clock) /\ IsOption(c.history)
BY DEF IsCall, CallFields

\* Cleaned flags are flags of a call.
LEMMA CleanBudgetFlags ==
  ASSUME NEW c, c.flags.limited \in BOOLEAN, c.flags.exhausted \in BOOLEAN
  PROVE  LET m == CleanBudget(c) IN
         /\ m = CallFlags(m.limited, m.exhausted, m.limitedOf, m.exhaustedOf)
         /\ m.limited \in BOOLEAN /\ m.exhausted \in BOOLEAN
<1> DEFINE m == CleanBudget(c)
<1>1. ASSUME NEW a, NEW b, NEW of, NEW spent, m = CallFlags(a, b, of, spent), a \in BOOLEAN, b \in BOOLEAN
      PROVE  /\ m = CallFlags(m.limited, m.exhausted, m.limitedOf, m.exhaustedOf)
             /\ m.limited \in BOOLEAN /\ m.exhausted \in BOOLEAN
  <2> HIDE DEF m
  <2>1. m.limited = a /\ m.exhausted = b /\ m.limitedOf = of /\ m.exhaustedOf = spent
    BY <1>1 DEF CallFlags
  <2> QED BY <1>1, <2>1
<1>2. CASE c.counters = {}
  <2> DEFINE of == c.flags.limitedOf
             spent == {q \in c.flags.exhaustedOf : q \in of \/ of = {}}
             any == c.flags.limited \/ of # {}
             out == c.flags.exhausted
  <2>1. CleanBudget(c) = CallFlags(any, out, of, spent)
    BY <1>2 DEF CleanBudget
  <2>2. any \in BOOLEAN /\ out \in BOOLEAN
    OBVIOUS
  <2> HIDE DEF any, out, of, spent
  <2> QED BY <1>1, <2>1, <2>2
<1>3. CASE c.counters # {}
  <2> DEFINE n == The(c.counters)
             of == Limited(n.max)
             spent == {q \in of : n.leftOf[q] <= 0}
             any == Budgeted(n.perAgent, n.max)
             out == n.perAgent > 0 /\ n.left <= 0
  <2>1. CleanBudget(c) = CallFlags(any, out, of, spent)
    BY <1>3 DEF CleanBudget
  <2>2. any \in BOOLEAN /\ out \in BOOLEAN
    BY DEF Budgeted
  <2> HIDE DEF any, of, spent, out
  <2> QED BY <1>1, <2>1, <2>2
<1> QED BY <1>2, <1>3

\* A cleaned record is a record.
LEMMA CleanIsCall ==
  ASSUME NEW c, IsCall(c), NEW mode
  PROVE  IsCall(Clean(c, mode)) /\ Cleans(c, Clean(c, mode), mode)
<1> DEFINE d == Clean(c, mode)
<1>1. DOMAIN c = CallFields
  BY CallParts
<1>2. Cleans(c, d, mode)
  BY <1>1, CleanFields
<1> HIDE DEF d
<1>3. DOMAIN d = DOMAIN PlainCall(Blank, Blank, TRUE)
  BY <1>2 DEF Cleans, CallFields
<1>4. {d.error, d.message, d.reason} \subseteq Texts
  <2>1. c.error \in Texts /\ c.message \in Texts /\ c.reason \in Texts
    BY CallParts
  <2>2. Kept(mode, c.error) \in Texts /\ Kept(mode, c.message) \in Texts /\ Flag(c.reason) \in Texts
    <3>1. Kept(mode, c.error) \in Texts /\ Kept(mode, c.message) \in Texts
      BY <2>1, KeptTexts
    <3>2. Flag(c.reason) \in Texts
      BY <2>1 DEF Flag, Texts
    <3> QED BY <3>1, <3>2
  <2> QED BY <1>2, <2>2 DEF Cleans
<1>5. \A x \in {"success", "used", "total", "latency", "counters", "clock", "history"} : IsOption(d[x])
  <2>1. IsOption(d.history)
    <3>1. \A a, b \in c.history : a = b
      BY CallParts DEF IsOption
    <3>2. d.history = {CleanHistory(h, mode) : h \in c.history}
      BY <1>2 DEF Cleans
    <3> QED BY <3>1, <3>2 DEF IsOption
  <2>2. IsOption(d.success) /\ IsOption(d.used) /\ IsOption(d.total) /\ IsOption(d.latency)
    BY <1>2, CallParts DEF Cleans
  <2>3. IsOption(d.counters) /\ IsOption(d.clock)
    BY <1>2 DEF Cleans, IsOption
  <2> QED BY <2>1, <2>2, <2>3
<1>6. d.used \subseteq Nat
  BY <1>2 DEF Cleans, IsCall
<1>7. \A h \in d.history : h \in Seq(Attempt)
  <2>1. \A h \in c.history : CleanHistory(h, mode) \in Seq(Attempt)
    BY CleanAttempts DEF IsCall
  <2> QED BY <1>2, <2>1 DEF Cleans
<1>8. IsList(d.fallback) /\ \A k \in DOMAIN d.fallback : IsFallback(d.fallback[k])
  <2>1. IsList(c.fallback) /\ \A k \in DOMAIN c.fallback : IsFallback(c.fallback[k])
    BY DEF IsCall
  <2>2. /\ IsList(CleanFallback(c.fallback, mode))
        /\ \A k \in DOMAIN CleanFallback(c.fallback, mode) : IsFallback(CleanFallback(c.fallback, mode)[k])
    BY <2>1, CleanFallbackEntries
  <2> QED BY <1>2, <2>2 DEF Cleans
<1>9. \A q \in DOMAIN d.health : IsHealth(d.health[q])
  <2>1. \A q \in DOMAIN c.health : IsHealth(c.health[q])
    BY DEF IsCall
  <2>2. \A q \in DOMAIN CleanHealth(c.health) : IsHealth(CleanHealth(c.health)[q])
    BY <2>1, CleanHealthEntries
  <2> QED BY <1>2, <2>2 DEF Cleans
<1>10. /\ d.flags = CallFlags(d.flags.limited, d.flags.exhausted, d.flags.limitedOf, d.flags.exhaustedOf)
       /\ d.flags.limited \in BOOLEAN /\ d.flags.exhausted \in BOOLEAN
  <2>1. c.flags.limited \in BOOLEAN /\ c.flags.exhausted \in BOOLEAN
    BY DEF IsCall
  <2> QED BY <1>2, <2>1, CleanBudgetFlags DEF Cleans
<1>11. d.elapsed \in [limited : BOOLEAN, exhausted : BOOLEAN]
  <2> DEFINE a == c.elapsed.limited \/ \E k \in c.clock : k.max > 0
             b == c.elapsed.exhausted \/ \E k \in c.clock : \E left \in k.left : left <= 0
  <2>1. d.elapsed = [limited |-> a, exhausted |-> b]
    BY <1>2 DEF CleanElapsed, Cleans
  <2>2. a \in BOOLEAN /\ b \in BOOLEAN
    OBVIOUS
  <2> HIDE DEF a, b
  <2> QED BY <2>1, <2>2
<1>12. d.counters = {} /\ d.clock = {}
  BY <1>2 DEF Cleans
<1>13. IsCall(d)
  BY <1>3, <1>4, <1>5, <1>6, <1>7, <1>8, <1>9, <1>10, <1>11, <1>12 DEF IsCall
<1> QED BY <1>2, <1>13 DEF d

\* Cleaning a record again, in either mode, gives the strict record.
LEMMA CleanAgain ==
  ASSUME NEW c, IsCall(c), NEW one, NEW two, Settles(one, two)
  PROVE  Clean(Clean(c, one), two) = Strict(c)
<1> DEFINE a == Clean(c, one)
           b == Clean(a, two)
           d == Clean(c, "strict")
<1>1. IsCall(a) /\ Cleans(c, a, one) /\ Cleans(c, d, "strict")
  BY CleanIsCall
<1>2. Cleans(a, b, two)
  BY <1>1, CleanIsCall
<1> HIDE DEF a, b, d
<1>3. /\ b = [x \in CallFields |-> b[x]] /\ d = [x \in CallFields |-> d[x]]
      /\ b.provider = d.provider /\ b.model = d.model /\ b.success = d.success
      /\ b.used = d.used /\ b.total = d.total /\ b.latency = d.latency /\ b.usage = d.usage
      /\ b.counters = d.counters /\ b.clock = d.clock
  BY <1>1, <1>2 DEF Cleans
<1>4. b.error = d.error /\ b.message = d.message /\ b.reason = d.reason
  <2>1. c.error \in Texts /\ c.message \in Texts /\ c.reason \in Texts
    BY CallParts
  <2>2. /\ Kept(two, Kept(one, c.error)) = Kept("strict", c.error)
        /\ Kept(two, Kept(one, c.message)) = Kept("strict", c.message)
        /\ Flag(Flag(c.reason)) = Flag(c.reason)
    BY <2>1, KeptTwice, KeptTexts
  <2> QED BY <1>1, <1>2, <2>2 DEF Cleans
<1>5. b.history = d.history
  <2>1. \A h \in c.history : CleanHistory(CleanHistory(h, one), two) = CleanHistory(h, "strict")
    BY CleanTwice DEF IsCall
  <2>2. /\ a.history = {CleanHistory(h, one) : h \in c.history}
        /\ b.history = {CleanHistory(h, two) : h \in a.history}
        /\ d.history = {CleanHistory(h, "strict") : h \in c.history}
    BY <1>1, <1>2 DEF Cleans
  <2>3. b.history = {CleanHistory(CleanHistory(h, one), two) : h \in c.history}
    BY <2>2
  <2> QED BY <2>1, <2>2, <2>3
<1>6. b.fallback = d.fallback
  <2>1. CleanFallback(CleanFallback(c.fallback, one), two) = CleanFallback(c.fallback, "strict")
    BY CleanFallbackTwice DEF IsCall
  <2> QED BY <1>1, <1>2, <2>1 DEF Cleans
<1>7. b.health = d.health
  <2>1. CleanHealth(CleanHealth(c.health)) = CleanHealth(c.health)
    BY CleanHealthEntries DEF IsCall
  <2> QED BY <1>1, <1>2, <2>1 DEF Cleans
<1>8. b.flags = d.flags
  <2>1. CleanBudget(a) = CleanBudget(c)
    <3>1. c.flags.limited \in BOOLEAN
      BY DEF IsCall
    <3>2. a.counters = {} /\ a.flags = CleanBudget(c)
      BY <1>1 DEF Cleans
    <3> QED BY <3>1, <3>2, CleanBudgetAgain
  <2> QED BY <1>1, <1>2, <2>1 DEF Cleans
<1>9. b.elapsed = d.elapsed
  <2>1. CleanElapsed(a) = CleanElapsed(c)
    BY <1>1, CleanElapsedAgain DEF Cleans
  <2> QED BY <1>1, <1>2, <2>1 DEF Cleans
<1>10. b = d
  BY <1>3, <1>4, <1>5, <1>6, <1>7, <1>8, <1>9, SameRecords
<1> QED BY <1>10 DEF a, b, d, Strict

\* The element of an option.
LEMMA OnlyElement ==
  ASSUME NEW S, IsOption(S), NEW x \in S
  PROVE  The(S) = x
BY DEF IsOption, The

\* No mode lets a credential through, and the strict one lets no text through.
LEMMA TextsAreHidden ==
  ASSUME NEW c, IsCall(c)
  PROVE  "secret" \notin ShownTexts(Audit(c)) /\ ShownTexts(Strict(c)) \subseteq {"none", "flag"}
<1>1. ASSUME NEW mode, NEW Shown_, \A t \in Texts : Kept(mode, t) \in Shown_ /\ Flag(t) \in Shown_
      PROVE  ShownTexts(Clean(c, mode)) \subseteq Shown_
  <2> DEFINE d == Clean(c, mode)
  <2>1. Cleans(c, d, mode)
    BY CleanIsCall
  <2> HIDE DEF d
  <2>2. {d.error, d.message, d.reason} \subseteq Shown_
    BY <1>1, <2>1, CallParts DEF Cleans
  <2>3. ASSUME NEW h \in d.history, NEW e \in Elements(h)
        PROVE  e.error \in Shown_
    <3>1. PICK g \in c.history : h = CleanHistory(g, mode)
      BY <2>1 DEF Cleans
    <3>2. g \in Seq(Attempt)
      BY DEF IsCall
    <3>3. PICK k \in DOMAIN h : e = h[k]
      BY DEF Elements
    <3>4. k \in DOMAIN g /\ g[k] \in Attempt /\ h[k].error = Kept(mode, g[k].error)
      BY <3>1, <3>2, CleanAttempts
    <3> QED BY <1>1, <3>3, <3>4 DEF Attempt
  <2>4. ASSUME NEW e \in Elements(d.fallback)
        PROVE  e.error \in Shown_
    <3>1. IsList(c.fallback) /\ \A k \in DOMAIN c.fallback : IsFallback(c.fallback[k])
      BY DEF IsCall
    <3>2. d.fallback = CleanFallback(c.fallback, mode)
      BY <2>1 DEF Cleans
    <3>3. PICK k \in DOMAIN d.fallback : e = d.fallback[k]
      BY DEF Elements
    <3>4. k \in DOMAIN c.fallback /\ d.fallback[k].error = Kept(mode, c.fallback[k].error)
      BY <3>1, <3>2, CleanFallbackEntries
    <3> QED BY <1>1, <3>1, <3>3, <3>4 DEF IsFallback
  <2>5. \A h \in d.history \cup {d.fallback} : \A e \in Elements(h) : e.error \in Shown_
    BY <2>3, <2>4
  <2> QED BY <2>2, <2>5 DEF ShownTexts, d
<1>2. \A t \in Texts : Kept("strict", t) \in {"none", "flag"} /\ Flag(t) \in {"none", "flag"}
  BY KeptTexts
<1>3. \A t \in Texts : Kept("audit", t) \in Texts \ {"secret"} /\ Flag(t) \in Texts \ {"secret"}
  <2>1. {"none", "flag"} \subseteq Texts \ {"secret"}
    BY DEF Texts
  <2> QED BY <2>1, KeptTexts
<1>4. ShownTexts(Clean(c, "strict")) \subseteq {"none", "flag"}
  BY <1>1, <1>2
<1>5. ShownTexts(Clean(c, "audit")) \subseteq Texts \ {"secret"}
  BY <1>1, <1>3
<1> QED BY <1>4, <1>5 DEF Strict, Audit

\* The counters of an earlier version become the flags of this one.
LEMMA CountersBecomeFlags ==
  ASSUME NEW c, IsCall(c), NEW n \in c.counters
  PROVE  BudgetSummary(c) = BudgetFlags(n.perAgent, n.max, n.perAgent - n.left,
                              [q \in DOMAIN n.max |-> n.max[q] - n.leftOf[q]])
<1> DEFINE spent == [q \in DOMAIN n.max |-> n.max[q] - n.leftOf[q]]
           of == Limited(n.max)
<1>1. The(c.counters) = n /\ c.counters # {}
  BY CallParts, OnlyElement
<1>2. IsBudget(n)
  BY DEF IsCall
<1>3. (n.perAgent > 0 /\ n.left <= 0) = (n.perAgent > 0 /\ n.perAgent - n.left >= n.perAgent)
  BY <1>2 DEF IsBudget
<1>4. {q \in of : n.leftOf[q] <= 0} = {q \in of : spent[q] >= n.max[q]}
  <2>1. ASSUME NEW q \in of PROVE n.leftOf[q] <= 0 <=> spent[q] >= n.max[q]
    <3>1. q \in DOMAIN n.max /\ n.max[q] \in Int /\ n.leftOf[q] \in Int
      BY <1>2 DEF IsBudget, Limited
    <3>2. spent[q] = n.max[q] - n.leftOf[q]
      BY <3>1
    <3> QED BY <3>1, <3>2
  <2> QED BY <2>1
<1>5. BudgetSummary(c) = CallFlags(Budgeted(n.perAgent, n.max), n.perAgent > 0 /\ n.left <= 0, of,
                                   {q \in of : n.leftOf[q] <= 0})
  BY <1>1 DEF BudgetSummary, CleanBudget
<1>6. BudgetFlags(n.perAgent, n.max, n.perAgent - n.left, spent)
        = CallFlags(Budgeted(n.perAgent, n.max), n.perAgent > 0 /\ n.perAgent - n.left >= n.perAgent, of,
                    {q \in of : spent[q] >= n.max[q]})
  BY DEF BudgetFlags
<1> HIDE DEF spent, of
<1>7. BudgetSummary(c) = BudgetFlags(n.perAgent, n.max, n.perAgent - n.left, spent)
  BY <1>3, <1>4, <1>5, <1>6
<1> QED BY <1>7 DEF spent

\* So does the clock of an earlier version.
LEMMA ClocksBecomeFlags ==
  ASSUME NEW c, IsCall(c), NEW k \in c.clock, NEW left \in k.left
  PROVE  CleanElapsed(c) = ElapsedFlags(k.max, k.max - left)
<1>1. IsClock(k) /\ c.elapsed = NoElapsed
  BY DEF IsCall
<1>2. \A x \in c.clock : x = k
  BY CallParts DEF IsOption
<1>3. \A x \in k.left : x = left
  BY <1>1 DEF IsClock, IsOption
<1>4. k.max \in Int /\ left \in Int /\ k.max > 0
  BY <1>1 DEF IsClock
<1>5. (\E x \in c.clock : x.max > 0) <=> k.max > 0
  BY <1>2
<1>6. (\E x \in c.clock : \E y \in x.left : y <= 0) <=> k.max > 0 /\ k.max - left >= k.max
  <2>1. (\E x \in c.clock : \E y \in x.left : y <= 0) <=> left <= 0
    BY <1>2, <1>3
  <2>2. left <= 0 <=> k.max > 0 /\ k.max - left >= k.max
    BY <1>4
  <2> QED BY <2>1, <2>2
<1>7. c.elapsed.limited = FALSE /\ c.elapsed.exhausted = FALSE
  BY <1>1 DEF NoElapsed
<1> QED BY <1>5, <1>6, <1>7 DEF CleanElapsed, ElapsedFlags

\* Every record that an agent writes, or wrote, cleans well.
LEMMA CallsCleanWell ==
  ASSUME NEW c, IsCall(c)
  PROVE  CleansWell(c)
<1>1. Strict(Audit(c)) = Strict(c) /\ Audit(Strict(c)) = Strict(c)
  BY CleanAgain DEF Settles, Strict, Audit
<1> QED BY <1>1, TextsAreHidden, CountersBecomeFlags, ClocksBecomeFlags DEF CleansWell

\* What is counted of a call; it has no more retries than attempts.
LEMMA CallCounts ==
  ASSUME NEW c, IsCall(c)
  PROVE  /\ AttemptCount(c) \in Nat /\ RetryCount(c) \in Nat
         /\ RetryCount(c) <= AttemptCount(c)
         /\ RetryCount(c) = AttemptCount(c) /\ AttemptCount(c) > 0 =>
              \E h \in c.history : \A k \in DOMAIN h : ~h[k].success /\ h[k].retryable
<1>1. CASE c.history # {}
  <2>1. PICK h : h \in c.history
    BY <1>1
  <2>2. The(c.history) = h /\ h \in Seq(Attempt)
    BY <2>1, CallParts, OnlyElement DEF IsCall
  <2> DEFINE S == {k \in DOMAIN h : ~h[k].success /\ h[k].retryable}
  <2>3. AttemptCount(c) = Len(h) /\ RetryCount(c) = Cardinality(S)
    BY <1>1, <2>2 DEF AttemptCount, RetryCount
  <2>4. Len(h) \in Nat /\ DOMAIN h = 1 .. Len(h)
    BY <2>2
  <2>5. IsFiniteSet(DOMAIN h) /\ Cardinality(DOMAIN h) = Len(h)
    <3>1. IsFiniteSet(1 .. Len(h)) /\ Cardinality(1 .. Len(h)) = IF 1 > Len(h) THEN 0 ELSE Len(h) - 1 + 1
      BY <2>4, FS_Interval
    <3> QED BY <2>4, <3>1
  <2>6. IsFiniteSet(S) /\ Cardinality(S) <= Len(h) /\ (Cardinality(S) = Len(h) => S = DOMAIN h)
    BY <2>5, FS_Subset
  <2>7. Cardinality(S) \in Nat
    BY <2>6, FS_CardinalityType
  <2>8. S = DOMAIN h => \A k \in DOMAIN h : ~h[k].success /\ h[k].retryable
    OBVIOUS
  <2> HIDE DEF S
  <2> QED BY <2>1, <2>3, <2>4, <2>6, <2>7, <2>8
<1>2. CASE c.history = {}
  <2>1. AttemptCount(c) \in Nat
    <3>1. c.used # {} => The(c.used) \in Nat
      BY DEF IsCall, The
    <3> QED BY <1>2, <3>1 DEF AttemptCount
  <2>2. RetryCount(c) = IF AttemptCount(c) <= 1 THEN 0 ELSE AttemptCount(c) - 1
    BY <1>2 DEF RetryCount
  <2> QED BY <2>1, <2>2
<1> QED BY <1>1, <1>2

-----------------------------------------------------------------------------
(* Records that the public view cannot tell apart.                         *)

\* Records that the public view cannot tell apart.
SameEntry(a, b) ==
  /\ a.model = b.model /\ a.status = b.status /\ a.outcome = b.outcome
  /\ RetryableFailure(a) = RetryableFailure(b) /\ LiveCheck(a) = LiveCheck(b)

SameCall(c, d) ==
  /\ c.provider = d.provider /\ c.success = d.success /\ c.usage = d.usage
  /\ AttemptCount(c) = AttemptCount(d) /\ RetryCount(c) = RetryCount(d)
  /\ AnyDuration(c) = AnyDuration(d)
  /\ DOMAIN c.health = DOMAIN d.health
  /\ \A q \in DOMAIN c.health : SameEntry(c.health[q], d.health[q])
  /\ DOMAIN c.fallback = DOMAIN d.fallback /\ (c.fallback = << >> <=> d.fallback = << >>)
  /\ \A k \in DOMAIN c.fallback :
       c.fallback[k].provider = d.fallback[k].provider /\ c.fallback[k].status = d.fallback[k].status
  /\ FinalError(c) = FinalError(d) /\ FallbackErrors(c) = FallbackErrors(d)

\* Cleaning keeps the counts of a call.
LEMMA SameCounts ==
  ASSUME NEW c, IsCall(c), NEW d, d.used = c.used,
         d.history = {CleanHistory(h, "strict") : h \in c.history}
  PROVE  AttemptCount(c) = AttemptCount(d) /\ RetryCount(c) = RetryCount(d)
<1>1. CASE c.history # {}
  <2>1. PICK h : h \in c.history
    BY <1>1
  <2> DEFINE g == CleanHistory(h, "strict")
  <2>2. The(c.history) = h /\ h \in Seq(Attempt)
    BY <2>1, CallParts, OnlyElement DEF IsCall
  <2>3. \A x \in c.history : x = h
    BY <2>1, CallParts DEF IsOption
  <2>4. d.history = {g}
    BY <2>1, <2>3
  <2>5. d.history # {} /\ The(d.history) = g
    BY <2>4 DEF The
  <2>6. DOMAIN g = DOMAIN h /\ Len(g) = Len(h)
        /\ \A k \in DOMAIN h : g[k].success = h[k].success /\ g[k].retryable = h[k].retryable
    BY <2>2, CleanAttempts
  <2> HIDE DEF g
  <2>7. {k \in DOMAIN h : ~h[k].success /\ h[k].retryable} = {k \in DOMAIN g : ~g[k].success /\ g[k].retryable}
    BY <2>6
  <2>8. AttemptCount(c) = Len(h) /\ AttemptCount(d) = Len(g)
    BY <1>1, <2>2, <2>5 DEF AttemptCount
  <2>9. /\ RetryCount(c) = Cardinality({k \in DOMAIN h : ~h[k].success /\ h[k].retryable})
        /\ RetryCount(d) = Cardinality({k \in DOMAIN g : ~g[k].success /\ g[k].retryable})
    BY <1>1, <2>2, <2>5 DEF RetryCount
  <2> QED BY <2>6, <2>7, <2>8, <2>9
<1>2. CASE c.history = {}
  <2>1. d.history = {}
    BY <1>2
  <2>2. AttemptCount(c) = AttemptCount(d)
    BY <1>2, <2>1 DEF AttemptCount
  <2> QED BY <1>2, <2>1, <2>2 DEF RetryCount
<1> QED BY <1>1, <1>2

\* The public view cannot tell a record from its strict form.
LEMMA CleanIsSame ==
  ASSUME NEW c, IsCall(c)
  PROVE  SameCall(c, Strict(c))
<1> DEFINE d == Clean(c, "strict")
<1>1. Cleans(c, d, "strict")
  BY CleanIsCall
<1> HIDE DEF d
<1>2. AttemptCount(c) = AttemptCount(d) /\ RetryCount(c) = RetryCount(d)
  BY <1>1, SameCounts DEF Cleans
<1>3. /\ c.provider = d.provider /\ c.success = d.success /\ c.usage = d.usage
      /\ AnyDuration(c) = AnyDuration(d)
  BY <1>1 DEF Cleans, AnyDuration
<1>4. /\ DOMAIN c.health = DOMAIN d.health
      /\ \A q \in DOMAIN c.health : SameEntry(c.health[q], d.health[q])
  <2>1. d.health = CleanHealth(c.health) /\ \A q \in DOMAIN c.health : IsHealth(c.health[q])
    BY <1>1 DEF Cleans, IsCall
  <2>2. DOMAIN d.health = DOMAIN c.health
    BY <2>1, CleanHealthEntries
  <2>3. ASSUME NEW q \in DOMAIN c.health
        PROVE  SameEntry(c.health[q], d.health[q])
    <3>1. /\ d.health[q].model = c.health[q].model /\ d.health[q].status = c.health[q].status
          /\ d.health[q].outcome = c.health[q].outcome /\ d.health[q].check = c.health[q].check
          /\ RetryableFailure(d.health[q]) <=> RetryableFailure(c.health[q])
      BY <2>1, CleanHealthEntries
    <3>2. RetryableFailure(d.health[q]) \in BOOLEAN /\ RetryableFailure(c.health[q]) \in BOOLEAN
      BY DEF RetryableFailure
    <3> QED BY <3>1, <3>2 DEF SameEntry, LiveCheck
  <2> QED BY <2>2, <2>3
<1>5. /\ DOMAIN c.fallback = DOMAIN d.fallback /\ (c.fallback = << >> <=> d.fallback = << >>)
      /\ \A k \in DOMAIN c.fallback :
           c.fallback[k].provider = d.fallback[k].provider /\ c.fallback[k].status = d.fallback[k].status
      /\ FallbackErrors(c) = FallbackErrors(d)
  <2>1. /\ d.fallback = CleanFallback(c.fallback, "strict")
        /\ IsList(c.fallback) /\ \A k \in DOMAIN c.fallback : IsFallback(c.fallback[k])
    BY <1>1 DEF Cleans, IsCall
  <2>2. /\ DOMAIN d.fallback = DOMAIN c.fallback /\ IsList(d.fallback)
        /\ \A k \in DOMAIN c.fallback :
             /\ d.fallback[k].provider = c.fallback[k].provider /\ d.fallback[k].status = c.fallback[k].status
             /\ d.fallback[k].error = Kept("strict", c.fallback[k].error)
    BY <2>1, CleanFallbackEntries
  <2>3. c.fallback = << >> <=> d.fallback = << >>
    <3>1. c.fallback = << >> <=> DOMAIN c.fallback = {}
      BY <2>1 DEF IsList
    <3>2. d.fallback = << >> <=> DOMAIN d.fallback = {}
      BY <2>2 DEF IsList
    <3> QED BY <2>2, <3>1, <3>2
  <2>4. \A k \in DOMAIN c.fallback : Present(d.fallback[k].error) <=> Present(c.fallback[k].error)
    <3>1. ASSUME NEW k \in DOMAIN c.fallback
          PROVE  Present(d.fallback[k].error) <=> Present(c.fallback[k].error)
      <4> DEFINE t == c.fallback[k].error
      <4>1. t \in Texts
        BY <2>1 DEF IsFallback
      <4>2. d.fallback[k].error = Kept("strict", t)
        BY <2>2
      <4> HIDE DEF t
      <4>3. Present(Kept("strict", t)) <=> Present(t)
        BY <4>1, KeptTexts
      <4> QED BY <4>2, <4>3 DEF t
    <3> QED BY <3>1
  <2>5. FallbackErrors(c) = FallbackErrors(d)
    BY <2>2, <2>4 DEF FallbackErrors
  <2> QED BY <2>2, <2>3, <2>5
<1>6. FinalError(c) = FinalError(d)
  <2>1. Present(d.error) <=> Present(c.error)
    BY <1>1, CallParts, KeptTexts DEF Cleans
  <2>2. d.success = c.success
    BY <1>1 DEF Cleans
  <2> QED BY <2>1, <2>2 DEF FinalError, Failing
<1>7. SameCall(c, d)
  BY <1>2, <1>3, <1>4, <1>5, <1>6 DEF SameCall
<1> QED BY <1>7 DEF d, Strict

\* The calls of the tasks, in two forms that the public view cannot tell apart.
SameCalls(g, h) ==
  /\ Called(g) = Called(h) /\ \A i \in Called(g) : SameCall(Call(g, i), Call(h, i))

\* The providers that the view names.
LEMMA SameProviders ==
  ASSUME NEW g, NEW h, SameCalls(g, h)
  PROVE  /\ FinalProviders(g) = FinalProviders(h)
         /\ FallbackProviders(g) = FallbackProviders(h)
         /\ {e.status : e \in FallbackEntries(g)} = {e.status : e \in FallbackEntries(h)}
         /\ (FallbackEntries(g) # {}) = (FallbackEntries(h) # {})
         /\ HealthProviders(g) = HealthProviders(h)
         /\ \A q : Of(g, q) = Of(h, q) /\ Told(g, q) = Told(h, q)
<1>1. /\ Called(g) = Called(h)
      /\ \A i \in Called(g) :
           /\ Call(g, i).provider = Call(h, i).provider
           /\ DOMAIN Call(g, i).health = DOMAIN Call(h, i).health
           /\ DOMAIN Call(g, i).fallback = DOMAIN Call(h, i).fallback
           /\ \A k \in DOMAIN Call(g, i).fallback :
                /\ Call(g, i).fallback[k].provider = Call(h, i).fallback[k].provider
                /\ Call(g, i).fallback[k].status = Call(h, i).fallback[k].status
  BY DEF SameCalls, SameCall
<1>2. FinalProviders(g) = FinalProviders(h)
  <2>1. {Call(g, i).provider : i \in Called(g)} = {Call(h, i).provider : i \in Called(h)}
    BY <1>1
  <2> QED BY <2>1 DEF FinalProviders
<1>3. ASSUME NEW x, NEW y, SameCalls(x, y), NEW e \in FallbackEntries(x)
      PROVE  \E d \in FallbackEntries(y) : d.provider = e.provider /\ d.status = e.status
  <2>1. PICK i \in Called(x) : e \in Elements(Call(x, i).fallback)
    BY <1>3 DEF FallbackEntries
  <2>2. PICK k \in DOMAIN Call(x, i).fallback : e = Call(x, i).fallback[k]
    BY <2>1 DEF Elements
  <2> DEFINE d == Call(y, i).fallback[k]
  <2>3. i \in Called(y) /\ k \in DOMAIN Call(y, i).fallback /\ d.provider = e.provider /\ d.status = e.status
    BY <1>3, <2>1, <2>2 DEF SameCalls, SameCall
  <2>4. d \in FallbackEntries(y)
    BY <2>3 DEF FallbackEntries, Elements
  <2> HIDE DEF d
  <2> QED BY <2>3, <2>4
<1>4. ASSUME NEW x, NEW y, SameCalls(x, y), NEW e \in FallbackEntries(y)
      PROVE  \E d \in FallbackEntries(x) : d.provider = e.provider /\ d.status = e.status
  <2>1. PICK i \in Called(y) : e \in Elements(Call(y, i).fallback)
    BY <1>4 DEF FallbackEntries
  <2>2. PICK k \in DOMAIN Call(y, i).fallback : e = Call(y, i).fallback[k]
    BY <2>1 DEF Elements
  <2> DEFINE d == Call(x, i).fallback[k]
  <2>3. i \in Called(x) /\ k \in DOMAIN Call(x, i).fallback /\ d.provider = e.provider /\ d.status = e.status
    BY <1>4, <2>1, <2>2 DEF SameCalls, SameCall
  <2>4. d \in FallbackEntries(x)
    BY <2>3 DEF FallbackEntries, Elements
  <2> HIDE DEF d
  <2> QED BY <2>3, <2>4
<1>5. /\ \A e \in FallbackEntries(g) : \E d \in FallbackEntries(h) : d.provider = e.provider /\ d.status = e.status
      /\ \A e \in FallbackEntries(h) : \E d \in FallbackEntries(g) : d.provider = e.provider /\ d.status = e.status
  BY <1>3, <1>4
<1>6. {e.provider : e \in FallbackEntries(g)} = {e.provider : e \in FallbackEntries(h)}
  BY <1>5
<1>7. {e.status : e \in FallbackEntries(g)} = {e.status : e \in FallbackEntries(h)}
  BY <1>5
<1>8. (FallbackEntries(g) # {}) = (FallbackEntries(h) # {})
  BY <1>5
<1>9. HealthProviders(g) = HealthProviders(h)
  BY <1>1 DEF HealthProviders
<1>10. \A q : Of(g, q) = Of(h, q) /\ Told(g, q) = Told(h, q)
  BY <1>1 DEF Of, Told
<1> QED BY <1>2, <1>6, <1>7, <1>8, <1>9, <1>10 DEF FallbackProviders

\* The sums that the view takes over some of the calls.
LEMMA SameSums ==
  ASSUME NEW g, NEW h, SameCalls(g, h), NEW S \in SUBSET Called(g)
  PROVE  /\ Attempts(g, S) = Attempts(h, S) /\ Retries(g, S) = Retries(h, S)
         /\ Usage(g, S) = Usage(h, S) /\ Durations(g, S) = Durations(h, S)
         /\ Succeeded(g, S) = Succeeded(h, S) /\ Failed(g, S) = Failed(h, S)
<1>1. \A i \in S :
        /\ AttemptCount(Call(g, i)) = AttemptCount(Call(h, i))
        /\ RetryCount(Call(g, i)) = RetryCount(Call(h, i))
        /\ Call(g, i).usage = Call(h, i).usage /\ Call(g, i).success = Call(h, i).success
        /\ AnyDuration(Call(g, i)) = AnyDuration(Call(h, i))
  BY DEF SameCalls, SameCall
<1>2. [i \in S |-> AttemptCount(Call(g, i))] = [i \in S |-> AttemptCount(Call(h, i))]
  BY <1>1
<1>3. [i \in S |-> RetryCount(Call(g, i))] = [i \in S |-> RetryCount(Call(h, i))]
  BY <1>1
<1>4. Durations(g, S) = Durations(h, S)
  BY <1>1 DEF Durations
<1>5. Usage(g, S) = Usage(h, S)
  <2> DEFINE Using(x, m) == {j \in S : m \in DOMAIN Call(x, j).usage}
             Total(x, m) == SumOf([i \in Using(x, m) |-> Call(x, i).usage[m]])
             Metrics(x) == UNION {DOMAIN Call(x, i).usage : i \in S}
  <2>1. Metrics(g) = Metrics(h)
    BY <1>1
  <2>2. ASSUME NEW m PROVE Total(g, m) = Total(h, m)
    <3>1. Using(g, m) = Using(h, m)
      BY <1>1
    <3>2. [i \in Using(g, m) |-> Call(g, i).usage[m]] = [i \in Using(h, m) |-> Call(h, i).usage[m]]
      BY <1>1, <3>1
    <3> QED BY <3>2
  <2>3. \A x : Usage(x, S) = [m \in Metrics(x) |-> Total(x, m)]
    BY DEF Usage
  <2> HIDE DEF Using, Total, Metrics
  <2> QED BY <2>1, <2>2, <2>3
<1>6. Succeeded(g, S) = Succeeded(h, S) /\ Failed(g, S) = Failed(h, S)
  BY <1>1 DEF Succeeded, Failed, Failing
<1> QED BY <1>2, <1>3, <1>4, <1>5, <1>6 DEF Attempts, Retries

\* What the view tells of a provider, and of its health.
LEMMA SamePublicProvider ==
  ASSUME NEW g, NEW h, SameCalls(g, h), NEW q
  PROVE  PublicProvider(g, q) = PublicProvider(h, q)
<1>1. Of(g, q) = Of(h, q) /\ Of(g, q) \in SUBSET Called(g)
  BY SameProviders DEF Of
<1> DEFINE S == Of(g, q)
<1> HIDE DEF S
<1>2. /\ Attempts(g, S) = Attempts(h, S) /\ Retries(g, S) = Retries(h, S)
      /\ Usage(g, S) = Usage(h, S) /\ Durations(g, S) = Durations(h, S)
      /\ Succeeded(g, S) = Succeeded(h, S) /\ Failed(g, S) = Failed(h, S)
  BY <1>1, SameSums DEF S
<1>3. Of(g, q) = S /\ Of(h, q) = S
  BY <1>1 DEF S
<1> QED BY <1>2, <1>3 DEF PublicProvider

\* The health of a provider.
LEMMA SamePublicHealth ==
  ASSUME NEW g, NEW h, SameCalls(g, h), NEW q
  PROVE  PublicHealth(g, q) = PublicHealth(h, q)
<1>1. Told(g, q) = Told(h, q) /\ Told(g, q) \in SUBSET Called(g)
  BY SameProviders DEF Told
<1> DEFINE S == Told(g, q)
<1>2. ASSUME NEW i \in S
      PROVE  LET a == HealthEntry(g, q, i)
                 b == HealthEntry(h, q, i)
             IN  /\ a.model = b.model /\ a.status = b.status /\ a.outcome = b.outcome
                 /\ RetryableFailure(a) = RetryableFailure(b) /\ LiveCheck(a) = LiveCheck(b)
  BY <1>1 DEF SameCalls, SameCall, Told, HealthEntry, SameEntry
<1> HIDE DEF S
<1>3. Told(g, q) = S /\ Told(h, q) = S
  BY <1>1 DEF S
<1>4. /\ {HealthEntry(g, q, i).model : i \in S} = {HealthEntry(h, q, i).model : i \in S}
      /\ {HealthEntry(g, q, i).status : i \in S} = {HealthEntry(h, q, i).status : i \in S}
      /\ {HealthEntry(g, q, i).outcome : i \in S} = {HealthEntry(h, q, i).outcome : i \in S}
  BY <1>2
<1>5. (\E i \in S : RetryableFailure(HealthEntry(g, q, i))) = (\E i \in S : RetryableFailure(HealthEntry(h, q, i)))
  BY <1>2
<1>6. (\E i \in S : LiveCheck(HealthEntry(g, q, i))) = (\E i \in S : LiveCheck(HealthEntry(h, q, i)))
  BY <1>2
<1> QED BY <1>3, <1>4, <1>5, <1>6 DEF PublicHealth

\* The public view depends on no more of the calls than that.
LEMMA SamePublicView ==
  ASSUME NEW q, NEW g, NEW h, SameCalls(g, h),
         g.accepted = h.accepted, g.evaluation = h.evaluation,
         g.resumed = h.resumed, g.cycles = h.cycles
  PROVE  PublicView(q, g) = PublicView(q, h)
<1>1. PublicAcceptance(q, g) = PublicAcceptance(q, h)
  BY DEF PublicAcceptance
<1>2. PublicResumes(g) = PublicResumes(h)
  BY DEF PublicResumes, ResumedCount, ResumedIds
<1>3. PublicRepairs(q, g) = PublicRepairs(q, h)
  BY DEF PublicRepairs
<1>4. /\ FinalProviders(g) = FinalProviders(h)
      /\ FallbackProviders(g) = FallbackProviders(h)
      /\ {e.status : e \in FallbackEntries(g)} = {e.status : e \in FallbackEntries(h)}
      /\ (FallbackEntries(g) # {}) = (FallbackEntries(h) # {})
      /\ HealthProviders(g) = HealthProviders(h)
  BY SameProviders
<1>5. ObservedProviders(g) = ObservedProviders(h)
  BY <1>4 DEF ObservedProviders
<1>6. Called(g) = Called(h)
  BY DEF SameCalls
<1> DEFINE S == Called(g)
<1> HIDE DEF S
<1>7. Called(g) = S /\ Called(h) = S
  BY <1>6 DEF S
<1>8. /\ Attempts(g, S) = Attempts(h, S) /\ Retries(g, S) = Retries(h, S)
      /\ Usage(g, S) = Usage(h, S) /\ Durations(g, S) = Durations(h, S)
  BY SameSums DEF S
<1>9. [n \in FinalProviders(g) |-> PublicProvider(g, n)] = [n \in FinalProviders(h) |-> PublicProvider(h, n)]
  BY <1>4, SamePublicProvider
<1>10. [n \in HealthProviders(g) |-> PublicHealth(g, n)] = [n \in HealthProviders(h) |-> PublicHealth(h, n)]
  BY <1>4, SamePublicHealth
<1>11. \A i \in S :
         /\ Call(g, i).fallback = << >> <=> Call(h, i).fallback = << >>
         /\ FinalError(Call(g, i)) = FinalError(Call(h, i))
         /\ FallbackErrors(Call(g, i)) = FallbackErrors(Call(h, i))
  BY <1>7 DEF SameCalls, SameCall
<1>12. {i \in S : Call(g, i).fallback # << >>} = {i \in S : Call(h, i).fallback # << >>}
  BY <1>11
<1>13. AnyFinalError(g) = AnyFinalError(h)
  BY <1>7, <1>11 DEF AnyFinalError
<1>14. (\E i \in S : FallbackErrors(Call(g, i)) # {}) = (\E i \in S : FallbackErrors(Call(h, i)) # {})
  BY <1>11
<1> DEFINE rest(x) ==
      [providers |-> [n \in FinalProviders(x) |-> PublicProvider(x, n)],
       health    |-> [n \in HealthProviders(x) |-> PublicHealth(x, n)],
       fallback  |-> [tasks |-> Cardinality({i \in S : Call(x, i).fallback # << >>}) > 1,
                       entries |-> FallbackEntries(x) # {},
                       providers |-> Cardinality(FallbackProviders(x)) > 1,
                       statuses |-> Cardinality({e.status : e \in FallbackEntries(x)}) > 1],
       errors     |-> [final |-> AnyFinalError(x),
                       fallback |-> \E i \in S : FallbackErrors(Call(x, i)) # {}]]
<1>15. rest(g).fallback = rest(h).fallback /\ rest(g).errors = rest(h).errors
  BY <1>4, <1>12, <1>13, <1>14
<1>16. rest(g).providers = rest(h).providers /\ rest(g).health = rest(h).health
  BY <1>9, <1>10
<1> DEFINE View(x) ==
      [tasks      |-> Cardinality(DOMAIN q.tasks) > 1,
       statuses   |-> {q.tasks[i].status : i \in DOMAIN q.tasks},
       progress   |-> Progress(q),
       called     |-> S # {},
       uncalled   |-> DOMAIN q.tasks \ S # {},
       acceptance |-> PublicAcceptance(q, x),
       resumes    |-> PublicResumes(x),
       repairs    |-> PublicRepairs(q, x),
       final      |-> Cardinality(FinalProviders(x)) > 1,
       observed   |-> Cardinality(ObservedProviders(x)) > 1,
       providers  |-> rest(x).providers,
       health     |-> rest(x).health,
       attempts   |-> Attempts(x, S) > 0,
       retries    |-> Retries(x, S) > 0,
       duration   |-> Samples(Durations(x, S)),
       usage      |-> DOMAIN Usage(x, S),
       fallback   |-> rest(x).fallback,
       errors     |-> rest(x).errors]
<1>17. PublicView(q, g) = View(g) /\ PublicView(q, h) = View(h)
  BY <1>7 DEF PublicView
<1> HIDE DEF rest
<1>18. View(g) = View(h)
  BY <1>1, <1>2, <1>3, <1>4, <1>5, <1>8, <1>15, <1>16
<1> QED BY <1>17, <1>18

-----------------------------------------------------------------------------
(* The public view and the internal view.                                  *)

\* What the views of a project are computed from.
Recorded(g, T) ==
  /\ \A i \in T : IsOption(g.calls[i]) /\ \A c \in g.calls[i] : IsCall(c)
  /\ IsOption(g.evaluation)
  /\ IsList(g.resumed) /\ \A k \in DOMAIN g.resumed : IsFiniteSet(g.resumed[k].tasks)
  /\ IsList(g.cycles) /\ \A k \in DOMAIN g.cycles : IsFiniteSet(g.cycles[k].failed)

\* The values that are counted are those that occur.
LEMMA CountByValue ==
  ASSUME NEW F
  PROVE  Known(CountBy(F)) = {F[x] : x \in DOMAIN F}
BY DEF Known, CountBy

\* A count tells whether there is something to count.
LEMMA CountedSets ==
  ASSUME NEW S, IsFiniteSet(S)
  PROVE  /\ (S # {}) = (Cardinality(S) > 0)
         /\ \A s \in SUBSET S : IsFiniteSet(s) /\ Cardinality(s) \in Nat /\ Cardinality(s) <= Cardinality(S)
                                /\ (s # {}) = (Cardinality(s) > 0)
<1>1. ASSUME NEW s, IsFiniteSet(s)
      PROVE  Cardinality(s) \in Nat /\ (s # {}) = (Cardinality(s) > 0)
  <2>1. Cardinality(s) \in Nat /\ (Cardinality(s) = 0 <=> s = {})
    BY <1>1, FS_CardinalityType, FS_EmptySet
  <2> QED BY <2>1
<1>2. \A s \in SUBSET S : IsFiniteSet(s) /\ Cardinality(s) <= Cardinality(S)
  BY FS_Subset
<1> QED BY <1>1, <1>2

\* Finitely many arguments have finitely many values.
LEMMA FiniteValues ==
  ASSUME NEW F, NEW S, IsFiniteSet(S)
  PROVE  IsFiniteSet({F[x] : x \in S})
<1> DEFINE V == {F[x] : x \in S}
           h == [x \in S |-> F[x]]
<1>1. h \in Surjection(S, V)
  BY DEF Surjection
<1> QED BY <1>1, FS_Surjection

\* A list has finitely many places and elements.
LEMMA FiniteLists ==
  ASSUME NEW s, IsList(s)
  PROVE  /\ IsFiniteSet(DOMAIN s) /\ Len(s) \in Nat /\ DOMAIN s = 1 .. Len(s)
         /\ (Len(s) > 0) = (Elements(s) # {}) /\ IsFiniteSet(Elements(s))
<1>1. Len(s) \in Nat /\ DOMAIN s = 1 .. Len(s)
  BY DEF IsList
<1>2. IsFiniteSet(1 .. Len(s))
  BY <1>1, FS_Interval
<1>3. IsFiniteSet(Elements(s))
  BY <1>1, <1>2, FiniteValues DEF Elements
<1>4. Len(s) > 0 <=> Elements(s) # {}
  <2>1. Len(s) > 0 <=> DOMAIN s # {}
    BY <1>1
  <2>2. DOMAIN s # {} <=> Elements(s) # {}
    BY DEF Elements
  <2> QED BY <2>1, <2>2
<1> QED BY <1>1, <1>2, <1>3, <1>4

\* The calls of the tasks are records of agents.
LEMMA CalledTasks ==
  ASSUME NEW g, NEW T, IsFiniteSet(T), DOMAIN g.calls = T, Recorded(g, T)
  PROVE  /\ IsFiniteSet(Called(g)) /\ Called(g) \subseteq T
         /\ \A i \in Called(g) : IsCall(Call(g, i)) /\ g.calls[i] = {Call(g, i)}
<1>1. Called(g) \subseteq T
  BY DEF Called
<1>2. ASSUME NEW i \in Called(g)
      PROVE  IsCall(Call(g, i)) /\ g.calls[i] = {Call(g, i)}
  <2>1. i \in T /\ g.calls[i] # {}
    BY DEF Called
  <2>2. PICK c : c \in g.calls[i]
    BY <2>1
  <2>3. IsOption(g.calls[i]) /\ IsCall(c)
    BY <2>1, <2>2 DEF Recorded
  <2>4. The(g.calls[i]) = c
    BY <2>2, <2>3, OnlyElement
  <2> QED BY <2>2, <2>3, <2>4 DEF Call, IsOption
<1> QED BY <1>1, <1>2, FS_Subset

\* The flags about the calls are those of the counts.
LEMMA SameCountsOfCalls ==
  ASSUME NEW g, NEW T, IsFiniteSet(T), DOMAIN g.calls = T, Recorded(g, T)
  PROVE  LET called == Called(g) IN
         /\ called # {} <=> Cardinality(called) > 0
         /\ AnyFinalError(g) <=> Cardinality({i \in called : FinalError(Call(g, i))}) > 0
         /\ (\E i \in called : FallbackErrors(Call(g, i)) # {})
              <=> SumOf([i \in called |-> Cardinality(FallbackErrors(Call(g, i)))]) > 0
         /\ FallbackEntries(g) # {} <=> SumOf([i \in called |-> Len(Call(g, i).fallback)]) > 0
<1> DEFINE called == Called(g)
<1>1. IsFiniteSet(called) /\ \A i \in called : IsCall(Call(g, i))
  BY CalledTasks
<1>2. \A i \in called : IsList(Call(g, i).fallback)
  BY <1>1 DEF IsCall
<1> HIDE DEF called
<1>3. called # {} <=> Cardinality(called) > 0
  BY <1>1, CountedSets
<1>4. AnyFinalError(g) <=> Cardinality({i \in called : FinalError(Call(g, i))}) > 0
  <2> DEFINE s == {i \in called : FinalError(Call(g, i))}
  <2>1. (s # {}) = (Cardinality(s) > 0)
    <3>1. s \in SUBSET called
      OBVIOUS
    <3> HIDE DEF s
    <3> QED BY <1>1, <3>1, CountedSets
  <2>2. AnyFinalError(g) = (s # {})
    BY DEF AnyFinalError, called
  <2> QED BY <2>1, <2>2
<1>5. (\E i \in called : FallbackErrors(Call(g, i)) # {})
        <=> SumOf([i \in called |-> Cardinality(FallbackErrors(Call(g, i)))]) > 0
  <2> DEFINE F == [i \in called |-> Cardinality(FallbackErrors(Call(g, i)))]
  <2>1. ASSUME NEW i \in called
        PROVE  F[i] = Cardinality(FallbackErrors(Call(g, i))) /\ F[i] \in Nat /\ (FallbackErrors(Call(g, i)) # {}) = (F[i] > 0)
    <3>1. IsFiniteSet(DOMAIN Call(g, i).fallback)
      BY <1>2, FiniteLists
    <3>2. FallbackErrors(Call(g, i)) \in SUBSET DOMAIN Call(g, i).fallback
      BY DEF FallbackErrors
    <3>3. F[i] = Cardinality(FallbackErrors(Call(g, i)))
      OBVIOUS
    <3> QED BY <3>1, <3>2, <3>3, CountedSets
  <2>2. DOMAIN F = called
    OBVIOUS
  <2> HIDE DEF F
  <2>3. SumOf(F) > 0 <=> \E i \in called : F[i] > 0
    BY <1>1, <2>1, <2>2, PositiveSum
  <2>4. (\E i \in called : FallbackErrors(Call(g, i)) # {}) <=> SumOf(F) > 0
    <3>1. \A i \in called : FallbackErrors(Call(g, i)) # {} <=> F[i] > 0
      BY <2>1
    <3> QED BY <2>3, <3>1
  <2> QED BY <2>4 DEF F
<1>6. FallbackEntries(g) # {} <=> SumOf([i \in called |-> Len(Call(g, i).fallback)]) > 0
  <2> DEFINE F == [i \in called |-> Len(Call(g, i).fallback)]
  <2>1. ASSUME NEW i \in called
        PROVE  F[i] \in Nat /\ (F[i] > 0) = (Elements(Call(g, i).fallback) # {})
    BY <1>2, FiniteLists
  <2>2. DOMAIN F = called
    OBVIOUS
  <2> HIDE DEF F
  <2>3. SumOf(F) > 0 <=> \E i \in called : F[i] > 0
    BY <1>1, <2>1, <2>2, PositiveSum
  <2>4. (FallbackEntries(g) # {}) <=> \E i \in called : Elements(Call(g, i).fallback) # {}
    BY DEF FallbackEntries, called
  <2>5. (FallbackEntries(g) # {}) <=> SumOf(F) > 0
    <3>1. \A i \in called : Elements(Call(g, i).fallback) # {} <=> F[i] > 0
      BY <2>1
    <3> QED BY <2>3, <2>4, <3>1
  <2> QED BY <2>5 DEF F
<1> QED BY <1>3, <1>4, <1>5, <1>6 DEF called

\* A duration that the internal view counts is public.
LEMMA SameDurations ==
  ASSUME NEW g, NEW S, IsFiniteSet(S)
  PROVE  LET w == Distribution([i \in S |-> Call(g, i).total])
             v == Samples(Durations(g, S))
         IN  (w.count > 0 => v.some) /\ (w.count > 1 => v.several)
<1> DEFINE A == [i \in S |-> Call(g, i).total]
           B == Durations(g, S)
<1>1. Measured(A) \subseteq Measured(B) /\ Measured(B) \subseteq S
  BY DEF Measured, Durations, AnyDuration
<1> HIDE DEF A, B
<1>2. /\ Cardinality(Measured(A)) \in Nat /\ Cardinality(Measured(B)) \in Nat
      /\ Cardinality(Measured(A)) <= Cardinality(Measured(B))
  <2>1. IsFiniteSet(Measured(B))
    BY <1>1, FS_Subset
  <2> QED BY <1>1, <2>1, CountedSets
<1>3. Distribution(A).count = Cardinality(Measured(A))
  BY DEF Distribution
<1>4. (Samples(B).some <=> Cardinality(Measured(B)) > 0) /\ (Samples(B).several <=> Cardinality(Measured(B)) > 1)
  BY DEF Samples
<1>5. (Distribution(A).count > 0 => Samples(B).some) /\ (Distribution(A).count > 1 => Samples(B).several)
  BY <1>2, <1>3, <1>4
<1> QED BY <1>5 DEF A, B

\* Acceptance, resumes and repair cycles in both views.
LEMMA SameHistories ==
  ASSUME NEW q, NEW g, NEW T, Recorded(g, T)
  PROVE  /\ PublicAcceptance(q, g).accepted = InternalAcceptance(q, g).accepted
         /\ PublicAcceptance(q, g).reason = Present(InternalAcceptance(q, g).reason)
         /\ PublicResumes(g).events = (InternalResumes(g).events > 1)
         /\ PublicResumes(g).unique => PublicResumes(g).tasks
         /\ PublicRepairs(q, g).left = InternalRepairs(q, g).left
         /\ PublicRepairs(q, g).entries = (InternalRepairs(q, g).entries > 1)
         /\ PublicRepairs(q, g).failed = (InternalRepairs(q, g).failed > 0)
<1>1. /\ PublicAcceptance(q, g).accepted = g.accepted /\ InternalAcceptance(q, g).accepted = g.accepted
      /\ PublicAcceptance(q, g).reason = (\E e \in g.evaluation : Present(e.reason))
      /\ InternalAcceptance(q, g).reason = (IF g.evaluation = {} THEN "none" ELSE Redact(The(g.evaluation).reason))
  BY DEF PublicAcceptance, InternalAcceptance
<1>2. PublicAcceptance(q, g).reason = Present(InternalAcceptance(q, g).reason)
  <2>1. CASE g.evaluation = {}
    BY <1>1, <2>1 DEF Present
  <2>2. CASE g.evaluation # {}
    <3>1. PICK e : e \in g.evaluation
      BY <2>2
    <3>2. The(g.evaluation) = e /\ \A x \in g.evaluation : x = e
      BY <3>1, OnlyElement DEF Recorded, IsOption
    <3>3. (\E x \in g.evaluation : Present(x.reason)) = Present(e.reason)
      BY <3>1, <3>2 DEF Present
    <3>4. Present(Redact(e.reason)) = Present(e.reason)
      BY DEF Present, Redact
    <3> QED BY <1>1, <2>2, <3>2, <3>3, <3>4
  <2> QED BY <2>1, <2>2
<1>3. PublicResumes(g).events = (InternalResumes(g).events > 1)
  BY DEF PublicResumes, InternalResumes
<1>4. PublicResumes(g).unique => PublicResumes(g).tasks
  <2>1. /\ PublicResumes(g).unique <=> Cardinality(ResumedIds(g)) > 1
        /\ PublicResumes(g).tasks <=> ResumedCount(g) > 1
    BY DEF PublicResumes
  <2> DEFINE D == DOMAIN g.resumed
             Sets == [k \in D |-> g.resumed[k].tasks]
             all == UNION {Sets[k] : k \in D}
             F == [k \in D |-> Cardinality(Sets[k])]
  <2>2. IsFiniteSet(D)
    BY FiniteLists DEF Recorded
  <2>3. \A k \in D : Sets[k] = g.resumed[k].tasks /\ IsFiniteSet(Sets[k])
    BY DEF Recorded
  <2>4. ResumedIds(g) = all
    BY <2>3 DEF ResumedIds, Elements
  <2>5. F = [k \in D |-> Cardinality(g.resumed[k].tasks)]
    BY <2>3
  <2>6. ResumedCount(g) = SumOf(F)
    BY <2>5 DEF ResumedCount
  <2> HIDE DEF D, Sets
  <2>7. IsFiniteSet(all) /\ Cardinality(all) <= SumOf(F)
    BY <2>2, <2>3, SumOfSets
  <2>8. SumOf(F) \in Nat
    <3>1. DOMAIN F = D /\ \A k \in DOMAIN F : F[k] = Cardinality(Sets[k])
      OBVIOUS
    <3>2. \A k \in DOMAIN F : F[k] \in Nat
      BY <2>3, <3>1, FS_CardinalityType
    <3> HIDE DEF F
    <3> QED BY <2>2, <3>1, <3>2, PositiveSum
  <2>9. Cardinality(all) \in Nat
    BY <2>7, FS_CardinalityType
  <2> HIDE DEF all, F
  <2> QED BY <2>1, <2>4, <2>6, <2>7, <2>8, <2>9
<1>5. /\ PublicRepairs(q, g).left = InternalRepairs(q, g).left
      /\ PublicRepairs(q, g).entries = (InternalRepairs(q, g).entries > 1)
      /\ PublicRepairs(q, g).failed = (\E c \in Elements(g.cycles) : c.failed # {})
      /\ InternalRepairs(q, g).failed = Cardinality(UNION {c.failed : c \in Elements(g.cycles)})
  BY DEF PublicRepairs, InternalRepairs
<1>6. PublicRepairs(q, g).failed = (InternalRepairs(q, g).failed > 0)
  <2> DEFINE sets == {c.failed : c \in Elements(g.cycles)}
  <2>1. IsFiniteSet(sets)
    <3>1. IsFiniteSet(Elements(g.cycles))
      BY FiniteLists DEF Recorded
    <3> DEFINE F == [c \in Elements(g.cycles) |-> c.failed]
    <3>2. IsFiniteSet({F[c] : c \in Elements(g.cycles)})
      BY <3>1, FiniteValues
    <3> QED BY <3>2
  <2>2. \A s \in sets : IsFiniteSet(s)
    BY DEF Recorded, Elements
  <2>3. IsFiniteSet(UNION sets)
    BY <2>1, <2>2, FS_UNION
  <2>4. (UNION sets # {}) = (Cardinality(UNION sets) > 0)
    BY <2>3, CountedSets
  <2>5. (\E c \in Elements(g.cycles) : c.failed # {}) = (UNION sets # {})
    OBVIOUS
  <2> QED BY <1>5, <2>4, <2>5
<1> QED BY <1>1, <1>2, <1>3, <1>4, <1>5, <1>6

\* What both views tell of a provider.
LEMMA SameProviderFacts ==
  ASSUME NEW g, IsFiniteSet(Called(g)), NEW q
  PROVE  LET public == PublicProvider(g, q)
             internal == InternalProvider(g, q)
         IN  /\ public.failures = (internal.failures > 0)
             /\ public.successes = (internal.successes > 0)
             /\ public.retries = (internal.retries > 0)
<1> DEFINE S == Of(g, q)
           bad == Failed(g, S)
           good == Succeeded(g, S)
<1>1. bad \in SUBSET Called(g) /\ good \in SUBSET Called(g)
  BY DEF Failed, Succeeded, Of
<1>2. (bad # {}) = (Cardinality(bad) > 0) /\ (good # {}) = (Cardinality(good) > 0)
  BY <1>1, CountedSets
<1> HIDE DEF bad, good, S
<1>3. /\ PublicProvider(g, q).failures = (bad # {}) /\ PublicProvider(g, q).successes = (good # {})
      /\ PublicProvider(g, q).retries = (Retries(g, S) > 0)
  BY DEF PublicProvider, bad, good, S
<1>4. /\ InternalProvider(g, q).failures = Cardinality(bad)
      /\ InternalProvider(g, q).successes = Cardinality(good)
      /\ InternalProvider(g, q).retries = Retries(g, S)
  BY DEF InternalProvider, bad, good, S
<1> QED BY <1>2, <1>3, <1>4

\* What both views tell of the health of a provider.
LEMMA SameHealthFacts ==
  ASSUME NEW g, IsFiniteSet(Called(g)), NEW q
  PROVE  LET public == PublicHealth(g, q)
             internal == InternalHealth(g, q)
         IN  /\ public.statuses = Known(internal.statuses)
             /\ public.retryable = (internal.retryable > 0)
<1> DEFINE S == Told(g, q)
           F == [i \in S |-> HealthEntry(g, q, i).status]
           heard == {i \in S : RetryableFailure(HealthEntry(g, q, i))}
<1>1. heard \in SUBSET Called(g)
  BY DEF Told
<1>2. (heard # {}) = (Cardinality(heard) > 0)
  <2> HIDE DEF heard
  <2> QED BY <1>1, CountedSets
<1>3. Known(CountBy(F)) = {HealthEntry(g, q, i).status : i \in S}
  <2>1. Known(CountBy(F)) = {F[i] : i \in DOMAIN F}
    BY CountByValue
  <2>2. DOMAIN F = S
    OBVIOUS
  <2>3. \A i \in S : F[i] = HealthEntry(g, q, i).status
    OBVIOUS
  <2> HIDE DEF F, S
  <2> QED BY <2>1, <2>2, <2>3
<1>4. /\ PublicHealth(g, q).statuses = {HealthEntry(g, q, i).status : i \in S}
      /\ PublicHealth(g, q).retryable = (\E i \in S : RetryableFailure(HealthEntry(g, q, i)))
  BY DEF PublicHealth
<1>5. InternalHealth(g, q).statuses = CountBy(F) /\ InternalHealth(g, q).retryable = Cardinality(heard)
  BY DEF InternalHealth
<1>6. (\E i \in S : RetryableFailure(HealthEntry(g, q, i))) = (heard # {})
  OBVIOUS
<1> HIDE DEF heard, F, S
<1>7. PublicHealth(g, q).retryable = (InternalHealth(g, q).retryable > 0)
  BY <1>2, <1>4, <1>5, <1>6
<1> QED BY <1>3, <1>4, <1>5, <1>7

\* Both views, of any tasks with any calls.
LEMMA ViewsHaveSameFacts ==
  ASSUME NEW q, NEW g, IsFiniteSet(DOMAIN q.tasks), DOMAIN g.calls = DOMAIN q.tasks,
         Recorded(g, DOMAIN q.tasks)
  PROVE  SameFacts(PublicView(q, g), InternalView(q, g))
<1> DEFINE v == PublicView(q, g)
           w == InternalView(q, g)
           T == DOMAIN q.tasks
           called == Called(g)
           errors == {i \in called : FinalError(Call(g, i))}
           marks == SumOf([i \in called |-> Cardinality(FallbackErrors(Call(g, i)))])
           entries == SumOf([i \in called |-> Len(Call(g, i).fallback)])
           F == [i \in T |-> q.tasks[i].status]
<1>1. IsFiniteSet(called) /\ called \subseteq T
  BY CalledTasks
<1>2. /\ called # {} <=> Cardinality(called) > 0
      /\ AnyFinalError(g) <=> Cardinality(errors) > 0
      /\ (\E i \in called : FallbackErrors(Call(g, i)) # {}) <=> marks > 0
      /\ FallbackEntries(g) # {} <=> entries > 0
  BY SameCountsOfCalls
<1>3. T \ called # {} <=> Cardinality(T \ called) > 0
  <2>1. T \ called \in SUBSET T
    OBVIOUS
  <2> QED BY <2>1, CountedSets
<1>4. Known(CountBy(F)) = {q.tasks[i].status : i \in T}
  <2>1. Known(CountBy(F)) = {F[i] : i \in DOMAIN F}
    BY CountByValue
  <2>2. DOMAIN F = T /\ \A i \in T : F[i] = q.tasks[i].status
    OBVIOUS
  <2> HIDE DEF F, T
  <2> QED BY <2>1, <2>2
<1> HIDE DEF called, errors, marks, entries, F, T
<1>5. /\ v.statuses = {q.tasks[i].status : i \in T} /\ w.statuses = CountBy(F)
      /\ v.called = (called # {}) /\ w.called = Cardinality(called)
      /\ v.uncalled = (T \ called # {}) /\ w.uncalled = Cardinality(T \ called)
      /\ v.tasks = (Cardinality(T) > 1) /\ w.tasks = Cardinality(T)
  BY DEF PublicView, InternalView, called, T, F
<1>6. /\ v.final = (Cardinality(FinalProviders(g)) > 1) /\ w.final = FinalProviders(g)
      /\ v.observed = (Cardinality(ObservedProviders(g)) > 1) /\ w.observed = ObservedProviders(g)
      /\ v.attempts = (Attempts(g, called) > 0) /\ w.attempts = Attempts(g, called)
      /\ v.retries = (Retries(g, called) > 0) /\ w.retries = Retries(g, called)
      /\ v.usage = DOMAIN Usage(g, called) /\ w.usage = Usage(g, called)
      /\ v.duration = Samples(Durations(g, called))
      /\ w.duration = Distribution([i \in called |-> Call(g, i).total])
  BY DEF PublicView, InternalView, called
<1>7. /\ v.acceptance = PublicAcceptance(q, g) /\ w.acceptance = InternalAcceptance(q, g)
      /\ v.resumes = PublicResumes(g) /\ w.resumes = InternalResumes(g)
      /\ v.repairs = PublicRepairs(q, g) /\ w.repairs = InternalRepairs(q, g)
      /\ v.providers = [n \in FinalProviders(g) |-> PublicProvider(g, n)]
      /\ w.providers = [n \in FinalProviders(g) |-> InternalProvider(g, n)]
      /\ v.health = [n \in HealthProviders(g) |-> PublicHealth(g, n)]
      /\ w.health = [n \in HealthProviders(g) |-> InternalHealth(g, n)]
  BY DEF PublicView, InternalView
<1>8. /\ v.errors = [final |-> AnyFinalError(g),
                     fallback |-> \E i \in called : FallbackErrors(Call(g, i)) # {}]
      /\ w.errors.final = Cardinality(errors) /\ w.errors.fallback = marks
      /\ v.fallback.entries = (FallbackEntries(g) # {}) /\ w.fallback.entries = entries
  BY DEF PublicView, InternalView, called, errors, marks, entries
<1> HIDE DEF v, w
<1>9. /\ v.statuses = Known(w.statuses)
      /\ v.called = (w.called > 0) /\ v.uncalled = (w.uncalled > 0) /\ v.tasks = (w.tasks > 1)
  BY <1>2, <1>3, <1>4, <1>5
<1>10. /\ v.final = (Cardinality(w.final) > 1) /\ v.observed = (Cardinality(w.observed) > 1)
       /\ v.attempts = (w.attempts > 0) /\ v.retries = (w.retries > 0)
       /\ v.usage = DOMAIN w.usage
  BY <1>6
<1>11. (w.duration.count > 0 => v.duration.some) /\ (w.duration.count > 1 => v.duration.several)
  BY <1>1, <1>6, SameDurations
<1>12. /\ v.errors = [final |-> w.errors.final > 0, fallback |-> w.errors.fallback > 0]
       /\ v.fallback.entries = (w.fallback.entries > 0)
  <2> DEFINE marked == \E i \in called : FallbackErrors(Call(g, i)) # {}
             failed == AnyFinalError(g)
             any == FallbackEntries(g) # {}
  <2>1. v.errors = [final |-> failed, fallback |-> marked] /\ v.fallback.entries = any
    BY <1>8
  <2>2. (failed <=> Cardinality(errors) > 0) /\ (marked <=> marks > 0) /\ (any <=> entries > 0)
    BY <1>2
  <2>3. failed \in BOOLEAN /\ marked \in BOOLEAN /\ any \in BOOLEAN
    BY DEF AnyFinalError
  <2> HIDE DEF marked, failed, any
  <2>4. failed = (Cardinality(errors) > 0) /\ marked = (marks > 0) /\ any = (entries > 0)
    BY <2>2, <2>3
  <2> QED BY <1>8, <2>1, <2>4
<1>13. /\ v.acceptance.accepted = w.acceptance.accepted
       /\ v.acceptance.reason = Present(w.acceptance.reason)
       /\ v.resumes.events = (w.resumes.events > 1)
       /\ v.resumes.unique => v.resumes.tasks
       /\ v.repairs.left = w.repairs.left
       /\ v.repairs.entries = (w.repairs.entries > 1)
       /\ v.repairs.failed = (w.repairs.failed > 0)
  BY <1>7, SameHistories
<1>14. DOMAIN v.providers = DOMAIN w.providers
  BY <1>7
<1>15. ASSUME NEW n \in DOMAIN v.providers
       PROVE  LET public == v.providers[n]
                  internal == w.providers[n]
              IN  /\ public.failures = (internal.failures > 0)
                  /\ public.successes = (internal.successes > 0)
                  /\ public.retries = (internal.retries > 0)
  <2>1. v.providers[n] = PublicProvider(g, n) /\ w.providers[n] = InternalProvider(g, n)
    BY <1>7
  <2> QED BY <1>1, <2>1, SameProviderFacts DEF called
<1>16. ASSUME NEW n \in DOMAIN v.health
       PROVE  LET public == v.health[n]
                  internal == w.health[n]
              IN  /\ public.statuses = Known(internal.statuses)
                  /\ public.retryable = (internal.retryable > 0)
  <2>1. v.health[n] = PublicHealth(g, n) /\ w.health[n] = InternalHealth(g, n)
    BY <1>7
  <2> QED BY <1>1, <2>1, SameHealthFacts DEF called
<1>17. SameFacts(v, w)
  BY <1>9, <1>10, <1>11, <1>12, <1>13, <1>14, <1>15, <1>16 DEF SameFacts
<1> QED BY <1>17 DEF v, w

-----------------------------------------------------------------------------
(* The facts of a project are sound at every moment.                       *)

\* The facts of the tasks of T, and what they are made of.
SoundOption(call) == IsOption(call) /\ \A c \in call : IsCall(c)
SoundFacts(g, T) == HasFacts(g, T) /\ Recorded(g, T)

\* Facts that differ in the calls alone.
LEMMA OtherFactsKeep ==
  ASSUME NEW g, NEW T, SoundFacts(g, T), NEW h, HasFacts(h, T),
         h.evaluation = g.evaluation, h.resumed = g.resumed, h.cycles = g.cycles,
         \A i \in T : SoundOption(h.calls[i])
  PROVE  SoundFacts(h, T)
BY DEF SoundFacts, SoundOption, Recorded

\* The updates of the facts that the methods make.
LEMMA SoundCalls ==
  ASSUME NEW g, NEW T, SoundFacts(g, T), NEW S, NEW call, SoundOption(call)
  PROVE  SoundFacts(WithCalls(g, S, call), T)
<1> DEFINE h == WithCalls(g, S, call)
           calls == [i \in T |-> IF i \in S THEN call ELSE g.calls[i]]
<1>1. UpdatesCalls(g, h, T, S, call)
  BY CallUpdate DEF SoundFacts
<1>2. h.evaluation = g.evaluation /\ h.resumed = g.resumed /\ h.cycles = g.cycles
  BY DEF WithCalls, HasFacts, SoundFacts
<1> HIDE DEF h
<1>3. ASSUME NEW i \in T PROVE SoundOption(h.calls[i])
  BY <1>1 DEF UpdatesCalls, SoundFacts, Recorded, SoundOption
<1>4. HasFacts(h, T)
  BY <1>1 DEF UpdatesCalls
<1>5. SoundFacts(h, T)
  BY <1>2, <1>3, <1>4, OtherFactsKeep
<1> QED BY <1>5 DEF h

\* An error text is noted, or removed.
LEMMA SoundErrors ==
  ASSUME NEW g, NEW T, SoundFacts(g, T), NEW S, NEW there \in BOOLEAN
  PROVE  SoundFacts(WithErrors(g, S, there), T)
<1> DEFINE h == WithErrors(g, S, there)
<1>1. UpdatesErrors(g, h, T, S, there)
  BY ErrorUpdate DEF SoundFacts
<1>2. h.evaluation = g.evaluation /\ h.resumed = g.resumed /\ h.cycles = g.cycles
  BY DEF WithErrors, HasFacts, SoundFacts
<1> HIDE DEF h
<1>3. \A i \in T : SoundOption(h.calls[i])
  BY <1>1 DEF UpdatesErrors, SoundFacts, Recorded, SoundOption
<1>4. HasFacts(h, T)
  BY <1>1 DEF UpdatesErrors
<1>5. SoundFacts(h, T)
  BY <1>2, <1>3, <1>4, OtherFactsKeep
<1> QED BY <1>5 DEF h

\* The call of a task is dropped.
LEMMA SoundCleared ==
  ASSUME NEW g, NEW T, SoundFacts(g, T), NEW S
  PROVE  SoundFacts(Cleared(g, S), T)
<1> DEFINE none == {}
           h == WithCalls(g, S, none)
<1>1. SoundOption(none)
  BY DEF SoundOption, IsOption
<1> HIDE DEF none
<1>2. SoundFacts(h, T)
  BY <1>1, SoundCalls
<1> HIDE DEF h
<1>3. SoundFacts(WithErrors(h, S, TRUE), T)
  BY <1>2, SoundErrors
<1> QED BY <1>3 DEF Cleared, h, none

\* The facts of a graph with other tasks.
LEMMA SoundSpread ==
  ASSUME NEW g, NEW T, SoundFacts(g, T), NEW q
  PROVE  SoundFacts(Spread(g, q), DOMAIN q.tasks)
<1> DEFINE h == Spread(g, q)
           D == DOMAIN q.tasks
<1>1. Spreads(g, h, T, D)
  BY SpreadFacts DEF SoundFacts
<1>2. h.evaluation = g.evaluation /\ h.resumed = g.resumed /\ h.cycles = g.cycles
  <2> DEFINE calls == [i \in D |-> IF i \in DOMAIN g.calls THEN g.calls[i] ELSE {}]
             errors == [i \in D |-> IF i \in DOMAIN g.errors THEN g.errors[i] ELSE FALSE]
  <2>1. h = [g EXCEPT !.calls = calls, !.errors = errors]
    BY DEF Spread
  <2> HIDE DEF calls, errors, h
  <2> QED BY <2>1 DEF HasFacts, SoundFacts
<1> HIDE DEF h
<1>3. HasFacts(h, D)
  BY <1>1 DEF Spreads
<1>4. ASSUME NEW i \in D PROVE IsOption(h.calls[i]) /\ \A c \in h.calls[i] : IsCall(c)
  <2>1. h.calls[i] = IF i \in T THEN g.calls[i] ELSE {}
    BY <1>1 DEF Spreads
  <2> QED BY <2>1 DEF SoundFacts, Recorded, IsOption
<1>5. SoundFacts(h, D)
  BY <1>2, <1>3, <1>4 DEF SoundFacts, Recorded
<1> QED BY <1>5 DEF h

\* A list with one more element.
LEMMA LongerList ==
  ASSUME NEW s, IsList(s), NEW e
  PROVE  /\ IsList(Append(s, e)) /\ Len(s) \in Nat
         /\ \A k \in DOMAIN Append(s, e) :
              \/ k \in DOMAIN s /\ Append(s, e)[k] = s[k]
              \/ Append(s, e)[k] = e
<1> DEFINE t == Append(s, e)
           All == Elements(s) \cup {e}
<1>1. s \in Seq(All) /\ e \in All
  BY DEF IsList
<1>2. t \in Seq(All) /\ Len(t) = Len(s) + 1 /\ Len(s) \in Nat
  <2> HIDE DEF All
  <2> QED BY <1>1
<1>3. \A k \in DOMAIN t : (k \in DOMAIN s /\ t[k] = s[k]) \/ t[k] = e
  <2> HIDE DEF All
  <2> QED BY <1>1
<1> HIDE DEF t
<1>4. t \in Seq(Elements(t))
  <2> HIDE DEF All
  <2>1. DOMAIN t = 1 .. Len(t) /\ Len(t) \in Nat /\ t = [k \in 1 .. Len(t) |-> t[k]]
    BY <1>2
  <2>2. \A k \in 1 .. Len(t) : t[k] \in Elements(t)
    BY <2>1 DEF Elements
  <2> QED BY <2>1, <2>2
<1> QED BY <1>2, <1>3, <1>4 DEF IsList, t

\* A resume is recorded.
LEMMA SoundResumed ==
  ASSUME NEW g, NEW T, SoundFacts(g, T), NEW reason, NEW ids, IsFiniteSet(ids)
  PROVE  SoundFacts(Resumed(g, reason, ids), T)
<1> DEFINE e == [reason |-> reason, tasks |-> ids]
           told == Append(g.resumed, e)
           h == [g EXCEPT !.resumed = told]
<1>1. e.tasks = ids
  OBVIOUS
<1> HIDE DEF e
<1>2. IsList(told) /\ \A k \in DOMAIN told : IsFiniteSet(told[k].tasks)
  BY <1>1, LongerList DEF SoundFacts, Recorded
<1> HIDE DEF told
<1>3. /\ HasFacts(h, T) /\ h.resumed = told /\ h.evaluation = g.evaluation /\ h.cycles = g.cycles
      /\ h.calls = g.calls
  BY DEF SoundFacts, HasFacts
<1> HIDE DEF h
<1>4. SoundFacts(h, T)
  BY <1>2, <1>3 DEF SoundFacts, Recorded
<1> QED BY <1>4 DEF Resumed, h, told, e

\* An evaluation is recorded.
LEMMA SoundEvaluation ==
  ASSUME NEW g, NEW T, SoundFacts(g, T), NEW a, IsOption(a), NEW b
  PROVE  SoundFacts([g EXCEPT !.evaluation = a, !.accepted = b], T)
<1> DEFINE h == [g EXCEPT !.evaluation = a, !.accepted = b]
<1>1. HasFacts(h, T)
  BY OtherFacts DEF SoundFacts, SameTaskFacts
<1>2. h.resumed = g.resumed /\ h.evaluation = a /\ h.cycles = g.cycles /\ h.calls = g.calls
  BY DEF SoundFacts, HasFacts
<1> HIDE DEF h
<1>3. SoundFacts(h, T)
  BY <1>1, <1>2 DEF SoundFacts, Recorded
<1> QED BY <1>3 DEF h

\* A repair cycle is recorded.
LEMMA SoundCycles ==
  ASSUME NEW g, NEW T, SoundFacts(g, T), NEW e, IsFiniteSet(e.failed)
  PROVE  SoundFacts([g EXCEPT !.cycles = Append(@, e)], T)
<1> DEFINE told == Append(g.cycles, e)
           h == [g EXCEPT !.cycles = told]
<1>1. IsList(told) /\ \A k \in DOMAIN told : IsFiniteSet(told[k].failed)
  BY LongerList DEF SoundFacts, Recorded
<1> HIDE DEF told
<1>2. /\ HasFacts(h, T) /\ h.cycles = told /\ h.evaluation = g.evaluation /\ h.resumed = g.resumed
      /\ h.calls = g.calls
  BY DEF SoundFacts, HasFacts
<1> HIDE DEF h
<1>3. SoundFacts(h, T)
  BY <1>1, <1>2 DEF SoundFacts, Recorded
<1> QED BY <1>3 DEF h, told

\* Facts of tasks that have not run.
LEMMA SoundBlank ==
  ASSUME NEW T
  PROVE  SoundFacts(NoFacts(T), T)
<1>1. HasFacts(NoFacts(T), T) /\ \A i \in T : NoFacts(T).calls[i] = {}
  BY BlankFacts
<1>2. NoFacts(T).evaluation = {} /\ NoFacts(T).resumed = << >> /\ NoFacts(T).cycles = << >>
  BY DEF NoFacts
<1>3. IsList(<< >>) /\ DOMAIN << >> = {} /\ IsOption({})
  BY DEF IsList, IsOption
<1> QED BY <1>1, <1>2, <1>3 DEF SoundFacts, Recorded

\* The call of an attempt is stored in its strict form.
LEMMA SoundStored ==
  ASSUME NEW call \in GoodCalls \cup BadCalls
  PROVE  SoundOption(Stored(call))
<1>1. IsOption(call) /\ \A c \in call : IsCall(c)
  BY CallAssumption
<1>2. \A c \in call : IsCall(Strict(c))
  BY <1>1, CleanIsCall DEF Strict
<1> QED BY <1>1, <1>2 DEF Stored, SoundOption, IsOption

\* A step whose facts are sound leaves sound facts.
LEMMA DoKeepsRecords ==
  ASSUME NEW q, NEW g, NEW events, NEW S, NEW T, Do(q, g, events, S), SoundFacts(g, T)
  PROVE  SoundFacts(facts', DOMAIN project'.tasks)
BY SoundSpread DEF Do

\* The calls that work on tasks.
LEMMA TaskRecordsKept ==
  ASSUME SoundFacts(facts, DOMAIN project.tasks), NEW i
  PROVE  /\ Start(i) => SoundFacts(facts', DOMAIN project'.tasks)
         /\ \A kind : \A call \in BadCalls :
              Fail(i, kind, call) => SoundFacts(facts', DOMAIN project'.tasks)
         /\ \A call \in GoodCalls : Complete(i, call) => SoundFacts(facts', DOMAIN project'.tasks)
         /\ Skip(i) \/ SkipBehind(i) \/ Override(i) \/ Report(i) =>
              SoundFacts(facts', DOMAIN project'.tasks)
<1> DEFINE T == DOMAIN project.tasks
<1>1. ASSUME Start(i) PROVE SoundFacts(facts', DOMAIN project'.tasks)
  <2> DEFINE g == WithErrors(facts, {i}, FALSE)
  <2>1. SoundFacts(g, T)
    BY SoundErrors
  <2> HIDE DEF g
  <2>2. \E q, events, S : Do(q, g, events, S)
    BY <1>1 DEF Start, f, g
  <2> QED BY <2>1, <2>2, DoKeepsRecords
<1>2. ASSUME NEW kind, NEW call \in BadCalls, Fail(i, kind, call)
      PROVE  SoundFacts(facts', DOMAIN project'.tasks)
  <2> DEFINE S == {i} \cup Origins(i)
             h == WithCalls(facts, S, Stored(call))
             g == WithErrors(h, S, TRUE)
  <2>1. SoundFacts(h, T)
    BY SoundCalls, SoundStored
  <2>2. SoundFacts(g, T)
    <3> HIDE DEF h
    <3> QED BY <2>1, SoundErrors
  <2>3. \E q, events : Do(q, g, events, S)
    BY <1>2 DEF Fail, f
  <2> HIDE DEF g, S
  <2> QED BY <2>2, <2>3, DoKeepsRecords
<1>3. ASSUME NEW call \in GoodCalls, Complete(i, call)
      PROVE  SoundFacts(facts', DOMAIN project'.tasks)
  <2> DEFINE S == {i} \cup Origins(i)
             h == WithCalls(facts, S, Stored(call))
             k == WithErrors(h, S, FALSE)
  <2>1. SoundFacts(h, T)
    BY SoundCalls, SoundStored
  <2>2. SoundFacts(k, T)
    <3> HIDE DEF h
    <3> QED BY <2>1, SoundErrors
  <2>3. \E q, events, swept : Do(q, Cleared(k, swept), events, S \cup swept)
    BY <1>3 DEF Complete, f
  <2> HIDE DEF k, S
  <2>4. \A swept : SoundFacts(Cleared(k, swept), T)
    BY <2>2, SoundCleared
  <2> QED BY <2>3, <2>4, DoKeepsRecords
<1>4. ASSUME Skip(i) PROVE SoundFacts(facts', DOMAIN project'.tasks)
  <2>1. \E q, events, S : Do(q, Cleared(facts, S), events, S)
    BY <1>4 DEF Skip, f
  <2> QED BY <2>1, SoundCleared, DoKeepsRecords
<1>5. ASSUME SkipBehind(i) PROVE SoundFacts(facts', DOMAIN project'.tasks)
  <2>1. \E q, events, S : Do(q, Cleared(facts, S), events, S)
    BY <1>5 DEF SkipBehind, f
  <2> QED BY <2>1, SoundCleared, DoKeepsRecords
<1>6. ASSUME Override(i) PROVE SoundFacts(facts', DOMAIN project'.tasks)
  <2> DEFINE none == {}
             h == WithCalls(facts, {i}, none)
             g == WithErrors(h, {i}, FALSE)
  <2>1. SoundOption(none)
    BY DEF SoundOption, IsOption
  <2>2. SoundFacts(h, T)
    <3> HIDE DEF none
    <3> QED BY <2>1, SoundCalls
  <2>3. SoundFacts(g, T)
    <3> HIDE DEF h
    <3> QED BY <2>2, SoundErrors
  <2>4. \E q, events, S : Do(q, g, events, S)
    BY <1>6 DEF Override, f
  <2> HIDE DEF g
  <2> QED BY <2>3, <2>4, DoKeepsRecords
<1>7. ASSUME Report(i) PROVE SoundFacts(facts', DOMAIN project'.tasks)
  <2>1. \E q, events, S : Do(q, facts, events, S)
    BY <1>7 DEF Report, f
  <2> QED BY <2>1, DoKeepsRecords
<1> QED BY <1>1, <1>2, <1>3, <1>4, <1>5, <1>6, <1>7

\* The calls that work on the workflow.
LEMMA WorkflowRecordsKept ==
  ASSUME SoundFacts(facts, DOMAIN project.tasks), IsFiniteSet(DOMAIN project.tasks)
  PROVE  SkipServed \/ Run \/ Finish \/ Pause \/ Resume \/ Cancel \/ Recover =>
           SoundFacts(facts', DOMAIN project'.tasks)
<1> DEFINE T == DOMAIN project.tasks
<1>1. ASSUME SkipServed PROVE SoundFacts(facts', DOMAIN project'.tasks)
  <2>1. \E q, events, S : Do(q, Cleared(facts, S), events, S)
    BY <1>1 DEF SkipServed, f
  <2> QED BY <2>1, SoundCleared, DoKeepsRecords
<1>2. ASSUME NEW a, IsOption(a), NEW b, NEW h, SoundFacts(h, T),
             NEW q, NEW events, NEW S, Do(q, [h EXCEPT !.evaluation = a, !.accepted = b], events, S)
      PROVE  SoundFacts(facts', DOMAIN project'.tasks)
  BY <1>2, SoundEvaluation, DoKeepsRecords
<1>3. ASSUME Run PROVE SoundFacts(facts', DOMAIN project'.tasks)
  <2> DEFINE none == {}
  <2>1. \E q, events, S : Do(q, [facts EXCEPT !.evaluation = none, !.accepted = FALSE], events, S)
    BY <1>3 DEF Run, f
  <2>2. IsOption(none)
    BY DEF IsOption
  <2> HIDE DEF none
  <2> QED BY <1>2, <2>1, <2>2
<1>4. \A x : IsOption({x})
  BY DEF IsOption
<1>5. ASSUME Finish PROVE SoundFacts(facts', DOMAIN project'.tasks)
  <2> DEFINE a == {Evaluation(project)}
  <2>1. \E q, b, events, S : Do(q, [facts EXCEPT !.evaluation = a, !.accepted = b], events, S)
    BY <1>5 DEF Finish, f, p
  <2>2. IsOption(a)
    BY <1>4
  <2> HIDE DEF a
  <2> QED BY <1>2, <2>1, <2>2
<1>6. ASSUME Pause PROVE SoundFacts(facts', DOMAIN project'.tasks)
  <2>1. \E q, events, S : Do(q, facts, events, S)
    BY <1>6 DEF Pause, f
  <2> QED BY <2>1, DoKeepsRecords
<1>7. ASSUME Resume PROVE SoundFacts(facts', DOMAIN project'.tasks)
  <2> DEFINE none == {}
             g == Resumed(facts, "paused_workflow", none)
  <2>1. IsFiniteSet(none)
    BY FS_EmptySet
  <2>2. \E q, events, S : Do(q, g, events, S)
    BY <1>7 DEF Resume, f
  <2> HIDE DEF none
  <2>3. SoundFacts(g, T)
    BY <2>1, SoundResumed
  <2> HIDE DEF g
  <2> QED BY <2>2, <2>3, DoKeepsRecords
<1>8. ASSUME Cancel PROVE SoundFacts(facts', DOMAIN project'.tasks)
  <2> DEFINE h == Cleared(facts, Pending(project))
             a == {Evaluation(CancelProject(project))}
  <2>1. \E q, events, S : Do(q, [h EXCEPT !.evaluation = a, !.accepted = FALSE], events, S)
    BY <1>8 DEF Cancel, f, p
  <2>2. IsOption(a) /\ SoundFacts(h, T)
    BY <1>4, SoundCleared
  <2> HIDE DEF a, h
  <2> QED BY <1>2, <2>1, <2>2
<1>9. ASSUME Recover PROVE SoundFacts(facts', DOMAIN project'.tasks)
  <2> DEFINE left == WithStatus(project, {"running"})
             h == Cleared(facts, left)
             g == Resumed(h, "interrupted_tasks", left)
  <2>1. IsFiniteSet(left)
    BY FS_Subset DEF WithStatus
  <2>2. \E q, events, S : Do(q, g, events, S)
    BY <1>9 DEF Recover, f, p
  <2> HIDE DEF left
  <2>3. SoundFacts(h, T)
    BY SoundCleared
  <2> HIDE DEF h
  <2>4. SoundFacts(g, T)
    BY <2>1, <2>3, SoundResumed
  <2> HIDE DEF g
  <2> QED BY <2>2, <2>4, DoKeepsRecords
<1> QED BY <1>1, <1>3, <1>5, <1>6, <1>7, <1>8, <1>9

\* A new start, and the repair cycle.
LEMMA ReplayRecordsKept ==
  ASSUME SoundFacts(facts, DOMAIN project.tasks), Replay
  PROVE  SoundFacts(facts', DOMAIN project'.tasks)
<1> DEFINE q == ReplayProject(project)
           D == DOMAIN q.tasks
           told == facts.resumed
           n == NoFacts(D)
           g == [n EXCEPT !.resumed = told]
<1>1. \E events, S : Do(q, g, events, S)
  BY DEF Replay, f, p
<1>2. SoundFacts(n, D)
  BY SoundBlank
<1>3. IsList(told) /\ \A k \in DOMAIN told : IsFiniteSet(told[k].tasks)
  BY DEF SoundFacts, Recorded
<1> HIDE DEF q, n, told
<1>4. /\ HasFacts(g, D) /\ g.resumed = told /\ g.evaluation = n.evaluation /\ g.cycles = n.cycles
      /\ g.calls = n.calls
  BY <1>2 DEF SoundFacts, HasFacts
<1> HIDE DEF g
<1>5. SoundFacts(g, D)
  BY <1>2, <1>3, <1>4 DEF SoundFacts, Recorded
<1> QED BY <1>1, <1>5, DoKeepsRecords

\* A repair cycle.
LEMMA RepairRecordsKept ==
  ASSUME ViewsInv, SoundFacts(facts, DOMAIN project.tasks), Repair
  PROVE  SoundFacts(facts', DOMAIN project'.tasks)
<1> DEFINE T == DOMAIN project.tasks
           F == FailedForRepair(project)
           c == project.cycles + 1
           new == CycleIds(project, F, c)
           q == ResumeFailed(PlanRepairs(StartCycle(project), F, c), F, new)
           freed == {i \in Tasks : project.tasks[i].status # "pending" /\ q.tasks[i].status = "pending"}
           ids == freed \cup new
           e == [reason |-> "resume_failed_tasks", failed |-> F,
                 category |-> project.tasks[CHOOSE i \in F : TRUE].category]
           g == [facts EXCEPT !.cycles = Append(@, e)]
           h == Spread(g, q)
           k == Cleared(h, freed)
           w == Resumed(k, "failed_workflow", ids)
<1>1. \E events, S : Do(q, w, events, S)
  BY DEF Repair, p, f
<1>2. IsProject(project) /\ IsFiniteSet(T)
  BY DEF ViewsInv
<1>3. F \in SUBSET T /\ c \in Nat
  <2>1. project.cycles \in Nat
    BY <1>2 DEF IsProject, ProjectRecord
  <2> QED BY <2>1 DEF FailedForRepair, WithStatus
<1>4. e.failed = F
  OBVIOUS
<1> HIDE DEF e, F, c, q
<1>5. IsFiniteSet(ids)
  <2>1. IsFiniteSet(new)
    BY <1>2, <1>3, CycleIdsFinite
  <2>2. IsFiniteSet(freed)
    <3>1. freed \subseteq T
      BY DEF Tasks, p
    <3> QED BY <1>2, <3>1, FS_Subset
  <2> QED BY <2>1, <2>2, FS_Union
<1>6. IsFiniteSet(e.failed)
  BY <1>2, <1>3, <1>4, FS_Subset
<1> HIDE DEF ids, freed, new
<1>7. SoundFacts(g, T)
  BY <1>6, SoundCycles
<1> HIDE DEF g
<1>8. SoundFacts(h, DOMAIN q.tasks)
  BY <1>7, SoundSpread
<1> HIDE DEF h
<1>9. SoundFacts(k, DOMAIN q.tasks)
  BY <1>8, SoundCleared
<1> HIDE DEF k
<1>10. SoundFacts(w, DOMAIN q.tasks)
  BY <1>5, <1>9, SoundResumed
<1> HIDE DEF w
<1> QED BY <1>1, <1>10, DoKeepsRecords

\* Every call keeps the facts sound.
LEMMA RecordsKept ==
  ASSUME ViewsInv, SoundFacts(facts, DOMAIN project.tasks), [Next]_vars
  PROVE  SoundFacts(facts', DOMAIN project'.tasks)
<1>1. ASSUME UNCHANGED vars PROVE SoundFacts(facts', DOMAIN project'.tasks)
  BY <1>1 DEF vars
<1>2. IsFiniteSet(DOMAIN project.tasks)
  BY DEF ViewsInv
<1>3. ASSUME NEW i \in Tasks,
             \/ Start(i) \/ SkipBehind(i) \/ Report(i) \/ Skip(i) \/ Override(i)
             \/ \E kind \in FailureKinds, call \in BadCalls : Fail(i, kind, call)
             \/ \E call \in GoodCalls : Complete(i, call)
      PROVE  SoundFacts(facts', DOMAIN project'.tasks)
  BY <1>3, TaskRecordsKept
<1>4. ASSUME SkipServed \/ Run \/ Finish \/ Pause \/ Resume \/ Cancel \/ Recover
      PROVE  SoundFacts(facts', DOMAIN project'.tasks)
  BY <1>2, <1>4, WorkflowRecordsKept
<1>5. ASSUME Repair \/ Replay PROVE SoundFacts(facts', DOMAIN project'.tasks)
  BY <1>5, RepairRecordsKept, ReplayRecordsKept
<1> QED BY <1>1, <1>3, <1>4, <1>5 DEF Next, Work, Intervention

\* So they are from the start.
LEMMA InitRecords ==
  ASSUME Init
  PROVE  SoundFacts(facts, DOMAIN project.tasks)
<1> DEFINE T == DOMAIN project.tasks
           n == NoFacts(T)
<1>1. SoundFacts(n, T)
  BY SoundBlank
<1>2. CASE facts = n
  BY <1>1, <1>2
<1>3. CASE \E i \in DOMAIN InitialProject.tasks, call \in OlderCalls : facts = [n EXCEPT !.calls[i] = call]
  <2>1. PICK i \in DOMAIN InitialProject.tasks, call \in OlderCalls : facts = [n EXCEPT !.calls[i] = call]
    BY <1>3
  <2> DEFINE calls == [n.calls EXCEPT ![i] = call]
  <2>2. facts = [n EXCEPT !.calls = calls]
    BY <2>1
  <2>3. SoundOption(call)
    BY CallAssumption DEF SoundOption
  <2> HIDE DEF n
  <2>4. DOMAIN calls = T /\ \A j \in T : calls[j] = call \/ calls[j] = n.calls[j]
    BY <1>1 DEF SoundFacts, HasFacts
  <2> HIDE DEF calls
  <2>5. /\ HasFacts(facts, T) /\ facts.calls = calls /\ facts.evaluation = n.evaluation
        /\ facts.resumed = n.resumed /\ facts.cycles = n.cycles
    BY <1>1, <2>2, <2>4 DEF SoundFacts, HasFacts
  <2>6. \A j \in T : SoundOption(n.calls[j])
    BY <1>1 DEF SoundFacts, Recorded, SoundOption
  <2> QED BY <1>1, <2>3, <2>4, <2>5, <2>6, OtherFactsKeep
<1>4. \/ facts = n
      \/ \E i \in DOMAIN InitialProject.tasks, call \in OlderCalls : facts = [n EXCEPT !.calls[i] = call]
  BY DEF Init
<1> QED BY <1>2, <1>3, <1>4

-----------------------------------------------------------------------------
(* A failed task has a reason to be failed.                                *)

\* A failed task has failed of something, and has no try left, or is failed because
\* its repair is.
Explained(q, i) ==
  LET r == q.tasks[i] IN
  /\ r.category # "none"
  /\ RetriesLeft(q, i) => \E j \in DOMAIN q.tasks : Repairs(j, i)
FailuresExplained(q) == \A i \in WithStatus(q, {"failed"}) : Explained(q, i)

\* A failure of a stays the same in q, with at least as many attempts.
SameFailure(a, q, i) ==
  /\ i \in WithStatus(a, {"failed"})
  /\ q.tasks[i].category = a.tasks[i].category /\ a.tasks[i].attempts <= q.tasks[i].attempts

\* A failure stays explained while its task has no fewer attempts.
LEMMA FailuresStayExplained ==
  ASSUME NEW a, IsProject(a), FailuresExplained(a), NEW q, IsProject(q),
         DOMAIN a.tasks \subseteq DOMAIN q.tasks,
         \A i \in WithStatus(q, {"failed"}) : SameFailure(a, q, i) \/ Explained(q, i)
  PROVE  FailuresExplained(q)
<1>1. SUFFICES ASSUME NEW i \in WithStatus(q, {"failed"}), SameFailure(a, q, i) PROVE Explained(q, i)
  BY DEF FailuresExplained
<1>2. i \in DOMAIN a.tasks /\ i \in DOMAIN q.tasks /\ Explained(a, i)
  BY <1>1 DEF FailuresExplained, SameFailure, WithStatus
<1>3. a.tasks[i].attempts \in Nat /\ q.tasks[i].attempts \in Nat
  BY <1>2, Entry DEF TaskRecord
<1>4. RetryLimit[i[1]] \in Nat
  <2>1. i \in Original \X Seq(Nat)
    BY <1>2, Entry DEF Ids
  <2>2. i[1] \in Original
    BY <2>1
  <2> QED BY <2>2, WorkflowAssumption
<1>5. RetriesLeft(q, i) => RetriesLeft(a, i)
  BY <1>1, <1>3, <1>4 DEF SameFailure, RetriesLeft
<1> QED BY <1>1, <1>2, <1>5 DEF Explained, SameFailure

\* The tasks that a call does not touch, or that it leaves in another state.
LEMMA OtherFailures ==
  ASSUME NEW a, IsProject(a), FailuresExplained(a), NEW q, IsProject(q),
         DOMAIN a.tasks \subseteq DOMAIN q.tasks,
         \A i \in DOMAIN q.tasks :
           q.tasks[i].status # "failed" \/ (i \in DOMAIN a.tasks /\ q.tasks[i] = a.tasks[i])
  PROVE  FailuresExplained(q)
<1>1. ASSUME NEW i \in WithStatus(q, {"failed"}) PROVE SameFailure(a, q, i)
  <2>1. i \in DOMAIN a.tasks /\ q.tasks[i] = a.tasks[i] /\ q.tasks[i].status = "failed"
    BY DEF WithStatus
  <2>2. a.tasks[i].attempts \in Nat
    BY <2>1, Entry DEF TaskRecord
  <2> QED BY <2>1, <2>2 DEF SameFailure, WithStatus
<1> QED BY <1>1, FailuresStayExplained

\* A start adds an attempt to a task, and to the one that it repairs.
LEMMA StartExplains ==
  ASSUME NEW a, IsProject(a), FailuresExplained(a), NEW i
  PROVE  FailuresExplained(StartTask(a, i))
<1> DEFINE q == StartTask(a, i)
<1>1. IsProject(q) /\ DOMAIN q.tasks = DOMAIN a.tasks
  BY StartTaskType
<1>2. ASSUME NEW j \in DOMAIN a.tasks
      PROVE  q.tasks[j] =
              IF j = i THEN StartedRecord(a.tasks[j])
              ELSE IF Repairs(i, j) THEN [a.tasks[j] EXCEPT !.attempts = @ + 1]
              ELSE a.tasks[j]
  BY StartTable
<1> HIDE DEF q
<1>3. ASSUME NEW j \in WithStatus(q, {"failed"}) PROVE SameFailure(a, q, j)
  <2>1. j \in DOMAIN a.tasks /\ q.tasks[j].status = "failed"
    BY <1>1 DEF WithStatus
  <2>2. a.tasks[j] \in TaskRecord /\ a.tasks[j].attempts \in Nat
    BY <2>1, Entry DEF TaskRecord
  <2>3. j # i
    BY <1>2, <2>1, <2>2, RecordsShow
  <2>4. CASE Repairs(i, j)
    <3>1. q.tasks[j] = [a.tasks[j] EXCEPT !.attempts = @ + 1]
      BY <1>2, <2>1, <2>3, <2>4
    <3>2. q.tasks[j].status = a.tasks[j].status /\ q.tasks[j].category = a.tasks[j].category
      BY <2>2, <3>1, RecordsShow
    <3>3. q.tasks[j].attempts = a.tasks[j].attempts + 1
      BY <2>2, <3>1 DEF TaskRecord
    <3> QED BY <2>1, <2>2, <3>2, <3>3 DEF SameFailure, WithStatus
  <2>5. CASE ~Repairs(i, j)
    <3>1. q.tasks[j] = a.tasks[j]
      BY <1>2, <2>1, <2>3, <2>5
    <3>2. a.tasks[j].attempts <= q.tasks[j].attempts
      BY <2>2, <3>1
    <3> QED BY <2>1, <3>1, <3>2 DEF SameFailure, WithStatus
  <2> QED BY <2>4, <2>5
<1>4. FailuresExplained(q)
  BY <1>1, <1>3, FailuresStayExplained
<1> QED BY <1>4 DEF q

\* A task fails with a category, for good when no try is left.
LEMMA FailExplains ==
  ASSUME NEW a, IsProject(a), FailuresExplained(a), NEW i \in DOMAIN a.tasks,
         NEW c \in Categories, c # "none", NEW e \in SUBSET Evidence
  PROVE  FailuresExplained(FailTask(a, i, c, e))
<1> DEFINE q == FailTask(a, i, c, e)
           final == ~RetriesLeft(a, i)
           left(j) == IF final THEN e ELSE a.tasks[j].evidence
<1>1. IsProject(q) /\ DOMAIN q.tasks = DOMAIN a.tasks
  BY FailTaskType
<1>2. ASSUME NEW j \in DOMAIN a.tasks
      PROVE  q.tasks[j] =
              IF j = i THEN FailedRecord(a.tasks[j], IF final THEN "failed" ELSE "pending", c, left(j))
              ELSE IF Repairs(i, j) THEN FailedRecord(a.tasks[j], "failed", c, left(j))
              ELSE a.tasks[j]
  BY FailTable
<1> HIDE DEF q, left
<1>3. ASSUME NEW j \in WithStatus(q, {"failed"}) PROVE SameFailure(a, q, j) \/ Explained(q, j)
  <2>1. j \in DOMAIN a.tasks /\ q.tasks[j].status = "failed"
    BY <1>1 DEF WithStatus
  <2>2. a.tasks[j] \in TaskRecord /\ a.tasks[j].attempts \in Nat
    BY <2>1, Entry DEF TaskRecord
  <2>3. \A s, x : FailedRecord(a.tasks[j], s, c, x).category = c /\ FailedRecord(a.tasks[j], s, c, x).status = s
                  /\ FailedRecord(a.tasks[j], s, c, x).attempts = a.tasks[j].attempts
    BY <2>2 DEF FailedRecord, TaskRecord
  <2>4. CASE j = i
    <3>1. q.tasks[j] = FailedRecord(a.tasks[j], IF final THEN "failed" ELSE "pending", c, left(j))
      BY <1>2, <2>1, <2>4
    <3>2. final /\ q.tasks[j].category = c /\ q.tasks[j].attempts = a.tasks[j].attempts
      BY <2>1, <2>3, <3>1
    <3>3. ~RetriesLeft(q, j)
      BY <2>4, <3>2 DEF RetriesLeft
    <3> QED BY <3>2, <3>3 DEF Explained
  <2>5. CASE j # i /\ Repairs(i, j)
    <3>1. q.tasks[j].category = c
      BY <1>2, <2>1, <2>3, <2>5
    <3> QED BY <1>1, <2>5, <3>1 DEF Explained
  <2>6. CASE j # i /\ ~Repairs(i, j)
    <3>1. q.tasks[j] = a.tasks[j]
      BY <1>2, <2>1, <2>6
    <3>2. a.tasks[j].attempts <= q.tasks[j].attempts
      BY <2>2, <3>1
    <3> QED BY <2>1, <3>1, <3>2 DEF SameFailure, WithStatus
  <2> QED BY <2>4, <2>5, <2>6
<1>4. FailuresExplained(q)
  BY <1>1, <1>3, FailuresStayExplained
<1> QED BY <1>4 DEF q

\* A completed repair completes the task that it repairs.
LEMMA CompleteExplains ==
  ASSUME NEW a, IsProject(a), FailuresExplained(a), NEW i
  PROVE  FailuresExplained(CompleteTask(a, i))
<1> DEFINE q == CompleteTask(a, i)
<1>1. IsProject(q) /\ DOMAIN q.tasks = DOMAIN a.tasks
  BY CompleteTaskType
<1>2. ASSUME NEW j \in DOMAIN a.tasks
      PROVE  q.tasks[j].status # "failed" \/ q.tasks[j] = a.tasks[j]
  <2>1. a.tasks[j] \in TaskRecord
    BY Entry
  <2>2. \/ \E x : q.tasks[j] = DoneRecord(a.tasks[j], x)
        \/ \E k, x : q.tasks[j] = SkippedRecord(a.tasks[j], k, x)
        \/ q.tasks[j] = a.tasks[j]
    <3> HIDE DEF q
    <3>1. q.tasks[j] =
              IF j = i
                THEN DoneRecord(a.tasks[j], IF IsRepair(i) THEN a.tasks[j].context ELSE NoContext)
              ELSE IF Repairs(i, j) THEN DoneRecord(a.tasks[j], NoContext)
              ELSE IF /\ HasOrigin(a, i) /\ IsRepair(j) /\ Origin(j) = Origin(i)
                      /\ a.tasks[j].status = "pending"
                THEN SkippedRecord(a.tasks[j], "superseded_repair", a.tasks[j].context)
              ELSE a.tasks[j]
      BY CompleteTable DEF q
    <3> QED BY <3>1
  <2> HIDE DEF q
  <2>3. ASSUME NEW x, q.tasks[j] = DoneRecord(a.tasks[j], x) PROVE q.tasks[j].status # "failed"
    BY <2>1, <2>3, RecordsShow
  <2>4. ASSUME NEW k, NEW x, q.tasks[j] = SkippedRecord(a.tasks[j], k, x)
        PROVE  q.tasks[j].status # "failed"
    BY <2>1, <2>4, RecordsShow
  <2> QED BY <2>2, <2>3, <2>4
<1> HIDE DEF q
<1>3. FailuresExplained(q)
  BY <1>1, <1>2, OtherFailures
<1> QED BY <1>3 DEF q

\* Skipped tasks are not failed.
LEMMA SkipExplains ==
  ASSUME NEW a, IsProject(a), FailuresExplained(a)
  PROVE  /\ \A i : FailuresExplained(SkipDependents(a, i))
         /\ FailuresExplained(SkipSuperseded(a))
         /\ FailuresExplained(CancelProject(a))
<1>1. ASSUME NEW j \in DOMAIN a.tasks, NEW k, NEW x
      PROVE  SkippedRecord(a.tasks[j], k, x).status # "failed"
  BY Entry, RecordsShow
<1>2. ASSUME NEW i PROVE FailuresExplained(SkipDependents(a, i))
  <2> DEFINE q == SkipDependents(a, i)
  <2>1. IsProject(q) /\ DOMAIN q.tasks = DOMAIN a.tasks
    BY SkipDependentsType
  <2>2. \A j \in DOMAIN a.tasks : q.tasks[j].status # "failed" \/ q.tasks[j] = a.tasks[j]
    BY <1>1, SkipDependentsTable
  <2> HIDE DEF q
  <2>3. FailuresExplained(q)
    BY <2>1, <2>2, OtherFailures
  <2> QED BY <2>3 DEF q
<1>3. FailuresExplained(SkipSuperseded(a))
  <2> DEFINE q == SkipSuperseded(a)
  <2>1. IsProject(q) /\ DOMAIN q.tasks = DOMAIN a.tasks
    BY SkipSupersededType
  <2>2. \A j \in DOMAIN a.tasks : q.tasks[j].status # "failed" \/ q.tasks[j] = a.tasks[j]
    BY <1>1, SkipSupersededTable
  <2> HIDE DEF q
  <2>3. FailuresExplained(q)
    BY <2>1, <2>2, OtherFailures
  <2> QED BY <2>3 DEF q
<1>4. FailuresExplained(CancelProject(a))
  <2> DEFINE q == CancelProject(a)
  <2>1. IsProject(q) /\ DOMAIN q.tasks = DOMAIN a.tasks
    BY CancelType
  <2>2. \A j \in DOMAIN a.tasks : q.tasks[j].status # "failed" \/ q.tasks[j] = a.tasks[j]
    BY <1>1, CancelTable
  <2> HIDE DEF q
  <2>3. FailuresExplained(q)
    BY <2>1, <2>2, OtherFailures
  <2> QED BY <2>3 DEF q
<1> QED BY <1>2, <1>3, <1>4

\* skip_task and override_task.
LEMMA OneTaskExplains ==
  ASSUME NEW a, IsProject(a), FailuresExplained(a), NEW i \in DOMAIN a.tasks
  PROVE  FailuresExplained(SkipTask(a, i, "manual")) /\ FailuresExplained(OverrideTask(a, i))
<1>1. a.tasks[i] \in TaskRecord
  BY Entry
<1>2. ASSUME NEW r, NEW q, q = [a EXCEPT !.tasks = [a.tasks EXCEPT ![i] = r]], IsProject(q),
             r.status # "failed"
      PROVE  FailuresExplained(q)
  <2> DEFINE table == [a.tasks EXCEPT ![i] = r]
  <2>1. q.tasks = table
    <3>1. q = [a EXCEPT !.tasks = table]
      BY <1>2
    <3>2. [a EXCEPT !.tasks = table].tasks = table
      <4> HIDE DEF table
      <4> QED BY TableOf
    <3> HIDE DEF table
    <3> QED BY <3>1, <3>2
  <2>2. DOMAIN q.tasks = DOMAIN a.tasks /\ q.tasks[i] = r /\ \A j \in DOMAIN a.tasks : j # i => q.tasks[j] = a.tasks[j]
    BY <2>1
  <2> QED BY <1>2, <2>2, OtherFailures
<1>3. FailuresExplained(SkipTask(a, i, "manual"))
  <2> DEFINE r == SkippedRecord(a.tasks[i], "manual", NoContext)
             q == SkipTask(a, i, "manual")
  <2>1. r.status # "failed"
    BY <1>1, RecordsShow
  <2>2. q = [a EXCEPT !.tasks = [a.tasks EXCEPT ![i] = r]]
    BY DEF SkipTask
  <2>3. IsProject(q)
    BY SkipTaskType DEF SkipReasons
  <2> HIDE DEF r, q
  <2>4. FailuresExplained(q)
    BY <1>2, <2>1, <2>2, <2>3
  <2> QED BY <2>4 DEF q
<1>4. FailuresExplained(OverrideTask(a, i))
  <2> DEFINE r == [DoneRecord(a.tasks[i], NoContext) EXCEPT !.skip = "none"]
             q == OverrideTask(a, i)
  <2>1. r.status # "failed"
    BY <1>1 DEF DoneRecord, TaskRecord
  <2>2. q = [a EXCEPT !.tasks = [a.tasks EXCEPT ![i] = r]]
    BY DEF OverrideTask
  <2>3. IsProject(q)
    BY OverrideTaskType
  <2> HIDE DEF r, q
  <2>4. FailuresExplained(q)
    BY <1>2, <2>1, <2>2, <2>3
  <2> QED BY <2>4 DEF q
<1> QED BY <1>3, <1>4

\* replay_workflow and resume_interrupted_tasks.
LEMMA RestartExplains ==
  ASSUME NEW a, IsProject(a), FailuresExplained(a)
  PROVE  FailuresExplained(ReplayProject(a)) /\ FailuresExplained(ResumeInterrupted(a))
<1>1. FailuresExplained(ReplayProject(a))
  <2>1. \A i \in DOMAIN ReplayProject(a).tasks : ReplayProject(a).tasks[i].status = "pending"
    BY DEF ReplayProject, InitialProject, NewTask
  <2>2. WithStatus(ReplayProject(a), {"failed"}) = {}
    BY <2>1 DEF WithStatus
  <2> QED BY <2>2 DEF FailuresExplained
<1>2. FailuresExplained(ResumeInterrupted(a))
  <2> DEFINE q == ResumeInterrupted(a)
             left == WithStatus(a, {"running"})
             table == [j \in DOMAIN a.tasks |->
                         IF j \in left
                           THEN [a.tasks[j] EXCEPT !.status = "pending", !.category = "none"]
                         ELSE a.tasks[j]]
  <2>1. IsProject(q) /\ DOMAIN q.tasks = DOMAIN a.tasks
    BY ResumeInterruptedType
  <2>2. q \in {a, [a EXCEPT !.finished = FALSE, !.tasks = table]}
    BY DEF ResumeInterrupted
  <2>3. [a EXCEPT !.finished = FALSE, !.tasks = table].tasks = table
    <3> HIDE DEF table
    <3> QED BY TableOf
  <2>4. ASSUME NEW j \in DOMAIN a.tasks PROVE table[j].status # "failed" \/ table[j] = a.tasks[j]
    <3>1. a.tasks[j] \in TaskRecord
      BY Entry
    <3>2. [a.tasks[j] EXCEPT !.status = "pending", !.category = "none"].status = "pending"
      BY <3>1 DEF TaskRecord
    <3> QED BY <3>2
  <2> HIDE DEF q, table
  <2>5. \A j \in DOMAIN a.tasks : q.tasks[j].status # "failed" \/ q.tasks[j] = a.tasks[j]
    BY <2>2, <2>3, <2>4
  <2>6. FailuresExplained(q)
    BY <2>1, <2>5, OtherFailures
  <2> QED BY <2>6 DEF q
<1> QED BY <1>1, <1>2

\* The planning of a cycle keeps the outcomes of the tasks.
LEMMA PlannedTasks ==
  ASSUME NEW a, IsProject(a), NEW F \in SUBSET DOMAIN a.tasks, NEW c \in Nat,
         NEW b, b = PlanRepairs(a, F, c)
  PROVE  /\ \A j \in DOMAIN a.tasks :
              /\ b.tasks[j].status = a.tasks[j].status
              /\ b.tasks[j].attempts = a.tasks[j].attempts
              /\ b.tasks[j].category = a.tasks[j].category
         /\ \A j \in CycleIds(a, F, c) \ DOMAIN a.tasks : b.tasks[j].status = "pending"
BY PlanTable

\* start_repair_cycle, the planning of the cycle and resume_failed_tasks.
LEMMA CycleExplains ==
  ASSUME NEW a, IsProject(a), FailuresExplained(a),
         NEW F \in SUBSET DOMAIN a.tasks, NEW c \in Nat, NEW extra
  PROVE  FailuresExplained(ResumeFailed(PlanRepairs(StartCycle(a), F, c), F, extra))
<1> DEFINE T == DOMAIN a.tasks
<1>1. SUFFICES ASSUME NEW s, s = StartCycle(a), NEW b, b = PlanRepairs(s, F, c),
                      NEW q, q = ResumeFailed(b, F, extra)
               PROVE  FailuresExplained(q)
  OBVIOUS
<1>2. IsProject(s) /\ s.tasks = a.tasks
  BY <1>1, StartCycleType
<1>3. F \in SUBSET DOMAIN s.tasks
  BY <1>2
<1>4. IsProject(b) /\ DOMAIN b.tasks = T \cup CycleIds(s, F, c)
  BY <1>1, <1>2, <1>3, PlanRepairsType
<1>5. /\ \A j \in T :
           /\ b.tasks[j].status = a.tasks[j].status
           /\ b.tasks[j].attempts = a.tasks[j].attempts
           /\ b.tasks[j].category = a.tasks[j].category
      /\ \A j \in CycleIds(s, F, c) \ T : b.tasks[j].status = "pending"
  <2>1. /\ \A j \in DOMAIN s.tasks :
             /\ b.tasks[j].status = s.tasks[j].status
             /\ b.tasks[j].attempts = s.tasks[j].attempts
             /\ b.tasks[j].category = s.tasks[j].category
        /\ \A j \in CycleIds(s, F, c) \ DOMAIN s.tasks : b.tasks[j].status = "pending"
    <3>1. ASSUME NEW G \in SUBSET DOMAIN s.tasks, b = PlanRepairs(s, G, c)
          PROVE  /\ \A j \in DOMAIN s.tasks :
                      /\ b.tasks[j].status = s.tasks[j].status
                      /\ b.tasks[j].attempts = s.tasks[j].attempts
                      /\ b.tasks[j].category = s.tasks[j].category
                 /\ \A j \in CycleIds(s, G, c) \ DOMAIN s.tasks : b.tasks[j].status = "pending"
      BY <1>2, <3>1, PlannedTasks
    <3> QED BY <1>1, <1>3, <3>1
  <2> QED BY <1>2, <2>1
<1>6. IsProject(q) /\ DOMAIN q.tasks = DOMAIN b.tasks
  BY <1>1, <1>4, ResumeFailedType
<1>7. \A j \in DOMAIN b.tasks : q.tasks[j] = b.tasks[j] \/ q.tasks[j].status = "pending"
  BY <1>1, <1>4, ResumeTable
<1>8. ASSUME NEW j \in WithStatus(q, {"failed"}) PROVE SameFailure(a, q, j)
  <2>1. j \in DOMAIN b.tasks /\ q.tasks[j].status = "failed"
    BY <1>6 DEF WithStatus
  <2>2. q.tasks[j] = b.tasks[j] /\ j \in T
    BY <1>4, <1>5, <1>7, <2>1
  <2>3. a.tasks[j].attempts \in Nat
    BY <2>2, Entry DEF TaskRecord
  <2> QED BY <1>5, <2>1, <2>2, <2>3 DEF SameFailure, WithStatus
<1> QED BY <1>4, <1>6, <1>8, FailuresStayExplained

\* A project with the same tasks.
LEMMA SameTasksExplain ==
  ASSUME NEW a, FailuresExplained(a), NEW q, q.tasks = a.tasks
  PROVE  FailuresExplained(q)
BY DEF FailuresExplained, Explained, WithStatus, RetriesLeft

\* The calls that work on tasks.
LEMMA TaskFailuresExplained ==
  ASSUME IsProject(project), FailuresExplained(project), NEW i \in Tasks
  PROVE  /\ Start(i) => FailuresExplained(project')
         /\ \A kind \in FailureKinds : \A call :
              Fail(i, kind, call) => FailuresExplained(project')
         /\ \A call : Complete(i, call) => FailuresExplained(project')
         /\ Skip(i) \/ SkipBehind(i) \/ Override(i) \/ Report(i) => FailuresExplained(project')
<1>0. i \in DOMAIN project.tasks
  BY DEF Tasks, p
<1>1. ASSUME Start(i) PROVE FailuresExplained(project')
  <2>1. project' = StartTask(project, i)
    BY <1>1 DEF Start, Do, p
  <2> QED BY <2>1, StartExplains
<1>2. ASSUME NEW kind \in FailureKinds, NEW call, Fail(i, kind, call) PROVE FailuresExplained(project')
  <2>1. project' = FailTask(project, i, kind.category, kind.evidence)
    BY <1>2 DEF Fail, Do, p
  <2>2. kind.category \in Categories /\ kind.category # "none" /\ kind.evidence \in SUBSET Evidence
    BY FailureAssumption
  <2> QED BY <1>0, <2>1, <2>2, FailExplains
<1>3. ASSUME NEW call, Complete(i, call) PROVE FailuresExplained(project')
  <2>1. project' = CompleteTask(project, i)
    BY <1>3 DEF Complete, Do, p
  <2> QED BY <2>1, CompleteExplains
<1>4. ASSUME Skip(i) PROVE FailuresExplained(project')
  <2>1. project' = SkipTask(project, i, "manual")
    BY <1>4 DEF Skip, Do, p
  <2> QED BY <1>0, <2>1, OneTaskExplains
<1>5. ASSUME SkipBehind(i) PROVE FailuresExplained(project')
  <2>1. project' = SkipDependents(project, i)
    BY <1>5 DEF SkipBehind, Do, p
  <2> QED BY <2>1, SkipExplains
<1>6. ASSUME Override(i) PROVE FailuresExplained(project')
  <2>1. project' = OverrideTask(project, i)
    BY <1>6 DEF Override, Do, p
  <2> QED BY <1>0, <2>1, OneTaskExplains
<1>7. ASSUME Report(i) PROVE FailuresExplained(project')
  <2>1. project' = project
    BY <1>7 DEF Report, Do, p
  <2> QED BY <2>1
<1> QED BY <1>1, <1>2, <1>3, <1>4, <1>5, <1>6, <1>7

\* The calls that work on the workflow.
LEMMA WorkflowFailuresExplained ==
  ASSUME IsProject(project), FailuresExplained(project),
         SkipServed \/ Run \/ Finish \/ Pause \/ Resume \/ Cancel \/ Replay \/ Recover \/ Repair
  PROVE  FailuresExplained(project')
<1>1. CASE SkipServed
  <2>1. project' = SkipSuperseded(project)
    BY <1>1 DEF SkipServed, Do, p
  <2> QED BY <2>1, SkipExplains
<1>2. CASE Run
  <2>1. project' = MarkRunning(project, CycleBudget)
    BY <1>2 DEF Run, Do, p
  <2>2. project'.tasks = project.tasks
    BY <2>1, MarkRunningType, BoundAssumption
  <2> QED BY <2>2, SameTasksExplain
<1>3. CASE Finish
  <2>1. PICK phase, outcome, failure : project' = MarkFinished(project, phase, outcome, failure)
    <3>1. \E failure, g, events :
            Do(MarkFinished(project, IF failure = "none" THEN "completed" ELSE "failed",
                            IF failure = "none" THEN "completed" ELSE "failed", failure),
               g, events, {})
      BY <1>3 DEF Finish, p
    <3>2. ASSUME NEW q, NEW g, NEW events, Do(q, g, events, {}) PROVE project' = q
      BY <3>2 DEF Do
    <3> QED BY <3>1, <3>2
  <2>2. project'.tasks = project.tasks
    BY <2>1 DEF MarkFinished, IsProject, ProjectRecord
  <2> QED BY <2>2, SameTasksExplain
<1>4. CASE Pause \/ Resume
  <2>1. project' = PauseProject(project) \/ project' = ResumeProject(project)
    BY <1>4 DEF Pause, Resume, Do, p
  <2>2. project'.tasks = project.tasks
    BY <2>1, PauseResumeType
  <2> QED BY <2>2, SameTasksExplain
<1>5. CASE Cancel
  <2>1. project' = CancelProject(project)
    BY <1>5 DEF Cancel, Do, p
  <2> QED BY <2>1, SkipExplains
<1>6. CASE Replay
  <2>1. project' = ReplayProject(project)
    BY <1>6 DEF Replay, Do, p
  <2> QED BY <2>1, RestartExplains
<1>7. CASE Recover
  <2>1. project' = ResumeInterrupted(project)
    BY <1>7 DEF Recover, Do, p
  <2> QED BY <2>1, RestartExplains
<1>8. CASE Repair
  <2> DEFINE F == FailedForRepair(project)
             c == project.cycles + 1
  <2>1. PICK extra : project' = ResumeFailed(PlanRepairs(StartCycle(project), F, c), F, extra)
    BY <1>8 DEF Repair, Do, p
  <2>2. F \in SUBSET DOMAIN project.tasks /\ c \in Nat
    <3>1. project.cycles \in Nat
      BY DEF IsProject, ProjectRecord
    <3> QED BY <3>1 DEF FailedForRepair, WithStatus
  <2> HIDE DEF F, c
  <2> QED BY <2>1, <2>2, CycleExplains
<1> QED BY <1>1, <1>2, <1>3, <1>4, <1>5, <1>6, <1>7, <1>8

\* Every call keeps the failures explained.
LEMMA CausesKept ==
  ASSUME IsProject(project), FailuresExplained(project), [Next]_vars
  PROVE  FailuresExplained(project')
<1>1. CASE UNCHANGED vars
  BY <1>1 DEF vars
<1>2. ASSUME NEW i \in Tasks,
             \/ Start(i) \/ SkipBehind(i) \/ Report(i) \/ Skip(i) \/ Override(i)
             \/ \E kind \in FailureKinds, call \in BadCalls : Fail(i, kind, call)
             \/ \E call \in GoodCalls : Complete(i, call)
      PROVE  FailuresExplained(project')
  BY <1>2, TaskFailuresExplained
<1>3. ASSUME SkipServed \/ Run \/ Finish \/ Pause \/ Resume \/ Cancel \/ Replay \/ Recover \/ Repair
      PROVE  FailuresExplained(project')
  BY <1>3, WorkflowFailuresExplained
<1> QED BY <1>1, <1>2, <1>3 DEF Next, Work, Intervention

\* No task has failed at the start.
LEMMA InitCauses ==
  ASSUME Init
  PROVE  FailuresExplained(project)
<1>1. /\ \A i \in DOMAIN InitialProject.tasks : InitialProject.tasks[i].status = "pending"
      /\ IsProject(InitialProject)
  BY InitialType DEF InitialProject, NewTask
<1>2. \A j \in DOMAIN project.tasks : project.tasks[j].status # "failed"
  <2>1. CASE project = InitialProject
    BY <1>1, <2>1
  <2>2. CASE \E i \in DOMAIN InitialProject.tasks :
               project = [InitialProject EXCEPT !.tasks[i].status = "done", !.tasks[i].attempts = 1]
    <3>1. PICK i \in DOMAIN InitialProject.tasks :
               project = [InitialProject EXCEPT !.tasks[i].status = "done", !.tasks[i].attempts = 1]
      BY <2>2
    <3> DEFINE r == [InitialProject.tasks[i] EXCEPT !.status = "done", !.attempts = 1]
               table == [InitialProject.tasks EXCEPT ![i] = r]
    <3>2. project = [InitialProject EXCEPT !.tasks = table]
      BY <3>1
    <3>3. r.status = "done"
      <4>1. InitialProject.tasks[i] \in TaskRecord
        BY <1>1, Entry
      <4> QED BY <4>1 DEF TaskRecord
    <3>4. /\ DOMAIN table = DOMAIN InitialProject.tasks /\ table[i] = r
          /\ \A j \in DOMAIN InitialProject.tasks : j # i => table[j] = InitialProject.tasks[j]
      OBVIOUS
    <3> HIDE DEF table, r
    <3>5. project.tasks = table
      BY <1>1, <3>2 DEF IsProject, ProjectRecord
    <3> QED BY <1>1, <3>3, <3>4, <3>5
  <2> QED BY <2>1, <2>2 DEF Init
<1> QED BY <1>2 DEF FailuresExplained, WithStatus

-----------------------------------------------------------------------------
(* The views agree at every moment.                                        *)

\* The progress of a project is that of its graph.
LEMMA ProgressAgrees ==
  ASSUME IsProject(project)
  PROVE  ProgressIsTrue(Progress(p))
<1> DEFINE T == DOMAIN project.tasks
           shown == Progress(project)
<1>1. ASSUME NEW i \in T PROVE project.tasks[i].status \in Statuses
  BY Entry DEF TaskRecord
<1>2. /\ Pending(project) \subseteq T
      /\ WithStatus(project, {"running"}) \subseteq T /\ Terminal(project) \subseteq T
      /\ \A i \in T : i \in Terminal(project) <=>
                        i \notin Pending(project) /\ i \notin WithStatus(project, {"running"})
      /\ \A i \in T : i \in Terminal(project) <=> project.tasks[i].status \notin {"pending", "running"}
  BY <1>1 DEF Pending, Terminal, WithStatus, Statuses
<1>3. RunnableTasks(project) \subseteq Pending(project) /\ BlockedTasks(project) \subseteq Pending(project)
  BY DEF RunnableTasks, BlockedTasks, Runnable, Ready, Pending, WithStatus
<1>4. /\ shown.pending <=> Pending(project) # {}
      /\ shown.running <=> WithStatus(project, {"running"}) # {}
      /\ shown.runnable => RunnableTasks(project) # {}
      /\ shown.blocked => Pending(project) # {} \/ BlockedTasks(project) # {}
      /\ shown.terminal <=> Terminal(project) # {}
      /\ shown.all <=> T # {} /\ Terminal(project) = T
  BY DEF Progress
<1> HIDE DEF shown
<1>5. shown.all => ~shown.runnable /\ ~shown.blocked /\ ~shown.running
  BY <1>2, <1>3, <1>4
<1>6. ~shown.pending /\ ~shown.running => (shown.all <=> T # {})
  BY <1>2, <1>4
<1>7. shown.terminal <=> \E i \in T : project.tasks[i].status \notin {"pending", "running"}
  BY <1>2, <1>4
<1>8. ProgressIsTrue(shown)
  BY <1>5, <1>6, <1>7 DEF ProgressIsTrue, Tasks, p
<1> QED BY <1>8 DEF shown, p

\* A failed task tells of what it failed.
LEMMA FailuresAgree ==
  ASSUME ViewsInv, FailuresExplained(project), NEW i \in Tasks
  PROVE  FailureIsTold(i, TaskResult(p, f, i))
<1> DEFINE r == project.tasks[i]
           result == TaskResult(project, facts, i)
<1>1. i \in DOMAIN project.tasks
  BY DEF Tasks, p
<1>2. CASE r.status # "failed"
  <2>1. result.failure = {}
    BY <1>2 DEF TaskResult
  <2> QED BY <2>1 DEF FailureIsTold, p, f
<1>3. CASE r.status = "failed"
  <2>1. /\ result.failure = {[category |-> r.category, retryable |-> r.attempts <= RetryLimit[i[1]]]}
        /\ result.error = facts.errors[i]
    BY <1>3 DEF TaskResult
  <2>2. facts.errors[i]
    BY <1>1, <1>3 DEF ViewsInv, Shown
  <2>3. Explained(project, i)
    BY <1>1, <1>3 DEF FailuresExplained, WithStatus
  <2> HIDE DEF result
  <2>4. ASSUME NEW failure \in result.failure
        PROVE  /\ failure.category # "none"
               /\ failure.retryable => \E j \in Tasks : Repairs(j, i)
    <3>1. failure.category = r.category /\ (failure.retryable <=> r.attempts <= RetryLimit[i[1]])
      <4> DEFINE left == r.attempts <= RetryLimit[i[1]]
      <4> HIDE DEF left
      <4>1. failure = [category |-> r.category, retryable |-> left]
        BY <2>1 DEF left
      <4>2. failure.category = r.category /\ failure.retryable = left
        BY <4>1
      <4> QED BY <4>2, Zenon DEF left
    <3> QED BY <2>3, <3>1 DEF Explained, RetriesLeft, Tasks, p
  <2>5. FailureIsTold(i, result)
    BY <2>1, <2>2, <2>4 DEF FailureIsTold
  <2> QED BY <2>5 DEF result, p, f
<1> QED BY <1>2, <1>3

\* The calls of the tasks clean and count well.
LEMMA CallsAgree ==
  ASSUME ViewsInv, SoundFacts(facts, DOMAIN project.tasks), NEW i \in Called(f)
  PROVE  CleansWell(Call(f, i)) /\ CountsWell(TaskTelemetry(p, f, i), Call(f, i))
<1>1. /\ Recorded(facts, DOMAIN project.tasks) /\ DOMAIN facts.calls = DOMAIN project.tasks
      /\ IsFiniteSet(DOMAIN project.tasks)
  BY DEF SoundFacts, HasFacts, ViewsInv
<1>2. i \in Called(facts) /\ IsCall(Call(facts, i))
  BY <1>1, CalledTasks DEF f
<1>3. /\ TaskTelemetry(project, facts, i).attempts = AttemptCount(Call(facts, i))
      /\ TaskTelemetry(project, facts, i).retries = RetryCount(Call(facts, i))
  BY <1>2 DEF TaskTelemetry
<1> DEFINE told == TaskTelemetry(project, facts, i)
           c == Call(facts, i)
<1> HIDE DEF told, c
<1>4. CountsWell(told, c)
  BY <1>2, <1>3, CallCounts DEF CountsWell, told, c
<1> QED BY <1>2, <1>4, CallsCleanWell DEF f, p, told, c

\* Older records show what they would show had they been cleaned when stored.
LEMMA CleanedViewsAgree ==
  ASSUME ViewsInv, SoundFacts(facts, DOMAIN project.tasks)
  PROVE  PublicView(p, Cleaned(f)) = PublicView(p, f)
<1> DEFINE T == DOMAIN project.tasks
           calls == [i \in DOMAIN facts.calls |-> Stored(facts.calls[i])]
           g == Cleaned(facts)
<1>1. Recorded(facts, T) /\ HasFacts(facts, T) /\ DOMAIN facts.calls = T /\ IsFiniteSet(T)
  BY DEF SoundFacts, HasFacts, ViewsInv
<1>2. g = [facts EXCEPT !.calls = calls]
  BY DEF Cleaned
<1>3. DOMAIN calls = T /\ \A i \in T : calls[i] = Stored(facts.calls[i])
  BY <1>1
<1> HIDE DEF calls
<1>4. /\ g.calls = calls /\ g.accepted = facts.accepted /\ g.evaluation = facts.evaluation
      /\ g.resumed = facts.resumed /\ g.cycles = facts.cycles
  BY <1>1, <1>2 DEF HasFacts
<1> HIDE DEF g
<1>5. Called(g) = Called(facts)
  BY <1>1, <1>3, <1>4 DEF Called, Stored
<1>6. ASSUME NEW i \in Called(facts) PROVE SameCall(Call(facts, i), Call(g, i))
  <2> DEFINE c == Call(facts, i)
  <2>1. i \in T /\ IsCall(c) /\ facts.calls[i] = {c}
    BY <1>1, CalledTasks
  <2> HIDE DEF c
  <2>2. Stored({c}) = {Strict(c)}
    BY DEF Stored
  <2>3. g.calls[i] = {Strict(c)}
    BY <1>3, <1>4, <2>1, <2>2
  <2>4. Call(g, i) = Strict(c)
    <3>1. The({Strict(c)}) = Strict(c)
      BY DEF The
    <3> QED BY <2>3, <3>1 DEF Call
  <2>5. SameCall(c, Strict(c))
    BY <2>1, CleanIsSame
  <2> QED BY <2>4, <2>5 DEF c
<1> QED BY <1>4, <1>5, <1>6, SamePublicView DEF SameCalls, f, p, g

\* What holds of a project, its facts and its failures at every moment.
ViewsStrongInv ==
  /\ ViewsInv
  /\ SoundFacts(facts, DOMAIN project.tasks)
  /\ FailuresExplained(project)

\* What the invariant says is what the views need.
LEMMA StrongInvariantShows ==
  ASSUME ViewsStrongInv
  PROVE  ViewsAgree
<1>1. /\ ViewsInv /\ SoundFacts(facts, DOMAIN project.tasks) /\ FailuresExplained(project)
      /\ IsProject(project) /\ IsFiniteSet(DOMAIN project.tasks)
  BY DEF ViewsStrongInv, ViewsInv
<1>2. SameFacts(PublicView(p, f), InternalView(p, f))
  <2>1. Recorded(facts, DOMAIN project.tasks) /\ DOMAIN facts.calls = DOMAIN project.tasks
    BY <1>1 DEF SoundFacts, HasFacts
  <2> QED BY <1>1, <2>1, ViewsHaveSameFacts DEF p, f
<1>3. PublicView(p, Cleaned(f)) = PublicView(p, f)
  BY <1>1, CleanedViewsAgree
<1>4. \A i \in Called(f) :
        CleansWell(Call(f, i)) /\ CountsWell(TaskTelemetry(p, f, i), Call(f, i))
  BY <1>1, CallsAgree
<1>5. ProgressIsTrue(Progress(p))
  BY <1>1, ProgressAgrees
<1>6. \A i \in Tasks : FailureIsTold(i, TaskResult(p, f, i))
  BY <1>1, FailuresAgree
<1> QED BY <1>2, <1>3, <1>4, <1>5, <1>6 DEF ViewsAgree

\* For any workflow, and any calls that agents make and failures that they have, the
\* public view tells of each count of the internal one whether it is zero, the views
\* do not depend on whether the records of older files were cleaned, no cleaned record
\* tells a credential, the progress is that of the graph, and every failed task tells
\* what it failed of (the views of memory/project_state.py and the sanitizers of
\* providers/base.py).
THEOREM ViewsAlwaysAgree == Spec => []ViewsAgree
<1>1. Init => ViewsStrongInv
  BY InitShows, InitRecords, InitCauses DEF ViewsStrongInv
<1>2. ViewsStrongInv /\ [Next]_vars => ViewsStrongInv'
  <2>1. ASSUME ViewsStrongInv, [Next]_vars PROVE ViewsStrongInv'
    <3>1. ViewsInv /\ SoundFacts(facts, DOMAIN project.tasks) /\ FailuresExplained(project)
          /\ IsProject(project)
      BY <2>1 DEF ViewsStrongInv, ViewsInv
    <3>2. ViewsInv'
      BY <2>1, <3>1, NextKeeps
    <3>3. SoundFacts(facts', DOMAIN project'.tasks)
      BY <2>1, <3>1, RecordsKept
    <3>4. FailuresExplained(project')
      BY <2>1, <3>1, CausesKept
    <3> QED BY <3>2, <3>3, <3>4 DEF ViewsStrongInv
  <2> QED BY <2>1
<1>3. ViewsStrongInv => ViewsAgree
  BY StrongInvariantShows
<1> QED BY <1>1, <1>2, <1>3, PTL DEF Spec
=============================================================================
