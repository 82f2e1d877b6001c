------------------------- MODULE TaskExecutionProofs -------------------------
(***************************************************************************)
(* What TaskExecution promises whatever the tasks and their roles, what    *)
(* agents answer, how the generated tests end and how often executions are *)
(* interrupted.                                                            *)
(***************************************************************************)
EXTENDS TaskExecution, SequenceTheorems, FiniteSetTheorems, TLAPS

-----------------------------------------------------------------------------
(* Histories.  A call is numbered by its place in the log of its agent; the*)
(* calls of the running task are those that were logged since it started.  *)

Roles  == {Role[t] : t \in Tasks}
Fields == {"status", "attempts", "calls", "last", "mode", "category", "output", "pytest"}

\* The record of a task.
IsRecord(r) ==
  /\ DOMAIN r = Fields
  /\ r.status \in Statuses /\ r.attempts \in Nat
  /\ r.calls \in Seq(Calls) /\ r.last \in Calls \cup {Absent}
  /\ r.mode \in {Absent, "provider", "deterministic"}

\* The type invariant with the whole of every record.
Typed ==
  /\ work \in Workloads
  /\ DOMAIN tasks = Tasks /\ \A t \in Tasks : IsRecord(tasks[t])
  /\ agents \in [Roles -> [log : Seq(Calls), last : Calls \cup {Absent}]]
  /\ run.pc \in {"idle", "input", "output", "accepted"}
  /\ DOMAIN run = {"pc", "task", "start", "output", "pytest"}
  /\ interrupts \in 0 .. MaxInterrupts[work]

\* The task at hand is running, and all that was logged since it started is its own.
AtHand ==
  run.pc # "idle" =>
    /\ Task \in Works[work] /\ Task \in Tasks /\ tasks[Task].status = "running"
    /\ run.start \in 0 .. Len(Agent(Task).log)
    /\ \A i \in run.start + 1 .. Len(Agent(Task).log) : Agent(Task).log[i].by = Task
    /\ run.pc = "input" => run.start = Len(Agent(Task).log)
    /\ run.pc # "input" => DOMAIN run.output = {"text", "call"} /\ run.output.call \in Calls

\* Every log numbers its calls and names tasks of its role.
Logs ==
  \A r \in Roles : \A i \in 1 .. Len(agents[r].log) :
    agents[r].log[i].n = i /\ Role[agents[r].log[i].by] = r

\* The part of the log of its agent that the history of a task may hold.
Known(t) == IF run.pc # "idle" /\ t = Task THEN run.start ELSE Len(Agent(t).log)

\* The history of each task holds its own calls, in order, up to that part.
Histories ==
  \A t \in Tasks : \A i \in 1 .. Len(tasks[t].calls) :
    /\ tasks[t].calls[i].by = t
    /\ tasks[t].calls[i].n <= Known(t)
    /\ i > 1 => tasks[t].calls[i - 1].n < tasks[t].calls[i].n

\* A task keeps a call that its agent has logged.
HasCall(call) == Contains(tasks[call.by].calls, call)

\* Until an execution is interrupted, every call logged before the task at hand is kept.
AllKept ==
  interrupts = 0 =>
    \A r \in Roles : \A i \in 1 .. Len(agents[r].log) :
      (run.pc # "idle" /\ Role[Task] = r => i <= run.start) => HasCall(agents[r].log[i])

HistoryInv == Typed /\ AtHand /\ Logs /\ Histories /\ AllKept

\* Nothing is logged and nothing recorded yet.
LEMMA HistoryInit == Init => HistoryInv
<1> SUFFICES ASSUME Init PROVE HistoryInv
  OBVIOUS
<1>1. \A t \in Tasks : tasks[t] = NewTask
  BY DEF Init
<1>2. IsRecord(NewTask)
  BY DEF IsRecord, NewTask, Fields, Statuses
<1>3. Typed
  BY <1>1, <1>2, ExecutionAssumption DEF Init, Typed, Roles, NotRunning
<1>4. \A r \in Roles : agents[r].log = <<>>
  BY DEF Init, Roles
<1>5. Len(<<>>) = 0 /\ \A t \in Tasks : Len(tasks[t].calls) = 0
  BY <1>1 DEF NewTask
<1>6. run.pc = "idle"
  BY DEF Init, NotRunning
<1>7. QED BY <1>3, <1>4, <1>5, <1>6 DEF HistoryInv, AtHand, Logs, Histories, AllKept

\* The record that an attempt of t leaves when it fails.
IsFailure(r, t, agent, output, pytest, kind) ==
  /\ DOMAIN r = Fields
  /\ r.attempts = tasks[t].attempts
  /\ r.calls = tasks[t].calls \o OwnCalls(t, agent.log)
  /\ r.last = LastCall(agent, output)
  /\ r.mode = Mode(LastCall(agent, output))
  /\ r.category = Category(t, kind)
  /\ \/ r.status = "pending"
     \/ r.status = "failed" /\ r.output = output /\ r.pytest = pytest

\* The end of an attempt touches no other task.
LEMMA FailedTable ==
  ASSUME Typed, NEW t \in Tasks, NEW agent, NEW output, NEW pytest, NEW kind
  PROVE  /\ DOMAIN Failed(t, agent, output, pytest, kind) = Tasks
         /\ \A u \in Tasks : u # t => Failed(t, agent, output, pytest, kind)[u] = tasks[u]
BY DEF Failed, Typed

\* The end of an attempt leaves such a record of its task.
LEMMA FailedRecord ==
  ASSUME Typed, NEW t \in Tasks, NEW agent, NEW output, NEW pytest, NEW kind
  PROVE  IsFailure(Failed(t, agent, output, pytest, kind)[t], t, agent, output, pytest, kind)
<1> DEFINE last == LastCall(agent, output)
           retried == tasks[t].attempts <= RetryLimit[work][t]
           old == tasks[t]
           r == Failed(t, agent, output, pytest, kind)[t]
<1>1. r = [old EXCEPT
             !.calls = old.calls \o OwnCalls(t, agent.log),
             !.last = last,
             !.mode = Mode(last),
             !.category = Category(t, kind),
             !.status = IF retried THEN "pending" ELSE "failed",
             !.output = IF retried THEN old.output ELSE output,
             !.pytest = IF retried THEN old.pytest ELSE pytest]
  BY DEF Failed, Typed, IsRecord, Fields
<1>2. DOMAIN old = Fields
  BY DEF Typed, IsRecord
<1> HIDE DEF last, retried, old, r
<1>3. IsFailure(r, t, agent, output, pytest, kind)
  BY <1>1, <1>2 DEF IsFailure, Fields, old, last
<1>4. QED BY <1>3 DEF r

\* What an attempt does to the logs: that of its agent grows by calls of the task.
Grown ==
  /\ agents' \in [Roles -> [log : Seq(Calls), last : Calls \cup {Absent}]]
  /\ \A r \in Roles \ {Role[Task]} : agents'[r] = agents[r]
  /\ Len(Agent(Task).log) <= Len(agents'[Role[Task]].log)
  /\ \A i \in 1 .. Len(Agent(Task).log) : agents'[Role[Task]].log[i] = Agent(Task).log[i]
  /\ \A i \in Len(Agent(Task).log) + 1 .. Len(agents'[Role[Task]].log) :
       agents'[Role[Task]].log[i].by = Task /\ agents'[Role[Task]].log[i].n = i

\* Another call is such a growth, and the agent's last call one of its calls.
LEMMA LoggedIs ==
  ASSUME HistoryInv, run.pc # "idle", NEW end \in {"complete", "cut", "error"},
         agents' = [agents EXCEPT ![Role[Task]] = Logged(end)]
  PROVE  Grown /\ Logged(end) = agents'[Role[Task]] /\ Logged(end).last \in Calls
<1> DEFINE log == Agent(Task).log
           call == [by |-> Task, n |-> Len(log) + 1, end |-> end]
<1>1. Role[Task] \in Roles /\ Task \in Tasks /\ log \in Seq(Calls) /\ Len(log) \in Nat
  BY DEF HistoryInv, AtHand, Typed, Roles, Agent
<1>2. call \in Calls
  BY <1>1 DEF Calls
<1>3. Logged(end) = [log |-> Append(log, call), last |-> call]
  BY DEF Logged
<1>4. /\ Append(log, call) \in Seq(Calls)
      /\ Len(Append(log, call)) = Len(log) + 1
      /\ \A i \in 1 .. Len(log) : Append(log, call)[i] = log[i]
      /\ Append(log, call)[Len(log) + 1] = call
  <2> HIDE DEF call, log
  <2>1. QED BY <1>1, <1>2, AppendProperties
<1>5. agents'[Role[Task]] = Logged(end) /\ \A r \in Roles \ {Role[Task]} : agents'[r] = agents[r]
  BY <1>1 DEF HistoryInv, Typed
<1>6. agents' \in [Roles -> [log : Seq(Calls), last : Calls \cup {Absent}]]
  <2>1. Logged(end) \in [log : Seq(Calls), last : Calls \cup {Absent}]
    <3> HIDE DEF call, log
    <3>1. QED BY <1>2, <1>3, <1>4
  <2>2. QED BY <1>1, <2>1 DEF HistoryInv, Typed
<1>7. call.by = Task /\ call.n = Len(log) + 1
  OBVIOUS
<1> HIDE DEF call
<1>8. QED BY <1>1, <1>2, <1>3, <1>4, <1>5, <1>6, <1>7 DEF Grown

\* No call at all is one, too.
LEMMA NothingLogged ==
  ASSUME HistoryInv, run.pc # "idle", UNCHANGED agents
  PROVE  Grown /\ Agent(Task) = agents'[Role[Task]]
<1>1. Len(Agent(Task).log) \in Nat
  BY DEF HistoryInv, Typed, AtHand, Roles, Agent
<1>2. QED BY <1>1 DEF HistoryInv, Typed, Grown, Agent

\* The logs stay in order.
LEMMA GrownLogs ==
  ASSUME HistoryInv, run.pc # "idle", Grown
  PROVE  Logs'
<1> SUFFICES ASSUME NEW r \in Roles, NEW i \in 1 .. Len(agents'[r].log)
             PROVE  agents'[r].log[i].n = i /\ Role[agents'[r].log[i].by] = r
  BY DEF Logs
<1>1. CASE r # Role[Task]
  BY <1>1 DEF HistoryInv, Logs, Grown
<1>2. CASE r = Role[Task]
  <2>1. Len(Agent(Task).log) \in Nat /\ Len(agents'[Role[Task]].log) \in Nat
    BY <1>2 DEF HistoryInv, Typed, Agent, Grown
  <2>2. CASE i \in 1 .. Len(Agent(Task).log)
    BY <1>2, <2>2 DEF HistoryInv, Logs, Grown, Agent
  <2>3. CASE i \in Len(Agent(Task).log) + 1 .. Len(agents'[Role[Task]].log)
    BY <1>2, <2>3 DEF Grown
  <2>4. QED BY <1>2, <2>1, <2>2, <2>3
<1>3. QED BY <1>1, <1>2

\* The calls that are recorded for the task at hand.
LEMMA OwnCallsAre ==
  ASSUME HistoryInv, run.pc # "idle", Grown,
         NEW own, own = OwnCalls(Task, agents'[Role[Task]].log)
  PROVE  /\ own \in Seq(Calls)
         /\ Len(own) = Len(agents'[Role[Task]].log) - run.start
         /\ \A j \in 1 .. Len(own) : /\ own[j] = agents'[Role[Task]].log[run.start + j]
                                     /\ own[j].by = Task /\ own[j].n = run.start + j
<1> DEFINE log == agents'[Role[Task]].log
<1>1. /\ log \in Seq(Calls) /\ Len(log) \in Nat
      /\ run.start \in Nat /\ run.start <= Len(Agent(Task).log)
      /\ Len(Agent(Task).log) \in Nat /\ Len(Agent(Task).log) <= Len(log)
  BY DEF HistoryInv, Typed, AtHand, Roles, Agent, Grown
<1>2. \A i \in run.start + 1 .. Len(log) : log[i].by = Task /\ log[i].n = i
  <2> SUFFICES ASSUME NEW i \in run.start + 1 .. Len(log)
               PROVE  log[i].by = Task /\ log[i].n = i
    OBVIOUS
  <2>1. CASE i <= Len(Agent(Task).log)
    <3>1. i \in 1 .. Len(Agent(Task).log) /\ i \in run.start + 1 .. Len(Agent(Task).log)
      BY <1>1, <2>1
    <3>2. log[i] = Agent(Task).log[i] /\ Agent(Task).log[i].by = Task
      BY <3>1 DEF Grown, HistoryInv, AtHand
    <3>3. Agent(Task).log[i].n = i
      BY <3>1 DEF HistoryInv, AtHand, Logs, Roles, Agent
    <3>4. QED BY <3>2, <3>3
  <2>2. CASE ~ (i <= Len(Agent(Task).log))
    <3>1. i \in Len(Agent(Task).log) + 1 .. Len(log)
      BY <1>1, <2>2
    <3>2. QED BY <3>1 DEF Grown
  <2>3. QED BY <2>1, <2>2
<1> HIDE DEF log
<1>3. own = SubSeq(log, run.start + 1, Len(log))
  BY DEF OwnCalls, log
<1>4. \A i \in run.start + 1 .. Len(log) : log[i] \in Calls
  BY <1>1, ElementOfSeq
<1>5. /\ own \in Seq(Calls)
      /\ Len(own) = IF run.start + 1 <= Len(log) THEN Len(log) - (run.start + 1) + 1 ELSE 0
      /\ \A j \in 1 .. Len(log) - (run.start + 1) + 1 : own[j] = log[run.start + 1 + j - 1]
  BY <1>1, <1>3, <1>4, SubSeqProperties, Z3
<1>6. Len(own) = Len(log) - run.start
  BY <1>1, <1>5
<1>7. ASSUME NEW j \in 1 .. Len(own)
      PROVE  own[j] = log[run.start + j] /\ own[j].by = Task /\ own[j].n = run.start + j
  <2>1. j \in 1 .. Len(log) - (run.start + 1) + 1 /\ run.start + j \in run.start + 1 .. Len(log)
    BY <1>1, <1>6
  <2>2. own[j] = log[run.start + j]
    BY <1>1, <1>5, <2>1
  <2>3. QED BY <1>2, <2>1, <2>2
<1>8. QED BY <1>5, <1>6, <1>7 DEF log

\* Every end of an attempt records these calls for the task, and only for it.
Recorded ==
  /\ DOMAIN tasks' = Tasks /\ \A t \in Tasks : t # Task => tasks'[t] = tasks[t]
  /\ IsRecord(tasks'[Task])
  /\ tasks'[Task].calls = tasks[Task].calls \o OwnCalls(Task, agents'[Role[Task]].log)

\* The elements of two sequences behind each other.
LEMMA ConcatElements ==
  ASSUME NEW S, NEW s \in Seq(S), NEW t \in Seq(S)
  PROVE  /\ Len(s) \in Nat /\ Len(t) \in Nat /\ Len(s \o t) = Len(s) + Len(t)
         /\ \A i \in 1 .. Len(s) : (s \o t)[i] = s[i]
         /\ \A i \in 1 .. Len(t) : (s \o t)[Len(s) + i] = t[i]
BY ConcatProperties

\* The calls c are those of x, in the order of their numbers, none above top.
InOrder(c, x, top) ==
  \A i \in 1 .. Len(c) :
    /\ c[i].by = x /\ c[i].n \in Nat /\ c[i].n <= top
    /\ i > 1 => c[i - 1].n < c[i].n

\* The calls c are those of x, numbered on from start.
FollowsOn(c, x, start) == \A j \in 1 .. Len(c) : c[j].by = x /\ c[j].n = start + j

\* Calls in order, and behind them more calls that are numbered on from a later number.
LEMMA NumberedOn ==
  ASSUME NEW S, NEW s \in Seq(S), NEW t \in Seq(S), NEW start \in Nat, NEW x,
         InOrder(s, x, start), FollowsOn(t, x, start)
  PROVE  InOrder(s \o t, x, start + Len(t))
<1> DEFINE c == s \o t
<1> SUFFICES ASSUME NEW i \in 1 .. Len(c)
             PROVE  /\ c[i].by = x /\ c[i].n \in Nat /\ c[i].n <= start + Len(t)
                    /\ i > 1 => c[i - 1].n < c[i].n
  BY DEF InOrder
<1>1. /\ Len(s) \in Nat /\ Len(t) \in Nat /\ Len(c) = Len(s) + Len(t)
      /\ \A j \in 1 .. Len(s) : c[j] = s[j]
      /\ \A j \in 1 .. Len(t) : c[Len(s) + j] = t[j]
  BY ConcatElements
<1>2. i \in 1 .. Len(c)
  OBVIOUS
<1> HIDE DEF c
<1>3. \A j \in 1 .. Len(s) : c[j].by = x /\ c[j].n \in Nat /\ c[j].n <= start
  BY <1>1 DEF InOrder
<1>4. \A j \in 1 .. Len(t) : c[Len(s) + j].by = x /\ c[Len(s) + j].n = start + j
  BY <1>1 DEF FollowsOn
<1>5. CASE i <= Len(s)
  <2>1. i \in 1 .. Len(s)
    BY <1>1, <1>2, <1>5
  <2>2. i > 1 => i - 1 \in 1 .. Len(s)
    BY <1>1, <2>1
  <2>3. c[i].by = x /\ c[i].n \in Nat /\ c[i].n <= start + Len(t)
    BY <1>1, <1>3, <2>1
  <2>4. ASSUME i > 1 PROVE c[i - 1].n < c[i].n
    <3>1. c[i - 1] = s[i - 1] /\ c[i] = s[i]
      BY <1>1, <2>1, <2>2, <2>4
    <3>2. s[i - 1].n < s[i].n
      BY <2>1, <2>4 DEF InOrder
    <3>3. QED BY <3>1, <3>2
  <2>5. QED BY <2>3, <2>4
<1>6. CASE ~ (i <= Len(s))
  <2> DEFINE k == i - Len(s)
  <2>1. k \in 1 .. Len(t) /\ Len(s) + k = i
    BY <1>1, <1>2, <1>6
  <2>2. c[i].by = x /\ c[i].n = start + k /\ start + k <= start + Len(t)
    <3> HIDE DEF k
    <3>1. c[Len(s) + k].by = x /\ c[Len(s) + k].n = start + k
      BY <1>4, <2>1
    <3>2. start + k <= start + Len(t)
      BY <1>1, <2>1
    <3>3. QED BY <2>1, <3>1, <3>2
  <2>3. CASE k = 1
    <3>1. i > 1 => i - 1 \in 1 .. Len(s)
      BY <1>1, <1>2, <2>1, <2>3
    <3>2. ASSUME i > 1 PROVE c[i - 1].n < c[i].n
      <4>1. c[i - 1].n \in Nat /\ c[i - 1].n <= start
        BY <1>3, <3>1, <3>2
      <4>2. c[i].n = start + 1
        BY <2>2, <2>3
      <4>3. QED BY <4>1, <4>2
    <3>3. QED BY <2>1, <2>2, <3>2
  <2>4. CASE k # 1
    <3>1. k - 1 \in 1 .. Len(t) /\ Len(s) + (k - 1) = i - 1
      BY <1>1, <2>1, <2>4
    <3>2. c[i - 1].n = start + (k - 1)
      BY <1>4, <3>1
    <3>3. start + (k - 1) < start + k
      BY <2>1
    <3>4. QED BY <2>1, <2>2, <3>2, <3>3
  <2>5. QED BY <2>3, <2>4
<1>7. QED BY <1>5, <1>6

\* What a sequence contains it still contains with another one behind it.
LEMMA ConcatContains ==
  ASSUME NEW S, NEW s \in Seq(S), NEW t \in Seq(S), NEW x
  PROVE  Contains(s \o t, x) <=> Contains(s, x) \/ Contains(t, x)
<1>1. /\ Len(s) \in Nat /\ Len(t) \in Nat /\ Len(s \o t) = Len(s) + Len(t)
      /\ \A i \in 1 .. Len(s) : (s \o t)[i] = s[i]
      /\ \A i \in 1 .. Len(t) : (s \o t)[Len(s) + i] = t[i]
  BY ConcatElements
<1>2. ASSUME Contains(s \o t, x) PROVE Contains(s, x) \/ Contains(t, x)
  <2>1. PICK i \in 1 .. Len(s) + Len(t) : (s \o t)[i] = x
    BY <1>1, <1>2 DEF Contains
  <2>2. CASE i <= Len(s)
    BY <1>1, <2>1, <2>2 DEF Contains
  <2>3. CASE ~ (i <= Len(s))
    <3>1. i - Len(s) \in 1 .. Len(t) /\ Len(s) + (i - Len(s)) = i
      BY <1>1, <2>3
    <3>2. t[i - Len(s)] = x
      BY <1>1, <2>1, <3>1
    <3>3. QED BY <3>1, <3>2 DEF Contains
  <2>4. QED BY <2>2, <2>3
<1>3. ASSUME Contains(s, x) PROVE Contains(s \o t, x)
  <2>1. PICK i \in 1 .. Len(s) : s[i] = x
    BY <1>3 DEF Contains
  <2>2. i \in 1 .. Len(s \o t) /\ (s \o t)[i] = x
    BY <1>1, <2>1
  <2>3. QED BY <2>2 DEF Contains
<1>4. ASSUME Contains(t, x) PROVE Contains(s \o t, x)
  <2>1. PICK i \in 1 .. Len(t) : t[i] = x
    BY <1>4 DEF Contains
  <2>2. Len(s) + i \in 1 .. Len(s \o t) /\ (s \o t)[Len(s) + i] = x
    BY <1>1, <2>1
  <2>3. QED BY <2>2 DEF Contains
<1>5. QED BY <1>2, <1>3, <1>4

\* The task's history stays its own, in order, and within the log.
LEMMA EndKeepsHistory ==
  ASSUME HistoryInv, run.pc # "idle", Grown, Recorded, run'.pc = "idle",
         NEW t \in Tasks, NEW i \in 1 .. Len(tasks'[t].calls)
  PROVE  /\ tasks'[t].calls[i].by = t
         /\ tasks'[t].calls[i].n <= Known(t)'
         /\ i > 1 => tasks'[t].calls[i - 1].n < tasks'[t].calls[i].n
<1> DEFINE own == OwnCalls(Task, agents'[Role[Task]].log)
           old == tasks[t].calls
<1>1. Known(t)' = Len(agents'[Role[t]].log)
  BY DEF Known, Agent
<1>2. CASE t # Task
  <2>1. tasks'[t].calls = old
    BY <1>2 DEF Recorded
  <2>2. Known(t) = Len(Agent(t).log) /\ i \in 1 .. Len(old)
    BY <1>2, <2>1 DEF Known
  <2>3. Len(Agent(t).log) \in Nat /\ Len(agents'[Role[t]].log) \in Nat
        /\ Len(Agent(t).log) <= Len(agents'[Role[t]].log)
    <3>1. Role[t] \in Roles
      BY DEF Roles
    <3>2. Len(agents[Role[t]].log) \in Nat /\ Len(agents'[Role[t]].log) \in Nat
      BY <3>1 DEF HistoryInv, Typed, Grown
    <3>3. CASE Role[t] = Role[Task]
      BY <3>2, <3>3 DEF Agent, Grown
    <3>4. CASE Role[t] # Role[Task]
      BY <3>1, <3>2, <3>4 DEF Agent, Grown
    <3>5. QED BY <3>3, <3>4
  <2>4. old[i].n \in Nat
    <3>1. old \in Seq(Calls)
      BY DEF HistoryInv, Typed, IsRecord
    <3>2. old[i] \in Calls
      BY <2>2, <3>1, ElementOfSeq
    <3>3. QED BY <3>2 DEF Calls
  <2>5. /\ old[i].by = t /\ old[i].n <= Known(t)
        /\ i > 1 => old[i - 1].n < old[i].n
    BY <2>2 DEF HistoryInv, Histories
  <2>6. QED BY <1>1, <2>1, <2>2, <2>3, <2>4, <2>5
<1>3. CASE t = Task
  <2>1. /\ own \in Seq(Calls) /\ Len(own) = Len(agents'[Role[Task]].log) - run.start
        /\ \A j \in 1 .. Len(own) : own[j].by = Task /\ own[j].n = run.start + j
    BY OwnCallsAre
  <2>2. /\ old \in Seq(Calls) /\ run.start \in Nat /\ Len(agents'[Role[Task]].log) \in Nat
        /\ Task \in Tasks
    BY <1>3 DEF HistoryInv, Typed, IsRecord, AtHand, Grown, Roles
  <2>3. InOrder(old, Task, run.start)
    <3> SUFFICES ASSUME NEW j \in 1 .. Len(old)
                 PROVE  /\ old[j].by = Task /\ old[j].n \in Nat /\ old[j].n <= run.start
                        /\ j > 1 => old[j - 1].n < old[j].n
      BY DEF InOrder
    <3>1. old[j] \in Calls
      BY <2>2, ElementOfSeq
    <3>2. old[j].by = Task /\ old[j].n <= Known(t) /\ (j > 1 => old[j - 1].n < old[j].n)
      BY <1>3, <2>2 DEF HistoryInv, Histories
    <3>3. QED BY <1>3, <3>1, <3>2 DEF Known, Calls
  <2>4. FollowsOn(own, Task, run.start)
    BY <2>1 DEF FollowsOn
  <2>5. tasks'[t].calls = old \o own
    BY <1>3 DEF Recorded
  <2>6. run.start + Len(own) = Len(agents'[Role[t]].log)
    BY <1>3, <2>1, <2>2
  <2> HIDE DEF own, old
  <2>8. InOrder(old \o own, Task, run.start + Len(own))
    BY <2>1, <2>2, <2>3, <2>4, NumberedOn
  <2>9. QED BY <1>1, <1>3, <2>5, <2>6, <2>8 DEF InOrder
<1>4. QED BY <1>2, <1>3

\* The end of an attempt keeps it all.
LEMMA EndKeeps ==
  ASSUME HistoryInv, run.pc # "idle", Grown, Recorded, run' = NotRunning,
         UNCHANGED <<work, interrupts>>
  PROVE  HistoryInv'
<1>1. run'.pc = "idle" /\ DOMAIN run' = {"pc", "task", "start", "output", "pytest"}
  BY DEF NotRunning
<1>2. Typed'
  BY <1>1 DEF HistoryInv, Typed, Recorded, Grown
<1>3. AtHand' /\ Logs'
  BY <1>1, GrownLogs DEF AtHand
<1>4. Histories'
  BY <1>1, EndKeepsHistory DEF Histories
<1>5. AllKept'
  <2> SUFFICES ASSUME interrupts = 0, NEW r \in Roles, NEW i \in 1 .. Len(agents'[r].log)
               PROVE  Contains(tasks'[agents'[r].log[i].by].calls, agents'[r].log[i])
    BY <1>1 DEF AllKept, HasCall
  <2> DEFINE call == agents'[r].log[i]
             own == OwnCalls(Task, agents'[Role[Task]].log)
  <2>1. /\ own \in Seq(Calls) /\ Len(own) = Len(agents'[Role[Task]].log) - run.start
        /\ \A j \in 1 .. Len(own) : own[j] = agents'[Role[Task]].log[run.start + j]
    BY OwnCallsAre
  <2>2. /\ agents'[r].log \in Seq(Calls) /\ call \in Calls /\ call.by \in Tasks
        /\ Len(agents'[r].log) \in Nat
    <3>1. /\ agents'[r].log \in Seq(Calls) /\ Len(agents'[r].log) \in Nat
      BY DEF Grown
    <3>2. call \in Calls
      BY <3>1, ElementOfSeq
    <3>3. QED BY <3>1, <3>2 DEF Calls
  <2>3. /\ Task \in Tasks /\ tasks[Task].calls \in Seq(Calls) /\ run.start \in Nat
        /\ Len(Agent(Task).log) \in Nat /\ run.start <= Len(Agent(Task).log)
    BY DEF HistoryInv, Typed, IsRecord, AtHand, Agent, Roles
  <2>4. ASSUME Contains(tasks[call.by].calls, call) PROVE Contains(tasks'[call.by].calls, call)
    <3>1. CASE call.by = Task
      <4>1. Contains(tasks[Task].calls, call)
        BY <2>4, <3>1
      <4>2. Contains(tasks[Task].calls \o own, call)
        <5> HIDE DEF own, call
        <5>1. QED BY <2>1, <2>3, <4>1, ConcatContains
      <4>3. tasks'[Task].calls = tasks[Task].calls \o own
        BY DEF Recorded
      <4>4. QED BY <3>1, <4>2, <4>3
    <3>2. CASE call.by # Task
      BY <2>2, <2>4, <3>2 DEF Recorded
    <3>3. QED BY <3>1, <3>2
  <2>5. CASE r # Role[Task]
    <3>1. agents'[r] = agents[r]
      BY <2>5 DEF Grown
    <3>2. HasCall(agents[r].log[i])
      BY <2>5, <3>1 DEF HistoryInv, AllKept
    <3>3. QED BY <2>4, <3>1, <3>2 DEF HasCall
  <2>6. CASE r = Role[Task] /\ i <= run.start
    <3>1. i \in 1 .. Len(agents[r].log) /\ call = agents[r].log[i]
      BY <2>2, <2>3, <2>6 DEF Grown, Agent
    <3>2. HasCall(agents[r].log[i])
      BY <2>6, <3>1 DEF HistoryInv, AllKept
    <3>3. QED BY <2>4, <3>1, <3>2 DEF HasCall
  <2>7. CASE r = Role[Task] /\ ~ (i <= run.start)
    <3>1. i - run.start \in 1 .. Len(own) /\ run.start + (i - run.start) = i
      BY <2>1, <2>2, <2>3, <2>7
    <3>2. own[i - run.start] = call
      BY <2>1, <2>7, <3>1
    <3>3. Contains(own, call)
      BY <3>1, <3>2 DEF Contains
    <3>4. call.by = Task
      BY <2>1, <2>7, <3>1, <3>2, OwnCallsAre
    <3>5. Contains(tasks[Task].calls \o own, call)
      <4> HIDE DEF own, call
      <4>1. QED BY <2>1, <2>3, <3>3, ConcatContains
    <3>6. tasks'[Task].calls = tasks[Task].calls \o own
      BY DEF Recorded
    <3>7. QED BY <3>4, <3>5, <3>6
  <2>8. QED BY <2>5, <2>6, <2>7
<1>6. QED BY <1>2, <1>3, <1>4, <1>5 DEF HistoryInv

\* The modes that are recorded.
LEMMA ModeType == \A call : Mode(call) \in {Absent, "provider", "deterministic"}
BY DEF Mode

\* An attempt that fails.
LEMMA FailureKeeps ==
  ASSUME HistoryInv, run.pc # "idle", Grown,
         NEW agent, agent = agents'[Role[Task]], NEW output, NEW pytest, NEW kind,
         LastCall(agent, output) \in Calls \cup {Absent},
         tasks' = Failed(Task, agent, output, pytest, kind), run' = NotRunning,
         UNCHANGED <<work, interrupts>>
  PROVE  HistoryInv'
<1>1. Task \in Tasks /\ Typed
  BY DEF HistoryInv, AtHand
<1> DEFINE r == tasks'[Task]
<1>2. /\ DOMAIN r = Fields
      /\ r.attempts = tasks[Task].attempts
      /\ r.calls = tasks[Task].calls \o OwnCalls(Task, agent.log)
      /\ r.last = LastCall(agent, output)
      /\ r.mode = Mode(LastCall(agent, output))
      /\ r.status = "pending" \/ r.status = "failed"
  <2>1. r = Failed(Task, agent, output, pytest, kind)[Task]
    OBVIOUS
  <2> HIDE DEF r
  <2>2. IsFailure(r, Task, agent, output, pytest, kind)
    BY <1>1, <2>1, FailedRecord
  <2>3. QED BY <2>2 DEF IsFailure
<1>3. /\ DOMAIN tasks' = Tasks
      /\ \A u \in Tasks : u # Task => tasks'[u] = tasks[u]
  BY <1>1, FailedTable
<1> HIDE DEF r
<1>4. r.calls \in Seq(Calls)
  <2>1. OwnCalls(Task, agent.log) \in Seq(Calls) /\ tasks[Task].calls \in Seq(Calls)
    BY <1>1, OwnCallsAre DEF Typed, IsRecord
  <2>2. QED BY <1>2, <2>1, ConcatProperties
<1>5. tasks[Task].attempts \in Nat
  BY <1>1 DEF Typed, IsRecord
<1>6. IsRecord(r)
  BY <1>2, <1>4, <1>5, ModeType DEF IsRecord, Statuses
<1>7. Recorded
  BY <1>2, <1>3, <1>6 DEF Recorded, r
<1>8. QED BY <1>7, EndKeeps

\* An attempt that goes on.
LEMMA AttemptGoesOn ==
  ASSUME HistoryInv, run.pc # "idle", Grown, run'.pc \in {"output", "accepted"},
         DOMAIN run' = DOMAIN run, run'.task = Task, run'.start = run.start,
         DOMAIN run'.output = {"text", "call"}, run'.output.call \in Calls,
         UNCHANGED <<work, tasks, interrupts>>
  PROVE  HistoryInv'
<1> DEFINE old == Agent(Task).log
           new == agents'[Role[Task]].log
<1>1. /\ Task \in Tasks /\ Task \in Works[work] /\ tasks[Task].status = "running"
      /\ Len(old) \in Nat /\ Len(new) \in Nat /\ Len(old) <= Len(new)
      /\ run.start \in Nat /\ run.start <= Len(old) /\ Role[Task] \in Roles
  BY DEF HistoryInv, AtHand, Typed, Grown, Agent, Roles
<1>2. Typed'
  BY DEF HistoryInv, Typed, Grown
<1>3. \A i \in run.start + 1 .. Len(new) : new[i].by = Task
  <2> SUFFICES ASSUME NEW i \in run.start + 1 .. Len(new)
               PROVE  new[i].by = Task
    OBVIOUS
  <2>1. CASE i <= Len(old)
    <3>1. i \in 1 .. Len(old) /\ i \in run.start + 1 .. Len(old)
      BY <1>1, <2>1
    <3>2. QED BY <3>1 DEF HistoryInv, AtHand, Grown
  <2>2. CASE ~ (i <= Len(old))
    <3>1. i \in Len(old) + 1 .. Len(new)
      BY <1>1, <2>2
    <3>2. QED BY <3>1 DEF Grown
  <2>3. QED BY <2>1, <2>2
<1>4. AtHand'
  BY <1>1, <1>3 DEF AtHand, Agent, Task
<1>5. \A t \in Tasks : Known(t) \in Nat /\ Known(t)' \in Nat /\ Known(t) <= Known(t)'
  <2> SUFFICES ASSUME NEW t \in Tasks
               PROVE  Known(t) \in Nat /\ Known(t)' \in Nat /\ Known(t) <= Known(t)'
    OBVIOUS
  <2>1. CASE t = Task
    BY <1>1, <2>1 DEF Known, Task
  <2>2. CASE t # Task
    <3>1. Known(t) = Len(agents[Role[t]].log) /\ Known(t)' = Len(agents'[Role[t]].log)
      BY <2>2 DEF Known, Agent, Task
    <3>2. Role[t] \in Roles
      BY DEF Roles
    <3>3. CASE Role[t] = Role[Task]
      BY <1>1, <3>1, <3>3 DEF Agent
    <3>4. CASE Role[t] # Role[Task]
      BY <3>1, <3>2, <3>4 DEF HistoryInv, Typed, Grown
    <3>5. QED BY <3>3, <3>4
  <2>3. QED BY <2>1, <2>2
<1>6. Histories'
  <2> SUFFICES ASSUME NEW t \in Tasks, NEW i \in 1 .. Len(tasks[t].calls)
               PROVE  /\ tasks[t].calls[i].by = t
                      /\ tasks[t].calls[i].n <= Known(t)'
                      /\ i > 1 => tasks[t].calls[i - 1].n < tasks[t].calls[i].n
    BY DEF Histories
  <2>1. tasks[t].calls \in Seq(Calls)
    BY DEF HistoryInv, Typed, IsRecord
  <2>2. tasks[t].calls[i] \in Calls
    BY <2>1, ElementOfSeq
  <2>3. tasks[t].calls[i].n \in Nat
    BY <2>2 DEF Calls
  <2>4. /\ tasks[t].calls[i].by = t
        /\ tasks[t].calls[i].n <= Known(t)
        /\ i > 1 => tasks[t].calls[i - 1].n < tasks[t].calls[i].n
    BY DEF HistoryInv, Histories
  <2>5. Known(t) \in Nat /\ Known(t)' \in Nat /\ Known(t) <= Known(t)'
    BY <1>5
  <2>6. QED BY <2>3, <2>4, <2>5
<1>7. AllKept'
  <2> SUFFICES ASSUME interrupts = 0, NEW r \in Roles, NEW i \in 1 .. Len(agents'[r].log),
                      r = Role[Task] => i <= run.start
               PROVE  Contains(tasks[agents'[r].log[i].by].calls, agents'[r].log[i])
    BY DEF AllKept, HasCall, Task
  <2>1. agents'[r].log[i] = agents[r].log[i] /\ i \in 1 .. Len(agents[r].log)
    <3>1. CASE r = Role[Task]
      BY <1>1, <3>1 DEF Grown, Agent
    <3>2. CASE r # Role[Task]
      BY <3>2 DEF Grown
    <3>3. QED BY <3>1, <3>2
  <2>2. HasCall(agents[r].log[i])
    BY <2>1 DEF HistoryInv, AllKept
  <2>3. QED BY <2>1, <2>2 DEF HasCall
<1>8. QED BY <1>2, <1>4, <1>6, <1>7, GrownLogs DEF HistoryInv

\* A task starts.
LEMMA StartKeeps ==
  ASSUME HistoryInv, NEW t \in Tasks, Start(t)
  PROVE  HistoryInv'
<1>1. /\ t \in Works[work] /\ run.pc = "idle" /\ IsRecord(tasks[t])
      /\ tasks' = [tasks EXCEPT ![t] = [tasks[t] EXCEPT !.status = "running",
                                          !.attempts = tasks[t].attempts + 1, !.category = Absent]]
      /\ run' = [pc |-> "input", task |-> t, start |-> Len(Agent(t).log),
                 output |-> Absent, pytest |-> Absent]
      /\ UNCHANGED <<work, agents, disk, interrupts>>
  BY DEF Start, NotRunning, HistoryInv, Typed, IsRecord, Fields
<1>2. /\ IsRecord(tasks'[t]) /\ tasks'[t].calls = tasks[t].calls /\ tasks'[t].status = "running"
      /\ DOMAIN tasks' = Tasks /\ \A u \in Tasks : u # t => tasks'[u] = tasks[u]
  <2>1. DOMAIN tasks = Tasks
    BY DEF HistoryInv, Typed
  <2>2. QED BY <1>1, <2>1 DEF IsRecord, Fields, Statuses
<1>3. \A u \in Tasks : IsRecord(tasks'[u]) /\ tasks'[u].calls = tasks[u].calls
  BY <1>2 DEF HistoryInv, Typed
<1>4. Role[t] \in Roles /\ Len(Agent(t).log) \in Nat
  BY DEF HistoryInv, Typed, Agent, Roles
<1>5. Typed'
  BY <1>1, <1>2, <1>3 DEF HistoryInv, Typed
<1>6. AtHand'
  BY <1>1, <1>2, <1>4 DEF AtHand, Agent, Task
<1>7. Logs'
  BY <1>1 DEF HistoryInv, Logs
<1>8. \A u \in Tasks : Known(u)' = Known(u)
  BY <1>1 DEF Known, Agent, Task
<1>9. Histories'
  BY <1>3, <1>8 DEF HistoryInv, Histories
<1>10. AllKept'
  <2> SUFFICES ASSUME interrupts = 0, NEW r \in Roles, NEW i \in 1 .. Len(agents[r].log)
               PROVE  Contains(tasks'[agents[r].log[i].by].calls, agents[r].log[i])
    BY <1>1 DEF AllKept, HasCall
  <2>1. agents[r].log \in Seq(Calls)
    BY DEF HistoryInv, Typed
  <2>2. agents[r].log[i] \in Calls
    BY <2>1, ElementOfSeq
  <2>3. agents[r].log[i].by \in Tasks
    BY <2>2 DEF Calls
  <2>4. HasCall(agents[r].log[i])
    BY <1>1 DEF HistoryInv, AllKept
  <2>5. QED BY <1>3, <2>3, <2>4 DEF HasCall
<1>11. QED BY <1>5, <1>6, <1>7, <1>9, <1>10 DEF HistoryInv

\* An execution is resumed: what was running is pending again.
LEMMA ResumeKeeps ==
  ASSUME HistoryInv, Resume
  PROVE  HistoryInv'
<1>1. /\ run.pc = "idle" /\ UNCHANGED <<work, agents, disk, run, interrupts>>
      /\ tasks' = [t \in Tasks |->
           IF tasks[t].status = "running"
             THEN [tasks[t] EXCEPT !.status = "pending", !.last = Absent] ELSE tasks[t]]
  BY DEF Resume
<1>2. ASSUME NEW t \in Tasks
      PROVE  IsRecord(tasks'[t]) /\ tasks'[t].calls = tasks[t].calls
  <2>1. IsRecord(tasks[t])
    BY DEF HistoryInv, Typed
  <2>2. QED BY <1>1, <2>1 DEF IsRecord, Fields, Statuses
<1>3. Typed' /\ AtHand' /\ Logs'
  BY <1>1, <1>2 DEF HistoryInv, Typed, AtHand, Logs
<1>4. \A u \in Tasks : Known(u)' = Known(u)
  BY <1>1 DEF Known, Agent, Task
<1>5. Histories'
  BY <1>2, <1>4 DEF HistoryInv, Histories
<1>6. AllKept'
  <2> SUFFICES ASSUME interrupts = 0, NEW r \in Roles, NEW i \in 1 .. Len(agents[r].log)
               PROVE  Contains(tasks'[agents[r].log[i].by].calls, agents[r].log[i])
    BY <1>1 DEF AllKept, HasCall
  <2>1. agents[r].log \in Seq(Calls)
    BY DEF HistoryInv, Typed
  <2>2. agents[r].log[i] \in Calls
    BY <2>1, ElementOfSeq
  <2>3. agents[r].log[i].by \in Tasks
    BY <2>2 DEF Calls
  <2>4. HasCall(agents[r].log[i])
    BY <1>1 DEF HistoryInv, AllKept
  <2>5. QED BY <1>2, <2>3, <2>4 DEF HasCall
<1>7. QED BY <1>3, <1>5, <1>6 DEF HistoryInv

\* An execution is interrupted, perhaps after a call that nobody records.
LEMMA InterruptKeeps ==
  ASSUME HistoryInv, Interrupt
  PROVE  HistoryInv'
<1>1. /\ run.pc # "idle" /\ interrupts < MaxInterrupts[work] /\ interrupts' = interrupts + 1
      /\ run'.pc = "idle" /\ DOMAIN run' = {"pc", "task", "start", "output", "pytest"}
      /\ UNCHANGED <<work, tasks, disk>>
  BY DEF Interrupt, NotRunning
<1>2. Grown
  <2>1. CASE UNCHANGED agents
    BY <1>1, <2>1, NothingLogged
  <2>2. CASE agents' = [agents EXCEPT ![Role[Task]] = Logged("error")]
    BY <1>1, <2>2, LoggedIs
  <2>3. QED BY <2>1, <2>2 DEF Interrupt
<1>3. work \in Workloads /\ interrupts \in Nat /\ MaxInterrupts[work] \in Nat
  BY ExecutionAssumption DEF HistoryInv, Typed
<1>4. interrupts' \in 0 .. MaxInterrupts[work] /\ interrupts' # 0
  BY <1>1, <1>3
<1>5. Typed' /\ AtHand' /\ AllKept'
  BY <1>1, <1>2, <1>4 DEF HistoryInv, Typed, AtHand, AllKept, Grown
<1>6. \A t \in Tasks : Known(t) \in Nat /\ Known(t)' \in Nat /\ Known(t) <= Known(t)'
  <2> SUFFICES ASSUME NEW t \in Tasks
               PROVE  Known(t) \in Nat /\ Known(t)' \in Nat /\ Known(t) <= Known(t)'
    OBVIOUS
  <2>1. Known(t)' = Len(agents'[Role[t]].log) /\ Role[t] \in Roles
    BY <1>1 DEF Known, Agent, Roles
  <2>2. Len(agents[Role[t]].log) \in Nat /\ Len(agents'[Role[t]].log) \in Nat
    BY <1>2, <2>1 DEF HistoryInv, Typed, Grown
  <2>3. Len(agents[Role[t]].log) <= Len(agents'[Role[t]].log)
    <3>1. CASE Role[t] = Role[Task]
      BY <1>2, <3>1 DEF Grown, Agent
    <3>2. CASE Role[t] # Role[Task]
      BY <1>2, <2>1, <2>2, <3>2 DEF Grown
    <3>3. QED BY <3>1, <3>2
  <2>4. Known(t) \in Nat /\ Known(t) <= Len(agents[Role[t]].log)
    BY <1>1, <2>2 DEF HistoryInv, AtHand, Known, Agent
  <2>5. QED BY <2>1, <2>2, <2>3, <2>4
<1>7. Histories'
  <2> SUFFICES ASSUME NEW t \in Tasks, NEW i \in 1 .. Len(tasks[t].calls)
               PROVE  /\ tasks[t].calls[i].by = t
                      /\ tasks[t].calls[i].n <= Known(t)'
                      /\ i > 1 => tasks[t].calls[i - 1].n < tasks[t].calls[i].n
    BY <1>1 DEF Histories
  <2>1. tasks[t].calls \in Seq(Calls)
    BY DEF HistoryInv, Typed, IsRecord
  <2>2. tasks[t].calls[i] \in Calls
    BY <2>1, ElementOfSeq
  <2>3. tasks[t].calls[i].n \in Nat
    BY <2>2 DEF Calls
  <2>4. /\ tasks[t].calls[i].by = t
        /\ tasks[t].calls[i].n <= Known(t)
        /\ i > 1 => tasks[t].calls[i - 1].n < tasks[t].calls[i].n
    BY DEF HistoryInv, Histories
  <2>5. Known(t) \in Nat /\ Known(t)' \in Nat /\ Known(t) <= Known(t)'
    BY <1>6
  <2>6. QED BY <2>3, <2>4, <2>5
<1>8. QED BY <1>1, <1>2, <1>5, <1>7, GrownLogs DEF HistoryInv

\* What the last call of a task was, as far as it is known.
LEMMA LastIs ==
  ASSUME NEW agent, agent.last \in Calls \cup {Absent}, NEW output,
         output = Absent \/ output.call \in Calls
  PROVE  LastCall(agent, output) \in Calls \cup {Absent}
BY DEF LastCall

\* Validation touches the text of an output only.
LEMMA FixedIs ==
  ASSUME DOMAIN run.output = {"text", "call"}
  PROVE  DOMAIN Fixed(run.output) = {"text", "call"} /\ Fixed(run.output).call = run.output.call
BY DEF Fixed

\* An attempt that ends before anything was called, or after everything was.
LEMMA FailsKeeps ==
  ASSUME HistoryInv, run.pc # "idle", NEW output, NEW pytest, NEW kind,
         output = Absent \/ output.call \in Calls, Fails(output, pytest, kind),
         UNCHANGED <<work, agents, disk, interrupts>>
  PROVE  HistoryInv'
<1>1. Grown /\ Agent(Task) = agents'[Role[Task]]
  BY NothingLogged
<1>2. Agent(Task).last \in Calls \cup {Absent}
  <2>1. Role[Task] \in Roles
    BY DEF HistoryInv, AtHand, Roles
  <2>2. QED BY <2>1 DEF HistoryInv, Typed, Agent
<1>3. LastCall(Agent(Task), output) \in Calls \cup {Absent}
  BY <1>2, LastIs
<1>4. QED BY <1>1, <1>3, FailureKeeps DEF Fails

\* An attempt that ends with its call.
LEMMA CallFailsKeeps ==
  ASSUME HistoryInv, run.pc # "idle", NEW end \in {"complete", "cut", "error"}, NEW kind,
         agents' = [agents EXCEPT ![Role[Task]] = Logged(end)],
         tasks' = Failed(Task, Logged(end), Absent, Absent, kind), run' = NotRunning,
         UNCHANGED <<work, disk, interrupts>>
  PROVE  HistoryInv'
<1>1. Grown /\ Logged(end) = agents'[Role[Task]] /\ Logged(end).last \in Calls
  BY LoggedIs
<1>2. LastCall(Logged(end), Absent) \in Calls \cup {Absent}
  BY <1>1, LastIs
<1>3. QED BY <1>1, <1>2, FailureKeeps

\* An answer is taken.
LEMMA AnswerKeeps ==
  ASSUME HistoryInv, NEW text, NEW wrapping, NEW end \in {"complete", "cut"},
         Answer(text, wrapping, end)
  PROVE  HistoryInv'
<1>1. /\ run.pc = "input"
      /\ agents' = [agents EXCEPT ![Role[Task]] = Logged(end)]
      /\ run' = [run EXCEPT !.pc = "output",
                   !.output = [text |-> Extracted(text, wrapping), call |-> Logged(end).last]]
      /\ UNCHANGED <<work, tasks, disk, interrupts>>
  BY DEF Answer, HasInput
<1>2. Grown /\ Logged(end).last \in Calls
  BY <1>1, LoggedIs
<1>3. /\ run'.pc = "output" /\ DOMAIN run' = DOMAIN run
      /\ run'.task = Task /\ run'.start = run.start
      /\ run'.output = [text |-> Extracted(text, wrapping), call |-> Logged(end).last]
  BY <1>1 DEF HistoryInv, Typed, Task
<1>4. QED BY <1>1, <1>2, <1>3, AttemptGoesOn

\* An output is judged.
LEMMA JudgeKeeps ==
  ASSUME HistoryInv, NEW pytest, Judge(pytest)
  PROVE  HistoryInv'
<1>1. /\ run.pc = "output" /\ UNCHANGED <<work, agents, disk, interrupts>>
      /\ DOMAIN run.output = {"text", "call"} /\ run.output.call \in Calls
  BY DEF Judge, HistoryInv, AtHand
<1> DEFINE output == Fixed(run.output)
<1>2. DOMAIN output = {"text", "call"} /\ output.call \in Calls
  BY <1>1, FixedIs
<1>3. CASE Rejected(Task, output, pytest)
  <2>1. Fails(output, pytest, "agent")
    BY <1>3 DEF Judge
  <2> HIDE DEF output
  <2>2. QED BY <1>1, <1>2, <2>1, FailsKeeps
<1>4. CASE ~Rejected(Task, output, pytest)
  <2>1. run' = [run EXCEPT !.pc = "accepted", !.output = output, !.pytest = pytest] /\ UNCHANGED tasks
    BY <1>4 DEF Judge
  <2> HIDE DEF output
  <2>2. /\ run'.pc = "accepted" /\ DOMAIN run' = DOMAIN run
        /\ run'.task = Task /\ run'.start = run.start /\ run'.output = output
    BY <2>1 DEF HistoryInv, Typed, Task
  <2>3. QED BY <1>1, <1>2, <2>1, <2>2, NothingLogged, AttemptGoesOn
<1>5. QED BY <1>3, <1>4

\* The output is persisted and the task completes.
LEMMA CompleteKeeps ==
  ASSUME HistoryInv, Complete
  PROVE  HistoryInv'
<1>1. /\ run.pc = "accepted" /\ run' = NotRunning /\ UNCHANGED <<work, agents, interrupts>>
      /\ run.output.call \in Calls
  BY DEF Complete, HistoryInv, AtHand
<1>2. Task \in Tasks /\ Role[Task] \in Roles /\ IsRecord(tasks[Task]) /\ DOMAIN tasks = Tasks
  BY <1>1 DEF HistoryInv, AtHand, Typed, Roles
<1> DEFINE last == LastCall(Agent(Task), run.output)
           own == OwnCalls(Task, Agent(Task).log)
<1>3. Grown /\ Agent(Task) = agents'[Role[Task]]
  BY <1>1, NothingLogged
<1>4. last \in Calls \cup {Absent}
  <2>1. Agent(Task).last \in Calls \cup {Absent}
    BY <1>2 DEF HistoryInv, Typed, Agent
  <2>2. QED BY <1>1, <2>1, LastIs
<1>5. own \in Seq(Calls)
  BY <1>1, <1>3, OwnCallsAre
<1>6. tasks' = [tasks EXCEPT ![Task] = [tasks[Task] EXCEPT
                  !.calls = tasks[Task].calls \o own, !.last = last, !.mode = Mode(last),
                  !.category = Absent, !.status = "done",
                  !.output = run.output, !.pytest = run.pytest]]
  <2>1. DOMAIN tasks[Task] = Fields
    BY <1>2 DEF IsRecord
  <2>2. QED BY <1>2, <2>1 DEF Complete, Fields
<1> HIDE DEF last, own
<1>7. /\ DOMAIN tasks' = Tasks /\ \A u \in Tasks : u # Task => tasks'[u] = tasks[u]
      /\ tasks'[Task] = [tasks[Task] EXCEPT
            !.calls = tasks[Task].calls \o own, !.last = last, !.mode = Mode(last),
            !.category = Absent, !.status = "done", !.output = run.output, !.pytest = run.pytest]
  BY <1>2, <1>6
<1>8. tasks[Task].calls \o own \in Seq(Calls)
  BY <1>2, <1>5, ConcatProperties DEF IsRecord
<1> DEFINE r == tasks'[Task]
<1>9. /\ DOMAIN r = Fields /\ r.status = "done" /\ r.attempts = tasks[Task].attempts
      /\ r.calls = tasks[Task].calls \o own /\ r.last = last /\ r.mode = Mode(last)
  BY <1>2, <1>7 DEF IsRecord, Fields
<1> HIDE DEF r
<1>10. IsRecord(r)
  BY <1>2, <1>4, <1>8, <1>9, ModeType DEF IsRecord, Statuses
<1>11. Recorded
  BY <1>3, <1>7, <1>9, <1>10 DEF Recorded, r, own
<1>12. QED BY <1>1, <1>3, <1>11, EndKeeps

\* Every step keeps it.
LEMMA HistoryStep == HistoryInv /\ [Next]_vars => HistoryInv'
<1> SUFFICES ASSUME HistoryInv, [Next]_vars PROVE HistoryInv'
  OBVIOUS
<1>1. ASSUME NEW t \in Tasks, Start(t) PROVE HistoryInv'
  BY <1>1, StartKeeps
<1>2. CASE RejectInput \/ NoProvider
  <2>1. run.pc # "idle"
    BY <1>2 DEF RejectInput, NoProvider, HasInput
  <2>2. QED BY <1>2, <2>1, FailsKeeps DEF RejectInput, NoProvider
<1>3. ASSUME NEW kind \in {"agent", "provider_transient"}, ChatFails(kind) PROVE HistoryInv'
  <2>1. run.pc # "idle"
    BY <1>3 DEF ChatFails, HasInput
  <2>2. QED BY <1>3, <2>1, CallFailsKeeps DEF ChatFails
<1>4. ASSUME NEW end \in {"complete", "cut"}, BlankReply(end) PROVE HistoryInv'
  <2>1. run.pc # "idle"
    BY <1>4 DEF BlankReply, HasInput
  <2>2. QED BY <1>4, <2>1, CallFailsKeeps DEF BlankReply
<1>5. ASSUME NEW end \in {"complete", "cut"}, NEW text, NEW wrapping, Answer(text, wrapping, end)
      PROVE  HistoryInv'
  BY <1>5, AnswerKeeps
<1>6. ASSUME NEW pytest, Judge(pytest) PROVE HistoryInv'
  BY <1>6, JudgeKeeps
<1>7. CASE PersistFails
  <2>1. run.pc # "idle" /\ run.output.call \in Calls
    BY <1>7 DEF PersistFails, HistoryInv, AtHand
  <2>2. QED BY <1>7, <2>1, FailsKeeps DEF PersistFails
<1>8. CASE Complete
  BY <1>8, CompleteKeeps
<1>9. CASE Interrupt
  BY <1>9, InterruptKeeps
<1>10. CASE Resume
  BY <1>10, ResumeKeeps
<1>11. CASE UNCHANGED vars
  BY <1>11 DEF vars, HistoryInv, Typed, AtHand, Logs, Histories, Known, AllKept, HasCall, Agent, Task
<1>12. QED BY <1>1, <1>2, <1>3, <1>4, <1>5, <1>6, <1>7, <1>8, <1>9, <1>10, <1>11 DEF Next

\* Whatever the workload, the history of a task holds its own provider calls in their
\* order, and all of them while no execution was interrupted, although tasks of one
\* role share an agent and its log (run_task, record_task_provider_calls).
THEOREM CallHistoriesAreOwn == Spec => []HistoryIsOwn
<1>1. HistoryInv => HistoryIsOwn
  <2> SUFFICES ASSUME HistoryInv PROVE HistoryIsOwn
    OBVIOUS
  <2>1. ASSUME NEW t \in Tasks
        PROVE  /\ tasks[t].status \in Statuses /\ tasks[t].attempts \in Nat
               /\ \A i \in DOMAIN tasks[t].calls : tasks[t].calls[i] \in Calls
               /\ tasks[t].last \in Calls \cup {Absent}
               /\ tasks[t].mode \in {Absent, "provider", "deterministic"}
               /\ DOMAIN tasks[t].calls = 1 .. Len(tasks[t].calls)
    <3>1. IsRecord(tasks[t])
      BY DEF HistoryInv, Typed
    <3>2. DOMAIN tasks[t].calls = 1 .. Len(tasks[t].calls)
      BY <3>1, LenProperties DEF IsRecord
    <3>3. \A i \in 1 .. Len(tasks[t].calls) : tasks[t].calls[i] \in Calls
      BY <3>1, ElementOfSeq DEF IsRecord
    <3>4. QED BY <3>1, <3>2, <3>3 DEF IsRecord
  <2>2. TypeOK
    BY <2>1 DEF HistoryInv, Typed, TypeOK
  <2>3. CallsAreOwn
    BY <2>1 DEF HistoryInv, Histories, CallsAreOwn
  <2>4. ASSUME run.pc = "idle", interrupts = 0, NEW r \in DOMAIN agents, NEW i \in DOMAIN agents[r].log
        PROVE  Contains(tasks[agents[r].log[i].by].calls, agents[r].log[i])
    <3>1. r \in Roles /\ agents[r].log \in Seq(Calls)
      BY DEF HistoryInv, Typed
    <3>2. i \in 1 .. Len(agents[r].log)
      BY <3>1, LenProperties
    <3>3. QED BY <2>4, <3>1, <3>2 DEF HistoryInv, AllKept, HasCall
  <2>5. CallsAreKept
    BY <2>4 DEF CallsAreKept, Kept
  <2>6. QED BY <2>2, <2>3, <2>5 DEF HistoryIsOwn
<1>2. QED BY <1>1, HistoryInit, HistoryStep, PTL DEF Spec

-----------------------------------------------------------------------------
(* Outputs.  What is stored for a task was judged as it is stored: what its*)
(* validation found out about it decides the status and the category.      *)

\* The text that an agent of the role of t gives its output.
IsText(t, text) ==
  /\ Role[t] = "code_engineer" => IsModule(text)
  /\ Role[t] = "qa_tester" => IsSuite(text)
  /\ Role[t] = "dependency_manager" => \A l \in text : l.kind \in {"package", "unsafe"}

\* An answer: its call did not fail.
IsAnswer(t, output) == IsText(t, output.text) /\ output.call.end \in {"complete", "cut"}

\* An answer once it is fixed, and what pytest said of it.
IsJudged(t, output, pytest) ==
  /\ IsAnswer(t, output)
  /\ Role[t] = "code_engineer" /\ output.text.syntax => output.text.missing = {}
  /\ Role[t] = "qa_tester" => pytest \in PytestRun

\* What an output must be to be accepted; of a manifest what does not depend on the module.
IsAccepted(t, output, pytest) ==
  /\ Role[t] = "code_engineer" => ~ModuleRejected(t, output)
  /\ Role[t] = "qa_tester" => ~SuiteIsRejected(t, output, pytest)
  /\ Role[t] = "dependency_manager" => \A l \in output.text : l.kind # "unsafe"

\* A finished task stores an accepted output, which its artifact holds; a failed one
\* stores a rejected output under the category for that, or an accepted one, which
\* could not be persisted.
IsSettled(t, record, file) ==
  /\ record.status # "pending" => t \in Works[work]
  /\ record.status = "done" =>
       /\ IsJudged(t, record.output, record.pytest)
       /\ IsAccepted(t, record.output, record.pytest)
       /\ file = Written(t, record.output.text)
  /\ record.status = "failed" /\ record.output # Absent =>
       /\ IsJudged(t, record.output, record.pytest)
       /\ \/ record.category = Category(t, "agent")
          \/ record.category = "task_execution" /\ IsAccepted(t, record.output, record.pytest)

\* The same of what the attempt at hand has come to.
OutputAtHand ==
  /\ run.pc = "output" => IsAnswer(Task, run.output)
  /\ run.pc = "accepted" => /\ IsJudged(Task, run.output, run.pytest)
                            /\ IsAccepted(Task, run.output, run.pytest)

Settled(t) == IsSettled(t, tasks[t], disk[t])

SoundInv ==
  /\ DOMAIN disk = Tasks
  /\ \A t \in Tasks : Settled(t)
  /\ OutputAtHand

\* Nothing is stored yet.
LEMMA SoundInit == Init => SoundInv
<1> SUFFICES ASSUME Init PROVE SoundInv
  OBVIOUS
<1>1. run.pc = "idle" /\ DOMAIN disk = Tasks /\ \A t \in Tasks : tasks[t].status = "pending"
  BY DEF Init, NewTask, NotRunning
<1>2. QED BY <1>1 DEF SoundInv, Settled, IsSettled, OutputAtHand

\* What is settled stays so: the workload never changes.
LEMMA StaysSettled ==
  ASSUME UNCHANGED work, NEW t, IsSettled(t, tasks'[t], disk'[t])
  PROVE  Settled(t)'
BY DEF Settled, IsSettled, IsAccepted, ModuleRejected, SuiteIsRejected

\* A step that changes one task keeps what the others store.
LEMMA OthersStaySettled ==
  ASSUME SoundInv, NEW t \in Tasks, UNCHANGED work,
         \A u \in Tasks : u # t => tasks'[u] = tasks[u] /\ disk'[u] = disk[u],
         IsSettled(t, tasks'[t], disk'[t]), DOMAIN disk' = Tasks, OutputAtHand'
  PROVE  SoundInv'
<1> SUFFICES ASSUME NEW u \in Tasks PROVE IsSettled(u, tasks'[u], disk'[u])
  BY StaysSettled DEF SoundInv
<1>1. IsSettled(u, tasks[u], disk[u])
  BY DEF SoundInv, Settled
<1>2. QED BY <1>1

\* The fixes leave a text of the kind.
LEMMA FixedIsJudged ==
  ASSUME HistoryInv, run.pc = "output", IsAnswer(Task, run.output),
         NEW pytest \in PytestChoices
  PROVE  IsJudged(Task, Fixed(run.output), pytest)
<1> DEFINE old == run.output.text
           new == Fixed(run.output).text
<1>1. DOMAIN run.output = {"text", "call"} /\ work \in Workloads
  BY DEF HistoryInv, AtHand, Typed
<1>2. Fixed(run.output).call = run.output.call
  BY <1>1, FixedIs
<1>3. ASSUME Role[Task] = "code_engineer" PROVE IsModule(new) /\ (new.syntax => new.missing = {})
  <2>1. new = FixedCode(old) /\ IsModule(old)
    BY <1>1, <1>3 DEF Fixed, IsAnswer, IsText
  <2> HIDE DEF old, new
  <2>2. Cardinality(old.missing) \in Nat
    BY <2>1, FS_CardinalityType DEF IsModule
  <2>3. CASE old.syntax
    <3>1. new = [old EXCEPT !.lines = @ + Cardinality(old.missing), !.missing = {}]
      BY <2>1, <2>3 DEF FixedCode
    <3>2. IsFiniteSet({})
      BY FS_EmptySet
    <3>3. QED BY <2>1, <2>2, <3>1, <3>2 DEF IsModule
  <2>4. CASE ~old.syntax
    BY <2>1, <2>4 DEF FixedCode
  <2>5. QED BY <2>3, <2>4
<1>4. ASSUME Role[Task] = "qa_tester" PROVE IsSuite(new)
  <2>1. new = FixedSuite(old) /\ IsSuite(old)
    BY <1>1, <1>4 DEF Fixed, IsAnswer, IsText
  <2> HIDE DEF old, new
  <2>2. QED BY <2>1 DEF IsSuite, FixedSuite
<1>5. ASSUME Role[Task] = "dependency_manager" PROVE new = old
  BY <1>1, <1>5 DEF Fixed
<1>6. Role[Task] = "qa_tester" => pytest \in PytestRun
  BY <1>1, TextAssumption DEF PytestChoices
<1>7. QED BY <1>2, <1>3, <1>4, <1>5, <1>6 DEF IsJudged, IsAnswer, IsText

\* What validation does not reject is accepted.
LEMMA NotRejectedIsAccepted ==
  ASSUME NEW t, NEW output, NEW pytest, ~Rejected(t, output, pytest)
  PROVE  IsAccepted(t, output, pytest)
BY DEF Rejected, IsAccepted, ManifestRejected, ManifestIssues

\* What is extracted from a reply that is a draft is an answer of the agent's kind.
LEMMA AnswerIs ==
  ASSUME HistoryInv, NEW end \in {"complete", "cut"}, HasInput,
         NEW text \in Drafts[work][Task], NEW wrapping \in Wrappings(Task)
  PROVE  IsAnswer(Task, [text |-> Extracted(text, wrapping), call |-> Logged(end).last])
<1> DEFINE new == Extracted(text, wrapping)
<1>1. work \in Workloads /\ Task \in Works[work]
  BY DEF HistoryInv, Typed, AtHand, HasInput
<1>2. /\ Role[Task] = "code_engineer" => IsModule(text)
      /\ Role[Task] = "qa_tester" => IsSuite(text)
  BY <1>1, TextAssumption
<1>3. ASSUME Role[Task] = "code_engineer" PROVE IsModule(new)
  <2>1. new = text \/ new = [text EXCEPT !.syntax = FALSE]
    BY <1>3 DEF Extracted
  <2> HIDE DEF new
  <2>2. QED BY <1>2, <1>3, <2>1 DEF IsModule
<1>4. ASSUME Role[Task] = "qa_tester" PROVE IsSuite(new)
  <2>1. new = text \/ new = [text EXCEPT !.syntax = FALSE]
    BY <1>4 DEF Extracted
  <2> HIDE DEF new
  <2>2. QED BY <1>2, <1>4, <2>1 DEF IsSuite
<1>5. ASSUME Role[Task] = "dependency_manager" PROVE \A l \in new : l.kind \in {"package", "unsafe"}
  BY <1>5 DEF Extracted, Wrappings, Requirements
<1>6. Logged(end).last.end = end
  BY DEF Logged
<1> HIDE DEF new
<1>7. IsText(Task, new)
  BY <1>3, <1>4, <1>5 DEF IsText
<1>8. QED BY <1>6, <1>7 DEF IsAnswer, new

\* A failed attempt: nothing is stored, or what was judged.
LEMMA FailureStaysSettled ==
  ASSUME HistoryInv, SoundInv, run.pc # "idle",
         NEW agent, NEW output, NEW pytest, NEW kind,
         tasks' = Failed(Task, agent, output, pytest, kind), run' = NotRunning,
         UNCHANGED <<work, disk>>,
         output # Absent =>
           /\ IsJudged(Task, output, pytest)
           /\ kind = "agent" \/ (kind = "task_execution" /\ IsAccepted(Task, output, pytest))
  PROVE  SoundInv'
<1>1. Task \in Tasks /\ Task \in Works[work] /\ Typed
  BY DEF HistoryInv, AtHand
<1>2. \A u \in Tasks : u # Task => tasks'[u] = tasks[u]
  BY <1>1, FailedTable
<1> DEFINE r == tasks'[Task]
<1>3. /\ r.category = Category(Task, kind)
      /\ \/ r.status = "pending"
         \/ r.status = "failed" /\ r.output = output /\ r.pytest = pytest
  <2>1. IsFailure(Failed(Task, agent, output, pytest, kind)[Task], Task, agent, output, pytest, kind)
    BY <1>1, FailedRecord
  <2>2. QED BY <2>1 DEF IsFailure
<1> HIDE DEF r
<1>4. Category(Task, "task_execution") = "task_execution"
  BY DEF Category
<1>5. IsSettled(Task, r, disk'[Task])
  BY <1>1, <1>3, <1>4 DEF IsSettled
<1>6. OutputAtHand' /\ DOMAIN disk' = Tasks
  BY DEF OutputAtHand, NotRunning, SoundInv
<1>7. QED BY <1>1, <1>2, <1>5, <1>6, OthersStaySettled DEF r

\* A task starts, or an execution is resumed: what was stored stays.
LEMMA StartStaysSettled ==
  ASSUME HistoryInv, SoundInv, NEW t \in Tasks, Start(t)
  PROVE  SoundInv'
<1>1. /\ t \in Works[work] /\ run'.pc = "input" /\ UNCHANGED <<work, disk>>
      /\ DOMAIN tasks = Tasks
      /\ tasks' = [tasks EXCEPT ![t].status = "running", ![t].attempts = @ + 1,
                                ![t].category = Absent]
  BY DEF Start, NotRunning, HistoryInv, Typed
<1>2. \A u \in Tasks : u # t => tasks'[u] = tasks[u]
  BY <1>1
<1>3. tasks'[t].status = "running"
  BY <1>1 DEF HistoryInv, Typed, IsRecord, Fields
<1>4. IsSettled(t, tasks'[t], disk'[t])
  BY <1>1, <1>3 DEF IsSettled
<1>5. OutputAtHand' /\ DOMAIN disk' = Tasks
  BY <1>1 DEF OutputAtHand, SoundInv
<1>6. QED BY <1>1, <1>2, <1>4, <1>5, OthersStaySettled

\* Resuming makes pending what was running, and touches nothing else.
LEMMA ResumeStaysSettled ==
  ASSUME HistoryInv, SoundInv, Resume
  PROVE  SoundInv'
<1>1. /\ UNCHANGED <<work, disk, run>> /\ run.pc = "idle"
      /\ tasks' = [t \in Tasks |->
           IF tasks[t].status = "running"
             THEN [tasks[t] EXCEPT !.status = "pending", !.last = Absent] ELSE tasks[t]]
  BY DEF Resume
<1>2. ASSUME NEW t \in Tasks PROVE IsSettled(t, tasks'[t], disk'[t])
  <2>1. IsSettled(t, tasks[t], disk[t]) /\ IsRecord(tasks[t])
    BY DEF SoundInv, Settled, HistoryInv, Typed
  <2>2. CASE tasks[t].status = "running"
    <3>1. tasks'[t].status = "pending"
      BY <1>1, <2>1, <2>2 DEF IsRecord, Fields
    <3>2. QED BY <3>1 DEF IsSettled
  <2>3. CASE tasks[t].status # "running"
    BY <1>1, <2>1, <2>3
  <2>4. QED BY <2>2, <2>3
<1>3. OutputAtHand' /\ DOMAIN disk' = Tasks
  BY <1>1 DEF OutputAtHand, SoundInv
<1>4. QED BY <1>1, <1>2, <1>3, StaysSettled DEF SoundInv

\* A step of the attempt at hand that stores nothing.
LEMMA AttemptStaysSettled ==
  ASSUME SoundInv, UNCHANGED <<work, tasks, disk>>, OutputAtHand'
  PROVE  SoundInv'
<1>1. ASSUME NEW t \in Tasks PROVE IsSettled(t, tasks'[t], disk'[t])
  BY DEF SoundInv, Settled
<1>2. QED BY <1>1, StaysSettled DEF SoundInv

\* An output is judged: it is rejected as it is stored, or at hand as it is accepted.
LEMMA JudgeStaysSettled ==
  ASSUME HistoryInv, SoundInv, NEW pytest, Judge(pytest)
  PROVE  SoundInv'
<1>1. /\ run.pc = "output" /\ pytest \in PytestChoices /\ UNCHANGED <<work, agents, disk, interrupts>>
      /\ IsAnswer(Task, run.output)
      /\ DOMAIN run = {"pc", "task", "start", "output", "pytest"}
  BY DEF Judge, SoundInv, OutputAtHand, HistoryInv, Typed
<1> DEFINE output == Fixed(run.output)
<1>2. IsJudged(Task, output, pytest)
  BY <1>1, FixedIsJudged
<1>3. CASE Rejected(Task, output, pytest)
  <2>1. Fails(output, pytest, "agent")
    BY <1>3 DEF Judge
  <2> HIDE DEF output
  <2>2. tasks' = Failed(Task, Agent(Task), output, pytest, "agent") /\ run' = NotRunning
    BY <2>1 DEF Fails
  <2>3. run.pc # "idle" /\ UNCHANGED <<work, disk>>
    BY <1>1
  <2>4. QED BY <1>2, <2>2, <2>3, FailureStaysSettled
<1>4. CASE ~Rejected(Task, output, pytest)
  <2>1. run' = [run EXCEPT !.pc = "accepted", !.output = output, !.pytest = pytest] /\ UNCHANGED tasks
    BY <1>4 DEF Judge
  <2>2. IsAccepted(Task, output, pytest)
    BY <1>4, NotRejectedIsAccepted
  <2> HIDE DEF output
  <2>3. run'.pc = "accepted" /\ run'.task = Task /\ run'.output = output /\ run'.pytest = pytest
    BY <1>1, <2>1 DEF Task
  <2>4. OutputAtHand'
    BY <1>1, <1>2, <2>2, <2>3 DEF OutputAtHand, Task, IsAccepted, ModuleRejected, SuiteIsRejected
  <2>5. QED BY <1>1, <2>1, <2>4, AttemptStaysSettled
<1>5. QED BY <1>3, <1>4

\* The output that was accepted is what the artifact and the task hold.
LEMMA CompleteStaysSettled ==
  ASSUME HistoryInv, SoundInv, Complete
  PROVE  SoundInv'
<1>1. /\ run.pc = "accepted" /\ run' = NotRunning /\ UNCHANGED work
      /\ disk' = [disk EXCEPT ![Task] = Written(Task, run.output.text)]
      /\ IsJudged(Task, run.output, run.pytest) /\ IsAccepted(Task, run.output, run.pytest)
  BY DEF Complete, SoundInv, OutputAtHand
<1>2. /\ Task \in Tasks /\ Task \in Works[work] /\ DOMAIN tasks = Tasks
      /\ DOMAIN tasks[Task] = Fields
  BY <1>1 DEF HistoryInv, AtHand, Typed, IsRecord
<1>3. /\ tasks'[Task].status = "done" /\ tasks'[Task].output = run.output
      /\ tasks'[Task].pytest = run.pytest
      /\ \A u \in Tasks : u # Task => tasks'[u] = tasks[u]
  BY <1>2 DEF Complete, Fields
<1>4. /\ DOMAIN disk' = Tasks /\ disk'[Task] = Written(Task, run.output.text)
      /\ \A u \in Tasks : u # Task => disk'[u] = disk[u]
  BY <1>1, <1>2 DEF SoundInv
<1>5. IsSettled(Task, tasks'[Task], disk'[Task])
  BY <1>1, <1>2, <1>3, <1>4 DEF IsSettled
<1>6. OutputAtHand'
  BY <1>1 DEF OutputAtHand, NotRunning
<1>7. QED BY <1>1, <1>2, <1>3, <1>4, <1>5, <1>6, OthersStaySettled

\* Every step keeps it.
LEMMA SoundStep == HistoryInv /\ SoundInv /\ [Next]_vars => SoundInv'
<1> SUFFICES ASSUME HistoryInv, SoundInv, [Next]_vars PROVE SoundInv'
  OBVIOUS
<1>1. ASSUME NEW t \in Tasks, Start(t) PROVE SoundInv'
  BY <1>1, StartStaysSettled
<1>2. CASE RejectInput \/ NoProvider
  <2>1. run.pc # "idle"
    BY <1>2 DEF RejectInput, NoProvider, HasInput
  <2>2. QED BY <1>2, <2>1, FailureStaysSettled DEF RejectInput, NoProvider, Fails
<1>3. ASSUME NEW kind, ChatFails(kind) PROVE SoundInv'
  <2>1. run.pc # "idle"
    BY <1>3 DEF ChatFails, HasInput
  <2>2. QED BY <1>3, <2>1, FailureStaysSettled DEF ChatFails
<1>4. ASSUME NEW end, BlankReply(end) PROVE SoundInv'
  <2>1. run.pc # "idle"
    BY <1>4 DEF BlankReply, HasInput
  <2>2. QED BY <1>4, <2>1, FailureStaysSettled DEF BlankReply
<1>5. ASSUME NEW end \in {"complete", "cut"}, NEW text \in Drafts[work][Task],
             NEW wrapping \in Wrappings(Task), Answer(text, wrapping, end)
      PROVE  SoundInv'
  <2> DEFINE output == [text |-> Extracted(text, wrapping), call |-> Logged(end).last]
  <2>1. /\ HasInput /\ run' = [run EXCEPT !.pc = "output", !.output = output]
        /\ UNCHANGED <<work, tasks, disk>>
    BY <1>5 DEF Answer
  <2>2. IsAnswer(Task, output)
    BY <1>5, <2>1, AnswerIs
  <2> HIDE DEF output
  <2>3. run'.pc = "output" /\ run'.task = Task /\ run'.output = output
    BY <2>1 DEF HistoryInv, Typed, Task
  <2>4. OutputAtHand'
    BY <2>2, <2>3 DEF OutputAtHand, Task
  <2>5. QED BY <2>1, <2>4, AttemptStaysSettled
<1>6. ASSUME NEW pytest, Judge(pytest) PROVE SoundInv'
  BY <1>6, JudgeStaysSettled
<1>7. CASE PersistFails
  <2>1. /\ run.pc # "idle" /\ IsJudged(Task, run.output, run.pytest)
        /\ IsAccepted(Task, run.output, run.pytest)
    BY <1>7 DEF PersistFails, SoundInv, OutputAtHand
  <2>2. QED BY <1>7, <2>1, FailureStaysSettled DEF PersistFails, Fails
<1>8. CASE Complete
  BY <1>8, CompleteStaysSettled
<1>9. CASE Interrupt
  <2>1. UNCHANGED <<work, tasks, disk>> /\ run'.pc = "idle"
    BY <1>9 DEF Interrupt, NotRunning
  <2>2. QED BY <2>1, AttemptStaysSettled DEF OutputAtHand
<1>10. CASE Resume
  BY <1>10, ResumeStaysSettled
<1>11. CASE UNCHANGED vars
  <2>1. OutputAtHand'
    BY <1>11 DEF vars, SoundInv, OutputAtHand, Task, IsAccepted, ModuleRejected, SuiteIsRejected
  <2>2. QED BY <1>11, <2>1, AttemptStaysSettled DEF vars
<1>12. QED BY <1>1, <1>2, <1>3, <1>4, <1>5, <1>6, <1>7, <1>8, <1>9, <1>10, <1>11 DEF Next

-----------------------------------------------------------------------------
(* Budgets.  The tolerance is at most 15 per cent, rounded up.             *)

\* The line budget that an output is held to, in relation to the one that was asked for.
LEMMA BudgetIs ==
  ASSUME NEW budget \in Nat \cup {Unlimited}, NEW mode, budget # Unlimited
  PROVE  /\ EffectiveBudget(budget, mode) \in Nat
         /\ budget <= EffectiveBudget(budget, mode)
         /\ EffectiveBudget(budget, mode) * 20 < budget * 23 + 20
<1>1. budget \in Nat
  OBVIOUS
<1> DEFINE tolerance == Tolerance(mode)
<1>2. tolerance \in {0, 5, 15}
  BY DEF Tolerance
<1>3. EffectiveBudget(budget, mode) = (budget * (100 + tolerance) + 99) \div 100
  BY DEF EffectiveBudget
<1> HIDE DEF tolerance
<1>4. CASE tolerance = 0
  BY <1>1, <1>3, <1>4
<1>5. CASE tolerance = 5
  BY <1>1, <1>3, <1>5
<1>6. CASE tolerance = 15
  BY <1>1, <1>3, <1>6
<1>7. QED BY <1>2, <1>4, <1>5, <1>6

\* What exceeds the budget an output is held to exceeds the one that was asked for.
LEMMA ExceedsBoth ==
  ASSUME NEW count \in Nat, NEW budget \in Nat \cup {Unlimited}, NEW mode,
         Exceeds(count, EffectiveBudget(budget, mode))
  PROVE  Exceeds(count, budget)
<1>1. budget # Unlimited
  BY DEF Exceeds, EffectiveBudget
<1>2. EffectiveBudget(budget, mode) \in Nat /\ budget <= EffectiveBudget(budget, mode)
  BY <1>1, BudgetIs
<1>3. QED BY <1>1, <1>2 DEF Exceeds

\* What does not is within the tolerance.
LEMMA WithinTolerance ==
  ASSUME NEW count \in Nat, NEW budget \in Nat \cup {Unlimited}, NEW mode, budget # Unlimited,
         ~Exceeds(count, EffectiveBudget(budget, mode))
  PROVE  count * 20 < budget * 23 + 20
<1>1. /\ EffectiveBudget(budget, mode) \in Nat
      /\ EffectiveBudget(budget, mode) * 20 < budget * 23 + 20
  BY BudgetIs
<1>2. EffectiveBudget(budget, mode) # Unlimited
  BY <1>1, TextAssumption
<1>3. count <= EffectiveBudget(budget, mode)
  BY <1>1, <1>2 DEF Exceeds
<1>4. QED BY <1>1, <1>3

\* What the type of a request says of a task of the workload.
LEMMA RequestIs ==
  ASSUME HistoryInv, NEW t \in Works[work]
  PROVE  /\ Text[work][t].lines \in Nat \cup {Unlimited}
         /\ Text[work][t].exactTests \in Nat \cup {Unlimited}
         /\ Text[work][t].maxTests \in Nat \cup {Unlimited}
         /\ Text[work][t].fixtures \in Nat \cup {Unlimited}
BY TextAssumption DEF HistoryInv, Typed, IsRequest

-----------------------------------------------------------------------------
(* What is stored for a finished task                                      *)

\* An accepted module.
LEMMA AcceptedModule ==
  ASSUME HistoryInv, NEW t \in Works[work], NEW output, NEW pytest, Role[t] = "code_engineer",
         IsJudged(t, output, pytest), IsAccepted(t, output, pytest)
  PROVE  /\ output.text.syntax /\ output.text.missing = {} /\ ~output.text.badFields
         /\ output.text.thirdParty = {} => output.text.imports = "works"
         /\ Text[work][t].lines # Unlimited =>
              output.text.lines * 20 < Text[work][t].lines * 23 + 20
<1> DEFINE text == output.text
           request == Text[work][t]
<1>1. IsModule(text) /\ (text.syntax => text.missing = {})
  BY DEF IsJudged, IsAnswer, IsText
<1>2. CodeIssues(text, request, output.call.end) = {}
  BY DEF IsAccepted, ModuleRejected
<1>3. /\ text.syntax /\ ~text.badFields
      /\ ImportResult(text) \notin {"fails", "hangs"}
      /\ ~Exceeds(text.lines, EffectiveBudget(request.lines, request.mode))
  <2> HIDE DEF text, request
  <2>1. \A i \in {"syntax", "lines", "import", "fields"} :
          i \notin CodeIssues(text, request, output.call.end)
    BY <1>2
  <2>2. QED BY <2>1 DEF CodeIssues
<1>4. text.thirdParty = {} => text.imports = "works"
  BY <1>1, <1>3 DEF ImportResult, IsModule
<1>5. text.lines \in Nat /\ request.lines \in Nat \cup {Unlimited}
  BY <1>1, RequestIs DEF IsModule
<1> HIDE DEF text, request
<1>6. request.lines # Unlimited => text.lines * 20 < request.lines * 23 + 20
  BY <1>3, <1>5, WithinTolerance
<1>7. QED BY <1>1, <1>3, <1>4, <1>6 DEF text, request

\* An accepted suite.
LEMMA AcceptedSuite ==
  ASSUME NEW t, NEW output, NEW pytest, Role[t] = "qa_tester",
         IsJudged(t, output, pytest), IsAccepted(t, output, pytest)
  PROVE  /\ output.text.syntax /\ output.text.keys \cap BlockingKeys = {}
         /\ ~PytestFailed(pytest)
         /\ \/ PytestPassed(pytest)
            \/ output.text.keys \subseteq {"type_mismatches", "helper_surface_usages"}
<1> DEFINE text == output.text
           request == Text[work][t]
<1>1. IsSuite(text)
  BY DEF IsJudged, IsAnswer, IsText
<1>2. /\ SuiteIssues(text, request, pytest, output.call.end) = {}
      /\ SuiteWarnings(text) = {} \/ PytestPassed(pytest)
  BY DEF IsAccepted, SuiteIsRejected, SuiteRejected
<1> HIDE DEF text, request
<1>3. text.keys \cap BlockingKeys = {}
  BY <1>2 DEF SuiteIssues
<1>4. text.syntax /\ ~PytestFailed(pytest)
  <2>1. \A i \in {"syntax", "pytest"} : i \notin SuiteIssues(text, request, pytest, output.call.end)
    BY <1>2
  <2>2. QED BY <2>1 DEF SuiteIssues
<1>5. SuiteWarnings(text) = {} => text.keys \subseteq {"type_mismatches", "helper_surface_usages"}
  BY <1>1, <1>3 DEF SuiteWarnings, IsSuite, SuiteKeys
<1>6. QED BY <1>2, <1>3, <1>4, <1>5 DEF text

\* What was settled is sound.
LEMMA SettledIsSound == HistoryInv /\ SoundInv => DoneIsSound
<1> SUFFICES ASSUME HistoryInv, SoundInv, NEW t \in Tasks, tasks[t].status = "done"
             PROVE  LET text == tasks[t].output.text
                    IN  /\ disk[t] = Written(t, text)
                        /\ Role[t] = "code_engineer" =>
                             /\ text.syntax /\ text.missing = {} /\ ~text.badFields
                             /\ text.thirdParty = {} => text.imports = "works"
                             /\ Text[work][t].lines # Unlimited =>
                                  text.lines * 20 < Text[work][t].lines * 23 + 20
                        /\ Role[t] = "qa_tester" =>
                             /\ text.syntax /\ text.keys \cap BlockingKeys = {}
                             /\ ~PytestFailed(tasks[t].pytest)
                             /\ \/ PytestPassed(tasks[t].pytest)
                                \/ text.keys \subseteq {"type_mismatches", "helper_surface_usages"}
                        /\ Role[t] = "dependency_manager" => \A l \in text : l.kind = "package"
  BY DEF DoneIsSound
<1> DEFINE output == tasks[t].output
           pytest == tasks[t].pytest
<1>1. /\ t \in Works[work] /\ disk[t] = Written(t, output.text)
      /\ IsJudged(t, output, pytest) /\ IsAccepted(t, output, pytest)
  BY DEF SoundInv, Settled, IsSettled
<1> HIDE DEF output, pytest
<1>2. Role[t] = "dependency_manager" => \A l \in output.text : l.kind = "package"
  BY <1>1 DEF IsJudged, IsAnswer, IsText, IsAccepted
<1>3. QED BY <1>1, <1>2, AcceptedModule, AcceptedSuite DEF output, pytest

-----------------------------------------------------------------------------
(* What is said of a rejected output                                       *)

\* What is stored for a task that failed with an output.
LEMMA FailedWithIs ==
  ASSUME SoundInv, NEW role, NEW t \in FailedWith(role)
  PROVE  /\ t \in Tasks /\ t \in Works[work] /\ Role[t] = role /\ tasks[t].output # Absent
         /\ IsJudged(t, tasks[t].output, tasks[t].pytest)
         /\ \/ tasks[t].category = Category(t, "agent")
            \/ /\ tasks[t].category = "task_execution"
               /\ IsAccepted(t, tasks[t].output, tasks[t].pytest)
BY DEF SoundInv, Settled, IsSettled, FailedWith

\* A suite is never blamed on the module unless nothing is wrong with it.
LEMMA BlameIsFair == SoundInv => BlamedOnlyIfSuiteIsFine
<1> DEFINE passing == [ran |-> TRUE, passed |-> TRUE, files |-> {}, failures |-> {}]
<1> SUFFICES ASSUME SoundInv, NEW t \in FailedWith("qa_tester"),
                    BlamesCode(tasks[t].output.text, Text[work][t], tasks[t].pytest),
                    "module" \notin tasks[t].pytest.files
             PROVE  /\ "values" \in tasks[t].pytest.failures
                    /\ tasks[t].pytest.failures \subseteq {"values", "error"}
                    /\ \/ "helper_surface_usages" \in tasks[t].output.text.keys
                       \/ ~Rejected(t, tasks[t].output, passing)
  BY DEF BlamedOnlyIfSuiteIsFine
<1> DEFINE output == tasks[t].output
           text == output.text
           request == Text[work][t]
           pytest == tasks[t].pytest
<1>1. /\ Role[t] = "qa_tester" /\ pytest \in PytestRun
      /\ BlamesCode(text, request, pytest) /\ "module" \notin pytest.files
  BY FailedWithIs DEF IsJudged
<1> HIDE DEF output, text, request, pytest, passing
<1>2. /\ PytestFailed(pytest) /\ Overreach(pytest) = {} /\ SemanticMismatch(pytest)
      /\ ~HasBlockingIssues(text, request)
  BY <1>1 DEF BlamesCode, FailureOrigin
<1>3. FailureDetails(pytest) = pytest.failures
  BY <1>2 DEF FailureDetails
<1>4. "values" \in pytest.failures /\ pytest.failures \subseteq {"values", "error"}
  BY <1>1, <1>2, <1>3 DEF Overreach, SemanticMismatch, PytestRun
<1>5. ASSUME "helper_surface_usages" \notin text.keys PROVE ~Rejected(t, output, passing)
  <2>1. ~PytestFailed(passing) /\ PytestPassed(passing)
    BY DEF PytestFailed, PytestPassed, passing
  <2>2. SuiteIssues(text, request, passing, output.call.end) = {}
    BY <1>2, <1>5, <2>1 DEF SuiteIssues, HasBlockingIssues, Diagnostics
  <2>3. ~SuiteIsRejected(t, output, passing)
    BY <2>1, <2>2 DEF SuiteIsRejected, SuiteRejected, text, request
  <2>4. QED BY <1>1, <2>3 DEF Rejected
<1>6. QED BY <1>4, <1>5 DEF output, text, pytest

\* A description that asks for an exact number of tests does not ask for fewer at most.
\* Nothing in the code makes sure of that: see the theorem that needs it.
CountsAgree ==
  \A w \in Workloads : \A t \in Works[w] :
    Text[w][t].exactTests # Unlimited /\ Text[w][t].maxTests # Unlimited
      => Text[w][t].exactTests <= Text[w][t].maxTests

\* The repair of a suite is planned exactly when the suite is too big or was cut off.
LEMMA PlansMatch == CountsAgree /\ HistoryInv /\ SoundInv => PlanMatchesSuite
<1> SUFFICES ASSUME CountsAgree, HistoryInv, SoundInv,
                    NEW t \in FailedWith("qa_tester") \cap Spelled
             PROVE  GetsPlan(t) <=>
                      \/ BrokenBudgets(tasks[t].output.text, Text[work][t]) \ {"exact_tests"} # {}
                      \/ /\ Text[work][t].exactTests # Unlimited
                         /\ tasks[t].output.text.tests > Text[work][t].exactTests
                      \/ /\ ~tasks[t].output.text.syntax
                         /\ tasks[t].output.call.end = "cut" \/ tasks[t].output.text.tail
  BY DEF PlanMatchesSuite
<1> DEFINE output == tasks[t].output
           text == output.text
           request == Text[work][t]
           pytest == tasks[t].pytest
           end == output.call.end
           TooMany == request.exactTests # Unlimited /\ text.tests > request.exactTests
           CutOff == ~text.syntax /\ (end = "cut" \/ text.tail)
<1>1. /\ t \in Works[work] /\ work \in Workloads /\ Role[t] = "qa_tester" /\ t \in Spelled
      /\ output # Absent /\ IsJudged(t, output, pytest)
      /\ \/ tasks[t].category = Category(t, "agent")
         \/ tasks[t].category = "task_execution" /\ IsAccepted(t, output, pytest)
  BY FailedWithIs DEF HistoryInv, Typed
<1>2. /\ IsSuite(text) /\ end \in {"complete", "cut"}
  BY <1>1 DEF IsJudged, IsAnswer, IsText
<1>3. Category(t, "agent") = "test_validation"
  BY <1>1 DEF Category
<1>4. /\ request.exactTests \in Nat \cup {Unlimited} /\ request.maxTests \in Nat \cup {Unlimited}
      /\ text.tests \in Nat
      /\ request.exactTests # Unlimited /\ request.maxTests # Unlimited
           => request.exactTests <= request.maxTests
  BY <1>1, <1>2, RequestIs DEF CountsAgree, IsSuite
<1>5. CASE tasks[t].category = "test_validation"
  <2> DEFINE summary == SuiteSummary(text, request, pytest, end)
             shown == IF request.exactTests = Unlimited THEN request.maxTests ELSE request.exactTests
  <2>1. RepairSummary(t) = summary
    BY <1>1, <1>5 DEF RepairSummary
  <2> HIDE DEF output, text, request, pytest, end, TooMany, CutOff
  <2>2. summary.truncated <=> CutOff
    BY <1>2 DEF SuiteSummary, Diagnostics, CutOff, IsSuite
  <2>3. summary.overLimit # {} <=>
          \/ Exceeds(text.lines, EffectiveBudget(request.lines, request.mode))
          \/ Exceeds(text.tests, shown)
          \/ Exceeds(text.fixtures, request.fixtures)
    BY DEF SuiteSummary
  <2>4. BrokenBudgets(text, request) \ {"exact_tests"} # {} <=>
          \/ Exceeds(text.lines, EffectiveBudget(request.lines, request.mode))
          \/ Exceeds(text.tests, request.maxTests)
          \/ Exceeds(text.fixtures, request.fixtures)
    <3>1. /\ "lines" \in BrokenBudgets(text, request)
               <=> Exceeds(text.lines, EffectiveBudget(request.lines, request.mode))
          /\ "max_tests" \in BrokenBudgets(text, request) <=> Exceeds(text.tests, request.maxTests)
          /\ "fixtures" \in BrokenBudgets(text, request)
               <=> Exceeds(text.fixtures, request.fixtures)
      BY DEF BrokenBudgets
    <3>2. BrokenBudgets(text, request) \subseteq {"lines", "exact_tests", "max_tests", "fixtures"}
      BY DEF BrokenBudgets
    <3>3. QED BY <3>1, <3>2
  <2>5. Exceeds(text.tests, shown) <=> Exceeds(text.tests, request.maxTests) \/ TooMany
    BY <1>4 DEF Exceeds, TooMany
  <2>6. NeedsBudgetPlan(summary, "test_validation") <=> summary.truncated \/ summary.overLimit # {}
    <3> HIDE DEF summary
    <3>1. QED BY DEF NeedsBudgetPlan
  <2>7. GetsPlan(t) <=> summary.truncated \/ summary.overLimit # {}
    BY <1>5, <2>1, <2>6 DEF GetsPlan
  <2> HIDE DEF summary, shown
  <2>8. GetsPlan(t) <=> BrokenBudgets(text, request) \ {"exact_tests"} # {} \/ TooMany \/ CutOff
    BY <2>2, <2>3, <2>4, <2>5, <2>7
  <2>9. QED BY <2>8 DEF output, text, request, end, TooMany, CutOff
<1>6. CASE tasks[t].category = "task_execution" /\ IsAccepted(t, output, pytest)
  <2>1. ~GetsPlan(t)
    BY <1>6 DEF GetsPlan, NeedsBudgetPlan
  <2>2. SuiteIssues(text, request, pytest, end) = {}
    BY <1>1, <1>6 DEF IsAccepted, SuiteIsRejected, SuiteRejected
  <2> HIDE DEF output, text, request, pytest, end
  <2>3. BrokenBudgets(text, request) = {} /\ "syntax" \notin SuiteIssues(text, request, pytest, end)
    BY <2>2 DEF SuiteIssues
  <2>4. text.syntax
    BY <2>3 DEF SuiteIssues
  <2>5. "exact_tests" \notin BrokenBudgets(text, request)
    BY <2>3
  <2>6. request.exactTests = Unlimited \/ text.tests = request.exactTests
    BY <2>5 DEF BrokenBudgets
  <2>7. ~TooMany
    BY <1>4, <2>6 DEF TooMany
  <2> HIDE DEF TooMany, CutOff
  <2>8. QED BY <2>1, <2>3, <2>4, <2>7 DEF output, text, request, TooMany, CutOff
<1>7. QED BY <1>1, <1>3, <1>5, <1>6

\* A rejected suite is described as failing.
LEMMA VerdictsAgree == SoundInv => VerdictAgrees
<1> SUFFICES ASSUME SoundInv, NEW t \in FailedWith("qa_tester"),
                    "helper_surface_usages" \notin tasks[t].output.text.keys,
                    Rejected(t, tasks[t].output, tasks[t].pytest)
             PROVE  Verdict(tasks[t].output.text, Text[work][t], tasks[t].pytest)
                      \in {"FAIL", "FAIL (warnings without pytest confirmation)"}
  BY DEF VerdictAgrees
<1> DEFINE text == tasks[t].output.text
           request == Text[work][t]
           pytest == tasks[t].pytest
           end == tasks[t].output.call.end
<1>1. Role[t] = "qa_tester"
  BY DEF FailedWith
<1>2. SuiteIssues(text, request, pytest, end) # {}
        \/ (SuiteWarnings(text) # {} /\ ~PytestPassed(pytest))
  BY <1>1 DEF Rejected, SuiteIsRejected, SuiteRejected
<1>3. "helper_surface_usages" \notin text.keys
  OBVIOUS
<1> HIDE DEF text, request, pytest, end
<1>4. ASSUME SuiteIssues(text, request, pytest, end) # {}
      PROVE  HasBlockingIssues(text, request) \/ PytestFailed(pytest)
  BY <1>3, <1>4 DEF SuiteIssues, HasBlockingIssues, Diagnostics
<1>5. SuiteWarnings(text) # {} => text.keys \cap (WarningKeys \cup {"tests_without_assertions"}) # {}
  BY DEF SuiteWarnings
<1>6. Verdict(text, request, pytest) \in {"FAIL", "FAIL (warnings without pytest confirmation)"}
  BY <1>2, <1>4, <1>5 DEF Verdict
<1>7. QED BY <1>6 DEF text, request, pytest

\* A module that was rejected for its size or cut off has a plan made.
LEMMA OversizeIsPlanned == HistoryInv /\ SoundInv => OversizeGetsPlan
<1> SUFFICES ASSUME HistoryInv, SoundInv, NEW t \in FailedWith("code_engineer") \cap Spelled,
                    CodeIssues(tasks[t].output.text, Text[work][t], tasks[t].output.call.end)
                      \cap {"lines", "truncated"} # {}
             PROVE  GetsPlan(t)
  BY DEF OversizeGetsPlan
<1> DEFINE output == tasks[t].output
           text == output.text
           request == Text[work][t]
           end == output.call.end
           summary == CodeSummary(text, request, end)
<1>1. /\ t \in Works[work] /\ Role[t] = "code_engineer" /\ t \in Spelled /\ output # Absent
      /\ IsModule(text)
      /\ \/ tasks[t].category = Category(t, "agent")
         \/ CodeIssues(text, request, end) = {}
  BY FailedWithIs DEF IsJudged, IsAnswer, IsText, IsAccepted, ModuleRejected
<1>2. tasks[t].category = "code_validation"
  BY <1>1 DEF Category
<1>3. RepairSummary(t) = summary
  BY <1>1, <1>2 DEF RepairSummary
<1>4. CodeIssues(text, request, end) \cap {"lines", "truncated"} # {}
  OBVIOUS
<1>5. text.lines \in Nat /\ request.lines \in Nat \cup {Unlimited}
  BY <1>1, RequestIs DEF IsModule
<1> HIDE DEF output, text, request, end
<1>6. \/ Exceeds(text.lines, EffectiveBudget(request.lines, request.mode))
      \/ Diagnostics(end, text.syntax, text.tail).truncated
  BY <1>4 DEF CodeIssues
<1>7. "lines" \in summary.overLimit \/ summary.truncated
  BY <1>5, <1>6, ExceedsBoth DEF CodeSummary
<1> HIDE DEF summary
<1>8. QED BY <1>2, <1>3, <1>7 DEF GetsPlan, NeedsBudgetPlan

-----------------------------------------------------------------------------
(* The theorems                                                            *)

\* What the invariants of the histories and of the outputs say together.
ExecutionInv == HistoryInv /\ SoundInv

\* They are kept together.
LEMMA ExecutionInvariant == Spec => []ExecutionInv
<1>1. Init => ExecutionInv
  BY HistoryInit, SoundInit DEF ExecutionInv
<1>2. ExecutionInv /\ [Next]_vars => ExecutionInv'
  BY HistoryStep, SoundStep DEF ExecutionInv
<1>3. QED BY <1>1, <1>2, PTL DEF Spec

\* Whatever agents answer and however the tests end, what a finished task stores, and its
\* artifact holds, would pass validation as it stands (validate_task_output,
\* persist_artifacts, complete_task).
THEOREM DoneTasksAreSound == Spec => []DoneIsSound
<1>1. ExecutionInv => DoneIsSound
  BY SettledIsSound DEF ExecutionInv
<1>2. QED BY <1>1, ExecutionInvariant, PTL

\* Whatever a suite contains and however its tests failed, the module is rewritten for it
\* only when the failure was raised in the module or nothing else than a disagreement
\* about values is wrong with the suite (failed_test_requires_code_repair).
THEOREM SuitesBlameFairly == Spec => []BlamedOnlyIfSuiteIsFine
<1>1. ExecutionInv => BlamedOnlyIfSuiteIsFine
  BY BlameIsFair DEF ExecutionInv
<1>2. QED BY <1>1, ExecutionInvariant, PTL

\* Whatever the budgets and the outputs, provided that an exact number of tests is never
\* above the maximum that the same description asks for, the stored summary of a
\* rejected output says what validation decided (build_repair_validation_summary,
\* repair_requires_budget_decomposition).
THEOREM SummariesAreFaithful ==
  ASSUME CountsAgree
  PROVE  Spec => []SummaryIsFaithful
<1>1. ExecutionInv => SummaryIsFaithful
  BY PlansMatch, VerdictsAgree, OversizeIsPlanned DEF ExecutionInv, SummaryIsFaithful
<1>2. QED BY <1>1, ExecutionInvariant, PTL
=============================================================================
