------------------------------ MODULE Campaign ------------------------------
(***************************************************************************)
(* A validation campaign for one scenario and provider: scripts/           *)
(* run_real_world_complex_matrix.py opens what an earlier campaign left,   *)
(* lets kycortex_agents/provider_matrix.py execute the workflow (module    *)
(* WorkflowControl) as often as the repair budget allows, judges the       *)
(* service that an accepted workflow delivered (ScenarioValidation), and   *)
(* writes run_result.json, the row of the report.  Campaigns can be run    *)
(* again, and die at any point.                                            *)
(***************************************************************************)
EXTENDS WorkflowControl, ScenarioValidation

CONSTANTS
  CodeTask,      \* the original task that is judged, "code"
  Strict,        \* the scenario is returns_abuse_screening
  Services,      \* what code engineers may deliver, a subset of ServiceRecord
  TestSuites,    \* what testers may deliver: sets of test functions, as in AssertsContract
  MaxCampaigns   \* bound: campaigns in a behaviour

ASSUME CampaignAssumption ==
  /\ CodeTask \in Original /\ Role[CodeTask] = "code_engineer"
  /\ Strict \in BOOLEAN
  /\ Services \subseteq ServiceRecord
  /\ TestSuites \subseteq SUBSET SUBSET Assertions
  /\ MaxCampaigns \in Nat

VARIABLES
  driver,    \* where the campaign is, the cycles before an execution, the row to write
  row,       \* run_result.json, or NoRow when it cannot be read
  modules,   \* the service that the artifacts of each completed code task hold
  suites,    \* the suite of each completed test task, in artifacts/
  campaigns  \* campaigns begun

campaignVars == <<vars, driver, row, modules, suites, campaigns>>

\* A row of a workflow that was not executed has no summary.
NoSummary == [outcome |-> "none", statuses |-> << >>]

RowStatuses == {"completed", "validation_error", "execution_error", "skipped"}
Rows ==
  [status   : RowStatuses,
   accepted : BOOLEAN,
   failure  : Failures,
   summary  : [outcome : Outcomes, statuses : UNION {[ids -> Statuses] : ids \in SUBSET Ids}]]
NoRow     == [status |-> "none"]

At(point) == driver.at = point
Idle      == [at |-> "idle", before |-> 0, row |-> NoRow]

CampaignInit ==
  /\ Init
  /\ driver = Idle /\ row = NoRow
  /\ modules = << >> /\ suites = << >>
  /\ campaigns = 0

\* acceptance_criteria_met
AcceptanceMet(p) == p.outcome = "completed"

\* summarize_workflow_run: the outcome, and which task has which status.
Summary(p) ==
  [outcome |-> p.outcome, statuses |-> [i \in DOMAIN p.tasks |-> p.tasks[i].status]]

RowOf(status, p) ==
  [status |-> status, accepted |-> AcceptanceMet(p), failure |-> p.failure, summary |-> Summary(p)]

-----------------------------------------------------------------------------
(* run_scenario_provider up to the execution                               *)

\* _project_requires_resume
RequiresResume(p) == p.phase = "execution" \/ WithStatus(p, {"failed", "running"}) # {}

\* The state file is there once something has been saved.
Reusable == disk # InitialProject /\ ~RequiresResume(disk) /\ row # NoRow

Begin ==
  /\ At("idle")
  /\ campaigns < MaxCampaigns
  /\ campaigns' = campaigns + 1
  /\ project' = disk
  /\ UNCHANGED <<disk, pc, frontier, current, calls, crashes, modules, suites>>

\* The row of an earlier campaign is reported again.
Reuse == Begin /\ Reusable /\ UNCHANGED <<driver, row>>

\* get_provider_availability finds no credentials or no server.
Unavailable ==
  /\ Begin /\ ~Reusable
  /\ row' = [status |-> "skipped", accepted |-> FALSE, failure |-> "none", summary |-> NoSummary]
  /\ UNCHANGED driver

Open ==
  /\ Begin /\ ~Reusable
  /\ driver' = [driver EXCEPT !.at = "execute"]
  /\ UNCHANGED row

-----------------------------------------------------------------------------
(* execute_empirical_validation_workflow                                   *)

Enter ==
  /\ At("execute")
  /\ Execute
  /\ driver' = [driver EXCEPT !.at = "running", !.before = project.cycles]
  /\ UNCHANGED <<row, modules, suites, campaigns>>

InExecution == At("running") /\ pc # "idle"

\* Writing an artifact, and sharing a repair's output with its origin
Put(f, ids, value) == [i \in DOMAIN f \cup ids |-> IF i \in ids THEN value ELSE f[i]]
Delivered(i) == {i} \cup (IF HasOrigin(project, i) THEN {Origin(i)} ELSE {})

\* What the agent of the current task leaves in artifacts/ when it succeeds
Delivers ==
  \/ /\ RoleOf(current) = "code_engineer"
     /\ \E s \in Services : modules' = Put(modules, Delivered(current), s)
     /\ UNCHANGED suites
  \/ /\ RoleOf(current) = "qa_tester"
     /\ \E t \in TestSuites : suites' = Put(suites, {current}, t)
     /\ UNCHANGED modules
  \/ RoleOf(current) \notin Validating /\ UNCHANGED <<modules, suites>>

Work ==
  /\ InExecution
  /\ \/ AgentSucceeds /\ Delivers
     \/ (Runtime \/ \E f \in FailureModes : AgentFails(f)) /\ UNCHANGED <<modules, suites>>
  /\ UNCHANGED <<driver, row, campaigns>>

\* _can_resume_failed_workflow
CanResumeFailed(p) ==
  /\ \E i \in WithStatus(p, {"failed", "skipped"}) : ~IsRepair(i)
  /\ p.outcome # "cancelled"
  /\ p.outcome = "failed" =>
       p.failure \in {"execution", "validation", "blocked"}

\* The end of the loop; execute_workflow has raised when the workflow failed.
Raised(p) == p.phase = "failed"
GivesUp(p) ==
  \/ ResumePolicy # "resume_failed"
  \/ ~CanStartCycle(p)
  \/ ~CanResumeFailed(p)
  \/ Raised(p) /\ p.cycles = driver.before

Executed == At("running") /\ pc = "idle"

Again ==
  /\ Executed /\ ~GivesUp(project)
  /\ driver' = [driver EXCEPT !.at = "execute"]
  /\ UNCHANGED <<vars, row, modules, suites, campaigns>>

-----------------------------------------------------------------------------
(* The rest of run_scenario_provider                                       *)

ToWrite(status, p) == driver' = [Idle EXCEPT !.at = "write", !.row = RowOf(status, p)]

Accepts(p) == p.phase = "completed" /\ AcceptanceMet(p)

\* There is nothing to judge.
Conclude ==
  /\ Executed /\ GivesUp(project)
  /\ ~Accepts(project)
  /\ ToWrite(IF Raised(project) THEN "execution_error" ELSE "completed", project)
  /\ UNCHANGED <<vars, row, modules, suites, campaigns>>

\* _apply_scenario_validation, on what the payload of the code task names
Judged == modules[OriginalId(CodeTask)]

\* Any suite in artifacts/ will do (_test_artifact_paths).  All of them have
\* been run, so all of them can be parsed.
TestsAssert == \E i \in DOMAIN suites : AssertsContract(suites[i])

Incident(p) == \E i \in DOMAIN p.tasks : p.tasks[i].category = "sandbox"

ToJudge == Executed /\ GivesUp(project) /\ Accepts(project)

\* mutant: the downgrade of the workflow is not saved
Judge_Unsaved ==
  LET lanes == FailedLanes(Checks(Strict, Judged, TestsAssert), Incident(project))
      p     == IF lanes = {} THEN project
               ELSE MarkFinished(project, "completed", "degraded", "scenario_validation")
  IN  /\ ToJudge
      /\ ~EndsTheProcess(Judged)
      /\ Keep(p)
      /\ ToWrite(IF lanes = {} THEN "completed" ELSE "validation_error", p)
      /\ UNCHANGED <<pc, frontier, current, calls, crashes, row, modules, suites, campaigns>>

Judge ==
  LET lanes == FailedLanes(Checks(Strict, Judged, TestsAssert), Incident(project))
      p     == IF lanes = {} THEN project
               ELSE MarkFinished(project, "completed", "degraded", "scenario_validation")
  IN  /\ ToJudge
      /\ ~EndsTheProcess(Judged)
      /\ SaveAs(p)
      /\ ToWrite(IF lanes = {} THEN "completed" ELSE "validation_error", p)
      /\ UNCHANGED <<pc, frontier, current, calls, crashes, row, modules, suites, campaigns>>

\* The import of the service ends the process, which no handler prevents.
JudgeExits ==
  /\ ToJudge
  /\ EndsTheProcess(Judged)
  /\ driver' = Idle
  /\ project' = disk
  /\ UNCHANGED <<disk, pc, frontier, current, calls, crashes, row, modules, suites, campaigns>>

WriteRow ==
  /\ At("write")
  /\ row' = driver.row
  /\ driver' = Idle
  /\ UNCHANGED <<vars, modules, suites, campaigns>>

-----------------------------------------------------------------------------
\* The process dies; run_result.json is written in place and may be cut.
Die ==
  /\ ~At("idle")
  /\ crashes < MaxCrashes
  /\ crashes' = crashes + 1
  /\ project' = disk
  /\ pc' = "idle" /\ frontier' = {} /\ current' = NoTask
  /\ driver' = Idle
  /\ row' \in IF At("write") THEN {row, NoRow} ELSE {row}
  /\ UNCHANGED <<disk, calls, modules, suites, campaigns>>

Drive == Enter \/ Work \/ Again \/ Conclude \/ Judge \/ JudgeExits \/ WriteRow

CampaignNext == Reuse \/ Unavailable \/ Open \/ Drive \/ Die

\* Agent calls are made with a timeout, and nothing else blocks.
CampaignSpec == CampaignInit /\ [][CampaignNext]_campaignVars /\ WF_campaignVars(Drive)

-----------------------------------------------------------------------------
(* Properties                                                              *)

\* What _contract_anchor promises of a delivered service, said without the
\* checks: requests can be made and sent, good ones pass, malformed ones are
\* refused on purpose, incomplete ones do not break it, the risk and the audit
\* show, and a suite asserts the refusal.
KeepsItsContract(s) ==
  /\ s.compiles /\ StdlibOnly(s) /\ s.load = "ok" /\ s.exposes
  /\ {"low", "high"} \subseteq s.accepts
  /\ s.validate["low"] = "true"
  /\ \A risk \in {"low", "high"} : s.handle[risk] = "returns"
  /\ "malformed" \in s.accepts => s.handle["malformed"] = "rejects"
  /\ "partial" \in s.accepts => s.handle["partial"] \notin {"confused", "crashes"}
  /\ s.differs # {} /\ s.audits # {}
  /\ \E i \in DOMAIN suites : \E function \in suites[i] : Assertions \subseteq function

\* No campaign reports a success that it cannot show: whatever was reused,
\* interrupted or repaired before, an accepted row stands beside a state file
\* that is accepted, in which the code and everything else that counts is done,
\* and beside a service that was delivered and keeps its contract; and as long as
\* no process died, a row that was measured says what the state file says, the statuses of the
\* tasks included.
RowsAreTrue ==
  row # NoRow /\ At("idle") =>
    /\ row.accepted =>
         /\ Accepts(disk) /\ Accepted(disk)
         /\ OriginalId(CodeTask) \in DOMAIN modules /\ KeepsItsContract(Judged)
    /\ crashes = 0 /\ row.status # "skipped" =>
         \/ /\ row.accepted = AcceptanceMet(disk) /\ row.failure = disk.failure
            /\ row.summary = Summary(disk)
            /\ row.status = "execution_error" <=> disk.phase = "failed"
         \/ EndsTheProcess(Judged)

\* A campaign comes to an end, however the executions fail: the loop around
\* them stops when no repair can change anything any more.
CampaignEnds == ~At("idle") ~> At("idle")
=============================================================================
