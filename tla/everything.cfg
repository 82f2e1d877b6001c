SPECIFICATION FairSpec
CONSTANTS
  code = code
  test = test
  docs = docs
  Original = {code, test, docs}
  Dependencies <- PipelineDependencies
  Role <- PipelineRole
  RetryLimit <- SuiteRetries
  Required = {code}
  FailurePolicy = "fail_fast"
  ResumePolicy = "resume_failed"
  AcceptancePolicy = "all_tasks"
  MaxRepairCycles = 1
  Registered <- NoArchitect
  FailureModes <- PlanOrRefuse
  MaxCalls = 2
  MaxCrashes = 1
CHECK_DEADLOCK FALSE
INVARIANTS TypeOK NoOrphanRunning IdleIsDurable AttemptsBounded RepairsWithinBudget OperatorWordIsDurable
PROPERTIES StartsReady ImplementsLifecycle BlockedHasCulprit ExecutionEnds
