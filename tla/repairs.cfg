SPECIFICATION ContextSpec
CONSTANTS
  code = code
  test = test
  docs = docs
  Original = {code, test, docs}
  Dependencies <- ChainDependencies
  Role <- PipelineRole
  RetryLimit <- NoRetries
  Required = {code}
  FailurePolicy = "continue"
  ResumePolicy = "resume_failed"
  AcceptancePolicy = "all_tasks"
  MaxRepairCycles = 2
  Registered <- AllRoles
  FailureModes <- OverBudget
  MaxCalls = 0
  MaxCrashes = 1
INVARIANTS NeverBlocked GraphStaysValid
PROPERTIES CycleMakesProgress CycleReleasesSkipped ContextsAreCurrent DoneIsDelivered
