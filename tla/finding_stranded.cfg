SPECIFICATION Spec
CONSTANTS
  code = code
  test = test
  docs = docs
  Original = {code, test, docs}
  Dependencies <- ChainDependencies
  Role <- PipelineRole
  RetryLimit <- NoRetries
  Required = {code}
  FailurePolicy = "continue"
  ResumePolicy = "resume_failed"
  AcceptancePolicy = "all_tasks"
  MaxRepairCycles = 3
  Registered <- AllRoles
  FailureModes <- Rejecting
  MaxCalls = 0
  MaxCrashes = 0
INVARIANT NothingIsStranded
