SPECIFICATION FairSpec
CONSTANTS
  code = code
  test = test
  docs = docs
  Original = {code}
  Dependencies <- PipelineDependencies
  Role <- PipelineRole
  RetryLimit <- NoRetries
  Required = {code}
  FailurePolicy = "continue"
  ResumePolicy = "resume_failed"
  AcceptancePolicy = "all_tasks"
  MaxRepairCycles = 1
  Registered <- NoArchitect
  FailureModes <- OverBudget
  MaxCalls = 0
  MaxCrashes = 0
PROPERTY ExecutionEnds
