SPECIFICATION CampaignSpec
CONSTANTS
  Original <- CoreTasks
  Dependencies <- CoreDependencies
  Role <- CoreRole
  RetryLimit <- CoreRetryLimit
  Required = {"code"}
  FailurePolicy <- FullFailurePolicy
  ResumePolicy <- FullResumePolicy
  AcceptancePolicy = "all_tasks"
  MaxRepairCycles <- FullRepairCycles
  Registered <- AllRoles
  FailureModes <- MCFailures
  MaxCalls = 0
  MaxCrashes = 1
  CodeTask = "code"
  Strict = FALSE
  Services <- MCServices
  TestSuites <- MCTestSuites
  MaxCampaigns = 3
INVARIANTS RowsAreTrue
PROPERTIES CampaignEnds
CHECK_DEADLOCK FALSE
