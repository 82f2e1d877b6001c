SPECIFICATION Spec
CONSTANTS
  code = code
  test = test
  near = near
  far = far
  Original = {code, test}
  Dependencies <- CodeThenTest
  Role <- TheirRoles
  RetryLimit <- SuiteRetries
  Required = {code}
  Providers = {near, far}
  Blank = "blank"
  FailureKinds <- Kinds
  GoodCalls <- Good
  BadCalls <- Bad
  OlderCalls <- Old
  CycleBudget = 1
  MaxInterventions = 1
CHECK_DEADLOCK FALSE
INVARIANTS TrailIsComplete ViewsAgree EventsHideTexts
