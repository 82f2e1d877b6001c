SPECIFICATION Spec
CONSTANTS
  design = design
  code = code
  suite = suite
  manifest = manifest
  early = early
  legal = legal
  numpy = numpy
  requests = requests
  Unlimited = Unlimited
  Absent = Absent
  Tasks = {design, code, early, manifest, suite, legal}
  Spelled = {design, code, early, manifest, suite, legal}
  Role <- Roles
  Dependencies <- Depend
  Workloads <- Settings
  Works <- WorksOf
  Text <- TextOf
  Drafts <- DraftsOf
  PytestRuns <- RunsOf
  RetryLimit <- RetriesOf
  MaxInterrupts <- InterruptsOf
CHECK_DEADLOCK FALSE
INVARIANTS HistoryIsOwn DoneIsSound BlamedOnlyIfSuiteIsFine SummaryIsFaithful
