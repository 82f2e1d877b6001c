-------------------------- MODULE OutputValidation --------------------------
(***************************************************************************)
(* How the orchestrator judges what an agent generated, and what it tells  *)
(* the repair of a rejected output (orchestration/validation_runtime.py,   *)
(* validation_analysis.py, validation_reporting.py, task_constraints.py,   *)
(* dependency_analysis.py, sandbox_execution.py).                          *)
(*                                                                         *)
(* A text is a record of the facts that decide about it: whether it parses,*)
(* how long it is, which of the issues that the analyses look for it has.  *)
(***************************************************************************)
EXTENDS Integers, Sequences, FiniteSets

CONSTANTS
  Unlimited,  \* the task text asks for no such budget
  Absent      \* no such validation result, method, function or class

-----------------------------------------------------------------------------
(* Budgets that the task text asks for                                     *)

\* ADAPTIVE_LINE_BUDGET_TOLERANCE_RATIO, in percent
Tolerance(mode) ==
  CASE mode = "balanced" -> 5 [] mode = "rich" -> 15 [] OTHER -> 0

\* The line budget that an output is held to.
EffectiveBudget(budget, mode) ==
  IF budget = Unlimited THEN Unlimited
  ELSE (budget * (100 + Tolerance(mode)) + 99) \div 100

Exceeds(count, budget) == budget # Unlimited /\ count > budget

\* task_requires_cli_entrypoint: the words of the task text that contain one of
\* the keywords "cli", "entrypoint", "__main__" and "command-line".
RequiresEntrypoint(words) ==
  words \cap {"cli", "client", "clinic", "decline", "entrypoint", "__main__"} # {}

-----------------------------------------------------------------------------
(* Completion diagnostics                                                  *)

\* call: "none" (no provider call known), "complete", or "cut" when the output
\* reached the token limit or the provider says it stopped there.  tail: the
\* text ends as if it were cut off.
Diagnostics(call, syntax, tail) ==
  [hitLimit |-> call = "cut",
   truncated |-> call # "none" /\ ~syntax /\ (call = "cut" \/ tail)]

-----------------------------------------------------------------------------
(* The public contract that a task anchors, and the module's classes and   *)
(* functions.  A signature is a sequence of parameters and how many of them*)
(* have no default.                                                        *)

StartsWith(params, expected) ==
  Len(expected) <= Len(params) /\ SubSeq(params, 1, Len(expected)) = expected

\* task_public_contract_preflight, for an anchor of a facade, a request model,
\* a method and a function, each of which may be Absent.
ContractIssues(anchor, code) ==
  {i \in {"facade", "model", "method", "function", "main_guard"} :
     CASE i = "facade" -> anchor.facade # Absent /\ anchor.facade \notin code.classes
       [] i = "model" -> /\ anchor.model # Absent
                         /\ \/ code.model = Absent
                            \/ ~StartsWith(code.model.params, anchor.model)
                            \/ code.model.required > Len(anchor.model)
       [] i = "method" -> anchor.method # Absent /\ anchor.method \notin code.methods
       [] i = "function" -> /\ anchor.function # Absent
                            /\ \/ code.function = Absent
                               \/ ~StartsWith(code.function.params, anchor.function)
       [] i = "main_guard" -> /\ anchor.guard /\ anchor.function # Absent
                              /\ code.function # Absent
                              /\ StartsWith(code.function.params, anchor.function)
                              /\ ~code.guard}

Preflight(anchor, code) ==
  IF anchor = Absent \/ ~code.syntax THEN {} ELSE ContractIssues(anchor, code)

-----------------------------------------------------------------------------
(* Generated modules                                                       *)

\* _apply_code_content_autofixes: the missing imports of dataclass and of
\* typing names are added, a line each, when the text parses.
FixedCode(code) ==
  IF code.syntax
    THEN [code EXCEPT !.lines = @ + Cardinality(code.missing), !.missing = {}]
    ELSE code

\* execute_generated_module_import: not run when the text does not parse or
\* imports packages that the sandbox has not; a time-out counts as a failure.
ImportResult(code) ==
  IF code.syntax /\ code.thirdParty = {}
    THEN IF code.missing # {} THEN "fails" ELSE code.imports
    ELSE Absent

\* collect_code_validation_issues: the reasons to reject a module.
CodeIssues(code, task, call) ==
  {i \in {"syntax", "lines", "entrypoint", "import", "contract", "fields", "truncated"} :
     CASE i = "syntax"     -> ~code.syntax
       [] i = "lines"      -> Exceeds(code.lines, EffectiveBudget(task.lines, task.mode))
       [] i = "entrypoint" -> RequiresEntrypoint(task.words) /\ ~code.guard
       [] i = "import"     -> ImportResult(code) \in {"fails", "hangs"}
       [] i = "contract"   -> Preflight(task.anchor, code) # {}
       [] i = "fields"     -> code.badFields
       [] i = "truncated"  -> Diagnostics(call, code.syntax, code.tail).truncated}

-----------------------------------------------------------------------------
(* Generated test suites                                                   *)

BlockingKeys == {"missing_function_imports", "undefined_fixtures",
  "undefined_local_names", "imported_entrypoint_symbols", "unsafe_entrypoint_calls"}

WarningKeys == {"unknown_module_symbols", "invalid_member_references",
  "call_arity_mismatches", "constructor_arity_mismatches", "contract_overreach_signals",
  "payload_contract_violations", "non_batch_sequence_calls", "type_mismatches",
  "reserved_fixture_names", "unsupported_mock_assertions"}

\* The auto-fix of argument types, after which the suite is analysed again.
FixedSuite(suite) ==
  IF suite.syntax THEN [suite EXCEPT !.keys = @ \ suite.fixable, !.fixable = {}] ELSE suite

\* The budgets that the suite breaks.
BrokenBudgets(suite, task) ==
  {b \in {"lines", "exact_tests", "max_tests", "fixtures"} :
     CASE b = "lines" -> Exceeds(suite.lines, EffectiveBudget(task.lines, task.mode))
       [] b = "exact_tests" -> task.exactTests # Unlimited /\ suite.tests # task.exactTests
       [] b = "max_tests"   -> Exceeds(suite.tests, task.maxTests)
       [] b = "fixtures"    -> Exceeds(suite.fixtures, task.fixtures)}

HasBudget(task) ==
  {task.lines, task.maxTests, task.fixtures} # {Unlimited}

PytestFailed(run) == run.ran /\ ~run.passed
PytestPassed(run) == run.ran /\ run.passed

\* collect_test_validation_issues: what rejects the suite ...
SuiteIssues(suite, task, run, call) ==
  BrokenBudgets(suite, task) \cup (suite.keys \cap BlockingKeys) \cup
  {i \in {"syntax", "helper_surface_usages", "truncated", "pytest"} :
     CASE i = "syntax" -> ~suite.syntax
       [] i = "helper_surface_usages" -> i \in suite.keys /\ HasBudget(task)
       [] i = "truncated" -> Diagnostics(call, suite.syntax, suite.tail).truncated
       [] i = "pytest"    -> PytestFailed(run)}

\* ... and what does unless pytest passes.  Type mismatches are not collected.
SuiteWarnings(suite) ==
  suite.keys \cap ((WarningKeys \ {"type_mismatches"}) \cup {"tests_without_assertions"})

\* validation_error_message_for_test_result
SuiteRejected(suite, task, run, call) ==
  \/ SuiteIssues(suite, task, run, call) # {}
  \/ SuiteWarnings(suite) # {} /\ ~PytestPassed(run)

-----------------------------------------------------------------------------
(* Who is to blame for a suite that failed                                 *)

\* validation_has_blocking_issues
HasBlockingIssues(suite, task) ==
  ~suite.syntax \/ BrokenBudgets(suite, task) # {} \/ suite.keys \cap BlockingKeys # {}

\* pytest_failure_origin: the module when its file name is in the output at all
FailureOrigin(run) ==
  IF "module" \in run.files THEN "code_under_test"
  ELSE IF "tests" \in run.files THEN "tests" ELSE "unknown"

\* pytest_failure_details: the kinds of failures that the output of a run names.
\*   "values"      an assertion about values
\*   "labels"      an assertion that compares two different status labels
\*   "action_map"  an assertion that a key is in a map of actions with another id
\*   "attribute"   an attribute of a value of a primitive type
\*   "setup"       an undefined name, an import, a syntax error or a fixture
\*   "error"       any other exception
\* A run that pytest cannot finish names none.
FailureDetails(run) == IF PytestFailed(run) THEN run.failures ELSE {}

\* mutant: one genuine assertion is enough, whatever else failed
SemanticMismatch_AnySetup(run) ==
  FailureDetails(run) \cap {"values", "labels", "action_map"} # {}

\* pytest_failure_is_semantic_assertion_mismatch
SemanticMismatch(run) ==
  /\ "setup" \notin FailureDetails(run)
  /\ FailureDetails(run) \cap {"values", "labels", "action_map"} # {}

\* pytest_contract_overreach_signals: what the tests assert and no contract says
Overreach(run) == FailureDetails(run) \cap {"labels", "action_map", "attribute"}

\* mutant: a suite with errors of its own may blame the code
BlamesCode_AnySuite(suite, task, run) ==
  /\ PytestFailed(run)
  /\ ~(FailureOrigin(run) = "tests" /\ Overreach(run) # {})
  /\ FailureOrigin(run) = "code_under_test" \/ SemanticMismatch(run)

\* failed_test_requires_code_repair, of a suite whose failure was classified as
\* a validation failure.
BlamesCode(suite, task, run) ==
  /\ PytestFailed(run)
  /\ ~(FailureOrigin(run) = "tests" /\ Overreach(run) # {})
  /\ \/ FailureOrigin(run) = "code_under_test"
     \/ /\ ~HasBlockingIssues(suite, task)
        /\ FailureOrigin(run) = "tests" /\ SemanticMismatch(run)

-----------------------------------------------------------------------------
(* The summaries that a repair is given, and what is read back from them   *)

\* mutant: the summary is given the tolerated budget twice
CodeSummary_Doubled(code, task, call) ==
  [overLimit  |-> {b \in {"lines"} : Exceeds(code.lines,
                                            EffectiveBudget(EffectiveBudget(task.lines, task.mode), task.mode))},
   truncated  |-> Diagnostics(call, code.syntax, code.tail).truncated,
   limitHit   |-> Diagnostics(call, code.syntax, code.tail).hitLimit,
   noEntry    |-> "entrypoint" \in CodeIssues(code, task, call)]

\* The counts of a summary are rendered as "count/budget".  The summary of a
\* module shows the budget of the task text, that of a suite the effective one.
CodeSummary(code, task, call) ==
  [overLimit  |-> {b \in {"lines"} : Exceeds(code.lines, task.lines)},
   truncated  |-> Diagnostics(call, code.syntax, code.tail).truncated,
   limitHit   |-> Diagnostics(call, code.syntax, code.tail).hitLimit,
   noEntry    |-> "entrypoint" \in CodeIssues(code, task, call)]

\* mutant: the count of tests is rendered without the exact number asked for
SuiteSummary_MaxOnly(suite, task, run, call) ==
  [overLimit |-> BrokenBudgets(suite, [task EXCEPT !.exactTests = Unlimited]),
   truncated |-> Diagnostics(call, suite.syntax, suite.tail).truncated,
   limitHit  |-> Diagnostics(call, suite.syntax, suite.tail).hitLimit,
   noEntry   |-> FALSE]

\* A suite with an exact count shows that count and no maximum.
SuiteSummary(suite, task, run, call) ==
  LET shown == IF task.exactTests = Unlimited THEN task.maxTests ELSE task.exactTests
  IN  [overLimit |-> {b \in {"lines", "tests", "fixtures"} :
         CASE b = "lines" -> Exceeds(suite.lines, EffectiveBudget(task.lines, task.mode))
           [] b = "tests" -> Exceeds(suite.tests, shown)
           [] b = "fixtures" -> Exceeds(suite.fixtures, task.fixtures)},
       truncated |-> Diagnostics(call, suite.syntax, suite.tail).truncated,
       limitHit  |-> Diagnostics(call, suite.syntax, suite.tail).hitLimit,
       noEntry   |-> FALSE]

\* mutant: the verdict does not look at pytest
Verdict_NoPytest(suite, task, run) ==
  IF HasBlockingIssues(suite, task) THEN "FAIL"
  ELSE IF suite.keys \cap (WarningKeys \cup {"tests_without_assertions"}) = {} THEN "PASS"
  ELSE "FAIL (warnings without pytest confirmation)"

\* The last line of a suite's summary
Verdict(suite, task, run) ==
  LET warnings == suite.keys \cap (WarningKeys \cup {"tests_without_assertions"})
  IN  IF HasBlockingIssues(suite, task) \/ PytestFailed(run) THEN "FAIL"
      ELSE IF warnings = {} THEN "PASS"
      ELSE IF PytestPassed(run) THEN "PASS (warnings overridden by pytest)"
      ELSE "FAIL (warnings without pytest confirmation)"

\* A summary that is no more than the message of the failure: nothing can be read
\* back from it.
MessageOnly == [overLimit |-> {}, truncated |-> FALSE, limitHit |-> FALSE, noEntry |-> FALSE]

\* repair_requires_budget_decomposition, for a summary and the category that the
\* repair has
NeedsBudgetPlan(summary, category) ==
  /\ category \in {"code_validation", "test_validation"}
  /\ \/ summary.truncated
     \/ category = "code_validation" /\ summary.limitHit /\ summary.noEntry
     \/ "lines" \in summary.overLimit
     \/ category = "test_validation" /\ summary.overLimit # {}

-----------------------------------------------------------------------------
(* Dependency manifests                                                    *)

\* What the lines of a manifest are once _normalize_requirements has dropped
\* prose; a line that says there are no dependencies drops all others.
Requirements(lines) ==
  IF \E l \in lines : l.kind = "none" THEN {} ELSE {l \in lines : l.kind \in {"package", "unsafe"}}

\* extract_requirement_name keeps the extras, so that a package with extras
\* declares no import.
Declared(manifest) == {l.name : l \in {m \in manifest : m.name # Absent /\ ~m.extras}}

\* analyze_dependency_manifest, with imports given as the packages they need
ManifestIssues(manifest, imports) ==
  {i \in {"missing", "provenance"} :
     CASE i = "missing" -> ~(imports \subseteq Declared(manifest))
       [] i = "provenance" -> \E l \in manifest : l.kind = "unsafe"}
=============================================================================
