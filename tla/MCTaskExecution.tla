--------------------------- MODULE MCTaskExecution ---------------------------
(***************************************************************************)
(* The tasks and answers that the runs of TaskExecution use.               *)
(***************************************************************************)
EXTENDS TaskExecution

CONSTANTS design, code, suite, manifest, early, legal, numpy, requests

\* A design, a module, and a manifest of each of two tasks with one agent, of
\* which the early one does not depend on the module and has no input.
Roles == [t \in Tasks |->
  CASE t = design -> "architect" [] t = code -> "code_engineer"
    [] t = suite -> "qa_tester" [] t = legal -> "legal_advisor" [] OTHER -> "dependency_manager"]
Depend == [t \in Tasks |->
  CASE t = design -> {} [] t \in {code, early} -> {design} [] t = legal -> {} [] OTHER -> {design, code}]

NoRetry  == [t \in Tasks |-> 0]
OneRetry == [t \in Tasks |-> IF t \in {code, manifest} THEN 1 ELSE 0]

Plain == [words |-> {}, lines |-> Unlimited, mode |-> "rich", anchor |-> Absent,
          exactTests |-> Unlimited, maxTests |-> Unlimited, fixtures |-> Unlimited]
AnyText == [t \in Tasks |-> Plain]

\* A module of at most 10 lines for a client, with a facade, a request model, a
\* method and a function; a suite with a maximum or an exact number of tests.
Anchored == [facade |-> "Service", model |-> <<"id", "body">>, method |-> "run",
             function |-> <<"id">>, guard |-> TRUE]
Limited == [t \in Tasks |->
  CASE t = code -> [Plain EXCEPT !.words = {"client"}, !.lines = 10, !.anchor = Anchored]
    [] t = suite -> [Plain EXCEPT !.lines = 10, !.maxTests = 2, !.fixtures = 1]
    [] OTHER -> Plain]
Exact == [t \in Tasks |->
  IF t = suite THEN [Plain EXCEPT !.lines = 10, !.exactTests = 2, !.fixtures = 1] ELSE Plain]

Module == [syntax |-> TRUE, lines |-> 8, guard |-> TRUE, tail |-> FALSE, badFields |-> FALSE,
           thirdParty |-> {}, imports |-> "works", missing |-> {}, classes |-> {"Service"},
           model |-> [params |-> <<"id", "body">>, required |-> 2], methods |-> {"run"},
           function |-> [params |-> <<"id">>, required |-> 1]]
Broken  == [Module EXCEPT !.syntax = FALSE]
NeedsImport == [Module EXCEPT !.missing = {"dataclass"}]
Packaged == [Module EXCEPT !.thirdParty = {numpy, requests}]

Modules == {Module, Broken, NeedsImport, Packaged,
  [Broken EXCEPT !.tail = TRUE], [Module EXCEPT !.lines = 11], [Module EXCEPT !.lines = 12],
  [Module EXCEPT !.lines = 15], [NeedsImport EXCEPT !.lines = 12],
  [Module EXCEPT !.guard = FALSE], [Module EXCEPT !.lines = 11, !.guard = FALSE],
  [Module EXCEPT !.badFields = TRUE], [Module EXCEPT !.lines = 11, !.badFields = TRUE],
  [Module EXCEPT !.imports = "fails"], [Module EXCEPT !.imports = "hangs"],
  [Module EXCEPT !.classes = {}], [Module EXCEPT !.methods = {}],
  [Module EXCEPT !.model = Absent], [Module EXCEPT !.model.required = 3],
  [Module EXCEPT !.model.params = <<"body", "id">>], [Module EXCEPT !.function = Absent],
  [Module EXCEPT !.function.params = <<"id", "body">>]}

Line(kind, name) == [kind |-> kind, name |-> name, extras |-> FALSE]
Manifests == {{}, {Line("package", numpy)}, {Line("package", numpy), Line("package", requests)},
  {Line("package", numpy), Line("none", Absent)},
  {Line("package", numpy), Line("prose", Absent)},
  {Line("package", numpy), Line("unsafe", Absent)},
  {Line("package", numpy), Line("unsafe", requests)},
  {Line("package", requests), [Line("package", numpy) EXCEPT !.extras = TRUE]}}

Suite == [syntax |-> TRUE, lines |-> 8, tests |-> 2, fixtures |-> 1, tail |-> FALSE,
          keys |-> {}, fixable |-> {"type_mismatches"}]
KeySets == {{}, {"undefined_fixtures"}, {"call_arity_mismatches"}, {"type_mismatches"},
            {"tests_without_assertions"}, {"helper_surface_usages"},
            {"call_arity_mismatches", "type_mismatches"}}
Suites == {[Suite EXCEPT !.syntax = s, !.lines = l, !.tests = n, !.fixtures = f, !.tail = ~s, !.keys = k] :
             s \in BOOLEAN, l \in {8, 12, 13}, n \in {2, 3}, f \in {1, 2}, k \in KeySets}

FewDrafts == [t \in Tasks |->
  CASE t = design -> {"plan"} [] t = code -> {NeedsImport, Broken, Packaged}
    [] OTHER -> {{Line("package", numpy), Line("package", requests)}, {Line("unsafe", Absent)}}]
CodeDrafts == [t \in Tasks |->
  CASE t = design -> {"plan"} [] t = code -> Modules [] t = legal -> {"terms"} [] OTHER -> Manifests]
SuiteDrafts == [t \in Tasks |->
  CASE t = design -> {"plan"} [] t = code -> {Module} [] t = suite -> Suites [] OTHER -> Manifests]

\* How the tests may end: not at all, well, or with these failures.
NotRun == {NoPytest}
FailureSets == {{}, {"values"}, {"labels"}, {"attribute"}, {"setup"}, {"error"}, {"action_map"},
                {"values", "labels"}, {"values", "setup"}, {"values", "error"}}
AllRuns == {NoPytest, [NoPytest EXCEPT !.ran = TRUE, !.passed = TRUE]} \cup
  {[ran |-> TRUE, passed |-> FALSE, files |-> f, failures |-> r] :
     f \in SUBSET {"module", "tests"}, r \in FailureSets}

\* Four workflows: shared agents, retries and interrupts; modules and manifests;
\* suites under a maximum, and under an exact number, of tests.
Settings == {"sharing", "modules", "suites", "exact"}
WorksOf == [w \in Settings |->
  CASE w = "sharing" -> {design, code, early, manifest}
    [] w = "modules" -> {design, code, manifest, legal}
    [] OTHER -> {design, code, suite}]
TextOf == [w \in Settings |->
  CASE w = "sharing" -> AnyText [] w = "exact" -> Exact [] OTHER -> Limited]
DraftsOf == [w \in Settings |->
  CASE w = "sharing" -> FewDrafts [] w = "modules" -> CodeDrafts [] OTHER -> SuiteDrafts]
RunsOf == [w \in Settings |-> IF w \in {"sharing", "modules"} THEN NotRun ELSE AllRuns]
RetriesOf == [w \in Settings |-> IF w = "sharing" THEN OneRetry ELSE NoRetry]
InterruptsOf == [w \in Settings |-> IF w = "sharing" THEN 1 ELSE 0]
=============================================================================
