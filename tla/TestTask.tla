------------------------------ MODULE TestTask ------------------------------
(***************************************************************************)
(* The action of the test task (plugin-test/src/index.ts): compile, the    *)
(* suiteSetup hooks, the tests in their worker (TestContext), the          *)
(* suiteTeardown hooks, and the errors it reports at the end.              *)
(***************************************************************************)
EXTENDS TestContext

VARIABLES
  phase,          \* where the action is
  managedTest,    \* LIONDEN_MANAGED_TEST: "outer" is what the process started with
  primaryError, teardownError,
  thrown          \* what the action throws at the end: "nothing", an error or both

taskVars == <<phase, managedTest, primaryError, teardownError, thrown>>
allVars == <<taskVars, vars>>

TaskInit ==
  /\ ContextInit
  /\ phase = "compile" /\ managedTest = "true"
  /\ primaryError = FALSE /\ teardownError = FALSE /\ thrown = "nothing"

(* The finally clause: the variable is put back whatever was thrown.       *)
Leaves(error) == phase' = "ended" /\ managedTest' = "outer" /\ thrown' = error

Compile(ok) ==
  /\ phase = "compile"
  /\ IF ok THEN phase' = "suiteSetup" /\ UNCHANGED <<managedTest, thrown>>
     ELSE Leaves("primary")
  /\ UNCHANGED <<primaryError, teardownError, vars>>

SuiteSetup(ok) ==
  /\ phase = "suiteSetup"
  /\ phase' = IF ok THEN "tests" ELSE "suiteTeardown"
  /\ primaryError' = ~ok
  /\ UNCHANGED <<managedTest, teardownError, thrown, vars>>

(* Vitest ends when the tests have, and with them all that they await.     *)
Tests_(ok) ==
  /\ phase = "tests" /\ Quiet /\ \A t \in Tests : loads[t] = 0
  /\ phase' = "suiteTeardown"
  /\ primaryError' = ~ok
  /\ UNCHANGED <<managedTest, teardownError, thrown, vars>>

SuiteTeardown(ok) ==
  /\ phase = "suiteTeardown"
  /\ teardownError' = ~ok
  /\ Leaves(CASE primaryError /\ ~ok -> "both" [] primaryError /\ ok -> "primary"
              [] ~primaryError /\ ~ok -> "teardown" [] OTHER -> "nothing")
  /\ UNCHANGED <<primaryError, vars>>

TaskNext ==
  \/ phase = "tests" /\ Next /\ UNCHANGED taskVars
  \/ \E ok \in BOOLEAN : Compile(ok) \/ SuiteSetup(ok) \/ Tests_(ok) \/ SuiteTeardown(ok)

TaskSpec == TaskInit /\ [][TaskNext]_allVars

(* While the tests run, everything the worker awaits settles.              *)
InTests(A) == phase = "tests" /\ A /\ UNCHANGED taskVars

TaskLiveSpec ==
  /\ TaskSpec
  /\ WF_allVars(InTests(\E built \in BOOLEAN : BuildLre(built)))
  /\ WF_allVars(InTests(Resolution /\ UNCHANGED <<contextVars, lreVars, fixtureVars>>))
  /\ \A c \in Callers :
       /\ WF_allVars(InTests(ContextStep(c)))
       /\ WF_allVars(InTests(Handler(c) /\ UNCHANGED <<contextVars, lreVars, fixtureVars>>))

-----------------------------------------------------------------------------
(* The task never ends between the suite's hooks: once suiteSetup was      *)
(* dispatched the end comes after suiteTeardown, no error is lost, and the *)
(* process has its LIONDEN_MANAGED_TEST back.                              *)
SuiteHooksPaired ==
  [][ phase' = "ended" /\ phase # "ended" =>
        /\ phase \in {"compile", "suiteTeardown"}
        /\ managedTest' = "outer"
        /\ (thrown' = "nothing") = (phase = "suiteTeardown" /\ ~primaryError /\ ~teardownError')
    ]_allVars

=============================================================================
