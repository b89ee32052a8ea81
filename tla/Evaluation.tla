----------------------------- MODULE Evaluation -----------------------------
(***************************************************************************)
(* The evaluation harness (evals/run_evals.py): every case of a list is    *)
(* run through three configurations, one after the other, and gets a row   *)
(* of the report.  The full workflow is the Coordinator, driven without a  *)
(* database: its last pause is held in a local variable, here saved, every *)
(* tool is approved at once and nothing is finalized.  The two others give *)
(* one agent one worktree.  Exceptions are of the kinds the harness names  *)
(* (EVAL_WORKFLOW_ERRORS) or not; which layer sees them decides what is    *)
(* removed and whether there is a row.                                     *)
(***************************************************************************)
EXTENDS Coordinator, Sequences

CONSTANT
    Cases    \* how many cases the list has

ASSUME CasesAssumption == Cases \in Nat \ {0}

VARIABLES
    unit,    \* which case of which configuration is run
    step,    \* what the harness is doing
    facts,   \* the outcome of the case so far, the exception on its way
    rows     \* the results so far

coordinator == vars
evalVars == <<state, saved, task, cursor, running, disk, git, history,
              unit, step, facts, rows>>

----------------------------------------------------------------------------

Configurations == <<"full_workflow", "single_worker", "planner_worker">>

Units == Cases * Len(Configurations)

Configuration == Configurations[((unit - 1) \div Cases) + 1]

\* In EVAL_WORKFLOW_ERRORS, one of those in the ExceptionGroup of a TaskGroup,
\* or anything else: a subprocess.TimeoutExpired of the tests, an OSError.
Kinds == {"expected", "grouped", "unexpected"}

Ungrouped == Kinds \ {"grouped"}

Facts == [error: {"none"} \cup Kinds,
          tests: BOOLEAN,       \* tests_passed
          cleaned: BOOLEAN]     \* no clean-up of this case has raised

NoFacts == [error |-> "none", tests |-> FALSE, cleaned |-> TRUE]

EvalSteps == {"next", "planning", "preparing", "coordinating", "working",
              "checking", "rescuing", "cleaning", "closing",
              "saved", "aborted"}

Rows == [unit: 1..Units,
         passed: BOOLEAN,
         error: BOOLEAN,
         verified: BOOLEAN,   \* by the workflow's own tests and review
         cleaned: BOOLEAN,
         paused: BOOLEAN,     \* start_coordinator had returned
         left: SUBSET Trees]  \* worktrees and branches nobody has removed

EvalTypeOK ==
    /\ TypeOK
    /\ unit \in 1..(Units + 1)
    /\ step \in EvalSteps
    /\ facts \in Facts
    /\ rows \in Seq(Rows)

EvalInit ==
    /\ Init
    /\ unit = 1
    /\ step = "next"
    /\ facts = NoFacts
    /\ rows = <<>>

Goto(next) ==
    /\ step' = next
    /\ UNCHANGED <<unit, facts, rows>>

RaiseTo(next, kind) ==
    /\ step' = next
    /\ facts' = [facts EXCEPT !.error = kind, !.tests = FALSE]
    /\ UNCHANGED <<unit, rows>>

----------------------------------------------------------------------------
(* One case up to its inspection.                                          *)

\* evaluation_orchestration takes the next case of the next configuration.
BeginCase ==
    /\ step = "next"
    /\ unit <= Units
    /\ Goto(IF Configuration = "single_worker" THEN "preparing" ELSE "planning")
    /\ UNCHANGED coordinator

\* invoke_planner, for the two configurations that plan.
InvokePlanner ==
    /\ step = "planning"
    /\ \/ Goto(IF Configuration = "full_workflow" THEN "coordinating"
                                                  ELSE "preparing")
       \/ \E kind \in Ungrouped : RaiseTo("closing", kind)
    /\ UNCHANGED coordinator

\* create_worktree for the one agent.
PrepareWorktree ==
    /\ step = "preparing"
    /\ \/ /\ Goto("working")
          /\ disk' = [disk EXCEPT !.checkouts = {1}, !.branches = {1}]
       \/ /\ \E kind \in Ungrouped : RaiseTo("closing", kind)
          /\ disk' = disk
    /\ UNCHANGED <<state, saved, task, cursor, running, git, history>>

\* _run_worker_until_complete: the agent pauses and is resumed until it has
\* finished; another tool than apply_patch is refused.
RunWorkerUntilComplete ==
    /\ step = "working"
    /\ \/ Goto("checking")
       \/ \E kind \in Ungrouped : RaiseTo("cleaning", kind)
    /\ UNCHANGED coordinator

\* start_coordinator and resume_coordinator.  Nothing limits their time, so no
\* cancellation gets past the clean-up of a start that fails.
RunCoordinator ==
    /\ step = "coordinating"
    /\ Coordinate
    /\ ~(task = "working" /\ state.stage = "created" /\ Fail)
    /\ UNCHANGED <<unit, step, facts, rows>>

\* _approve_fixture_edits approves what the agents ask for.
ApproveFixtureEdits ==
    /\ step = "coordinating"
    /\ \/ /\ ToolsDecided
          /\ Goto("coordinating")
       \/ /\ task = "waiting"
          /\ saved.stage \in ToolPauses
          /\ RaiseTo("rescuing", "expected")
          /\ UNCHANGED coordinator

\* Mutant: any pause is the end of the loop.
AnyPause == saved.stage \in PausedStages

AtInspectionBoundary == saved.stage = "awaiting_final_approval"

\* _run_until_final_approval returns the execution it has driven so far.
ReachInspection ==
    /\ step = "coordinating"
    /\ task = "waiting"
    /\ AtInspectionBoundary
    /\ Goto("checking")
    /\ UNCHANGED coordinator

\* resume_pending_work lets the group of its TaskGroup through; a start wraps
\* it in a RuntimeError.
WorkersResumed == "awaiting_approvals" \in {saved.stage} \cap {state.stage}

CoordinatorRaises ==
    /\ step = "coordinating"
    /\ task = "failed"
    /\ \E kind \in (IF WorkersResumed THEN Kinds ELSE Ungrouped) :
          RaiseTo("rescuing", kind)
    /\ UNCHANGED coordinator

\* run_tests and git_diff, on the one worktree (committed first) or on the
\* integration worktree, which must be there.
CheckResult ==
    /\ step = "checking"
    /\ \/ /\ Configuration = "full_workflow" => saved.integration
          /\ step' = "cleaning"
          /\ \E passed \in BOOLEAN : facts' = [facts EXCEPT !.tests = passed]
          /\ UNCHANGED <<unit, rows>>
       \/ \E kind \in Ungrouped : RaiseTo("cleaning", kind)
    /\ UNCHANGED coordinator

----------------------------------------------------------------------------
(* Clean-up: _clean_up_coordinator_resources, or the two commands of the   *)
(* single worktree.                                                        *)

\* The trees a coordinator state names, in the order they are removed.
Named(execution) ==
    IF execution.stage = "created" THEN {}
    ELSE IF execution.integration THEN Trees ELSE Works

\* The first of them are gone; the next may have lost its checkout only.
RemovedUpTo(trees, done, half) ==
    [disk EXCEPT !.checkouts = @ \ (trees \cap 1..half),
                 !.branches = @ \ (trees \cap 1..done)]

\* A removal that raises ends the clean-up and replaces the exception that
\* was on its way.
CleanUp(trees) ==
    /\ \/ /\ Goto("closing")
          /\ disk' = RemovedUpTo(trees, Integration, Integration)
       \/ \E done \in 0..(Cardinality(trees) - 1), kind \in Ungrouped :
             /\ \E half \in {done, done + 1} :
                   disk' = RemovedUpTo(trees, done, half)
             /\ facts' = [error |-> kind, tests |-> FALSE, cleaned |-> FALSE]
             /\ step' = "closing"
             /\ UNCHANGED <<unit, rows>>
    /\ UNCHANGED <<state, saved, task, cursor, running, git, history>>

\* Mutant: nothing is left to be named.
NothingToRescue == {}

\* The except clause of _run_until_final_approval: what the last call that
\* returned has named.
PartialState == Named(saved)

Rescue == step = "rescuing" /\ CleanUp(PartialState)

\* Mutant: only when all went well.
UnlessItRaised ==
    IF facts.error # "none" THEN {}
    ELSE IF Configuration = "full_workflow" THEN Named(saved) ELSE {1}

\* The finally clauses.
TreesOfCase ==
    IF Configuration = "full_workflow" THEN Named(saved) ELSE {1}

CleanAtEnd == step = "cleaning" /\ CleanUp(TreesOfCase)

----------------------------------------------------------------------------
(* The row of a case, and the report.                                      *)

\* Mutant: except in place of except*.
NotGrouped(kind) == kind \in {"none", "expected"}

BecomesRow(kind) == kind \in {"none", "expected", "grouped"}

\* case_scorer: any reason fails the case; the paths may add one.
RowOfCase(pathsAsExpected) ==
    [unit |-> unit,
     passed |-> facts.error = "none" /\ facts.tests /\ pathsAsExpected,
     error |-> facts.error # "none",
     verified |-> history.passed /\ history.accepted,
     cleaned |-> facts.cleaned,
     paused |-> saved.stage # "created",
     left |-> disk.checkouts \cup disk.branches]

\* Every case has worktrees of its own: their names have a new uuid4.
ForgetCase ==
    /\ state' = Created
    /\ saved' = Created
    /\ task' = "approved"
    /\ cursor' = 1
    /\ running' = {}
    /\ disk' = [checkouts |-> {}, branches |-> {}, abandoned |-> FALSE]
    /\ git' = BaseBranch
    /\ history' = [passed |-> FALSE, accepted |-> FALSE, fixes |-> 0,
                   finished |-> {}, crashes |-> 0]

\* evaluate_current_workflow.
CloseCase ==
    /\ step = "closing"
    /\ BecomesRow(facts.error)
    /\ \E pathsAsExpected \in BOOLEAN :
          rows' = Append(rows, RowOfCase(pathsAsExpected))
    /\ unit' = unit + 1
    /\ step' = "next"
    /\ facts' = NoFacts
    /\ ForgetCase

\* Nothing above evaluate_current_workflow catches anything.
Abort ==
    /\ step = "closing"
    /\ ~BecomesRow(facts.error)
    /\ Goto("aborted")
    /\ UNCHANGED coordinator

\* _save_results, once, at the end of main.
SaveResults ==
    /\ step = "next"
    /\ unit > Units
    /\ Goto("saved")
    /\ UNCHANGED coordinator

EvalNext ==
    \/ BeginCase \/ InvokePlanner \/ PrepareWorktree
    \/ RunWorkerUntilComplete \/ RunCoordinator \/ ApproveFixtureEdits
    \/ ReachInspection \/ CoordinatorRaises \/ CheckResult
    \/ Rescue \/ CleanAtEnd \/ CloseCase \/ Abort \/ SaveResults

EvalSpec == EvalInit /\ [][EvalNext]_evalVars

----------------------------------------------------------------------------
(* Properties.                                                             *)

AllRows == {rows[i] : i \in DOMAIN rows}

\* A case that counts as passed by the full workflow is one the workflow
\* itself would offer for publication: the coordinator was driven to its
\* final pause and, at that content, its tests and its review had passed.
PassedIsVerified ==
    \A row \in AllRows :
        row.passed /\ row.unit <= Cases => row.verified

\* Cases do not leak into each other's disk.  Unless Git refuses a removal,
\* one that ends without an error, and a failing one of a single worker,
\* leaves no worktree and no branch (the finally clauses, run_evals.py:240,
\* 291, 322); a case of the full workflow that fails after a pause leaves none
\* of the trees that pause has named, whichever call failed (run_evals.py:391).
CasesCleanUp ==
    \A row \in AllRows : row.cleaned =>
        /\ (row.error => row.unit > Cases) => row.left = {}
        /\ row.paused => row.left \subseteq {Integration}

\* A workflow error, also inside the group of a TaskGroup
\* (test_run_evals.py:140), costs its own case only: the report holds one
\* row per case and configuration, in order, or something unexpected
\* happened.
ErrorsBecomeRows ==
    /\ \A i \in DOMAIN rows : rows[i].unit = i
    /\ step = "saved" => Len(rows) = Units
    /\ step = "aborted" => facts.error = "unexpected"
=============================================================================
