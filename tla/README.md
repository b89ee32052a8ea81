# Agentic Workbench: a verification project

TLA+ models of the part of this repository that decides what happens to a
workflow run: who may advance it, when a person is asked, what is merged, tested
and published, and what a crash, a retry or a second click can do to all that.
Source references are to `src/`, mostly `src/backend/app/`.

## 1. Inventory

| Component | State it keeps | Operations | Hard behaviour |
|---|---|---|---|
| HTTP API (`api/api.py`) | none of its own; one database session per request | create, approve plan, decide tool call, finalize; reads; event stream | two requests at once; status read, then written without a second look |
| Workflow service (`services/workflow_execution.py`) | `workflow_run` and `approval` rows | claim, plan, continue, save a pause, fail, decide, finalize, requeue stale claims | transactions with stale sessions, claims that expire, the last two decisions at once |
| Celery tasks and broker (`tasks/`) | messages | `workflows.advance`, `workflows.recover_stale` (every 60 s) | late acknowledgement, redelivery, a message without effect, a commit without a message |
| Coordinator (`orchestration/coordinator.py`, `state.py`) | `CoordinatorExecution`, in memory between pauses, in `agent_state` at pauses | 13 stages: work, integrate, repair a merge, review, repair, final decision | parallel agents, replay after a crash, bounded loops |
| Planner and decomposer (`agents/planning.py`) | none | plan, decompose, check whether workstreams may run side by side | a check that turns a model's answer into parallel work |
| Worktrees (`orchestration/worktrees.py`, `repository_checks.py`) | checkouts, branches, an open merge | create, commit, merge, complete a merge, remove | half-done commands, left-overs, conflict markers |
| Agents and editor (`agents/workers.py`, `reviewer.py`, `approvals.py`, `tools/`) | saved run states, files of a worktree | run, pause for approval, resume, apply a patch | every interruption needs a decision; patches repeated after a crash |
| GitHub (`services/github.py`) | a branch and a pull request on GitHub | load an issue, push, open a draft | effect without a reply, renamed repositories |
| Managed workspace (`repository/workspaces.py`) | one clone per run | prepare or reuse, remove | clone killed half way, clone that outlives its task |
| Event stream (`api/api.py:266`) and dashboard (`frontend/`) | last snapshot sent; selected run and its approvals | poll, send, subscribe, refetch | coalescing, replies out of order |
| Evaluation harness (`backend/evals`) | rows in memory, one result file at the end | run every case through three configurations, clean up, save | which layer handles which exception |
| Read-only tools, MCP server, schemas, migrations, fixtures | none | path checks, formatting, declarations | none for TLC |

How they interact: a request commits a row and sends a message; a worker claims
the row with one conditional UPDATE, advances the coordinator in memory and saves
the next pause; a person decides; the last decision queues the run again. The
database is the only shared state, the message carries nothing but the run id.
Finalization runs inside the API request. Recovery requeues claims older than 300 s.

What makes them correct, in short. *Lifecycle*: one task at a time advances a run
and it holds the claim; a waiting run can always be decided; a queued run always
reaches a worker; agents act on the decisions that are recorded; a terminal state is
final; nothing unapproved is published. *Coordinator*: what reaches the final
decision is all the work, tested and reviewed as it is; finished work is kept;
loops end; a pause can be resumed.

## 2. Modules

| Module | What it is |
|---|---|
| `Lifecycle` | abstract: what a run promises the person who started it |
| `Workflow` | lifecycle of one run: rows, sessions, broker, workers, requests, recovery, publication, crashes |
| `MCWorkflow` | symmetry for TLC |
| `WorkflowLifecycle` | `Workflow` implements `Lifecycle`: the mapping |
| `WorkflowProofs`, `WorkflowClaimProofs` | theorems about `Workflow`: types, wake-up and delivery; the claim and the decisions |
| `WorkflowLifecycleProofs`, `CoordinatorLifecycleProofs` | the two mappings to `Lifecycle`, proved |
| `CoordinatorProofs` | theorems about `Coordinator` |
| `PartsProofs` | theorems about the four parts of `MCParts` |
| `LiveViewProofs`, `EvaluationProofs` | theorems about `LiveView` and `Evaluation` |
| `Coordinator` | stages of one run between pauses, agents, Git, crash and replay |
| `CoordinatorLifecycle`, `MCCoordinator` | `Coordinator` implements `Lifecycle` from the approved plan on; the instance TLC checks |
| `Evaluation`, `MCEvaluation` | the evaluation harness, composed with `Coordinator` |
| `Planning` | the check that lets workstreams run side by side |
| `AgentRun` | one group of agents down to the single patch |
| `Workspace` | the clone of one run and its reuse |
| `Publication` | one run from an issue to its pull request, call by call |
| `MCParts` | these four, which share no state, for TLC: `Init` picks one of them |
| `LiveView` | what the browser shows of a run while it changes: event stream, subscription, fetches, clicks |
| `MCLiveView` | the instance TLC checks |

### Lifecycle

Whose turn it is (`phase`), what a person is asked (`open`), whether a plan was
approved and whether anything is published; no rows, messages, stages or Git. It
says that nothing but a plan can come of work before a plan is approved, that the
last decision on a call and only that one gives the run back to the machines,
that a pause for tools asks something and a final one nothing, that a run ends
well only from the final decision, and that what is cancelled is unpublished.

`WorkflowLifecycle` maps the status to the phase, the pending approvals to `open`
and GitHub's pull request to `published`; crashes, redeliveries and everything a
request does before its commit are stutters. `CoordinatorLifecycle` maps a pause
to the phase of its stage and the agents waiting in it to one abstract call, since
its person decides all calls of a pause in one step. What the two modules leave
to each other, the pause a task ends in and the decisions the next one starts
from, is thus what `Lifecycle` says of it. Both are safety; that the automatic
phases end is checked of each (`AutomaticStatesEnd`, `AdvanceEnds`). The mapping
of `Workflow` is claimed without rival submissions of one request.

### Workflow

One run (rows of different runs share nothing but the broker). A step is what is
atomic in the program: a committed transaction, a statement of an open one, or
the code between two awaits. `run` is the row, with `claimed_at` kept as the age
of the claim; `approvals` the committed decisions; `rowLock` the transaction that
has written the row and not committed; `worker[w].loaded` what a worker's session
read. `WrittenBack` is the unit of work: an attribute is written only if it
differs from what the session loaded (`expire_on_commit=False`, `db.py:18`), so a
late writer overwrites some columns and not others. `decide_approval` has five
steps because its reads, its flush, its count and its commit interleave with
those of others under READ COMMITTED; the flush of `updated_at` is what makes the
second reviewer wait. Uncommitted decisions live in the request, so a crash rolls
them back by forgetting them. The saved coordinator state is only its kind here.
`holder` is history: the slot whose task made the last claim, until that task
dies. Only `ProcessingIsHeld` reads it, which says of stale sessions what holds
even where two tasks share a run: a Processing run belongs to a task that will
write another status, or to one that died and is left to recovery.

What fails besides processes: `TaskAborts` is a task whose session can commit
neither its result nor its failure (the 120 s ran out inside a commit, or the
database is away), so that the claim stays until recovery; `ClaimFails` is one
that cannot even write its claim; `RequestFails`, `RequestFault` and
`FinalizeSaveFails` are requests that end with an error before, in and after what
they do outside the database. A task that raises has its message acknowledged.

### Coordinator

Exactly one task advances the run here. `state` is the `CoordinatorExecution` in
memory, `saved` the one in the database; a crash forgets the first and keeps
`disk` and `git` as they were. Works are `1..Workstreams` in list order, the
integration tree is one more. `cursor` is the index of whichever loop runs
(create, commit, merge, remove), so a crash falls between any two Git commands.
`git` says which checkouts have uncommitted files, which work branches have
commits, which are wholly merged, which merge is open, and whether markers are in
the tree or in a commit. A new attempt names new worktrees (uuid4); those of an
old one become `abandoned`. `history.fixes` counts the repairs committed, of which
a crash forgets those the saved execution (`fix_attempts`) does not know of. Agents run in the trees of `running` and return in
any order, having finished or paused; only a resumed agent has an approved patch
to apply and can remove conflict markers, but any agent may leave files behind by
running the tests, and so may the tests of the review. `history` is written and
never read by the model's actions, save for the crash bound.

Left out: texts, paths and what a patch contains; a `git worktree add` that fails
is taken to leave nothing behind; a removal removes checkout and branch in one
step except when a process dies in it. Any exception or timeout is `Fail`, which
may happen at any time in a task; errors that must happen are missing guards of
the other actions (markers left, nothing to commit, checkout gone), after which
only `Fail` is possible.

The two modules meet at the saved pause. `Workflow.SavePausedForTools` and
`SavePausedForFinal` stand for all of `Coordinator` from a claim to `SavePause`;
`Coordinator.ToolsDecided` for what `Workflow` does from a pause to the next claim.

### Planning

`InvokeDecomposer` proposes any list of workstreams with any paths; the rest is
`_can_run_in_parallel` path by path, with its outer and inner index and
`seen_paths`, and the two exits of `_execution_plan_for_work`.

### AgentRun

A group of agents in their own worktrees. `live` is the conversation in memory,
`saved` the `WorkExecution` of the last pause, `calls` each patch asked for with
its approval row, `files` what each worktree's one file is made of: the list of
calls that wrote it, since which bytes they wrote matters to nobody. A turn may
ask for several patches; the SDK (external) shows all of the turn's calls again
when the conversation is restored (`ResumeWorkers`) and takes them in order:
`ApplyPatch` for an approved one, `RejectPatch` for one that was refused. The
editor's operations differ in what repeating them does: creating and deleting end
the same, an update may find its lines again, or fail and say so. `Crash` forgets
`live` and keeps `files`. `Applied` is what a turn makes of a file when nothing goes
wrong, patch by patch; `ReplayConverges` compares a repeated turn with it, and
excludes only a turn of nothing but updates that repeats one of them.

### Workspace

`repository` is how far `git clone` has come (a directory, a repository without
commits, the base branch with files on their way, all of it), `clone` the process,
which may outlive its task, `task` the step of `prepare_workspace`. Each Git
question of a later task is an action; Git answers it for the nearest repository
upwards. `outside` is what it finds there: the branch it gives a repository
without commits and the branch of a checkout around `managed_root`, if there is
one. By default there is (`config.py:20`), and either branch may be called like
the base: `ReadyIsUsable` names what then passes, and the run has every case.

### Publication

`github` has the repository's name and former names, the pushed branch and the
number of pull requests; `intake` and `run` what was read of it and when. GETs and
`git push` follow a rename, POSTs do not. Each call to GitHub may do its work and
lose its answer, and the process may die after any of them. Removing the
worktrees can stop at any of them (`RemovedInPart`), the save may fail
(`SaveFails`), and `_fail_workflow` raises, so that a workspace is discarded after
a save only. A run may also come without an issue (`CreateRun`) and then
publishes nothing. One request at a time; rivals are in `Workflow`.

### Evaluation

Extends `Coordinator`: a case of the full workflow is the coordinator itself,
driven without a database, with every tool approved and the final decision never
made. The two other configurations are one agent in one worktree. `facts` has the
exception on its way, of a kind the harness names, of the kind a TaskGroup wraps,
or of another kind; the `except` and `finally` clauses of each layer are actions
that say what it removes and whether there is a row.

### LiveView

Every commit on a run, decisions included, sets `updated_at`, which the snapshot
contains; a run and its approvals are therefore one version number, `row`, and
`RowChanges` is any transaction of `Workflow`. Version `LastVersion` is terminal.
`active` and `panel` are the React states `activeWorkflow` and `approvals` with
the version they came from, `stream` the EventSource and the server's generator
together, `fetches` the GET requests on their way. A fetch reads the run and its
approvals in two requests (`ServeWorkflow`, `ServeApprovals`), each as the row is
at that moment, and its reply overwrites both (`ReplyArrives`), whatever happened
since. `Show` is the effect on `activeWorkflow?.id`: the same id does not
subscribe again. Decisions and creations are POSTs whose effect on the row is a
commit and whose return refreshes or shows the run. `stream.seen`, the last event
handled, is written and never read by an action. Left out: heartbeats, the list of
runs (any existing run can be opened), error texts, a POST that fails (its refresh
is the same), a reconnect refused with an HTTP error, on which an EventSource
gives up.

## 3. Runs

All runs switch deadlock checking off: a terminal run stops.

| Run | Checks | Size |
|---|---|---|
| `workflow_team` | type, one task, claim, decisions; implements `Lifecycle` | 2 workers, 3 requests, 3 calls, 3 faults; 126 thousand states |
| `workflow_double_submit` | no lost wake-up, deliverability, no run left Processing by a stale session; rival requests | 2 workers, 2 requests, 2 calls, no faults; 3.7 million states |
| `workflow_recovery` | automatic states end | fairness, 2 workers, 2 requests, 2 calls, 2 faults, no API crash, claims can be written; 85 thousand states |
| `workflow_two_tasks` | finds two tasks on one run | violation |
| `workflow_failed_published` | finds a Failed run with a pull request | violation |
| `coordinator_crashes` | completeness, verification, markers, bounds, resumability, clean-up; every advance ends; implements `Lifecycle` | fairness, 3 works, 3 repairs, 2 crashes; 758 thousand states |
| `coordinator_worktrees` | finds a worktree on a terminal run | violation |
| `coordinator_repeats` | finds finished work repeated | violation |
| `live_view_events` | the last version reaches the dashboard; the approvals on screen belong to the run on screen | fairness, 2 runs, 2 clicks, 3 requests in flight, 1 drop, 1 failure, 1 reply out of order; 1.7 million states |
| `live_view_stale` | finds an old version on screen for good | violation |
| `evaluation` | what a row claims, what is left on disk, what an error costs | 2 cases, 2 works, 1 repair; 1.1 million states |
| `parts` | `Planning`, `AgentRun`, `Workspace`, `Publication` | fairness for `Workspace`; 779 thousand states |

In `parts`: the check of a decomposition accepts what it should and nothing else;
only approved patches run, once per process, no question is lost, and a replayed
turn ends in the files of an undisturbed one (but for a repeated update that no
other patch of the turn overwrites); a workspace handed out is usable (but for a
left-over that Git takes for another repository), is kept while it is relied on, and every attempt to get one returns; an ended run
says what GitHub has, no result is lost and none is published twice. The four
share no state, so one run checks them one after the other: their states add up.

### Bounds

*Workflow.* `Workers`, `Requests`, `Calls` at 2, 3 and 3: two tasks race, two
requests race while a third moves the run, a pause has several calls and a second
pause still has some. `StaleAfter` = 2 and `MaxRunTime` = 1 keep the order that
matters, a task ends before its claim is stale (120 s of work and a 30 s clone
against 300 s); `ClaimOutlivesTask` names it. `MaxMessages` bounds the broker and
`MaxFaults` the crashes and duplicates, each large enough for a crash of both
workers and one more. `ApiCanCrash` and `DoubleSubmit` are environments, not
bounds: with an API crash between a commit and its message a run stays queued
for ever (nothing looks at Queued rows), so deliverability is claimed without;
with rival submissions two tasks can advance, so most of `workflow_team` is
claimed without. The dashboard disables its buttons while a request is pending;
a second tab does not.
`ClaimCanFail` is an environment too, on in `workflow_team`: after a failed claim
a run stays queued for ever, so what is said of queued runs is claimed without.

*Coordinator.* `MaxFixCycles` = 3 as in the code. Three works give a conflict
that stops the loop with records before and after it; two crashes let a replay
die again. `ManyFixes` is where a counter of the history saturates, above every
value the bound allows.

*Planning.* Three workstreams, so that an overlap can be with the last but one or
the one before; two paths each, so that the inner index is used and reset; four
paths, so that no overlap is possible as well as any.

*AgentRun.* Three calls over two agents give a turn of two patches, of which the
second is never applied when the process dies, beside another agent with one.
One crash, to repeat a turn from any place in it; the theorem is for any number.

*Workspace.* Two crashes: the second task dies in what the first has left. The
branch around `managed_root` is the base's name, another one or none, and the one
Git gives a repository without commits the base's name or another, in each of
their combinations.

*Publication.* A name before, at and after intake; two crashes, one after the push
and one after the POST. `AgentCrashes` in `MCParts` is `AgentRun`'s bound.

*Evaluation.* Two cases, the second beginning in what the first leaves; one repair
and two workstreams keep the product small, the stages are `coordinator_crashes`'
business. No crashes: the harness does not survive one.

*LiveView.* Three versions: a first, a newer and a terminal one, the least that
lets an event and a reply disagree before and at the end. Two runs, to change from
one to the other, with requests of the first still on their way. Nothing in the
code drops a reply that is late: `PanelIsCurrent` is claimed as long as no reply
has overtaken another and no fetch has failed (one that fails leaves what was
shown, with a message), `EventsCatchUp` whatever the replies do. `MaxOvertakes`
is 0 in `live_view_stale`, which needs none.

### Fairness

`Workflow.Fairness`: each worker and each request goes on with what it has begun
(asyncio and Celery run what is runnable; every wait has a timeout), the beat
keeps scheduling recovery, time passes. Nobody has to submit anything.
`Coordinator.FairSpec`: the coordinator takes some step while one is possible;
agents and commands have timeouts, so `Fail` or a return is always possible.
`Workspace.FairSpec`: a task and its clone go on, and a clone that hangs runs into
its timeout.
`LiveView.FairSpec`: server, network and browser do what they have begun; the
generator polls each second, the EventSource retries. The person does not have to
click, and rows do not have to change.

### Findings

1. Two approvals of one plan submitted together put two tasks on the run
   (`api.py:134`), against `DESIGN_DOC.md:525`.
2. A Failed run may have a pull request (`workflow_execution.py:375`), against
   `WorkflowView.tsx:15`.
3. A run that fails keeps its worktrees (`workflow_execution.py:80`), against
   `backend/README.md:20`.
4. Completed stages between two pauses are repeated after a crash
   (`coordinator.py:203`), against `README.md:81`.
5. A refresh whose reply was read before the terminal commit and arrives after the
   terminal event stays on screen (`Dashboard.tsx:55`), against `README.md:41`.

Also met, without a run of its own:

* Two requests that decide one tool call together both find it undecided, and the
  second commit replaces the decision of the first (`workflow_execution.py:209`),
  although line 201 refuses a second decision. With `DoubleSubmit` TLC finds it as a
  step that changes a decided `approvals[c]`; no property says that decisions are
  final.
* The checks of a reused checkout ask Git from inside the directory
  (`workspaces.py:49`). Inside a checkout on a branch called like the base, which
  the default root makes possible, an empty directory passes them;
  `test_workspaces.py:42` expects otherwise, outside any checkout. `ReadyIsUsable`
  excepts it, and `parts` has the case.
* With rival approvals a session that is stale can clear the `claimed_at` of the
  task that took the run over; if that task dies, recovery does not see the run.
  Without rivals `AdvancingTaskHoldsClaim` excludes it.
* A repair that was committed before a crash cannot be resumed (nothing left to
  commit), so the run fails.
* The reply to a creation empties the approvals of the run when the person has
  opened it from the list before (`Dashboard.tsx:225`), until its next event.
* A task whose claim cannot be written leaves the run Queued with no message, and
  recovery looks at Processing rows only (`workflow_execution.py:326`).
* A full-workflow case of the evaluation that fails in a resume leaves the
  integration worktree made there (`run_evals.py:391`), and an exception that
  `EVAL_WORKFLOW_ERRORS` does not name, such as tests beyond their 30 s, ends the
  evaluation with no row saved (`run_evals.py:539`).
* Intended paths are compared as strings (`planning.py:123`): a directory and a
  file in it count as no overlap.
* An issue URL with a former name of the repository passes intake and all the
  work, and is refused at publication (`github.py:99`).

The repository itself names the crash between a commit and its message
(`backend/README.md:42`) and publication in separate steps (`:43`).

## 4. Proofs

For every value of the constants, under the assumptions the modules name and the
hypotheses below. Few of the properties are inductive as they stand; the table
says from which invariant each follows and what that adds.

| Theorems | Invariant | What it adds |
|---|---|---|
| `TypeCorrect`; `NoLostWakeup`, `QueuedIsKnown` | `WakeupInv`, `QueuedIsDeliverable` | a count of undecided calls is current while its request holds the row lock; deliverability is inductive with the types alone |
| `ProcessingHasTask` | `ProcessingIsHeld` | inductive with the types: a session that loaded another status than Processing never writes Processing back, and one that loaded it writes what it has come to |
| `OneTaskPerRun`, `TaskHoldsClaim`, `ResumesDecided`, `ActsOnRecordedDecisions` | `ClaimInv` | what a session has loaded is still in the row; a request inside a transaction is about the present pause; rivals exclude each other |
| `WorkflowImplementsLifecycle` | `ClaimInv`, `PublishOK` | a pull request exists only after the checkouts that a second finalization needs are gone |
| `CoordinatorTypes` and the eight of `CoordinatorProofs` | `CoordInv` | see below |
| `AdvanceDescends`, `RanksEnd` | `CoordInv` | no loop of the coordinator goes round for ever, see below |
| `CoordinatorImplementsLifecycle` | `CoordInv` | a pause for tools has an agent waiting, a final one none |
| `ParallelIsDisjoint` | `PlanningInv` | `seen_paths` is what the places behind the two indices name, each once |
| `OnlyApprovedIsApplied`, `QuestionsAreKept` | `AgentInv` | a call belongs to one conversation and to one place of it; a restored turn has been applied by earlier processes only |
| `ReplaysConverge` | `AgentInv`, `ReplayInv` | while a turn is gone through the file is what its first patches make of the file of the pause; a file nobody has patched since the pause is that of the pause |
| `WorkspaceIsUsable`, `ReliedOnIsKept` | `WorkspaceInv` | until a crash every directory a later task can find holds a whole clone; a task past the checks has found the base branch, or a left-over that Git took for another repository |
| `OutcomeIsAsTold`, `ResultIsKept`, `BranchIsPushedOnce` | `PublicationInv` | what each step of a finalization may count on: only the first to find the worktrees gets to the push; a branch goes only with a rejection or after its push |
| `LiveViewTypes`, `PanelCatchesUp` | `LiveInv` | some fetch in flight, or the panel itself, is as new as the last event, and every later one is harmless |
| `EvaluationTypes`, `PassesAreVerified`, `CasesLeaveNothing`, `ReportIsComplete` | `EvalInv` | `CoordInv` while a case coordinates, and what is kept of it for the clean-up and the row |

`CoordInv` relates what is in three places. `TaskOK` says which execution, in
memory or saved, belongs to which task state and which trees have agents at
work. `StateOK` says what an execution contains at each stage. `GitOK` says that what
it calls merged is on the integration branch, that the merge it repairs is the
open one (or already done, after a crash), and that the saved execution is never
ahead of Git. `LoopOK` says what the trees behind the cursor are like, `ReviewOK`
that the repairs committed are among the attempts counted, `DiskOK` which
checkouts are there for whom. Everything a crash needs is said of `saved` as
well as of `state`: that is what makes the step of `Crash` hold.

`AdvanceDescends` is the part of `AdvanceEnds` that does not need fairness. `Rank`
gives each state nine numbers, of which an earlier one counts for more: whether
the run is queued, busy or at rest; work, integration or review; workstreams not
merged; repairs still allowed; the stage within these; the loop over records; the
agents at work; what they may still disturb. Each step of `Coordinate`, that is all
but people and crashes, lowers the rank: a conflict comes back to the integration
with one more workstream merged, a repair to the review with one attempt less.
`RanksEnd` shows that numbers cannot go down like this for ever. Of `AdvanceEnds`,
TLC alone checks that there always is a step to take.

`ReplayInv` speaks of `Applied`, a function defined by recursion over the turn.
That such a function exists for turns of any length, and obeys its own equation
(`AppliedIsDefined`), is shown from the well-foundedness of `<`: there would be a
least length without one, which the function of the length before extends
(`LeastNumber`). The rest is one step of the recursion per patch taken. A patch
that creates or deletes the file makes it known again whatever the file was; until
one comes, it is known as long as this process has applied each patch so far once
and no earlier process any.

`EvaluationProofs` reuses that step: a case that coordinates takes a step of
`Coordinator`, so `CoordInv` carries over (`InvStep`). `PartsStandAlone` shows
that a behaviour of the instance TLC checks is one of each part, so the theorems
about parts hold there.

### Hypotheses

* `~DoubleSubmit` and `ClaimOutlivesTask` for everything that follows from
  `ClaimInv`: no two requests in progress that ask for the same (one that comes
  after the other has committed does no harm), and a task ends before its
  claim is stale (120 s of work and a 30 s clone against 300 s). Without
  the first, `workflow_two_tasks` shows two tasks on one run. `TypeCorrect`,
  `NoLostWakeup` and `ProcessingHasTask` need neither.
* `~ApiCanCrash` and `~ClaimCanFail` for `QueuedIsKnown`: either strands a run
  (findings, above).
* `MCParts` assumes that its bounds are numbers (`BoundsAssumption`); the modules
  assume no more of theirs. The theorems of `CoordinatorProofs`, `LiveViewProofs`,
  `EvaluationProofs` and `PartsProofs` have no hypothesis.

### Only model-checked

* Liveness: `AutomaticStatesEnd`, `AdvanceEnds`, `TaskReturns`, `EventsCatchUp`.
  Their proofs need `ENABLED` and fairness, which are out of the prover's reach. Of
  `AdvanceEnds` the descent is proved (above).
* The violations, which are counterexamples.

## 5. Not modelled

* The read-only repository tools, the MCP server over them, path checks (escapes
  from the worktree or the managed root), schemas, migrations, configuration and
  fixtures: no state, nothing that depends on an order.
* Texts: plans, prompts, the wording of approvals, bodies of requests, errors.
* What agents decide. A planner, decomposer, worker or reviewer returns anything
  its type allows; the reviewer's conversation is a free outcome in `Coordinator`.
* Of the evaluations: trace metrics, cost and the printed summary, which are sums.
* Of the dashboard: the list of runs, error texts, the other pages.
* Promises the code does not make, and no property claims: an update of a file
  repeated after a crash may be applied twice; a checkout whose files were still
  on their way when its clone died is accepted; a message lost to a crash of the
  API strands the run.

## 6. Plan

1. *(done)* `Workflow`, then its theorems `TypeCorrect` and `NoLostWakeup`.
2. *(done)* `Coordinator`; `LiveView`.
3. *(done)* `Lifecycle` with `Workflow` and `Coordinator` shown to implement it;
   the faults of a task and a request that raise.
4. *(done)* `Workspace`, `Planning`, `AgentRun`, `Publication`, `Evaluation`.
5. *(done)* Proofs: the safety properties of every run and both mappings to
   `Lifecycle`; that a repeated turn converges (`ReplaysConverge`) and that the
   coordinator's loops end (`AdvanceDescends`).
6. What could be proved next: a rank like the coordinator's for a run of `Workflow`
   between two decisions of people, and what is left of liveness where a prover
   knows `ENABLED`.
