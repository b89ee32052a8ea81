------------------------------ MODULE Workflow ------------------------------
(***************************************************************************)
(* One workflow run as its database row, its approval rows, the Celery     *)
(* messages that name it, the worker tasks that advance it and the HTTP    *)
(* requests of the people who review it.                                   *)
(*                                                                         *)
(*   src/backend/app/services/workflow_execution.py   every transaction    *)
(*   src/backend/app/api/api.py                       the request handlers *)
(*   src/backend/app/tasks/                           the Celery tasks     *)
(*   src/backend/app/models/models.py                 the two tables       *)
(*                                                                         *)
(* One action is one database transaction, one statement of a longer       *)
(* transaction, or one piece of synchronous work between two awaits: the   *)
(* points at which another process can be scheduled in between.  What the  *)
(* planner and the coordinator compute is a nondeterministic outcome; the  *)
(* stages of the coordinator itself are the module Coordinator.            *)
(***************************************************************************)
EXTENDS Integers, FiniteSets

CONSTANTS
    Workers,        \* Celery worker slots that can run workflows.advance
    Requests,       \* HTTP request slots of the API process
    Calls,          \* call ids of the tool approvals the agents can ask for
    NoCall,         \* not a call id
    NoRequest,      \* not a request slot: the run's row lock is free
    NoWorker,       \* not a worker slot: no live task has the last claim
    StaleAfter,     \* STALE_WORKFLOW_SECONDS, in ticks
    MaxRunTime,     \* the longest a live task keeps a claim, in ticks
    MaxMessages,    \* bound: messages of this run waiting in the broker
    MaxFaults,      \* bound: crashes, failures and duplicates in one behaviour
    ApiCanCrash,    \* whether the API process and the recovery task crash too
    ClaimCanFail,   \* whether the database can be away when a task claims
    DoubleSubmit    \* whether two requests ask for the same thing at once

ASSUME NoCallAssumption == NoCall \notin Calls
ASSUME NoRequestAssumption == NoRequest \notin Requests
ASSUME NoWorkerAssumption == NoWorker \notin Workers
ASSUME TimeAssumption == StaleAfter \in Nat /\ MaxRunTime \in Nat
ASSUME BoundAssumption == MaxMessages \in Nat /\ MaxFaults \in Nat
ASSUME FlagAssumption == /\ ApiCanCrash \in BOOLEAN
                         /\ ClaimCanFail \in BOOLEAN
                         /\ DoubleSubmit \in BOOLEAN

(***************************************************************************)
(* 120 s of work, a 30 s clone before it and the subprocess timeouts that  *)
(* may outlast it stay under the 300 s after which a claim is stale.  Only *)
(* the properties that say so depend on it.                                *)
(***************************************************************************)
ClaimOutlivesTask == MaxRunTime < StaleAfter

VARIABLES
    run,        \* the workflow_run row
    approvals,  \* the approval row of each call id, "none" before it exists
    rowLock,    \* the request whose open transaction has written the run row
    messages,   \* workflows.advance messages waiting in the broker
    worker,     \* what each worker slot is doing
    request,    \* what each request slot is doing
    requeued,   \* the recovery task has requeued the run, not yet sent it
    disk,       \* the managed workspace and the saved worktree checkouts
    pullRequest,\* a draft pull request exists on GitHub
    faults,     \* crashes, failed transactions and duplicates so far
    holder      \* history: the slot whose task made the last claim, NoWorker
                \* once that task died; the code keeps no such thing, and only
                \* ProcessingIsHeld reads it

vars == <<run, approvals, rowLock, messages, worker, request, requeued, disk,
          pullRequest, faults, holder>>

rows == <<run, approvals, rowLock>>
broker == <<messages, requeued>>
outside == <<disk, pullRequest>>

-----------------------------------------------------------------------------
(* Types *)

Statuses == {"queued", "processing", "pending_plan_approval",
             "pending_tool_approval", "pending_final_approval",
             "completed", "cancelled", "failed"}

\* What CoordinatorExecution.stage the saved agent_state can hold, the three
\* stages that wait for tool approvals taken together.
SavedStages == {"none", "awaiting_tools", "awaiting_final", "completed",
                "rejected"}

Decisions == {"approved", "rejected"}
ApprovalStates == {"none", "pending"} \cup Decisions

\* claimed_at is kept as the time since it was written, 0 .. StaleAfter.
NoClaim == -1

RunRows == [status: Statuses \cup {"absent"},
            issue: BOOLEAN,         \* issue_url is not null
            claimAge: {NoClaim} \cup 0..StaleAfter,
            plan: BOOLEAN,
            stage: SavedStages,
            calls: SUBSET Calls]

\* The attributes of the row as the ORM loaded it into a task's session.
Snapshots == [status: Statuses \cup {"absent"},
              claimed: BOOLEAN,
              plan: BOOLEAN,
              stage: SavedStages,
              calls: SUBSET Calls]

WorkerSteps == {"idle", "delivered", "loading", "workspace", "planning",
                "reading", "coordinating"}
\* The steps at which a task holds, or believes it holds, the claim.
AdvancingSteps == WorkerSteps \ {"idle", "delivered"}

WorkerStates == [step: WorkerSteps,
                 age: 0..MaxRunTime,
                 loaded: Snapshots,
                 resolutions: [Calls -> {"none"} \cup Decisions]]

DecideSteps == {"decide_run", "decide_flush", "decide_count", "decide_commit"}
FinalizeSteps == {"finalize_git", "finalize_publish", "finalize_save",
                  "finalize_discard", "finalize_fail"}
RequestSteps == {"idle", "enqueue", "approve_commit"}
                    \cup DecideSteps \cup FinalizeSteps

RequestStates == [step: RequestSteps,
                  call: Calls \cup {NoCall},
                  decision: Decisions,
                  last: BOOLEAN,       \* no other approval was pending
                  approved: BOOLEAN,   \* FinalApprovalRequest.approved
                  stage: SavedStages]  \* agent_state as loaded

DiskStates == [workspace: BOOLEAN, checkouts: BOOLEAN]

TypeOK ==
    /\ run \in RunRows
    /\ approvals \in [Calls -> ApprovalStates]
    /\ rowLock \in Requests \cup {NoRequest}
    /\ messages \in 0..MaxMessages
    /\ worker \in [Workers -> WorkerStates]
    /\ request \in [Requests -> RequestStates]
    /\ requeued \in BOOLEAN
    /\ disk \in DiskStates
    /\ pullRequest \in BOOLEAN
    /\ faults \in 0..MaxFaults
    /\ holder \in Workers \cup {NoWorker}

NoRow == [status |-> "absent", issue |-> FALSE, claimAge |-> NoClaim,
          plan |-> FALSE, stage |-> "none", calls |-> {}]

NoSnapshot == [status |-> "absent", claimed |-> FALSE, plan |-> FALSE,
               stage |-> "none", calls |-> {}]

IdleWorker == [step |-> "idle", age |-> 0, loaded |-> NoSnapshot,
               resolutions |-> [c \in Calls |-> "none"]]

IdleRequest == [step |-> "idle", call |-> NoCall, decision |-> "approved",
                last |-> FALSE, approved |-> FALSE, stage |-> "none"]

Init ==
    /\ run = NoRow
    /\ approvals = [c \in Calls |-> "none"]
    /\ rowLock = NoRequest
    /\ messages = 0
    /\ worker = [w \in Workers |-> IdleWorker]
    /\ request = [q \in Requests |-> IdleRequest]
    /\ requeued = FALSE
    /\ disk = [workspace |-> FALSE, checkouts |-> FALSE]
    /\ pullRequest = FALSE
    /\ faults = 0
    /\ holder = NoWorker

-----------------------------------------------------------------------------
(* Helpers *)

\* Mutant: decide_approval counts without having written the run row.
RowNeverLocked == TRUE

\* A transaction that updates the run row waits for the row lock.
RowFree == rowLock = NoRequest

\* The unit of work writes an attribute only when it differs from what the
\* session loaded; nothing else protects a newer value in the table.
Flushed(loaded, new, current) == IF new = loaded THEN current ELSE new

Pending(table) == {c \in Calls : table[c] = "pending"}

Goto(w, step) == worker' = [worker EXCEPT ![w].step = step]
Proceed(q, step) == request' = [request EXCEPT ![q].step = step]
Respond(q) == request' = [request EXCEPT ![q] = IdleRequest]

\* The task returns or raises and its message is acknowledged.
TaskEnds(w) == worker' = [worker EXCEPT ![w] = IdleWorker]

\* The task dies; the claim, if it made the last one, has no live task.
ClaimOrphaned(w) == holder' = IF holder = w THEN NoWorker ELSE holder

-----------------------------------------------------------------------------
(* Worker: the task workflows.advance *)

\* A worker slot takes a message.  It is acknowledged only when the task ends
\* (task_acks_late), so a crash puts it back.
DeliverMessage(w) ==
    /\ worker[w].step = "idle"
    /\ messages > 0
    /\ messages' = messages - 1
    /\ Goto(w, "delivered")
    /\ UNCHANGED <<rows, outside, request, requeued, faults, holder>>

\* The broker delivers a message that a live worker still holds once more.
DuplicateMessage ==
    /\ \E w \in Workers : worker[w].step # "idle"
    /\ faults < MaxFaults
    /\ messages < MaxMessages
    /\ faults' = faults + 1
    /\ messages' = messages + 1
    /\ UNCHANGED <<rows, outside, worker, request, requeued, holder>>

\* The values the claim's UPDATE sets.
RowClaimed == [run EXCEPT !.status = "processing", !.claimAge = 0]

\* _claim_queued_workflow: the conditional UPDATE and its commit.  A task that
\* does not win the claim returns and its message is acknowledged.
ClaimQueuedWorkflow(w) ==
    /\ worker[w].step = "delivered"
    /\ RowFree
    /\ \/ /\ run.status = "queued"
          /\ run' = RowClaimed
          /\ holder' = w
          /\ Goto(w, "loading")
       \/ /\ run.status # "queued"
          /\ UNCHANGED <<run, holder>>
          /\ TaskEnds(w)
    /\ UNCHANGED <<broker, outside, approvals, rowLock, request, faults>>

\* _claim_queued_workflow: db.get in a transaction of its own, after the commit.
LoadClaimedRun(w) ==
    /\ worker[w].step = "loading"
    /\ worker' = [worker EXCEPT ![w].step = "workspace",
                                ![w].loaded = [status  |-> run.status,
                                               claimed |-> run.claimAge # NoClaim,
                                               plan    |-> run.plan,
                                               stage   |-> run.stage,
                                               calls   |-> run.calls]]
    /\ UNCHANGED <<rows, broker, outside, request, faults, holder>>

\* _repository_workspace clones the repository or finds the clone, then
\* advance_workflow and _continue_workflow choose what to do from the loaded
\* plan and agent_state.
PrepareWorkspace(w) ==
    /\ worker[w].step = "workspace"
    /\ disk' = [disk EXCEPT !.workspace = TRUE]
    /\ \/ /\ ~worker[w].loaded.plan
          /\ Goto(w, "planning")
       \/ /\ worker[w].loaded.plan
          /\ worker[w].loaded.stage # "none"
          /\ Goto(w, "reading")
       \/ /\ worker[w].loaded.plan
          /\ worker[w].loaded.stage = "none"
          /\ Goto(w, "coordinating")
    /\ UNCHANGED <<rows, broker, request, pullRequest, faults, holder>>

\* Mutant: the agents are resumed as if everything had been approved.
ResolutionAlwaysApproved(c) == "approved"

\* The resolution of one call, as its approval row has it.
Resolution(c) == approvals[c]

\* _saved_approval_resolutions: the decisions the agents are resumed with.  An
\* undecided approval is an error, which leaves only FailWorkflow.
ReadResolutions(w) ==
    /\ worker[w].step = "reading"
    /\ Pending(approvals) = {}
    /\ worker' = [worker EXCEPT
          ![w].step = "coordinating",
          ![w].resolutions =
              [c \in Calls |-> IF c \in worker[w].loaded.calls
                                 THEN Resolution(c) ELSE "none"]]
    /\ UNCHANGED <<rows, broker, outside, request, faults, holder>>

\* The row as the session of worker w writes it back: status and claimed_at
\* only when they differ from what was loaded, the rest as given.
WrittenBack(w, status, plan, stage, calls) ==
    [status   |-> Flushed(worker[w].loaded.status, status, run.status),
     issue    |-> run.issue,
     claimAge |-> IF worker[w].loaded.claimed THEN NoClaim ELSE run.claimAge,
     plan     |-> plan,
     stage    |-> stage,
     calls    |-> calls]

\* _save_workflow_plan: the planner answered in time.
SaveWorkflowPlan(w) ==
    /\ worker[w].step = "planning"
    /\ RowFree
    /\ run' = WrittenBack(w, "pending_plan_approval", TRUE, run.stage, run.calls)
    /\ TaskEnds(w)
    /\ UNCHANGED <<broker, outside, approvals, rowLock, request, faults, holder>>

\* resume_coordinator accepts only a stage that waits for tool approvals, and
\* resume_worker a decision for every interruption; start_coordinator needs
\* neither.
CanAdvance(w) ==
    \/ worker[w].loaded.stage = "none"
    \/ /\ worker[w].loaded.stage = "awaiting_tools"
       /\ \A c \in worker[w].loaded.calls : worker[w].resolutions[c] \in Decisions

\* _continue_workflow and _save_coordinator_execution, paused for tool
\* approvals: the agents ask for fresh calls, one approval row each.
SavePausedForTools(w, asked) ==
    /\ worker[w].step = "coordinating"
    /\ CanAdvance(w)
    /\ RowFree
    /\ asked # {}
    /\ \A c \in asked : approvals[c] = "none"
    /\ run' = WrittenBack(w, "pending_tool_approval", run.plan,
                          "awaiting_tools", asked)
    /\ approvals' = [c \in Calls |-> IF c \in asked THEN "pending"
                                                    ELSE approvals[c]]
    /\ disk' = [disk EXCEPT !.checkouts = TRUE]
    /\ TaskEnds(w)
    /\ UNCHANGED <<broker, rowLock, request, pullRequest, faults, holder>>

\* The same, with the integrated result ready for the final decision.
SavePausedForFinal(w) ==
    /\ worker[w].step = "coordinating"
    /\ CanAdvance(w)
    /\ RowFree
    /\ run' = WrittenBack(w, "pending_final_approval", run.plan,
                          "awaiting_final", {})
    /\ disk' = [disk EXCEPT !.checkouts = TRUE]
    /\ TaskEnds(w)
    /\ UNCHANGED <<broker, approvals, rowLock, request, pullRequest, faults, holder>>

\* Mutant: the failure is recorded under a status WorkflowRunStatus lacks.
UnknownFailedStatus == "error"

\* Mutant: the failure is only logged, and the run stays as it was claimed.
StatusAsClaimed == "processing"

\* WorkflowRunStatus.Failed.
FailedStatus == "failed"

\* _fail_workflow from a task: the clone, the planner or the coordinator raised
\* or timed out, or an approval was still undecided.
FailWorkflow(w) ==
    /\ worker[w].step \in {"workspace", "planning", "reading", "coordinating"}
    /\ RowFree
    /\ run' = WrittenBack(w, FailedStatus, run.plan, run.stage, run.calls)
    /\ TaskEnds(w)
    /\ UNCHANGED <<broker, outside, approvals, rowLock, request, faults, holder>>

\* Mutant: the message was acknowledged when it was received.
MessageLost == messages

\* An unacknowledged message is delivered again (task_reject_on_worker_lost).
MessageReturned == messages + 1

\* The worker process dies.  Its claim stays in the row.
WorkerCrash(w) ==
    /\ worker[w].step # "idle"
    /\ faults < MaxFaults
    /\ messages < MaxMessages
    /\ faults' = faults + 1
    /\ messages' = MessageReturned
    /\ TaskEnds(w)
    /\ ClaimOrphaned(w)
    /\ UNCHANGED <<rows, outside, request, requeued>>

\* The task cannot commit, not even its own failure: the database is away, or
\* the 120 s run out inside the commit and leave a session that commits nothing
\* more.  The exception leaves the task, which acknowledges the message (only a
\* lost worker returns it), and the claim stays in the row.
TaskAborts(w) ==
    /\ worker[w].step \in AdvancingSteps
    /\ faults < MaxFaults
    /\ faults' = faults + 1
    /\ TaskEnds(w)
    /\ ClaimOrphaned(w)
    /\ UNCHANGED <<rows, broker, outside, request>>

\* The same before the claim is committed: the run stays as it was.
ClaimFails(w) ==
    /\ ClaimCanFail
    /\ worker[w].step = "delivered"
    /\ faults < MaxFaults
    /\ faults' = faults + 1
    /\ TaskEnds(w)
    /\ UNCHANGED <<rows, broker, outside, request, holder>>

WorkerFault(w) == WorkerCrash(w) \/ TaskAborts(w) \/ ClaimFails(w)

-----------------------------------------------------------------------------
(* The recovery task: workflows.recover_stale, every 60 s *)

\* Mutants: every claim counts as stale; one tick too early; only runs without
\* a claim.
AnyClaim == run.status = "processing"
AlmostStaleClaim == run.status = "processing" /\ run.claimAge >= StaleAfter - 1
MissingClaim == run.status = "processing" /\ run.claimAge = NoClaim

\* The WHERE clause of requeue_stale_workflows.
StaleClaim == run.status = "processing" /\ run.claimAge = StaleAfter

\* requeue_stale_workflows: one UPDATE over the stale claims, committed before
\* any message is sent.
RequeueStaleWorkflows ==
    /\ ~requeued
    /\ RowFree
    /\ StaleClaim
    /\ run' = [run EXCEPT !.status = "queued", !.claimAge = NoClaim]
    /\ requeued' = TRUE
    /\ UNCHANGED <<outside, approvals, rowLock, messages, worker, request,
                   faults, holder>>

\* _recover_stale_workflows_task: enqueue_workflow for the run it requeued.
EnqueueRequeued ==
    /\ requeued
    /\ messages < MaxMessages
    /\ messages' = messages + 1
    /\ requeued' = FALSE
    /\ UNCHANGED <<rows, outside, worker, request, faults, holder>>

\* The recovery task dies between its commit and its message.
RecoveryCrash ==
    /\ ApiCanCrash
    /\ requeued
    /\ faults < MaxFaults
    /\ faults' = faults + 1
    /\ requeued' = FALSE
    /\ UNCHANGED <<rows, outside, messages, worker, request, holder>>

-----------------------------------------------------------------------------
(* Requests *)

\* Without DoubleSubmit no two requests in progress ask for the same thing.
\* The dashboard disables its buttons while it waits; a second tab, a retry of
\* the HTTP client or another reviewer does not know.
Unrivalled(steps, call) ==
    DoubleSubmit \/ \A q \in Requests : ~(request[q].step \in steps
                                          /\ request[q].call = call)

\* create_run, create_github_run: the row is committed before it is enqueued.
CreateRun(q, issue) ==
    /\ request[q].step = "idle"
    /\ run.status = "absent"
    /\ run' = [run EXCEPT !.status = "queued", !.issue = issue]
    /\ Proceed(q, "enqueue")
    /\ UNCHANGED <<broker, outside, approvals, rowLock, worker, faults, holder>>

\* enqueue_workflow and the response, after the commit of create_run,
\* approve_plan or the last decide_approval.
EnqueueWorkflow(q) ==
    /\ request[q].step = "enqueue"
    /\ messages < MaxMessages
    /\ messages' = messages + 1
    /\ Respond(q)
    /\ UNCHANGED <<rows, outside, worker, requeued, faults, holder>>

\* approve_plan reads the run; any other status is a 409 that changes nothing.
ApprovePlanRead(q) ==
    /\ request[q].step = "idle"
    /\ Unrivalled({"approve_commit"}, NoCall)
    /\ run.status = "pending_plan_approval"
    /\ Proceed(q, "approve_commit")
    /\ UNCHANGED <<rows, broker, outside, worker, faults, holder>>

\* approve_plan commits; the status it read is not checked again.
ApprovePlanCommit(q) ==
    /\ request[q].step = "approve_commit"
    /\ RowFree
    /\ run' = [run EXCEPT !.status = "queued"]
    /\ Proceed(q, "enqueue")
    /\ UNCHANGED <<broker, outside, approvals, rowLock, worker, faults, holder>>

Undecided(c) == approvals[c] = "pending"

\* decide_approval reads the approval; a decided one is an error.
DecideReadApproval(q, c, d) ==
    /\ request[q].step = "idle"
    /\ Unrivalled(DecideSteps, c)
    /\ Undecided(c)
    /\ request' = [request EXCEPT ![q].step = "decide_run", ![q].call = c,
                                  ![q].decision = d]
    /\ UNCHANGED <<rows, broker, outside, worker, faults, holder>>

\* decide_approval reads the run in a later statement.
DecideReadRun(q) ==
    /\ request[q].step = "decide_run"
    /\ \/ /\ run.status = "pending_tool_approval"
          /\ Proceed(q, "decide_flush")
       \/ /\ run.status # "pending_tool_approval"
          /\ Respond(q)
    /\ UNCHANGED <<rows, broker, outside, worker, faults, holder>>

\* decide_approval flushes: updated_at and the decision are written but not
\* committed, and the run row stays locked until the transaction ends.
DecideFlush(q) ==
    /\ request[q].step = "decide_flush"
    /\ RowFree
    /\ rowLock' = q
    /\ Proceed(q, "decide_count")
    /\ UNCHANGED <<broker, outside, run, approvals, worker, faults, holder>>

\* Mutant: every decision queues the run.
AlwaysLast(q) == TRUE

\* pending_count is 0 for the transaction of q, which sees its own decision.
NoneLeft(q) == Pending(approvals) \ {request[q].call} = {}

\* decide_approval counts the pending approvals: what others have committed and
\* its own decision.
DecideCount(q) ==
    /\ request[q].step = "decide_count"
    /\ request' = [request EXCEPT
            ![q].step = "decide_commit",
            ![q].last = NoneLeft(q)]
    /\ UNCHANGED <<rows, broker, outside, worker, faults, holder>>

\* Mutant: the last decision queues the run and tells no worker.
NothingToDo == IdleRequest

\* _decide_tool_approval goes on to enqueue the run it found queued.
RunToEnqueue == [IdleRequest EXCEPT !.step = "enqueue"]

\* decide_approval commits its decision, with the status when it was the last
\* one.
DecideCommit(q) ==
    /\ request[q].step = "decide_commit"
    /\ approvals' = [approvals EXCEPT ![request[q].call] = request[q].decision]
    /\ rowLock' = NoRequest
    /\ \/ /\ request[q].last
          /\ run' = [run EXCEPT !.status = "queued"]
          /\ request' = [request EXCEPT ![q] = RunToEnqueue]
       \/ /\ ~request[q].last
          /\ run' = run
          /\ Respond(q)
    /\ UNCHANGED <<broker, outside, worker, faults, holder>>

-----------------------------------------------------------------------------
(* Requests: the final decision *)

AwaitsFinalDecision == run.status = "pending_final_approval"

\* finalize_run reads the run, with its agent_state.
FinalizeRead(q, approved) ==
    /\ request[q].step = "idle"
    /\ Unrivalled(FinalizeSteps, NoCall)
    /\ AwaitsFinalDecision
    /\ request' = [request EXCEPT ![q].step = "finalize_git",
                                  ![q].approved = approved,
                                  ![q].stage = run.stage]
    /\ UNCHANGED <<rows, broker, outside, worker, faults, holder>>

\* Mutant: a checkout that is already gone counts as removed.
CheckoutsOptional(q) == request[q].stage = "awaiting_final"

\* What finalize_coordinator needs before it can remove anything.
CheckoutsPresent(q) ==
    request[q].stage = "awaiting_final" /\ disk.workspace /\ disk.checkouts

\* finalize_workflow up to its first await: the workspace is cloned again when
\* it is gone, and finalize_coordinator removes the checkouts the saved state
\* names.  A checkout that is not there is an error.
FinalizeGit(q) ==
    /\ request[q].step = "finalize_git"
    /\ \/ /\ CheckoutsPresent(q)
          /\ disk' = [disk EXCEPT !.checkouts = FALSE]
          /\ Proceed(q, IF request[q].approved /\ run.issue
                          THEN "finalize_publish" ELSE "finalize_save")
       \/ /\ \E cloned \in {disk.workspace, TRUE}, left \in {disk.checkouts, FALSE} :
                disk' = [workspace |-> cloned, checkouts |-> left]
          /\ Proceed(q, "finalize_fail")
    /\ UNCHANGED <<rows, broker, worker, pullRequest, faults, holder>>

\* The pull request is created and its URL arrives, is created but the reply is
\* lost, or is not created.
PublishOutcomes == {[created |-> TRUE,  next |-> "finalize_save"],
                    [created |-> TRUE,  next |-> "finalize_fail"],
                    [created |-> FALSE, next |-> "finalize_fail"]}

\* publish_draft_pull_request in a thread: push, then POST.  GitHub refuses a
\* second pull request for the same branch.
FinalizePublish(q) ==
    /\ request[q].step = "finalize_publish"
    /\ \E outcome \in PublishOutcomes :
          /\ outcome.created => ~pullRequest
          /\ pullRequest' = (pullRequest \/ outcome.created)
          /\ Proceed(q, outcome.next)
    /\ UNCHANGED <<rows, broker, worker, disk, faults, holder>>

\* _save_coordinator_execution with the stage COMPLETED or REJECTED.
FinalizeSave(q) ==
    /\ request[q].step = "finalize_save"
    /\ RowFree
    /\ run' = [run EXCEPT
            !.status = IF request[q].approved THEN "completed" ELSE "cancelled",
            !.stage  = IF request[q].approved THEN "completed" ELSE "rejected",
            !.calls  = {}]
    /\ \/ /\ request[q].approved /\ ~run.issue
          /\ Respond(q)
       \/ /\ ~request[q].approved \/ run.issue
          /\ Proceed(q, "finalize_discard")
    /\ UNCHANGED <<broker, outside, approvals, rowLock, worker, faults, holder>>

\* remove_workspace after a rejection or a publication; a failure is logged.
FinalizeDiscard(q) ==
    /\ request[q].step = "finalize_discard"
    /\ \/ disk' = [workspace |-> FALSE, checkouts |-> FALSE]
       \/ disk' = disk
    /\ Respond(q)
    /\ UNCHANGED <<rows, broker, worker, pullRequest, faults, holder>>

\* _fail_workflow from finalize_workflow, whatever the row says by now.
FinalizeFail(q) ==
    /\ request[q].step = "finalize_fail"
    /\ RowFree
    /\ run' = [run EXCEPT !.status = "failed"]
    /\ Respond(q)
    /\ UNCHANGED <<broker, outside, approvals, rowLock, worker, faults, holder>>

\* A transaction of a request fails, or its message does where the API may fail
\* there: it is rolled back, its lock released, and the client gets a 500.
RequestFails(q) ==
    /\ \/ request[q].step \in {"approve_commit", "finalize_fail"} \cup DecideSteps
       \/ request[q].step = "enqueue" /\ ApiCanCrash
    /\ faults < MaxFaults
    /\ faults' = faults + 1
    /\ rowLock' = IF rowLock = q THEN NoRequest ELSE rowLock
    /\ Respond(q)
    /\ UNCHANGED <<broker, outside, run, approvals, worker, holder>>

\* finalize_workflow cannot save the terminal stage and records a failure.
FinalizeSaveFails(q) ==
    /\ request[q].step = "finalize_save"
    /\ faults < MaxFaults
    /\ faults' = faults + 1
    /\ Proceed(q, "finalize_fail")
    /\ UNCHANGED <<rows, broker, outside, worker, holder>>

RequestFault(q) == RequestFails(q) \/ FinalizeSaveFails(q)

\* The API process dies: open transactions are rolled back, their locks
\* released, and what a request had still to do is not done.
ApiCrash ==
    /\ ApiCanCrash
    /\ faults < MaxFaults
    /\ \E q \in Requests : request[q].step # "idle"
    /\ faults' = faults + 1
    /\ request' = [q \in Requests |-> IdleRequest]
    /\ rowLock' = NoRequest
    /\ UNCHANGED <<broker, outside, run, approvals, worker, holder>>

-----------------------------------------------------------------------------
(* Time and the specification *)

\* Time passes: claims and tasks grow older.  A live task ends its work before
\* MaxRunTime: asyncio.timeout and the subprocess timeouts bound it.
Tick ==
    /\ \A w \in Workers :
            worker[w].step \in AdvancingSteps => worker[w].age < MaxRunTime
    /\ \/ run.claimAge \in 0..(StaleAfter - 1)
       \/ \E w \in Workers : worker[w].step \in AdvancingSteps
    /\ run' = [run EXCEPT !.claimAge =
                    IF run.claimAge \in 0..(StaleAfter - 1)
                      THEN run.claimAge + 1 ELSE run.claimAge]
    /\ worker' = [w \in Workers |->
                    IF worker[w].step \in AdvancingSteps
                      THEN [worker[w] EXCEPT !.age = worker[w].age + 1]
                      ELSE worker[w]]
    /\ UNCHANGED <<broker, outside, approvals, rowLock, request, faults, holder>>

SavePausedForSomeTools(w) == \E asked \in SUBSET Calls : SavePausedForTools(w, asked)

WorkerStep(w) ==
    \/ DeliverMessage(w)
    \/ ClaimQueuedWorkflow(w)
    \/ LoadClaimedRun(w)
    \/ PrepareWorkspace(w)
    \/ SaveWorkflowPlan(w)
    \/ ReadResolutions(w)
    \/ SavePausedForSomeTools(w)
    \/ SavePausedForFinal(w)
    \/ FailWorkflow(w)

\* A request that has begun and goes on by itself.
RequestStep(q) ==
    \/ EnqueueWorkflow(q)
    \/ ApprovePlanCommit(q)
    \/ DecideReadRun(q)
    \/ DecideFlush(q)
    \/ DecideCount(q)
    \/ DecideCommit(q)
    \/ FinalizeGit(q)
    \/ FinalizePublish(q)
    \/ FinalizeSave(q)
    \/ FinalizeDiscard(q)
    \/ FinalizeFail(q)

\* A person submits something.
Submit(q) ==
    \/ \E issue \in BOOLEAN : CreateRun(q, issue)
    \/ ApprovePlanRead(q)
    \/ \E c \in Calls, d \in Decisions : DecideReadApproval(q, c, d)
    \/ \E approved \in BOOLEAN : FinalizeRead(q, approved)

Next ==
    \/ \E w \in Workers : WorkerStep(w) \/ WorkerFault(w)
    \/ DuplicateMessage
    \/ RequeueStaleWorkflows
    \/ EnqueueRequeued
    \/ RecoveryCrash
    \/ \E q \in Requests : Submit(q) \/ RequestStep(q) \/ RequestFault(q)
    \/ ApiCrash
    \/ Tick

Spec == Init /\ [][Next]_vars

(***************************************************************************)
(* The worker and API processes keep running the coroutines they started,  *)
(* beat keeps scheduling the recovery task, and time passes.  Nobody is    *)
(* obliged to submit anything, and no process is obliged to crash.         *)
(***************************************************************************)
Fairness ==
    /\ \A w \in Workers : WF_vars(WorkerStep(w))
    /\ \A q \in Requests : WF_vars(RequestStep(q))
    /\ WF_vars(RequeueStaleWorkflows)
    /\ WF_vars(EnqueueRequeued)
    /\ WF_vars(Tick)

FairSpec == Spec /\ Fairness

-----------------------------------------------------------------------------
(* Properties *)

Advancing(w) == worker[w].step \in AdvancingSteps
Finalizing(q) == request[q].step \in FinalizeSteps

\* A run that waits for tool approvals has one left to decide.  Two reviewers
\* who decide the last two approvals at the same time must not each see the
\* other's as pending: then nobody would queue the run and no further decision
\* could ever arrive (decide_approval's flush before its count).
PendingRunHasPendingApproval ==
    run.status = "pending_tool_approval" => Pending(approvals) # {}

\* A Processing run belongs to the task that claimed it last: that task is still
\* at work and will write another status, or it died and only recovery is left
\* to requeue the run.  Tasks whose claim has been taken over, and whose session
\* holds an older row, may still write to it: they never leave it Processing
\* with nobody at work (Flushed, and the statuses the commits write).
ProcessingIsHeld ==
    run.status = "processing" =>
        \/ holder = NoWorker
        \/ /\ holder \in Workers
           /\ Advancing(holder)
           /\ \/ worker[holder].step = "loading"
              \/ worker[holder].loaded.status = "processing"

\* A queued run will be picked up: a message for it waits, a task has one in
\* hand and has not yet tried to claim, or whoever queued it is about to send
\* one.  requeue_stale_workflows does not look at Queued rows, so a commit and
\* a message in the wrong order would strand the run.
QueuedIsDeliverable ==
    run.status = "queued" =>
        \/ messages > 0
        \/ \E w \in Workers : worker[w].step = "delivered"
        \/ \E q \in Requests : request[q].step = "enqueue"
        \/ requeued

\* Two tasks never advance the same run at once (DESIGN_DOC.md "the same run is
\* not advanced twice concurrently"), through crashes, redelivered and duplicate
\* messages and stale-claim recovery.
OneTaskAdvances ==
    \A v, w \in Workers : Advancing(v) /\ Advancing(w) => v = w

\* While a task works, the row still says so: nobody requeues, decides or fails
\* a run under a task that is still working on it.
AdvancingTaskHoldsClaim ==
    \A w \in Workers :
        Advancing(w) => /\ run.status = "processing"
                        /\ run.claimAge = worker[w].age

\* A run that is queued or being processed again after a pause has every
\* decision its saved agents need; otherwise _saved_approval_resolutions or
\* resume_worker would fail the whole run.
ResumedRunIsDecided ==
    run.status \in {"queued", "processing"} /\ run.stage = "awaiting_tools"
        => /\ run.calls # {}
           /\ \A c \in run.calls : approvals[c] \in Decisions

\* The agents are resumed with the decisions the table shows: what a reviewer
\* can read in the approval row is what the worker acted on.
AgentsActOnRecordedDecisions ==
    \A w \in Workers : worker[w].step = "coordinating" =>
        \A c \in worker[w].loaded.calls : worker[w].resolutions[c] = approvals[c]

\* "The workflow stopped before publication." (what the dashboard says of a
\* Failed run).
FailedIsUnpublished ==
    run.status = "failed" => ~pullRequest

\* A run never stays with the machines: whatever crashes, it comes back to a
\* person or reaches a terminal status.
AutomaticStatesEnd ==
    run.status \in {"queued", "processing"}
        ~> run.status \notin {"queued", "processing"}
=============================================================================
