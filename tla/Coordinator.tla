---------------------------- MODULE Coordinator ----------------------------
(***************************************************************************)
(* The coordinator of one workflow run (backend/app/orchestration): the    *)
(* stages it advances through between two pauses, the agents it runs, the  *)
(* Git worktrees it makes, commits, merges and removes, and what is left   *)
(* when the process that advances it dies and another one starts again     *)
(* from the state saved at the last pause.                                 *)
(*                                                                         *)
(* Module Workflow models who may advance the run and when; here exactly   *)
(* one task advances it.  A step of the model ends wherever the process    *)
(* can be killed or cancelled and the difference shows: at each Git        *)
(* command and at each await of an agent.                                  *)
(***************************************************************************)
EXTENDS Integers, FiniteSets

CONSTANTS
    Workstreams,     \* how many workstreams the execution plan has
    MaxFixCycles,    \* MAX_REVIEW_FIX_CYCLES, 3 in the code
    MaxCrashes       \* bound: how often a process is killed

ASSUME WorkstreamsAssumption == Workstreams \in Nat \ {0}
ASSUME FixAssumption == MaxFixCycles \in Nat
ASSUME CrashAssumption == MaxCrashes \in Nat

\* Work records in list order; each has its own worktree, the integration
\* branch has one more.
Works == 1..Workstreams
NoWork == 0
Integration == Workstreams + 1
Trees == 1..Integration

VARIABLES
    state,      \* the CoordinatorExecution in memory
    saved,      \* the one in workflow_runs.agent_state
    task,       \* what is being done for the run
    cursor,     \* index of the loop over records or worktrees
    running,    \* trees in which an agent is at work
    disk,       \* worktrees and generated branches that exist
    git,        \* what the branches and the checkouts hold
    history     \* what was tested, reviewed and finished; no code reads it

vars == <<state, saved, task, cursor, running, disk, git, history>>

----------------------------------------------------------------------------

Stages == {"created", "awaiting_approvals", "work_completed", "integrating",
           "merge_conflict", "merge_repair_awaiting_approvals",
           "merge_repair_completed", "integrated", "review_findings",
           "review_fix_awaiting_approvals", "review_fix_completed",
           "awaiting_final_approval"}

ToolPauses == {"awaiting_approvals", "merge_repair_awaiting_approvals",
               "review_fix_awaiting_approvals"}

PausedStages == ToolPauses \cup {"awaiting_final_approval"}

\* work_execution, repair_execution, fix_execution: absent or with a status.
Executions == {"none", "pending_approval", "completed"}

CoordinatorExecutions ==
    [stage: Stages,
     execution: [Works -> Executions],
     merged: SUBSET Works,             \* records with status MERGED
     integration: BOOLEAN,             \* integration_worktree is set
     conflict: {NoWork} \cup Works,    \* merge_conflict.work_id
     repair: Executions,               \* merge_conflict.repair_execution
     findings: BOOLEAN,                \* review_findings is set
     attempts: 0..MaxFixCycles,        \* review_findings.fix_attempts
     fix: Executions]                  \* review_findings.fix_execution

\* approved and decided are queued: the plan is approved, all tools decided.
TaskStates == {"approved", "decided", "preparing", "working", "advancing",
               "waiting", "publishing", "discarding",
               "completed", "rejected", "failed"}

Finalizing == {"publishing", "discarding"}

DiskStates ==
    [checkouts: SUBSET Trees,    \* worktrees of the current records
     branches: SUBSET Trees,     \* their generated branches
     abandoned: BOOLEAN]         \* worktrees no saved or live state names

GitStates ==
    [dirty: SUBSET Trees,        \* checkouts with uncommitted files
     committed: SUBSET Works,    \* work branches ahead of the base branch
     integrated: SUBSET Works,   \* those wholly on the integration branch
     merging: {NoWork} \cup Works,    \* whose merge is open (MERGE_HEAD)
     markers: BOOLEAN,           \* conflict markers in an unmerged file
     marked: BOOLEAN]            \* a commit has conflict markers

ManyFixes == MaxFixCycles + 1

Histories ==
    [passed: BOOLEAN,            \* combined tests passed on this content
     accepted: BOOLEAN,          \* the reviewer accepted this content
     fixes: 0..ManyFixes,        \* review repairs committed, up to many, but
                                 \* those a crash has left no pause to name
     finished: SUBSET Works,     \* completed in a group that has returned
     crashes: 0..MaxCrashes]

TypeOK ==
    /\ state \in CoordinatorExecutions
    /\ saved \in CoordinatorExecutions
    /\ task \in TaskStates
    /\ cursor \in 1..(Integration + 1)
    /\ running \in SUBSET Trees
    /\ disk \in DiskStates
    /\ git \in GitStates
    /\ history \in Histories

Created ==
    [stage |-> "created",
     execution |-> [w \in Works |-> "none"],
     merged |-> {},
     integration |-> FALSE,
     conflict |-> NoWork,
     repair |-> "none",
     findings |-> FALSE,
     attempts |-> 0,
     fix |-> "none"]

BaseBranch ==
    [dirty |-> {}, committed |-> {}, integrated |-> {},
     merging |-> NoWork, markers |-> FALSE, marked |-> FALSE]

Init ==
    /\ state = Created
    /\ saved = Created
    /\ task = "approved"
    /\ cursor = 1
    /\ running = {}
    /\ disk = [checkouts |-> {}, branches |-> {}, abandoned |-> FALSE]
    /\ git = BaseBranch
    /\ history = [passed |-> FALSE, accepted |-> FALSE, fixes |-> 0,
                  finished |-> {}, crashes |-> 0]

At(stage) == task = "advancing" /\ state.stage = stage

\* Any new content of the integration tree has been neither tested nor read.
Unreviewed == [history EXCEPT !.passed = FALSE, !.accepted = FALSE]

----------------------------------------------------------------------------
(* Starting: prepare_work and execute_new_work.                            *)

\* start_coordinator with no agent_state.  The worktrees of an earlier
\* attempt have ids that nothing has saved.
StartCoordinator ==
    /\ task = "approved"
    /\ task' = "preparing"
    /\ cursor' = 1
    /\ state' = Created
    /\ disk' = [checkouts |-> {}, branches |-> {},
                abandoned |-> disk.abandoned \/ disk.checkouts # {}]
    /\ git' = BaseBranch
    /\ UNCHANGED <<saved, running, history>>

\* create_worktree for the next workstream.
CreateWorktree ==
    /\ task = "preparing"
    /\ cursor \in Works
    /\ disk' = [disk EXCEPT !.checkouts = @ \cup {cursor},
                            !.branches = @ \cup {cursor}]
    /\ cursor' = cursor + 1
    /\ UNCHANGED <<state, saved, task, running, git, history>>

\* The cleanup of both except clauses: in reverse, until a removal raises.
CleanedDownTo(stop) ==
    [disk EXCEPT !.checkouts = @ \cap 1..stop, !.branches = @ \cap 1..stop]

PreparationFails ==
    /\ task = "preparing"
    /\ cursor \in Works
    /\ \E stop \in 0..(cursor - 1) : disk' = CleanedDownTo(stop)
    /\ task' = "failed"
    /\ UNCHANGED <<state, saved, cursor, running, git, history>>

\* execute_new_work: one agent per record, all of them at once.
ExecuteNewWork ==
    /\ task = "preparing"
    /\ cursor \notin Works
    /\ task' = "working"
    /\ running' = Works
    /\ UNCHANGED <<state, saved, cursor, disk, git, history>>

\* An agent raises: the TaskGroup cancels the others, _start_work cleans up.
StartFails ==
    /\ task = "working"
    /\ state.stage = "created"
    /\ running # {}
    /\ \E stop \in 0..Workstreams : disk' = CleanedDownTo(stop)
    /\ task' = "failed"
    /\ running' = {}
    /\ UNCHANGED <<state, saved, cursor, git, history>>

----------------------------------------------------------------------------
(* Agents at work.                                                         *)

\* apply_patch needs an approval, so only a resumed agent has patches to
\* apply; any agent may leave files behind by running the tests.
Resumed(t) ==
    IF t \in Works THEN state.execution[t] = "pending_approval"
                   ELSE state.stage \in ToolPauses

AgentChangesFiles(t) ==
    /\ task = "working"
    /\ t \in running
    /\ \E markers \in {git.markers} \cup
                      (IF t = Integration /\ Resumed(t) THEN {FALSE} ELSE {}) :
          git' = [git EXCEPT !.dirty = @ \cup {t}, !.markers = markers]
    /\ history' = IF t = Integration THEN Unreviewed ELSE history
    /\ UNCHANGED <<state, saved, task, cursor, running, disk>>

\* invoke_worker or resume_worker returns for one record of the group.
WorkerReturns(w, status) ==
    /\ task = "working"
    /\ w \in Works \cap running
    /\ state' = [state EXCEPT !.execution[w] = status]
    /\ running' = running \ {w}
    /\ UNCHANGED <<saved, task, cursor, disk, git, history>>

\* _state_from_work_results, when the group has ended.
StageOfWork(execution) ==
    IF \E w \in Works : execution[w] = "pending_approval"
    THEN "awaiting_approvals" ELSE "work_completed"

WorkReturned ==
    /\ task = "working"
    /\ running = {}
    /\ state' = [state EXCEPT !.stage = StageOfWork(state.execution)]
    /\ history' = [history EXCEPT !.finished = @ \cup
                      {w \in Works : state.execution[w] = "completed"}]
    /\ task' = "advancing"
    /\ cursor' = 1
    /\ UNCHANGED <<saved, running, disk, git>>

\* Mutant: every record is resumed.
AllWork == Works

\* resume_work: of the saved records, those that wait for an approval.
PendingWork == {w \in Works : saved.execution[w] = "pending_approval"}

ResumeWork ==
    /\ task = "decided"
    /\ saved.stage = "awaiting_approvals"
    /\ StageOfWork(saved.execution) = saved.stage
    /\ state' = saved
    /\ running' = PendingWork
    /\ task' = "working"
    /\ UNCHANGED <<saved, cursor, disk, git, history>>

----------------------------------------------------------------------------
(* Integration: commit every work branch, merge each into a new branch.    *)

\* commit_worktree_changes: add everything, commit unless nothing changed.
\* Mutant: without git add --all, new files stay uncommitted.
OnlyTrackedFiles(t) == git

Committed(t) ==
    IF t \notin git.dirty THEN git
    ELSE [git EXCEPT !.dirty = @ \ {t},
                     !.committed = @ \cup ({t} \cap Works),
                     !.integrated = @ \ {t},
                     !.marked = @ \/ (t = Integration /\ git.markers)]

CommitCompletedWork ==
    /\ At("work_completed")
    /\ cursor \in Works
    /\ git' = Committed(cursor)
    /\ cursor' = cursor + 1
    /\ UNCHANGED <<state, saved, task, running, disk, history>>

\* A new uuid4 name: the tree of an attempt that died is left behind.
CreateIntegrationWorktree ==
    /\ At("work_completed")
    /\ cursor \notin Works
    /\ state' = [state EXCEPT !.stage = "integrating", !.integration = TRUE]
    /\ disk' = [checkouts |-> disk.checkouts \cup {Integration},
                branches |-> disk.branches \cup {Integration},
                abandoned |-> disk.abandoned
                              \/ Integration \in disk.checkouts]
    /\ git' = [git EXCEPT !.dirty = @ \ {Integration}, !.integrated = {},
                          !.merging = NoWork, !.markers = FALSE,
                          !.marked = FALSE]
    /\ history' = Unreviewed
    /\ cursor' = 1
    /\ UNCHANGED <<saved, task, running>>

SkipMerged ==
    /\ At("integrating")
    /\ cursor \in state.merged
    /\ cursor' = cursor + 1
    /\ UNCHANGED <<state, saved, task, running, disk, git, history>>

\* merge_worktree_changes exits with 0.
MergeWorktree ==
    /\ At("integrating")
    /\ cursor \in Works \ state.merged
    /\ git' = [git EXCEPT !.integrated = @ \cup {cursor}]
    /\ state' = [state EXCEPT !.merged = @ \cup {cursor}]
    /\ cursor' = cursor + 1
    /\ history' = Unreviewed
    /\ UNCHANGED <<saved, task, running, disk>>

\* Git can only find a conflict when both branches have left the base.
CanConflict(w) ==
    /\ w \in git.committed \ git.integrated
    /\ git.integrated \cap git.committed # {}

\* Mutant: the record is updated before the outcome is read.
ConflictCountedAsMerged ==
    [state EXCEPT !.stage = "merge_conflict", !.conflict = cursor,
                  !.merged = @ \cup {cursor}]

StateInConflict ==
    [state EXCEPT !.stage = "merge_conflict", !.conflict = cursor,
                  !.repair = "none"]

\* A modify/delete conflict leaves an unmerged file without markers.
MergeConflicts ==
    /\ At("integrating")
    /\ cursor \in Works \ state.merged
    /\ CanConflict(cursor)
    /\ \E markers \in BOOLEAN :
          git' = [git EXCEPT !.merging = cursor, !.markers = markers,
                             !.dirty = @ \cup {Integration}]
    /\ state' = StateInConflict
    /\ history' = Unreviewed
    /\ UNCHANGED <<saved, task, cursor, running, disk>>

IntegrationFinished ==
    /\ At("integrating")
    /\ cursor \notin Works
    /\ state' = [state EXCEPT !.stage = "integrated"]
    /\ UNCHANGED <<saved, task, cursor, running, disk, git, history>>

----------------------------------------------------------------------------
(* Merge repair: an agent resolves the one open conflict.                  *)

StartMergeConflictRepair ==
    /\ At("merge_conflict")
    /\ state.conflict # NoWork
    /\ state.repair = "none"
    /\ task' = "working"
    /\ running' = {Integration}
    /\ UNCHANGED <<state, saved, cursor, disk, git, history>>

ResumeMergeConflictRepair ==
    /\ task = "decided"
    /\ saved.stage = "merge_repair_awaiting_approvals"
    /\ saved.conflict # NoWork
    /\ saved.repair = "pending_approval"
    /\ state' = saved
    /\ task' = "working"
    /\ running' = {Integration}
    /\ UNCHANGED <<saved, cursor, disk, git, history>>

\* _state_from_merge_repair_result.
MergeRepairReturns(status) ==
    /\ task = "working"
    /\ running = {Integration}
    /\ state.stage \in {"merge_conflict", "merge_repair_awaiting_approvals"}
    /\ state' = [state EXCEPT
                    !.stage = IF status = "pending_approval"
                              THEN "merge_repair_awaiting_approvals"
                              ELSE "merge_repair_completed",
                    !.repair = status]
    /\ task' = "advancing"
    /\ running' = {}
    /\ UNCHANGED <<saved, cursor, disk, git, history>>

\* Mutant: the files are not searched for markers.
MergeIsOpen == git.merging # NoWork

\* complete_merge_after_conflict refuses files with markers, and Git an
\* open merge that is not there.
MergeCanComplete == git.merging # NoWork /\ ~git.markers

\* _state_from_merge_repair_completed.
CompleteMergeRepair ==
    /\ At("merge_repair_completed")
    /\ MergeCanComplete
    /\ git' = [git EXCEPT !.dirty = @ \ {Integration},
                          !.integrated = @ \cup {git.merging},
                          !.merging = NoWork,
                          !.markers = FALSE,
                          !.marked = @ \/ git.markers]
    /\ state' = [state EXCEPT !.stage = "integrating",
                              !.merged = @ \cup {state.conflict},
                              !.conflict = NoWork, !.repair = "none"]
    /\ history' = Unreviewed
    /\ cursor' = 1
    /\ UNCHANGED <<saved, task, running, disk>>

----------------------------------------------------------------------------
(* Review and bounded repair.                                              *)

\* Mutant: the reviewer has the last word.
ReviewerDecides(passed, accepted) == accepted

\* Failing combined tests outrank the reviewer.
ReviewSucceeds(passed, accepted) == passed /\ accepted

ReviewIntegrationWorktree(passed, accepted) ==
    /\ At("integrated")
    /\ state.integration
    /\ \E leftovers \in {{}, {Integration}} :
          git' = [git EXCEPT !.dirty = @ \cup leftovers]
    /\ history' = [history EXCEPT !.passed = passed, !.accepted = accepted]
    /\ state' = IF ReviewSucceeds(passed, accepted)
                THEN [state EXCEPT !.stage = "awaiting_final_approval",
                                   !.findings = FALSE, !.attempts = 0,
                                   !.fix = "none"]
                ELSE [state EXCEPT !.stage = "review_findings",
                                   !.findings = TRUE, !.fix = "none"]
    /\ UNCHANGED <<saved, task, cursor, running, disk>>

\* Mutant: one attempt too many.
MayFixOnceMore(attempts) == attempts <= MaxFixCycles

MayFixAgain(attempts) == attempts < MaxFixCycles

StartReviewFix ==
    /\ At("review_findings")
    /\ MayFixAgain(state.attempts)
    /\ task' = "working"
    /\ running' = {Integration}
    /\ UNCHANGED <<state, saved, cursor, disk, git, history>>

FixesExhausted ==
    /\ At("review_findings")
    /\ ~MayFixAgain(state.attempts)
    /\ task' = "failed"
    /\ UNCHANGED <<state, saved, cursor, running, disk, git, history>>

\* Mutant: whoever resumes a repair begins to count anew.
RepairBegunAnew == [saved EXCEPT !.attempts = 0]

\* The execution a resumed repair goes on from, its attempts with it.
RepairTakenUp == saved

ResumeReviewFix ==
    /\ task = "decided"
    /\ saved.stage = "review_fix_awaiting_approvals"
    /\ saved.findings
    /\ saved.fix = "pending_approval"
    /\ state' = RepairTakenUp
    /\ task' = "working"
    /\ running' = {Integration}
    /\ UNCHANGED <<saved, cursor, disk, git, history>>

\* Mutant: attempts are never counted.
AttemptsKept(status) == state.attempts

\* _state_from_fix_review_findings_attempt: an attempt counts once the
\* agent has finished, however often it paused on the way.
AttemptsAfter(status) ==
    IF status = "completed" THEN state.attempts + 1 ELSE state.attempts

ReviewFixReturns(status) ==
    /\ task = "working"
    /\ running = {Integration}
    /\ state.stage \in {"review_findings", "review_fix_awaiting_approvals"}
    /\ state' = [state EXCEPT
                    !.stage = IF status = "pending_approval"
                              THEN "review_fix_awaiting_approvals"
                              ELSE "review_fix_completed",
                    !.attempts = AttemptsAfter(status),
                    !.fix = status]
    /\ task' = "advancing"
    /\ running' = {}
    /\ UNCHANGED <<saved, cursor, disk, git, history>>

\* A repair that leaves nothing to commit is an error.
FixHasChanges == Integration \in git.dirty

CompleteReviewFix ==
    /\ At("review_fix_completed")
    /\ FixHasChanges
    /\ git' = Committed(Integration)
    /\ history' = [Unreviewed EXCEPT
                      !.fixes = IF @ < ManyFixes THEN @ + 1 ELSE @]
    /\ state' = [state EXCEPT !.stage = "integrated"]
    /\ UNCHANGED <<saved, task, cursor, running, disk>>

----------------------------------------------------------------------------
(* Pauses, people, failures and crashes.                                   *)

\* _save_coordinator_execution.
SavePause ==
    /\ task = "advancing"
    /\ state.stage \in PausedStages
    /\ saved' = state
    /\ task' = "waiting"
    /\ UNCHANGED <<state, cursor, running, disk, git, history>>

\* Every tool call of the pause is decided and the run queued again.
ToolsDecided ==
    /\ task = "waiting"
    /\ saved.stage \in ToolPauses
    /\ task' = "decided"
    /\ UNCHANGED <<state, saved, cursor, running, disk, git, history>>

\* Mutant: any pause can be finalized.
AtSomePause == saved.stage \in PausedStages

\* finalize_run and finalize_coordinator refuse any other pause.
AwaitsFinalApproval == saved.stage = "awaiting_final_approval"

\* The person's final decision, and with it finalize_coordinator.
StartFinalize(decision) ==
    /\ task = "waiting"
    /\ AwaitsFinalApproval
    /\ task' = decision
    /\ state' = saved
    /\ cursor' = 1
    /\ UNCHANGED <<saved, running, disk, git, history>>

\* Mutant: the integration checkout is forgotten.
WorkTreesOnly == Works

\* finalize_coordinator's loop, and the integration worktree after it.
GeneratedTrees == Trees

\* Git refuses to remove a worktree that is no longer there.
CanRemove(t) == t \in disk.checkouts

RemoveWorktree ==
    /\ task \in Finalizing
    /\ cursor \in GeneratedTrees
    /\ CanRemove(cursor)
    /\ disk' = [disk EXCEPT
                   !.checkouts = @ \ {cursor},
                   !.branches = IF cursor = Integration /\ task = "publishing"
                                THEN @ ELSE @ \ {cursor}]
    /\ cursor' = cursor + 1
    /\ UNCHANGED <<state, saved, task, running, git, history>>

Finalized ==
    /\ task \in Finalizing
    /\ cursor \notin GeneratedTrees
    /\ task' = IF task = "publishing" THEN "completed" ELSE "rejected"
    /\ UNCHANGED <<state, saved, cursor, running, disk, git, history>>

\* An agent, Git, GitHub or a check raises, or the 120 s run out: the run is
\* Failed and whatever is on disk stays there.
Fail ==
    /\ task \in {"working", "advancing"} \cup Finalizing
    /\ task' = "failed"
    /\ running' = {}
    /\ UNCHANGED <<state, saved, cursor, disk, git, history>>

\* The worker process dies; the run is claimed again from what was saved.
Crash ==
    /\ history.crashes < MaxCrashes
    /\ task \in {"preparing", "working", "advancing"}
    /\ history' = [history EXCEPT !.crashes = @ + 1, !.fixes = saved.attempts]
    /\ task' = IF saved.stage = "created" THEN "approved" ELSE "decided"
    /\ state' = saved
    /\ running' = {}
    /\ cursor' = 1
    /\ UNCHANGED <<saved, disk, git>>

\* The API process dies in the middle of a removal; the request is retried.
FinalizeCrash ==
    /\ history.crashes < MaxCrashes
    /\ task \in Finalizing
    /\ history' = [history EXCEPT !.crashes = @ + 1]
    /\ task' = "waiting"
    /\ \E lost \in {{}, {cursor}} :
          disk' = [disk EXCEPT !.checkouts = @ \ lost]
    /\ UNCHANGED <<state, saved, cursor, running, git>>

Statuses == {"pending_approval", "completed"}

\* What a live coordinator does, agents included.
Coordinate ==
    \/ StartCoordinator \/ CreateWorktree \/ PreparationFails
    \/ ExecuteNewWork \/ StartFails \/ WorkReturned \/ ResumeWork
    \/ \E t \in Trees : AgentChangesFiles(t)
    \/ \E w \in Works, status \in Statuses : WorkerReturns(w, status)
    \/ CommitCompletedWork \/ CreateIntegrationWorktree
    \/ SkipMerged \/ MergeWorktree \/ MergeConflicts \/ IntegrationFinished
    \/ StartMergeConflictRepair \/ ResumeMergeConflictRepair
    \/ \E status \in Statuses : MergeRepairReturns(status)
    \/ CompleteMergeRepair
    \/ \E passed, accepted \in BOOLEAN :
          ReviewIntegrationWorktree(passed, accepted)
    \/ StartReviewFix \/ FixesExhausted \/ ResumeReviewFix
    \/ \E status \in Statuses : ReviewFixReturns(status)
    \/ CompleteReviewFix
    \/ SavePause \/ RemoveWorktree \/ Finalized \/ Fail

Decide ==
    \/ ToolsDecided
    \/ \E decision \in Finalizing : StartFinalize(decision)

Next == Coordinate \/ Decide \/ Crash \/ FinalizeCrash

Spec == Init /\ [][Next]_vars

\* The task runs until it returns: asyncio schedules it, and every agent and
\* every Git command has a timeout.
FairSpec == Spec /\ WF_vars(Coordinate)

----------------------------------------------------------------------------
(* Safety.                                                                 *)

Integrated == {"integrated", "review_findings", "review_fix_completed",
               "review_fix_awaiting_approvals", "awaiting_final_approval"}

\* What reaches the review holds the whole work of every workstream: no
\* record is unmerged, no worktree holds an uncommitted change, every
\* commit of every work branch is on the integration branch, and no merge
\* is open.  It must survive conflicts, repairs that pause, and a process
\* that dies anywhere and starts over on a disk it left half way.
NothingLeftOut ==
    state.stage \in Integrated =>
        /\ state.merged = Works
        /\ git.dirty \cap Works = {}
        /\ git.committed \subseteq git.integrated
        /\ git.merging = NoWork

\* What the person is asked to publish passed the combined tests and the
\* independent review, as it is now: nothing changed the integration tree
\* after both ("Tests and independent review passed", WorkflowView.tsx:13).
FinalIsVerified ==
    state.stage = "awaiting_final_approval" =>
        history.passed /\ history.accepted

\* The tests run on the files of the integration tree, the reviewer reads
\* the commits of its branch (git diff base...HEAD): when a review starts
\* the two are the same content.
TestedIsReviewed == At("integrated") => Integration \notin git.dirty

\* No commit on the integration branch contains conflict markers, also when
\* a repair resumes on a tree in which a later merge was left open.
NoMarkersCommitted == ~git.marked

\* A workstream saved as completed is not run again by a resume, in this
\* process or in the one that takes over (DESIGN_DOC.md:505).
SavedWorkIsKept ==
    \A w \in Works : saved.execution[w] = "completed" => w \notin running

\* Review repair is bounded: no pause is saved beyond the bound, and with all
\* pauses of a run the repairs committed stay within the one allowance.  A crash
\* gives back those since the last pause, which that pause does not know of,
\* and none of those before it.
FixesBounded ==
    /\ saved.stage = "review_fix_awaiting_approvals" =>
           saved.attempts < MaxFixCycles
    /\ history.fixes <= MaxFixCycles

\* A run that waits for tool decisions can be taken up by any process: the
\* checkouts its saved state names are on disk and the execution it will
\* resume is saved with it.  A merge to repair is still open, unless a
\* crash made an earlier attempt finish it.
PauseIsResumable ==
    task \in {"waiting", "decided"} /\ saved.stage \in ToolPauses =>
        /\ Works \subseteq disk.checkouts
        /\ saved.integration => Integration \in disk.checkouts
        /\ saved.stage = "awaiting_approvals" =>
               \E w \in Works : saved.execution[w] = "pending_approval"
        /\ saved.stage = "merge_repair_awaiting_approvals" =>
               /\ saved.repair = "pending_approval"
               /\ saved.conflict \in Works \ saved.merged
               /\ history.crashes = 0 => git.merging = saved.conflict
        /\ saved.stage = "review_fix_awaiting_approvals" =>
               saved.findings /\ saved.fix = "pending_approval"

\* A finalized run leaves no worktree and no generated branch but the
\* published one, and no forgotten worktree unless a process died.
FinalizedIsClean ==
    task \in {"completed", "rejected"} =>
        /\ disk.checkouts = {}
        /\ disk.branches = IF task = "completed" THEN {Integration} ELSE {}
        /\ disk.abandoned => history.crashes > 0

\* Every advance ends in a pause or in a terminal state; the loop over
\* conflicts, reviews and repairs cannot go on for ever on its own.
AdvanceEnds ==
    task \in {"approved", "decided"} ~>
        task \in {"waiting", "completed", "rejected", "failed"}

----------------------------------------------------------------------------
(* What the documents say and the code does not do.                        *)

\* backend/README.md:20: "generated worktrees are stored outside the target
\* checkout and are removed at terminal workflow states".  Said here of the
\* integration worktree, which no cleanup but the finalization's removes.
TerminalIsClean ==
    task \in {"completed", "rejected", "failed"} =>
        Integration \notin disk.checkouts

\* README.md:81: "A stopped worker can reload the last completed stage
\* without repeating completed work": a workstream whose worker has
\* finished is never given to a worker again.
FinishedWorkIsNotRepeated ==
    [][\A w \in history.finished : w \in running' => w \in running]_vars

=============================================================================
