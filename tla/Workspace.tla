------------------------------ MODULE Workspace ------------------------------
(***************************************************************************)
(* The managed workspace of one workflow run (repository/workspaces.py):   *)
(* the directory a task makes, the git clone it starts in there, the       *)
(* checks a later task makes before it reuses what it finds, and what a    *)
(* timeout, a failing remote or a dead process leaves for them to find.    *)
(*                                                                         *)
(* Workflow has one task at a time advance the run; a clone whose task     *)
(* died may still be running beside the next one.                          *)
(***************************************************************************)
EXTENDS Integers

CONSTANTS
    Base,               \* target.base_branch
    DefaultBranches,    \* branches git may give a repository without commits
    EnclosingBranches,  \* branches a checkout around managed_root may be on
    NoBranch,           \* there is no such checkout
    MaxCrashes          \* bound: processes that die

VARIABLES
    root,         \* workflow_root exists
    repository,   \* how far the clone in workflow_root/repository has come
    worktrees,    \* workflow_root/worktrees exists
    clone,        \* the git clone process
    outside,      \* what Git answers where the clone has nothing to answer
    task,         \* what the task that advances the run is doing
    fresh,        \* it has made workflow_root itself
    run,          \* whether the run is still advanced
    relied,       \* some task has been given the workspace
    crashes       \* processes that have died so far

vars == <<root, repository, worktrees, clone, outside, task, fresh, run, relied,
          crashes>>

tree == <<root, repository, worktrees>>

-----------------------------------------------------------------------------

\* The stages of a clone: a directory, a repository without commits in it, the
\* base branch with its files on their way, the whole checkout.
Clones == {"absent", "directory", "unborn", "partial", "complete"}

TaskSteps == {"away", "starting", "spawning", "cloning", "removing",
              "is_dir", "is_inside", "on_branch", "worktrees", "ready"}

\* init.defaultBranch, and the checkout around managed_root: by default the
\* root is inside the application's own (config.py).
Outsides == [default: DefaultBranches, enclosing: EnclosingBranches]

TypeOK ==
    /\ root \in BOOLEAN
    /\ repository \in Clones
    /\ worktrees \in BOOLEAN
    /\ clone \in {"none", "running", "orphan"}
    /\ outside \in Outsides
    /\ task \in TaskSteps
    /\ fresh \in BOOLEAN
    /\ run \in {"open", "failed", "finished"}
    /\ relied \in BOOLEAN
    /\ crashes \in 0..MaxCrashes

Init ==
    /\ root = FALSE
    /\ repository = "absent"
    /\ worktrees = FALSE
    /\ clone = "none"
    /\ outside \in Outsides
    /\ task = "away"
    /\ fresh = FALSE
    /\ run = "open"
    /\ relied = FALSE
    /\ crashes = 0

\* prepare_workspace raises: the run is Failed and nobody advances it again.
Raise ==
    /\ task' = "away"
    /\ run' = "failed"
    /\ UNCHANGED <<outside, fresh, relied, crashes>>

\* prepare_workspace goes on.
Continue(step) ==
    /\ task' = step
    /\ UNCHANGED <<outside, run, fresh, relied, crashes>>

-----------------------------------------------------------------------------
(* A task comes for the workspace.                                         *)

\* advance_workflow or finalize_workflow, after a claim or a final decision.
LoadWorkspace ==
    /\ task = "away"
    /\ run = "open"
    /\ task' = "starting"
    /\ fresh' = FALSE
    /\ UNCHANGED <<tree, clone, outside, run, relied, crashes>>

\* Mutant: whatever is there is cloned over.
NothingThere == TRUE

NoWorkspaceYet == ~root

MakeRoot ==
    /\ task = "starting"
    /\ NoWorkspaceYet
    /\ root' = TRUE
    /\ task' = "spawning"
    /\ fresh' = TRUE
    /\ UNCHANGED <<repository, worktrees, clone, outside, run, relied, crashes>>

ReuseRoot ==
    /\ task = "starting"
    /\ ~NoWorkspaceYet
    /\ Continue("is_dir")
    /\ UNCHANGED <<tree, clone>>

StartClone ==
    /\ task = "spawning"
    /\ clone' = "running"
    /\ Continue("cloning")
    /\ UNCHANGED tree

-----------------------------------------------------------------------------
(* The clone, a process of its own.                                        *)

CloneProceeds ==
    /\ clone # "none"
    /\ \/ repository = "absent"    /\ repository' = "directory"
       \/ repository = "directory" /\ repository' = "unborn"
       \/ repository = "unborn"    /\ repository' = "partial"
       \/ repository = "partial"   /\ repository' = "complete"
    /\ UNCHANGED <<root, worktrees, clone, outside, task, fresh, run, relied,
                   crashes>>

\* Git removes what it has made, unless only the checkout has failed.
AfterFailedClone ==
    IF repository \in {"partial", "complete"} THEN repository ELSE "absent"

CloneSucceeds ==
    /\ task = "cloning"
    /\ repository = "complete"
    /\ clone' = "none"
    /\ Continue("worktrees")
    /\ UNCHANGED tree

\* Mutant: the exit code is not looked at.
ExitCodeIgnored == "worktrees"

WhenCloneFailed == "removing"

\* The remote or the disk fails, and Git reports it.
CloneFails ==
    /\ task = "cloning"
    /\ clone' = "none"
    /\ repository' = AfterFailedClone
    /\ Continue(WhenCloneFailed)
    /\ UNCHANGED <<root, worktrees>>

\* shutil.rmtree(workflow_root), then RuntimeError.
RemoveFailedClone ==
    /\ task = "removing"
    /\ root' = FALSE
    /\ repository' = "absent"
    /\ worktrees' = FALSE
    /\ Raise
    /\ UNCHANGED clone

\* Mutant: subprocess.run without a timeout.
NoTimeout == FALSE

\* A remote that does not answer holds the clone for 30 s.
TimeIsUp == task = "cloning"

\* subprocess.run kills the clone, which can remove nothing any more, and
\* raises TimeoutExpired; nothing in prepare_workspace handles it.
CloneTimesOut ==
    /\ TimeIsUp
    /\ clone' = "none"
    /\ Raise
    /\ UNCHANGED tree

\* A clone whose task has died ends by itself, well or not.
OrphanEnds ==
    /\ clone = "orphan"
    /\ clone' = "none"
    /\ repository' \in {AfterFailedClone} \cup ({repository} \cap {"complete"})
    /\ UNCHANGED <<root, worktrees, outside, task, fresh, run, relied, crashes>>

-----------------------------------------------------------------------------
(* What a task checks, in a process of its own for each question.          *)

CheckIsDir ==
    /\ task = "is_dir"
    /\ IF repository # "absent" THEN Continue("is_inside") ELSE Raise
    /\ UNCHANGED <<tree, clone>>

\* git rev-parse --is-inside-work-tree looks for a repository upwards from
\* the directory it is started in.
InsideWorkTree ==
    repository # "directory" \/ outside.enclosing # NoBranch

CheckIsInside ==
    /\ task = "is_inside"
    /\ IF repository # "absent" /\ InsideWorkTree
         THEN Continue("on_branch") ELSE Raise
    /\ UNCHANGED <<tree, clone>>

\* git branch --show-current, for a branch without commits too.
CurrentBranch ==
    CASE repository = "directory" -> outside.enclosing
      [] repository = "unborn"    -> outside.default
      [] OTHER                    -> Base

\* Mutant: any repository will do.
AnyBranch == TRUE

OnBaseBranch == CurrentBranch = Base

CheckOnBranch ==
    /\ task = "on_branch"
    /\ IF repository # "absent" /\ OnBaseBranch
         THEN Continue(IF fresh THEN "ready" ELSE "worktrees") ELSE Raise
    /\ UNCHANGED <<tree, clone>>

\* worktree_root.mkdir: before the checks of a clone just made, after those of
\* one that was found.
MakeWorktreeRoot ==
    /\ task = "worktrees"
    /\ worktrees' = TRUE
    /\ Continue(IF fresh THEN "is_dir" ELSE "ready")
    /\ UNCHANGED <<root, repository, clone>>

-----------------------------------------------------------------------------
(* The workspace is used; processes die; the run ends.                     *)

\* The task works in the workspace until its pause and leaves it as it is.
Work ==
    /\ task = "ready"
    /\ task' = "away"
    /\ relied' = TRUE
    /\ run' \in {"open", "failed", "finished"}
    /\ UNCHANGED <<tree, clone, outside, fresh, crashes>>

\* remove_workspace of a run that has been rejected or published.
RemoveWorkspace ==
    /\ run = "finished"
    /\ root
    /\ root' = FALSE
    /\ repository' = "absent"
    /\ worktrees' = FALSE
    /\ UNCHANGED <<clone, outside, task, fresh, run, relied, crashes>>

\* The process dies, alone or with its clone; the run is claimed again.
Crash ==
    /\ task # "away"
    /\ crashes < MaxCrashes
    /\ crashes' = crashes + 1
    /\ task' = "away"
    /\ clone' \in {"none", IF clone = "none" THEN "none" ELSE "orphan"}
    /\ UNCHANGED <<tree, outside, fresh, run, relied>>

\* What the task does by itself, with no need of a remote that answers.
OwnStep ==
    \/ MakeRoot \/ ReuseRoot \/ StartClone \/ CloneTimesOut
    \/ RemoveFailedClone \/ MakeWorktreeRoot
    \/ CheckIsDir \/ CheckIsInside \/ CheckOnBranch

Next ==
    \/ LoadWorkspace \/ OwnStep \/ Work
    \/ CloneProceeds \/ CloneSucceeds \/ CloneFails \/ OrphanEnds
    \/ RemoveWorkspace \/ Crash

Spec == Init /\ [][Next]_vars

\* Local commands end and the clock runs; a remote need not answer.
FairSpec == Spec /\ WF_vars(OwnStep)

-----------------------------------------------------------------------------
(* Properties *)

HasBase == repository \in {"partial", "complete"}

\* A workspace that is handed out has the commits of the base branch, from
\* which create_worktree branches, whatever a dead task or a failing clone left
\* behind.  Without a crash it has all the files too, which the planner reads: a
\* clone that failed or was killed for its timeout is never handed out.  There
\* is one way round it, which _validate_repository_checkout leaves open: what a
\* process left when it died is an empty directory or a repository without
\* commits, and the branch that Git names there is called like the base.
ReadyIsUsable ==
    task = "ready" =>
        \/ HasBase /\ (crashes = 0 => repository = "complete")
        \/ crashes > 0 /\ Base \in {outside.default, outside.enclosing}

\* "A retried task reuses its checkout instead of cloning over active work"
\* (test_workspaces.py:25): while the run goes on, no directory a task has
\* relied on is removed, and no clone in it with the base branch is removed or
\* made again, by a later task or by a clone that outlived its own.
WorkIsKept ==
    [][relied /\ run = "open" =>
          /\ root'
          /\ HasBase => repository' \in {repository, "complete"}]_vars

\* prepare_workspace is synchronous and holds its process, a worker's or the
\* API's event loop: it returns or raises also when the remote never answers.
TaskReturns == task \notin {"away", "ready"} ~> task \in {"away", "ready"}

=============================================================================
