----------------------------- MODULE Publication -----------------------------
(***************************************************************************)
(* One run from its objective, or a GitHub issue, to its result on a       *)
(* branch, or a draft pull request (services/github.py, create_run,        *)
(* create_github_run and finalize_workflow): what is read at intake, what  *)
(* is removed and sent after the final decision, call by call, while       *)
(* answers get lost, the process dies and the repository is renamed.       *)
(* GitHub is external: a renamed repository answers GET and git under its  *)
(* former names too, and redirects a POST, which urllib does not follow.   *)
(*                                                                         *)
(* Module Workflow has the run's other states and rival requests; here one *)
(* request at a time finalizes it.                                         *)
(***************************************************************************)
EXTENDS Naturals

CONSTANTS
    Names,         \* names the repository has had or may get
    NoName,
    MaxRenames,    \* bound: how often it is renamed
    MaxCrashes     \* bound: how often the API process dies

VARIABLES
    github,     \* the repository and what the run has made in it
    intake,     \* the issue context being loaded
    run,        \* the row of the run
    step,       \* where the request is
    request,    \* the final decision being applied
    local,      \* what the managed workspace holds
    history     \* renames, crashes and rejections; no code reads it

vars == <<github, intake, run, step, request, local, history>>

----------------------------------------------------------------------------

Statuses == {"none", "working", "pending_final_approval",
             "completed", "cancelled", "failed"}

Steps == {"idle", "issue", "repository", "create", "remove", "check", "push",
          "post", "save", "fail", "discard"}

\* created counts the pull requests a POST of this run has asked for.
GitHubStates ==
    [name: Names, former: SUBSET Names, pushed: BOOLEAN, created: Nat]

Intakes == [issue: Names \cup {NoName}, clone: Names \cup {NoName}]

Runs == [status: Statuses,
         issue: Names \cup {NoName},     \* in issue_url; NoName: null
         clone: Names \cup {NoName},     \* in repository_target.clone_url
         url: BOOLEAN]                   \* pull_request_url is set

Requests == [approved: BOOLEAN,
             discard: BOOLEAN]     \* remove_managed_workspace

LocalStates == [workspace: BOOLEAN, worktrees: BOOLEAN, branch: BOOLEAN]

TypeOK ==
    /\ github \in GitHubStates
    /\ intake \in Intakes
    /\ run \in Runs
    /\ step \in Steps
    /\ request \in Requests
    /\ local \in LocalStates
    /\ history \in [renames: 0..MaxRenames, crashes: 0..MaxCrashes,
                    rejected: BOOLEAN]

NoIntake == [issue |-> NoName, clone |-> NoName]

NoDecision == [approved |-> FALSE, discard |-> FALSE]

Init ==
    /\ \E name \in Names, former \in SUBSET Names :
          /\ name \notin former
          /\ github = [name |-> name, former |-> former, pushed |-> FALSE,
                       created |-> 0]
    /\ intake = NoIntake
    /\ run = [status |-> "none", issue |-> NoName, clone |-> NoName,
              url |-> FALSE]
    /\ step = "idle"
    /\ request = NoDecision
    /\ local = [workspace |-> FALSE, worktrees |-> FALSE, branch |-> FALSE]
    /\ history = [renames |-> 0, crashes |-> 0, rejected |-> FALSE]

Goto(next) == step' = next

----------------------------------------------------------------------------
(* Intake: create_github_run and load_issue_context.                       *)

KnownNames == {github.name} \cup github.former

\* parse_issue_url: a person gives the URL of an issue.
SubmitIssue ==
    /\ step = "idle"
    /\ run.status = "none"
    /\ \E name \in Names : intake' = [NoIntake EXCEPT !.issue = name]
    /\ Goto("issue")
    /\ UNCHANGED <<github, run, request, local, history>>

\* The request is answered with 502 and nothing is kept.
IntakeFails ==
    /\ step \in {"issue", "repository"}
    /\ Goto("idle")
    /\ intake' = NoIntake
    /\ UNCHANGED <<github, run, request, local, history>>

\* GET of the issue, under whatever name the person knows.
GetIssue ==
    /\ step = "issue"
    /\ intake.issue \in KnownNames
    /\ Goto("repository")
    /\ UNCHANGED <<github, intake, run, request, local, history>>

\* GET of the repository: its clone_url has the name it has now.
GetRepository ==
    /\ step = "repository"
    /\ intake.issue \in KnownNames
    /\ intake' = [intake EXCEPT !.clone = github.name]
    /\ Goto("create")
    /\ UNCHANGED <<github, run, request, local, history>>

CreateGithubRun ==
    /\ step = "create"
    /\ run' = [run EXCEPT !.status = "working", !.issue = intake.issue,
                          !.clone = intake.clone]
    /\ intake' = NoIntake
    /\ Goto("idle")
    /\ UNCHANGED <<github, request, local, history>>

\* create_run: an objective and a repository without an issue.
CreateRun ==
    /\ step = "idle"
    /\ run.status = "none"
    /\ run' = [run EXCEPT !.status = "working"]
    /\ UNCHANGED <<github, intake, step, request, local, history>>

\* Everything up to the final pause, or to a failure, is module Coordinator.
ReachFinalPause ==
    /\ run.status = "working"
    /\ \E status \in {"pending_final_approval", "failed"} :
          run' = [run EXCEPT !.status = status]
    /\ local' = [workspace |-> TRUE, worktrees |-> TRUE, branch |-> TRUE]
    /\ UNCHANGED <<github, intake, step, request, history>>

----------------------------------------------------------------------------
(* Publication: finalize_workflow and publish_draft_pull_request.          *)

\* Mutant: the workspace is given up after every decision.
DiscardAlways(approved) == TRUE

\* remove_managed_workspace, before anything is published.
DiscardAtFirst(approved) == ~approved

FinalizeRun(approved) ==
    /\ step = "idle"
    /\ run.status = "pending_final_approval"
    /\ request' = [approved |-> approved, discard |-> DiscardAtFirst(approved)]
    /\ history' = [history EXCEPT !.rejected = @ \/ ~approved]
    /\ Goto("remove")
    /\ UNCHANGED <<github, intake, run, local>>

\* Mutant: worktrees that are gone are taken for removed.
RemoveIfThere == TRUE

CheckoutsPresent == local.worktrees

\* Mutant: every generated branch is deleted.
NoBranchKept == FALSE

\* The result branch stays when it is approved.
BranchKept == request.approved

WorktreesRemoved ==
    [local EXCEPT !.worktrees = FALSE, !.branch = @ /\ BranchKept]

\* Some worktrees are gone, the one of the result may be the last to go.
RemovedInPart == {local, [local EXCEPT !.worktrees = FALSE], WorktreesRemoved}

\* finalize_coordinator.
RemoveWorktrees ==
    /\ step = "remove"
    /\ \/ /\ CheckoutsPresent
          /\ local' = WorktreesRemoved
          /\ Goto(IF request.approved /\ run.issue # NoName
                    THEN "check" ELSE "save")
       \/ /\ local' \in RemovedInPart
          /\ Goto("fail")
    /\ UNCHANGED <<github, intake, run, request, history>>

SameRepository == run.clone = run.issue

\* The token may be missing.
CheckPublishable ==
    /\ step = "check"
    /\ \/ SameRepository /\ Goto("push")
       \/ Goto("fail")
    /\ UNCHANGED <<github, intake, run, request, local, history>>

\* _push_branch, to origin; Git follows a rename.  It may be pushed and the
\* answer lost.
PushBranch ==
    /\ step = "push"
    /\ \/ /\ run.clone \in KnownNames
          /\ local.branch
          /\ github' = [github EXCEPT !.pushed = TRUE]
          /\ Goto("post") \/ Goto("fail")
       \/ /\ Goto("fail")
          /\ UNCHANGED github
    /\ UNCHANGED <<intake, run, request, local, history>>

\* Mutant: HTTP errors are not looked at.
AnyAnswer(created) == TRUE

GoodAnswer(created) == created

\* The POST of the pull request: only under the current name, for a branch
\* that is there, and once.  The answer may be lost.
PostPullRequest ==
    /\ step = "post"
    /\ \E created \in BOOLEAN :
          /\ created =>
                /\ run.issue = github.name
                /\ github.pushed
                /\ github.created = 0
          /\ github' = [github EXCEPT !.created = IF created THEN @ + 1 ELSE @]
          /\ \/ /\ GoodAnswer(created)
                /\ run' = [run EXCEPT !.url = TRUE]
                /\ request' = [request EXCEPT !.discard = TRUE]
                /\ Goto("save")
             \/ /\ Goto("fail")
                /\ UNCHANGED <<run, request>>
    /\ UNCHANGED <<intake, local, history>>

FinalStatus == IF request.approved THEN "completed" ELSE "cancelled"

\* _save_coordinator_execution.
SaveResult ==
    /\ step = "save"
    /\ run' = [run EXCEPT !.status = FinalStatus]
    /\ Goto(IF request.discard THEN "discard" ELSE "idle")
    /\ UNCHANGED <<github, intake, request, local, history>>

\* It raises; a transaction that is rolled back takes the URL with it.
SaveFails ==
    /\ step = "save"
    /\ \E url \in {run.url, FALSE} : run' = [run EXCEPT !.url = url]
    /\ Goto("fail")
    /\ UNCHANGED <<github, intake, request, local, history>>

\* _fail_workflow, which raises: nothing after it is done.
FailRun ==
    /\ step = "fail"
    /\ run' = [run EXCEPT !.status = "failed"]
    /\ Goto("idle")
    /\ UNCHANGED <<github, intake, request, local, history>>

\* remove_workspace, whose own failure is only logged.
RemoveWorkspace ==
    /\ step = "discard"
    /\ local' \in {local, [workspace |-> FALSE, worktrees |-> FALSE,
                           branch |-> FALSE]}
    /\ Goto("idle")
    /\ request' = NoDecision
    /\ UNCHANGED <<github, intake, run, history>>

----------------------------------------------------------------------------
(* Faults.                                                                 *)

Rename ==
    /\ history.renames < MaxRenames
    /\ \E name \in Names \ KnownNames :
          github' = [github EXCEPT !.name = name, !.former = KnownNames]
    /\ history' = [history EXCEPT !.renames = @ + 1]
    /\ UNCHANGED <<intake, run, step, request, local>>

\* What the row has not been given by a commit is forgotten; a removal may be
\* left half done.
Crash ==
    /\ step # "idle"
    /\ history.crashes < MaxCrashes
    /\ history' = [history EXCEPT !.crashes = @ + 1]
    /\ step' = "idle"
    /\ intake' = NoIntake
    /\ request' = NoDecision
    /\ run' = [run EXCEPT !.url = @ /\ run.status = "completed"]
    /\ local' \in IF step = "remove" THEN RemovedInPart ELSE {local}
    /\ UNCHANGED github

Next ==
    \/ SubmitIssue \/ IntakeFails \/ GetIssue \/ GetRepository
    \/ CreateGithubRun \/ CreateRun \/ ReachFinalPause
    \/ \E approved \in BOOLEAN : FinalizeRun(approved)
    \/ RemoveWorktrees \/ CheckPublishable \/ PushBranch \/ PostPullRequest
    \/ SaveResult \/ SaveFails \/ FailRun \/ RemoveWorkspace
    \/ Rename \/ Crash

Spec == Init /\ [][Next]_vars

----------------------------------------------------------------------------
(* Properties.                                                             *)

\* What a person is told of an ended run is what GitHub has: Completed means
\* one pull request whose URL the row has if the run came from an issue, and
\* nothing pushed if it did not; Cancelled that nothing was pushed, after
\* whatever crash in the middle of an approval the rejection came.
OutcomeIsTrue ==
    /\ run.status = "completed" /\ run.issue # NoName =>
          run.url /\ github.created = 1 /\ github.pushed
    /\ run.status = "cancelled" \/ run.issue = NoName =>
          ~github.pushed /\ github.created = 0

\* A result nobody has rejected is not lost: its branch is on GitHub or in the
\* managed workspace, when the finalization fails or dies anywhere in removing,
\* publishing and saving, and when it is asked for again.  An approved result
\* is there in any case, also after a rejection that did not get through.
ResultIsNotLost ==
    LET decided == run.status = "completed"
        open    == run.status \in {"pending_final_approval", "failed"}
    IN  decided \/ (open /\ ~history.rejected) => github.pushed \/ local.branch

\* A finalization that is asked for again after the process died publishes
\* nothing again: each branch is pushed by one request only.
OnePublication ==
    [][step = "check" /\ step' = "push" => ~github.pushed]_vars
=============================================================================
