---------------------------- MODULE PartsProofs ----------------------------
(***************************************************************************)
(* Theorems about the four parts that MCParts puts side by side: the check *)
(* of a decomposition, a group of agents, the managed workspace and the    *)
(* publication, each for its own specification and any values of its       *)
(* constants.  The properties are those that MCParts names.                *)
(***************************************************************************)
EXTENDS MCParts, WellFoundedInduction, TLAPS

-----------------------------------------------------------------------------
(***************************************************************************)
(* Publication.  What the request being applied knows of GitHub: a branch  *)
(* is pushed only by a request that has found the worktrees and removed    *)
(* them, and nobody puts them back; so a request that gets as far as the   *)
(* push is the first one, and one that gets as far as rejecting a run      *)
(* knows that none has pushed.  Until it is removed with its worktree, the *)
(* branch of the result is in the workspace.                               *)
(***************************************************************************)

FinalSteps == {"remove", "check", "push", "post", "save", "fail"}

StepOK ==
    /\ step \in {"issue", "repository", "create"} => run.status = "none"
    /\ step \in FinalSteps => run.status = "pending_final_approval"
    /\ step = "discard" => run.status \in {"completed", "cancelled"}

PushedOK ==
    /\ run.status \in {"none", "working"} => ~github.pushed
    /\ ~github.pushed => github.created = 0
    /\ run.issue = NoName => ~github.pushed
    /\ run.status = "pending_final_approval" /\ github.pushed => ~local.worktrees
    /\ local.worktrees => local.branch

RequestOK ==
    /\ step = "remove" =>
          (request.discard <=> ~request.approved)
          /\ (~request.approved => history.rejected)
    /\ step \in {"check", "push"} =>
          /\ request.approved /\ run.issue # NoName
          /\ ~github.pushed /\ ~local.worktrees
    /\ step = "post" => /\ request.approved /\ run.issue # NoName
                       /\ github.pushed /\ github.created = 0
    /\ step = "save" =>
          CASE ~request.approved -> ~github.pushed
            [] request.approved /\ run.issue # NoName ->
                  run.url /\ github.created = 1 /\ github.pushed
            [] request.approved /\ run.issue = NoName ->
                  local.branch /\ ~request.discard
    /\ step = "discard" /\ run.status = "completed" => github.pushed

PublicationInv ==
    StepOK /\ PushedOK /\ RequestOK /\ OutcomeIsTrue /\ ResultIsNotLost

LEMMA PublicationInit == Publication!Init => PublicationInv
  BY DEF Publication!Init, PublicationInv, StepOK, PushedOK, RequestOK, FinalSteps,
         OutcomeIsTrue, Publication!OutcomeIsTrue,
         ResultIsNotLost, Publication!ResultIsNotLost

\* What finalize_coordinator leaves, done or in part: no worktree comes back,
\* and the branch stays where the result is approved.
LEMMA RemovedLocal ==
    ASSUME local \in Publication!LocalStates, request \in Publication!Requests,
           NEW left \in {Publication!WorktreesRemoved, local}
                          \cup Publication!RemovedInPart
    PROVE  /\ left \in Publication!LocalStates
           /\ left.worktrees => local.worktrees
           /\ left.branch => local.branch
           /\ request.approved => (left.branch <=> local.branch)
           /\ left = Publication!WorktreesRemoved => ~left.worktrees
<1> DEFINE branch == local.branch /\ request.approved
<1>1. branch \in BOOLEAN
  BY DEF Publication!LocalStates, Publication!Requests
<1>2. \/ left = local \/ left = [local EXCEPT !.worktrees = FALSE]
      \/ left = [local EXCEPT !.worktrees = FALSE, !.branch = branch]
  BY DEF Publication!WorktreesRemoved, Publication!RemovedInPart,
         Publication!BranchKept
<1>3. Publication!WorktreesRemoved =
          [local EXCEPT !.worktrees = FALSE, !.branch = branch]
  BY DEF Publication!WorktreesRemoved, Publication!BranchKept
<1>4. branch => local.branch
  OBVIOUS
<1>5. request.approved => (branch <=> local.branch)
  BY DEF Publication!Requests
<1> HIDE DEF branch
<1> QED BY <1>1, <1>2, <1>3, <1>4, <1>5 DEF Publication!LocalStates

LEMMA RemovedTogether ==
    ASSUME local \in Publication!LocalStates, request \in Publication!Requests,
           local.worktrees => local.branch,
           NEW left \in {Publication!WorktreesRemoved, local}
                          \cup Publication!RemovedInPart
    PROVE  left.worktrees => left.branch
<1> DEFINE branch == local.branch /\ request.approved
<1>1. \/ left = local \/ left = [local EXCEPT !.worktrees = FALSE]
      \/ left = [local EXCEPT !.worktrees = FALSE, !.branch = branch]
  BY DEF Publication!WorktreesRemoved, Publication!RemovedInPart,
         Publication!BranchKept
<1> HIDE DEF branch
<1> QED BY <1>1 DEF Publication!LocalStates

LEMMA PublicationTypes ==
    Publication!Spec => []Publication!TypeOK
<1> USE BoundsAssumption DEF Publication!TypeOK
<1>1. Publication!Init => Publication!TypeOK
  BY DEF Publication!Init, Publication!GitHubStates, Publication!Intakes,
         Publication!NoIntake, Publication!Runs, Publication!Requests,
         Publication!NoDecision, Publication!LocalStates, Publication!Statuses,
         Publication!Steps
<1>2. ASSUME Publication!TypeOK, [Publication!Next]_(Publication!vars)
      PROVE  Publication!TypeOK'
  <2> USE <1>2
  <2>1. CASE Publication!SubmitIssue
    BY <2>1 DEF Publication!SubmitIssue, Publication!Goto, Publication!Steps,
                Publication!NoIntake, Publication!Intakes
  <2>2. CASE Publication!IntakeFails
    BY <2>2 DEF Publication!IntakeFails, Publication!Goto, Publication!Steps,
                Publication!NoIntake, Publication!Intakes
  <2>3. CASE Publication!GetIssue
    BY <2>3 DEF Publication!GetIssue, Publication!Goto, Publication!Steps
  <2>4. CASE Publication!GetRepository
    BY <2>4 DEF Publication!GetRepository, Publication!Goto, Publication!Steps,
                Publication!Intakes, Publication!GitHubStates
  <2>5. CASE Publication!CreateGithubRun
    BY <2>5 DEF Publication!CreateGithubRun, Publication!Goto, Publication!Steps,
                Publication!NoIntake, Publication!Intakes, Publication!Runs,
                Publication!Statuses
  <2>17. CASE Publication!CreateRun
    BY <2>17 DEF Publication!CreateRun, Publication!Runs, Publication!Statuses
  <2>6. CASE Publication!ReachFinalPause
    BY <2>6 DEF Publication!ReachFinalPause, Publication!Runs,
                Publication!Statuses, Publication!LocalStates
  <2>7. ASSUME NEW approved \in BOOLEAN, Publication!FinalizeRun(approved)
        PROVE  Publication!TypeOK'
    <3> DEFINE discard == Publication!DiscardAtFirst(approved)
               rejected == history.rejected \/ ~approved
    <3>1. discard \in BOOLEAN /\ rejected \in BOOLEAN
      BY DEF Publication!DiscardAtFirst
    <3>2. /\ request' = [approved |-> approved, discard |-> discard]
          /\ history' = [history EXCEPT !.rejected = rejected]
          /\ step' = "remove" /\ UNCHANGED <<github, intake, run, local>>
      BY <2>7 DEF Publication!FinalizeRun, Publication!Goto
    <3> HIDE DEF discard, rejected
    <3> QED BY <3>1, <3>2 DEF Publication!Requests, Publication!Steps
  <2>8. CASE Publication!RemoveWorktrees
    <3>1. local' \in Publication!LocalStates
      BY <2>8, RemovedLocal DEF Publication!RemoveWorktrees
    <3>2. step' \in Publication!Steps
      BY <2>8 DEF Publication!RemoveWorktrees, Publication!Goto, Publication!Steps
    <3> QED BY <2>8, <3>1, <3>2 DEF Publication!RemoveWorktrees
  <2>9. CASE Publication!CheckPublishable
    BY <2>9 DEF Publication!CheckPublishable, Publication!Goto, Publication!Steps
  <2>10. CASE Publication!PushBranch
    BY <2>10 DEF Publication!PushBranch, Publication!Goto, Publication!Steps,
                 Publication!GitHubStates
  <2>11. CASE Publication!PostPullRequest
    <3>1. github' \in Publication!GitHubStates
      BY <2>11 DEF Publication!PostPullRequest, Publication!GitHubStates
    <3>2. run' \in Publication!Runs
      BY <2>11 DEF Publication!PostPullRequest, Publication!Runs
    <3>3. request' \in Publication!Requests /\ step' \in Publication!Steps
      BY <2>11 DEF Publication!PostPullRequest, Publication!Requests,
                   Publication!Goto, Publication!Steps
    <3> QED BY <2>11, <3>1, <3>2, <3>3 DEF Publication!PostPullRequest
  <2>12. CASE \/ Publication!SaveResult \/ Publication!SaveFails
              \/ Publication!FailRun
    <3>1. run' \in Publication!Runs
      BY <2>12 DEF Publication!SaveResult, Publication!SaveFails,
                   Publication!FailRun, Publication!Runs,
                   Publication!FinalStatus, Publication!Statuses
    <3>2. step' \in Publication!Steps
      BY <2>12 DEF Publication!SaveResult, Publication!SaveFails,
                   Publication!FailRun, Publication!Goto, Publication!Steps
    <3> QED BY <2>12, <3>1, <3>2 DEF Publication!SaveResult,
                                     Publication!SaveFails, Publication!FailRun
  <2>13. CASE Publication!RemoveWorkspace
    <3>1. local' \in Publication!LocalStates
      <4> DEFINE gone == [workspace |-> FALSE, worktrees |-> FALSE, branch |-> FALSE]
      <4>1. gone \in Publication!LocalStates
        BY DEF Publication!LocalStates
      <4>2. local' \in {local, gone}
        BY <2>13 DEF Publication!RemoveWorkspace
      <4> HIDE DEF gone
      <4> QED BY <4>1, <4>2
    <3>2. step' \in Publication!Steps
      BY <2>13 DEF Publication!RemoveWorkspace, Publication!Goto, Publication!Steps
    <3>3. request' \in Publication!Requests
      BY <2>13 DEF Publication!RemoveWorkspace, Publication!NoDecision,
                   Publication!Requests
    <3> QED BY <2>13, <3>1, <3>2, <3>3 DEF Publication!RemoveWorkspace
  <2>14. CASE Publication!Rename
    <3>1. github' \in Publication!GitHubStates
      BY <2>14 DEF Publication!Rename, Publication!GitHubStates,
                   Publication!KnownNames
    <3> QED BY <2>14, <3>1 DEF Publication!Rename
  <2>15. CASE Publication!Crash
    <3> DEFINE url == run.url /\ run.status = "completed"
    <3>1. url \in BOOLEAN
      BY DEF Publication!Runs
    <3>2. run' = [run EXCEPT !.url = url]
      BY <2>15 DEF Publication!Crash
    <3> HIDE DEF url
    <3>3. run' \in Publication!Runs
      BY <3>1, <3>2 DEF Publication!Runs
    <3>4. local' \in Publication!LocalStates
      BY <2>15, RemovedLocal DEF Publication!Crash
    <3> QED BY <2>15, <3>3, <3>4 DEF Publication!Crash, Publication!Steps,
                Publication!NoIntake, Publication!Intakes, Publication!NoDecision,
                Publication!Requests
  <2>16. CASE UNCHANGED Publication!vars
    BY <2>16 DEF Publication!vars
  <2> QED BY <2>1, <2>2, <2>3, <2>4, <2>5, <2>6, <2>7, <2>8, <2>9, <2>10, <2>11,
             <2>12, <2>13, <2>14, <2>15, <2>16, <2>17 DEF Publication!Next
<1> QED BY <1>1, <1>2, PTL DEF Publication!Spec

\* What a step leaves alone of GitHub and of the row.
LEMMA PublicationQuiet ==
    ASSUME PublicationInv, UNCHANGED <<run, local>>,
           github'.pushed = github.pushed, github'.created = github.created,
           history'.rejected = history.rejected,
           step' \notin FinalSteps \cup {"discard"},
           step' \in {"issue", "repository", "create"} => run.status = "none"
    PROVE  PublicationInv'
  BY DEF PublicationInv, StepOK, PushedOK, RequestOK, FinalSteps,
         OutcomeIsTrue, Publication!OutcomeIsTrue,
         ResultIsNotLost, Publication!ResultIsNotLost

LEMMA PublicationStep ==
    ASSUME Publication!TypeOK, PublicationInv,
           [Publication!Next]_(Publication!vars)
    PROVE  PublicationInv'
<1> USE DEF Publication!Goto, FinalSteps
<1> DEFINE Facts == /\ StepOK /\ PushedOK /\ RequestOK
                    /\ OutcomeIsTrue /\ ResultIsNotLost
<1>1. Facts
  BY DEF PublicationInv
<1>2. /\ github \in Publication!GitHubStates /\ run \in Publication!Runs
      /\ local \in Publication!LocalStates /\ request \in Publication!Requests
      /\ history.rejected \in BOOLEAN
      /\ history = [history EXCEPT !.rejected = history.rejected]
  BY DEF Publication!TypeOK
<1>3. CASE \/ Publication!SubmitIssue \/ Publication!IntakeFails
           \/ Publication!GetIssue \/ Publication!GetRepository
  BY <1>3, PublicationQuiet
     DEF Publication!SubmitIssue, Publication!IntakeFails, Publication!GetIssue,
         Publication!GetRepository, PublicationInv, StepOK
<1>4. CASE Publication!CreateGithubRun \/ Publication!CreateRun
  <2>1. /\ step' = "idle" /\ run'.status = "working"
        /\ UNCHANGED <<github, local, history>>
        /\ run.status = "none"
    BY <1>1, <1>2, <1>4 DEF Publication!CreateGithubRun, Publication!CreateRun,
                            Publication!Runs, StepOK
  <2> QED BY <1>1, <2>1
          DEF PublicationInv, StepOK, PushedOK, RequestOK,
              OutcomeIsTrue, Publication!OutcomeIsTrue,
              ResultIsNotLost, Publication!ResultIsNotLost
<1>5. CASE Publication!ReachFinalPause
  <2>1. /\ run.status = "working" /\ local'.branch /\ run'.issue = run.issue
        /\ run'.status \in {"pending_final_approval", "failed"}
        /\ UNCHANGED <<github, step, request, history>>
    BY <1>2, <1>5 DEF Publication!ReachFinalPause, Publication!Runs
  <2>2. step \notin FinalSteps \cup {"issue", "repository", "create", "discard"}
    BY <1>1, <2>1 DEF StepOK
  <2> QED BY <1>1, <2>1, <2>2
          DEF PublicationInv, StepOK, PushedOK, RequestOK,
              OutcomeIsTrue, Publication!OutcomeIsTrue,
              ResultIsNotLost, Publication!ResultIsNotLost
<1>6. ASSUME NEW approved \in BOOLEAN, Publication!FinalizeRun(approved)
      PROVE  PublicationInv'
  <2> DEFINE rejected == history.rejected \/ ~approved
  <2>1. /\ step = "idle" /\ run.status = "pending_final_approval" /\ step' = "remove"
        /\ UNCHANGED <<github, run, local>>
        /\ request' = [approved |-> approved, discard |-> ~approved]
        /\ history' = [history EXCEPT !.rejected = rejected]
    BY <1>6 DEF Publication!FinalizeRun, Publication!DiscardAtFirst
  <2>2. history'.rejected = rejected
    BY <2>1 DEF Publication!TypeOK
  <2>3. /\ ~request'.approved => history'.rejected
        /\ request'.discard => history'.rejected
        /\ history.rejected => history'.rejected
    BY <2>1, <2>2
  <2> HIDE DEF rejected
  <2> QED BY <1>1, <2>1, <2>3
          DEF PublicationInv, StepOK, PushedOK, RequestOK,
              OutcomeIsTrue, Publication!OutcomeIsTrue,
              ResultIsNotLost, Publication!ResultIsNotLost
<1>7. CASE Publication!RemoveWorktrees
  <2>1. step = "remove" /\ UNCHANGED <<github, run, request, history>>
    BY <1>7 DEF Publication!RemoveWorktrees
  <2>2. run.status = "pending_final_approval"
    BY <1>1, <2>1 DEF StepOK
  <2>3. /\ local'.worktrees => local.worktrees
        /\ local'.worktrees => local'.branch
        /\ ~history.rejected => (local'.branch <=> local.branch)
        /\ request.approved => (local'.branch <=> local.branch)
    <3>1. local' \in {Publication!WorktreesRemoved} \cup Publication!RemovedInPart
      BY <1>7 DEF Publication!RemoveWorktrees
    <3> QED BY <1>1, <1>2, <2>1, <3>1, RemovedLocal, RemovedTogether
            DEF RequestOK, PushedOK
  <2>4. CASE /\ local.worktrees /\ local' = Publication!WorktreesRemoved
             /\ step' = IF request.approved /\ run.issue # NoName
                         THEN "check" ELSE "save"
    <3>1. ~local'.worktrees
      BY <1>2, <2>4, RemovedLocal
    <3>2. ~github.pushed
      BY <1>1, <2>2, <2>4 DEF PushedOK
    <3>3. request.approved => local'.branch
      BY <1>1, <2>3, <2>4 DEF PushedOK
    <3>4. StepOK' /\ PushedOK'
      BY <1>1, <2>1, <2>2, <2>3, <2>4, <3>1 DEF StepOK, PushedOK
    <3>5. RequestOK'
      BY <1>1, <1>2, <2>1, <2>4, <3>1, <3>2, <3>3
         DEF RequestOK, Publication!Requests
    <3>6. OutcomeIsTrue' /\ ResultIsNotLost'
      BY <1>1, <2>1, <2>2, <2>3
         DEF OutcomeIsTrue, Publication!OutcomeIsTrue,
             ResultIsNotLost, Publication!ResultIsNotLost
    <3> QED BY <3>4, <3>5, <3>6 DEF PublicationInv
  <2>5. CASE step' = "fail"
    <3>1. StepOK' /\ PushedOK' /\ RequestOK'
      BY <1>1, <2>1, <2>2, <2>3, <2>5 DEF StepOK, PushedOK, RequestOK
    <3>2. OutcomeIsTrue' /\ ResultIsNotLost'
      BY <1>1, <2>1, <2>2, <2>3
         DEF OutcomeIsTrue, Publication!OutcomeIsTrue,
             ResultIsNotLost, Publication!ResultIsNotLost
    <3> QED BY <3>1, <3>2 DEF PublicationInv
  <2> QED BY <1>7, <2>4, <2>5
          DEF Publication!RemoveWorktrees, Publication!CheckoutsPresent
<1>8. CASE Publication!CheckPublishable
  <2>1. /\ step = "check" /\ step' \in {"push", "fail"}
        /\ UNCHANGED <<github, run, request, local, history>>
    BY <1>8 DEF Publication!CheckPublishable
  <2> QED BY <1>1, <2>1
          DEF PublicationInv, StepOK, PushedOK, RequestOK,
              OutcomeIsTrue, Publication!OutcomeIsTrue,
              ResultIsNotLost, Publication!ResultIsNotLost
<1>9. CASE Publication!PushBranch
  <2>1. /\ step = "push" /\ UNCHANGED <<run, request, local, history>>
        /\ \/ github'.pushed /\ github'.created = github.created
              /\ step' \in {"post", "fail"}
           \/ UNCHANGED github /\ step' = "fail"
    BY <1>2, <1>9 DEF Publication!PushBranch, Publication!GitHubStates
  <2>2. /\ run.status = "pending_final_approval" /\ ~github.pushed
        /\ request.approved /\ run.issue # NoName
    BY <1>1, <2>1 DEF StepOK, RequestOK
  <2>3. ~local.worktrees
    BY <1>1, <2>1 DEF RequestOK
  <2> QED BY <1>1, <2>1, <2>2, <2>3
          DEF PublicationInv, StepOK, PushedOK, RequestOK,
              OutcomeIsTrue, Publication!OutcomeIsTrue,
              ResultIsNotLost, Publication!ResultIsNotLost
<1>12. CASE Publication!RemoveWorkspace
  <2>1. /\ step = "discard" /\ step' = "idle" /\ UNCHANGED <<github, run, history>>
        /\ local'.worktrees => UNCHANGED local
    BY <1>12 DEF Publication!RemoveWorkspace
  <2> QED BY <1>1, <2>1
          DEF PublicationInv, StepOK, PushedOK, RequestOK,
              OutcomeIsTrue, Publication!OutcomeIsTrue,
              ResultIsNotLost, Publication!ResultIsNotLost
<1>13. CASE Publication!Rename
  <2>1. github'.pushed = github.pushed /\ github'.created = github.created
    BY <1>2, <1>13 DEF Publication!Rename, Publication!GitHubStates
  <2>2. history' = [history EXCEPT !.renames = @ + 1]
        /\ UNCHANGED <<run, step, request, local>>
    BY <1>13 DEF Publication!Rename
  <2>3. history'.rejected = history.rejected
    BY <2>2 DEF Publication!TypeOK
  <2> QED BY <1>1, <2>1, <2>2, <2>3
          DEF PublicationInv, StepOK, PushedOK, RequestOK,
              OutcomeIsTrue, Publication!OutcomeIsTrue,
              ResultIsNotLost, Publication!ResultIsNotLost
<1>14. CASE Publication!Crash
  <2> DEFINE url == run.url /\ run.status = "completed"
  <2>1. /\ history' = [history EXCEPT !.crashes = @ + 1] /\ step' = "idle"
        /\ run' = [run EXCEPT !.url = url] /\ UNCHANGED github
    BY <1>14 DEF Publication!Crash
  <2>2. history'.rejected = history.rejected
    BY <2>1 DEF Publication!TypeOK
  <2>3. run'.status = run.status /\ run'.issue = run.issue
    BY <1>2, <2>1 DEF Publication!Runs
  <2>4. run'.url <=> url
    BY <1>2, <2>1 DEF Publication!Runs
  <2>5. run.status = "completed" => (run'.url <=> run.url)
    BY <2>4
  <2>6. CASE step = "remove"
    <3>1. local' \in Publication!RemovedInPart
      BY <1>14, <2>6 DEF Publication!Crash
    <3>2. /\ local'.worktrees => local.worktrees
          /\ local'.worktrees => local'.branch
          /\ ~history.rejected => (local'.branch <=> local.branch)
      BY <1>1, <1>2, <2>6, <3>1, RemovedLocal, RemovedTogether
         DEF RequestOK, PushedOK
    <3>3. run.status = "pending_final_approval"
      BY <1>1, <2>6 DEF StepOK
    <3> HIDE DEF url
    <3> QED BY <1>1, <2>1, <2>2, <2>3, <3>2, <3>3
            DEF PublicationInv, StepOK, PushedOK, RequestOK,
                OutcomeIsTrue, Publication!OutcomeIsTrue,
                ResultIsNotLost, Publication!ResultIsNotLost
  <2>7. CASE step # "remove"
    <3>1. UNCHANGED local
      BY <1>14, <2>7 DEF Publication!Crash
    <3> HIDE DEF url
    <3> QED BY <1>1, <2>1, <2>2, <2>3, <2>5, <3>1
            DEF PublicationInv, StepOK, PushedOK, RequestOK,
                OutcomeIsTrue, Publication!OutcomeIsTrue,
                ResultIsNotLost, Publication!ResultIsNotLost
  <2> QED BY <2>6, <2>7
<1>15. CASE UNCHANGED Publication!vars
  BY <1>1, <1>15
     DEF Publication!vars, PublicationInv, StepOK, PushedOK, RequestOK,
         OutcomeIsTrue, Publication!OutcomeIsTrue,
         ResultIsNotLost, Publication!ResultIsNotLost
<1>10. CASE Publication!PostPullRequest
  <2>1. step = "post" /\ UNCHANGED <<local, history>>
    BY <1>10 DEF Publication!PostPullRequest
  <2>2. /\ run.status = "pending_final_approval" /\ github.pushed
        /\ github.created = 0 /\ request.approved /\ run.issue # NoName
    BY <1>1, <2>1 DEF StepOK, RequestOK
  <2>3. github'.pushed = github.pushed
    BY <1>2, <1>10 DEF Publication!PostPullRequest, Publication!GitHubStates
  <2>4. ~local.worktrees
    BY <1>1, <2>2 DEF PushedOK
  <2>5. CASE step' = "save"
    <3>1. /\ github'.created = 1
      BY <1>2, <1>10, <2>2, <2>5
         DEF Publication!PostPullRequest, Publication!GitHubStates,
             Publication!GoodAnswer
    <3>2. /\ run' = [run EXCEPT !.url = TRUE]
          /\ request' = [request EXCEPT !.discard = TRUE]
      BY <1>10, <2>5 DEF Publication!PostPullRequest
    <3>3. /\ run'.status = run.status /\ run'.issue = run.issue
          /\ request'.approved = request.approved
      BY <1>2, <3>2 DEF Publication!Runs, Publication!Requests
    <3>4. run'.url
      BY <1>2, <3>2 DEF Publication!Runs
    <3> QED BY <1>1, <2>1, <2>2, <2>3, <2>4, <2>5, <3>1, <3>3, <3>4
            DEF PublicationInv, StepOK, PushedOK, RequestOK,
                OutcomeIsTrue, Publication!OutcomeIsTrue,
                ResultIsNotLost, Publication!ResultIsNotLost
  <2>6. CASE step' = "fail"
    <3>1. UNCHANGED <<run, request>>
      BY <1>10, <2>6 DEF Publication!PostPullRequest
    <3> QED BY <1>1, <2>1, <2>2, <2>3, <2>4, <2>6, <3>1
            DEF PublicationInv, StepOK, PushedOK, RequestOK,
                OutcomeIsTrue, Publication!OutcomeIsTrue,
                ResultIsNotLost, Publication!ResultIsNotLost
  <2> QED BY <1>10, <2>5, <2>6 DEF Publication!PostPullRequest
<1>11. CASE Publication!SaveResult
  <2>1. /\ step = "save" /\ UNCHANGED <<github, request, local, history>>
        /\ step' = IF request.discard THEN "discard" ELSE "idle"
        /\ run' = [run EXCEPT !.status = Publication!FinalStatus]
    BY <1>11 DEF Publication!SaveResult
  <2>2. /\ run'.status = Publication!FinalStatus
        /\ run'.url = run.url /\ run'.issue = run.issue
    BY <1>2, <2>1 DEF Publication!Runs
  <2>3. run.status = "pending_final_approval"
    BY <1>1, <2>1 DEF StepOK
  <2>4. run.issue = NoName => ~github.pushed /\ github.created = 0
    BY <1>1 DEF PushedOK
  <2>5. CASE request.approved
    <3>1. run'.status = "completed"
      BY <2>2, <2>5 DEF Publication!FinalStatus
    <3> QED BY <1>1, <2>1, <2>2, <2>3, <2>4, <2>5, <3>1
            DEF PublicationInv, StepOK, PushedOK, RequestOK,
                OutcomeIsTrue, Publication!OutcomeIsTrue,
                ResultIsNotLost, Publication!ResultIsNotLost
  <2>6. CASE ~request.approved
    <3>1. run'.status = "cancelled"
      BY <2>2, <2>6 DEF Publication!FinalStatus
    <3> QED BY <1>1, <2>1, <2>2, <2>3, <2>4, <2>6, <3>1
            DEF PublicationInv, StepOK, PushedOK, RequestOK,
                OutcomeIsTrue, Publication!OutcomeIsTrue,
                ResultIsNotLost, Publication!ResultIsNotLost
  <2> QED BY <2>5, <2>6
<1>16. CASE Publication!SaveFails \/ Publication!FailRun
  <2>1. /\ step \in {"save", "fail"} /\ step' \in {"fail", "idle"}
        /\ UNCHANGED <<github, request, local, history>>
        /\ step' = "fail" => run'.status = run.status
        /\ step' = "idle" => run'.status = "failed"
        /\ run'.issue = run.issue
    BY <1>2, <1>16 DEF Publication!SaveFails, Publication!FailRun,
                       Publication!Runs
  <2>2. run.status = "pending_final_approval"
    BY <1>1, <2>1 DEF StepOK
  <2> QED BY <1>1, <2>1, <2>2
          DEF PublicationInv, StepOK, PushedOK, RequestOK,
              OutcomeIsTrue, Publication!OutcomeIsTrue,
              ResultIsNotLost, Publication!ResultIsNotLost
<1> QED BY <1>3, <1>4, <1>5, <1>6, <1>7, <1>8, <1>9, <1>10, <1>11, <1>12, <1>13,
           <1>14, <1>15, <1>16 DEF Publication!Next

LEMMA PublicationInvariant == Publication!Spec => [](Publication!TypeOK /\ PublicationInv)
<1>1. Publication!Init => PublicationInv
  BY PublicationInit
<1>2. Publication!TypeOK /\ PublicationInv /\ [Publication!Next]_(Publication!vars)
         => PublicationInv'
  BY PublicationStep
<1> QED BY <1>1, <1>2, PublicationTypes, PTL DEF Publication!Spec

\* What a person is told of an ended run is what GitHub has, however often the
\* repository is renamed, an answer is lost or the process dies.
THEOREM OutcomeIsAsTold == Publication!Spec => []OutcomeIsTrue
<1>1. PublicationInv => OutcomeIsTrue
  BY DEF PublicationInv
<1> QED BY <1>1, PublicationInvariant, PTL

\* A result that nobody has rejected is on GitHub or in the managed workspace.
THEOREM ResultIsKept == Publication!Spec => []ResultIsNotLost
<1>1. PublicationInv => ResultIsNotLost
  BY DEF PublicationInv
<1> QED BY <1>1, PublicationInvariant, PTL

\* No finalization goes on to push what another one has pushed before.
THEOREM BranchIsPushedOnce == Publication!Spec => OnePublication
<1>1. PublicationInv => (step = "check" /\ step' = "push" => ~github.pushed)
  BY DEF PublicationInv, RequestOK
<1> QED BY <1>1, PublicationInvariant, PTL
        DEF OnePublication, Publication!OnePublication

-----------------------------------------------------------------------------
(***************************************************************************)
(* Workspace.  What a task may count on when it reuses a directory: once a *)
(* workspace has been used and the run goes on, it is there, and no task   *)
(* makes or removes it.  Until the first crash every directory that a      *)
(* later task can find holds a whole clone; after it, what a task takes    *)
(* for a clone of the base branch is one, or Git has answered for another  *)
(* repository.                                                             *)
(***************************************************************************)

HasBase == repository \in {"partial", "complete"}

\* What a process left when it died is judged by the name of the branch that Git
\* finds from inside the directory.
Misread == crashes > 0 /\ Base \in {outside.default, outside.enclosing}

Making == {"spawning", "cloning", "removing"}

WorkspaceInv ==
    /\ advanced # "open" => task = "away"
    /\ task \notin {"away", "starting"} => root
    /\ clone = "running" => task = "cloning"
    /\ task \in Making => ~relied
    /\ relied /\ advanced = "open" => root
    /\ task \in {"worktrees", "ready"} => HasBase \/ Misread
    /\ crashes = 0 =>
          /\ clone # "orphan"
          /\ advanced = "open" /\ root /\ task \notin Making => repository = "complete"

LEMMA WorkspaceTypes == Workspace!Spec => []Workspace!TypeOK
<1> USE BoundsAssumption DEF Workspace!TypeOK, Workspace!Clones, Workspace!TaskSteps
<1>1. Workspace!Init => Workspace!TypeOK
  <2> SUFFICES ASSUME Workspace!Init PROVE Workspace!TypeOK
    OBVIOUS
  <2>1. crashes \in 0..MaxCrashes
    BY DEF Workspace!Init
  <2>2. root \in BOOLEAN /\ worktrees \in BOOLEAN /\ fresh \in BOOLEAN
        /\ relied \in BOOLEAN
    BY DEF Workspace!Init
  <2> QED BY <2>1, <2>2 DEF Workspace!Init
<1>2. ASSUME Workspace!TypeOK, [Workspace!Next]_(Workspace!vars)
      PROVE  Workspace!TypeOK'
  <2> USE <1>2 DEF Workspace!tree, Workspace!Raise, Workspace!Continue
  <2>1. CASE Workspace!OwnStep
    BY <2>1 DEF Workspace!OwnStep, Workspace!MakeRoot, Workspace!ReuseRoot,
                Workspace!StartClone, Workspace!CloneTimesOut,
                Workspace!RemoveFailedClone, Workspace!MakeWorktreeRoot,
                Workspace!CheckIsDir, Workspace!CheckIsInside,
                Workspace!CheckOnBranch
  <2>2. CASE \/ Workspace!CloneProceeds \/ Workspace!CloneSucceeds
             \/ Workspace!CloneFails \/ Workspace!OrphanEnds
    BY <2>2 DEF Workspace!CloneProceeds, Workspace!CloneSucceeds,
                Workspace!CloneFails, Workspace!OrphanEnds,
                Workspace!AfterFailedClone, Workspace!WhenCloneFailed
  <2>3. CASE \/ Workspace!LoadWorkspace \/ Workspace!Work
             \/ Workspace!RemoveWorkspace
    BY <2>3 DEF Workspace!LoadWorkspace, Workspace!Work, Workspace!RemoveWorkspace
  <2>5. CASE Workspace!Crash
    <3>1. crashes' \in 0..MaxCrashes
      BY <2>5 DEF Workspace!Crash
    <3> QED BY <2>5, <3>1 DEF Workspace!Crash
  <2>4. CASE UNCHANGED Workspace!vars
    BY <2>4 DEF Workspace!vars
  <2> QED BY <2>1, <2>2, <2>3, <2>4, <2>5 DEF Workspace!Next
<1> QED BY <1>1, <1>2, PTL DEF Workspace!Spec

LEMMA WorkspaceInit == Workspace!Init => WorkspaceInv
  BY DEF Workspace!Init, WorkspaceInv, Making

\* The base branch, once there, stays until the workspace is removed.
LEMMA BaseStays ==
    ASSUME Workspace!CloneProceeds \/ Workspace!OrphanEnds
    PROVE  /\ HasBase => HasBase'
           /\ repository = "complete" => repository' = "complete"
  BY DEF HasBase, Workspace!CloneProceeds, Workspace!OrphanEnds,
         Workspace!AfterFailedClone

LEMMA WorkspaceStep ==
    ASSUME Workspace!TypeOK, WorkspaceInv, [Workspace!Next]_(Workspace!vars)
    PROVE  WorkspaceInv'
<1> USE DEF Workspace!tree, Workspace!Raise, Workspace!Continue, Making
<1>1. CASE Workspace!LoadWorkspace
  BY <1>1 DEF Workspace!LoadWorkspace, WorkspaceInv, HasBase, Misread
<1>2. CASE Workspace!MakeRoot
  BY <1>2 DEF Workspace!MakeRoot, Workspace!NoWorkspaceYet, WorkspaceInv, HasBase, Misread
<1>3. CASE Workspace!ReuseRoot
  BY <1>3 DEF Workspace!ReuseRoot, Workspace!NoWorkspaceYet, WorkspaceInv, HasBase, Misread
<1>4. CASE Workspace!StartClone
  BY <1>4 DEF Workspace!StartClone, WorkspaceInv, HasBase, Misread
<1>5. CASE Workspace!CloneProceeds \/ Workspace!OrphanEnds
  <2>1. /\ UNCHANGED <<root, worktrees, outside, task, advanced, relied, crashes>>
        /\ clone' \in {clone, "none"}
    BY <1>5 DEF Workspace!CloneProceeds, Workspace!OrphanEnds
  <2> QED BY <1>5, <2>1, BaseStays DEF WorkspaceInv, Misread
<1>6. CASE Workspace!CloneSucceeds
  BY <1>6 DEF Workspace!CloneSucceeds, WorkspaceInv, HasBase, Misread
<1>7. CASE Workspace!CloneFails
  BY <1>7 DEF Workspace!CloneFails, Workspace!WhenCloneFailed, WorkspaceInv, HasBase, Misread
<1>8. CASE Workspace!RemoveFailedClone
  BY <1>8 DEF Workspace!RemoveFailedClone, WorkspaceInv, HasBase, Misread
<1>9. CASE Workspace!CloneTimesOut
  BY <1>9 DEF Workspace!CloneTimesOut, Workspace!TimeIsUp, WorkspaceInv, HasBase, Misread
<1>10. CASE Workspace!CheckIsDir
  BY <1>10 DEF Workspace!CheckIsDir, WorkspaceInv, HasBase, Misread
<1>11. CASE Workspace!CheckIsInside
  BY <1>11 DEF Workspace!CheckIsInside, WorkspaceInv, HasBase, Misread
<1>12. CASE Workspace!CheckOnBranch
  <2>1. CASE repository # "absent" /\ Workspace!OnBaseBranch
    <3>1. HasBase \/ Misread
      <4>1. CASE crashes = 0
        <5>1. task = "on_branch"
          BY <1>12 DEF Workspace!CheckOnBranch
        <5> QED BY <4>1, <5>1 DEF WorkspaceInv, HasBase, Misread
      <4>2. CASE crashes # 0
        <5>1. crashes > 0
          BY <4>2 DEF Workspace!TypeOK
        <5>2. repository \in {"directory", "unborn"} \/ HasBase
          BY <2>1 DEF HasBase, Workspace!TypeOK, Workspace!Clones
        <5>3. ~HasBase => Base \in {outside.default, outside.enclosing}
          BY <2>1, <5>2 DEF Workspace!OnBaseBranch, Workspace!CurrentBranch, HasBase
        <5> QED BY <5>1, <5>3 DEF Misread
      <4> QED BY <4>1, <4>2
    <3>2. /\ task = "on_branch" /\ task' \in {"ready", "worktrees"}
          /\ UNCHANGED <<root, repository, clone, outside, advanced, relied, crashes>>
      BY <1>12, <2>1 DEF Workspace!CheckOnBranch
    <3> QED BY <3>1, <3>2 DEF WorkspaceInv, HasBase, Misread
  <2>2. CASE ~(repository # "absent" /\ Workspace!OnBaseBranch)
    BY <1>12, <2>2 DEF Workspace!CheckOnBranch, WorkspaceInv, HasBase, Misread
  <2> QED BY <2>1, <2>2
<1>13. CASE Workspace!MakeWorktreeRoot
  BY <1>13 DEF Workspace!MakeWorktreeRoot, WorkspaceInv, HasBase, Misread
<1>14. CASE Workspace!Work
  BY <1>14 DEF Workspace!Work, WorkspaceInv, HasBase, Misread
<1>15. CASE Workspace!RemoveWorkspace
  BY <1>15 DEF Workspace!RemoveWorkspace, WorkspaceInv, HasBase, Misread
<1>16. CASE Workspace!Crash
  <2>1. crashes' # 0
    BY <1>16 DEF Workspace!Crash, Workspace!TypeOK
  <2> QED BY <1>16, <2>1 DEF Workspace!Crash, WorkspaceInv, HasBase, Misread
<1>17. CASE UNCHANGED Workspace!vars
  BY <1>17 DEF Workspace!vars, WorkspaceInv, HasBase, Misread
<1> QED BY <1>1, <1>2, <1>3, <1>4, <1>5, <1>6, <1>7, <1>8, <1>9, <1>10, <1>11,
           <1>12, <1>13, <1>14, <1>15, <1>16, <1>17
        DEF Workspace!Next, Workspace!OwnStep

LEMMA WorkspaceInvariant == Workspace!Spec => [](Workspace!TypeOK /\ WorkspaceInv)
<1>1. Workspace!Init => WorkspaceInv
  BY WorkspaceInit
<1>2. Workspace!TypeOK /\ WorkspaceInv /\ [Workspace!Next]_(Workspace!vars)
         => WorkspaceInv'
  BY WorkspaceStep
<1> QED BY <1>1, <1>2, WorkspaceTypes, PTL DEF Workspace!Spec

\* A workspace is handed out with the commits of the base branch, and with all
\* its files until a process has died.  The one exception is a process that died
\* in a clone where git's default branch, or the checkout around managed_root,
\* has the name of the base branch: then an empty left-over passes the checks.
THEOREM WorkspaceIsUsable == Workspace!Spec => []ReadyIsUsable
<1>1. WorkspaceInv => ReadyIsUsable
  BY DEF WorkspaceInv, HasBase, Misread, Making, ReadyIsUsable,
         Workspace!ReadyIsUsable, Workspace!HasBase
<1> QED BY <1>1, WorkspaceInvariant, PTL

\* While the run goes on, the directory a task has relied on is not removed, and
\* no clone in it with the base branch is removed or made again, whatever died
\* and whatever Git answers.
THEOREM ReliedOnIsKept == Workspace!Spec => WorkIsKept
<1>1. ASSUME WorkspaceInv, [Workspace!Next]_(Workspace!vars),
             relied /\ advanced = "open"
      PROVE  /\ root'
             /\ Workspace!HasBase => repository' \in {repository, "complete"}
  <2>1. root /\ task \notin Making
    BY <1>1 DEF WorkspaceInv
  <2> QED BY <1>1, <2>1
          DEF Workspace!HasBase, Making, Workspace!tree, Workspace!vars,
              Workspace!Raise, Workspace!Continue, Workspace!Next,
              Workspace!OwnStep, Workspace!LoadWorkspace, Workspace!MakeRoot,
              Workspace!ReuseRoot, Workspace!StartClone,
              Workspace!CloneTimesOut, Workspace!TimeIsUp,
              Workspace!RemoveFailedClone, Workspace!MakeWorktreeRoot,
              Workspace!CheckIsDir, Workspace!CheckIsInside,
              Workspace!CheckOnBranch, Workspace!CloneProceeds,
              Workspace!CloneSucceeds, Workspace!CloneFails,
              Workspace!OrphanEnds, Workspace!AfterFailedClone, Workspace!Work,
              Workspace!RemoveWorkspace, Workspace!Crash, Workspace!NoWorkspaceYet
<1>2. WorkspaceInv /\ [Workspace!Next]_(Workspace!vars)
         => (relied /\ advanced = "open" =>
               /\ root'
               /\ Workspace!HasBase => repository' \in {repository, "complete"})
  BY <1>1
<1> QED BY <1>2, WorkspaceInvariant, PTL
        DEF Workspace!Spec, WorkIsKept, Workspace!WorkIsKept

-----------------------------------------------------------------------------
(***************************************************************************)
(* Planning.  A place of the proposal is past when the loop has gone over  *)
(* it; the paths seen are those of the places that are past, no two of     *)
(* which name the same path.                                               *)
(***************************************************************************)

PastPlace(p) == p[1] < work \/ (p[1] = work /\ p[2] < at)

LoopPosition ==
    /\ work \in 1..(Len(proposed) + 1)
    /\ work \in DOMAIN proposed => at \in 1..(Len(proposed[work]) + 1)
    /\ work \notin DOMAIN proposed => at = 1

SeenIsPast ==
    /\ \A w \in DOMAIN proposed : w < work => proposed[w] # <<>>
    /\ \A p \in Planning!Places : PastPlace(p) => Planning!PathAt(p) \in seenPaths
    /\ \A path \in seenPaths : \E p \in Planning!Places :
          PastPlace(p) /\ Planning!PathAt(p) = path
    /\ \A p, q \in Planning!Places :
          PastPlace(p) /\ PastPlace(q) /\ Planning!PathAt(p) = Planning!PathAt(q)
             => p = q

PlanningInv ==
    /\ verdict \in Planning!Verdicts
    /\ verdict = "planning" =>
          proposed = <<>> /\ work = 1 /\ at = 1 /\ seenPaths = {}
    /\ verdict \in {"deciding", "as_proposed", "one_worker"} =>
          proposed \in Planning!Proposals
    /\ verdict = "deciding" => LoopPosition /\ SeenIsPast
    /\ VerdictIsRight

LEMMA UpToShape ==
    ASSUME NEW S, NEW n \in Nat, NEW s \in Planning!UpTo(S, n)
    PROVE  /\ s \in Seq(S)
           /\ Len(s) \in 0..n
           /\ DOMAIN s = 1..Len(s)
<1>1. PICK k \in 0..n : s \in [1..k -> S]
    BY DEF Planning!UpTo
<1>2. s \in Seq(S)
    BY <1>1
<1>3. Len(s) = k /\ DOMAIN s = 1..k
    BY <1>1, <1>2
<1> QED
    BY <1>2, <1>3

\* What the check knows of a proposal: the sizes of its parts.
LEMMA ProposalShape ==
    ASSUME proposed \in Planning!Proposals
    PROVE  /\ proposed \in Seq(Seq(Paths))
           /\ Len(proposed) \in 1..MaxWorkstreams
           /\ DOMAIN proposed = 1..Len(proposed)
           /\ \A w \in DOMAIN proposed :
                 /\ proposed[w] \in Seq(Paths)
                 /\ DOMAIN proposed[w] = 1..Len(proposed[w])
                 /\ Len(proposed[w]) \in 0..MaxPaths
                 /\ proposed[w] = <<>> <=> Len(proposed[w]) = 0
<1> USE BoundsAssumption
<1> DEFINE Streams == Planning!UpTo(Paths, MaxPaths)
<1>1. proposed \in Planning!UpTo(Streams, MaxWorkstreams) /\ proposed # <<>>
    BY DEF Planning!Proposals
<1> HIDE DEF Streams
<1>2. /\ proposed \in Seq(Streams)
      /\ Len(proposed) \in 0..MaxWorkstreams
      /\ DOMAIN proposed = 1..Len(proposed)
    BY <1>1, UpToShape
<1>3. Len(proposed) # 0
    BY <1>1, <1>2
<1>4. ASSUME NEW w \in DOMAIN proposed
      PROVE  /\ proposed[w] \in Seq(Paths)
             /\ DOMAIN proposed[w] = 1..Len(proposed[w])
             /\ Len(proposed[w]) \in 0..MaxPaths
             /\ proposed[w] = <<>> <=> Len(proposed[w]) = 0
  <2>1. proposed[w] \in Streams
      BY <1>2, <1>4
  <2>2. /\ proposed[w] \in Seq(Paths)
        /\ DOMAIN proposed[w] = 1..Len(proposed[w])
        /\ Len(proposed[w]) \in 0..MaxPaths
      BY <2>1, UpToShape DEF Streams
  <2>3. proposed[w] = <<>> <=> Len(proposed[w]) = 0
      BY <2>2
  <2> QED
      BY <2>2, <2>3
<1>5. proposed \in Seq(Seq(Paths))
  <2>1. proposed \in [1..Len(proposed) -> Seq(Paths)]
      BY <1>2, <1>4
  <2> QED
      BY <2>1, <1>2
<1> QED
    BY <1>2, <1>3, <1>4, <1>5

LEMMA PlacesOfProposal ==
    ASSUME proposed \in Planning!Proposals
    PROVE  /\ \A w \in DOMAIN proposed : \A i \in DOMAIN proposed[w] :
                 <<w, i>> \in Planning!Places
           /\ \A p \in Planning!Places :
                 /\ p[1] \in DOMAIN proposed
                 /\ p[2] \in DOMAIN proposed[p[1]]
                 /\ p = <<p[1], p[2]>>
<1>1. ASSUME NEW w \in DOMAIN proposed, NEW i \in DOMAIN proposed[w]
      PROVE  <<w, i>> \in Planning!Places
  <2>1. w \in 1..MaxWorkstreams /\ i \in 1..MaxPaths
      BY <1>1, ProposalShape, BoundsAssumption
  <2> QED
      BY <1>1, <2>1 DEF Planning!Places
<1>2. ASSUME NEW p \in Planning!Places
      PROVE  /\ p[1] \in DOMAIN proposed
             /\ p[2] \in DOMAIN proposed[p[1]]
             /\ p = <<p[1], p[2]>>
    BY <1>2 DEF Planning!Places
<1> QED
    BY <1>1, <1>2

\* The same of the proposal of the next state.
LEMMA ProposalShapeNext ==
    proposed' \in Planning!Proposals' =>
        /\ Len(proposed') \in 1..MaxWorkstreams
        /\ DOMAIN proposed' = 1..Len(proposed')
        /\ \A w \in DOMAIN proposed' :
              /\ DOMAIN proposed'[w] = 1..Len(proposed'[w])
              /\ Len(proposed'[w]) \in 0..MaxPaths
<1> DEFINE Shape ==
        proposed \in Planning!Proposals =>
        /\ Len(proposed) \in 1..MaxWorkstreams
        /\ DOMAIN proposed = 1..Len(proposed)
        /\ \A w \in DOMAIN proposed :
              /\ DOMAIN proposed[w] = 1..Len(proposed[w])
              /\ Len(proposed[w]) \in 0..MaxPaths
<1>1. Shape
    BY ProposalShape
<1>2. Shape'
    BY <1>1, PTL
<1> QED
    BY <1>2

LEMMA PlanningInitial == Planning!Init => PlanningInv
BY DEF Planning!Init, PlanningInv, VerdictIsRight, Planning!VerdictIsRight,
       Planning!Parallel, Planning!Verdicts

\* A step of the check finds the proposal it has found before, and, where it
\* goes on, is at a place of it.
LEMMA DecidedStep ==
    ASSUME PlanningInv, verdict = "deciding", NEW outcome \in {"as_proposed", "one_worker"},
           Planning!Decided(outcome),
           outcome = "as_proposed" /\ Len(proposed) > 1 =>
               ~Planning!SomeUndeclared /\ ~Planning!NamedTwice,
           outcome = "one_worker" =>
               Planning!SomeUndeclared \/ Planning!NamedTwice
    PROVE  PlanningInv'
<1>1. /\ proposed' = proposed /\ work' = work /\ at' = at
      /\ seenPaths' = seenPaths /\ verdict' = outcome
    BY DEF Planning!Decided
<1>2. (Planning!SomeUndeclared' <=> Planning!SomeUndeclared)
      /\ (Planning!NamedTwice' <=> Planning!NamedTwice)
    BY <1>1 DEF Planning!SomeUndeclared, Planning!NamedTwice, Planning!Places,
                Planning!PathAt
<1>3. VerdictIsRight'
    BY <1>1, <1>2 DEF VerdictIsRight, Planning!VerdictIsRight, Planning!Parallel
<1>4. verdict' \in Planning!Verdicts
    BY <1>1 DEF Planning!Verdicts
<1>5. proposed' \in Planning!Proposals'
    BY <1>1 DEF PlanningInv, Planning!Proposals, Planning!UpTo
<1> QED
    BY <1>1, <1>3, <1>4, <1>5 DEF PlanningInv

LEMMA PlanningStep == PlanningInv /\ [Planning!Next]_(Planning!vars) => PlanningInv'
<1> SUFFICES ASSUME PlanningInv, [Planning!Next]_(Planning!vars)
             PROVE  PlanningInv'
    OBVIOUS
<1> USE BoundsAssumption
<1>1. CASE Planning!InvokeDecomposer
  <2>1. verdict = "planning" /\ work = 1 /\ at = 1 /\ seenPaths = {} /\ proposed = <<>>
      BY <1>1 DEF Planning!InvokeDecomposer, PlanningInv
  <2>2. CASE Planning!Decided("failed")
    <3>1. verdict' = "failed" 
        BY <2>2 DEF Planning!Decided
    <3> QED
        BY <3>1 DEF PlanningInv, VerdictIsRight, Planning!VerdictIsRight,
                    Planning!Parallel, Planning!Verdicts
  <2>3. ASSUME NEW proposal \in Planning!Proposals, proposed' = proposal,
               verdict' = "deciding", UNCHANGED <<work, at, seenPaths>>
        PROVE  PlanningInv'
    <3>1. proposed' \in Planning!Proposals /\ work' = 1 /\ at' = 1 /\ seenPaths' = {}
        BY <2>1, <2>3
    <3>2. proposed' \in Planning!Proposals'
        BY <3>1 DEF Planning!Proposals, Planning!UpTo
    <3>3. Len(proposed') \in Nat \ {0} /\ DOMAIN proposed' = 1..Len(proposed')
          /\ \A w \in DOMAIN proposed' : Len(proposed'[w]) \in Nat
                /\ DOMAIN proposed'[w] = 1..Len(proposed'[w])
      <4>1. /\ Len(proposed') \in 1..MaxWorkstreams
            /\ DOMAIN proposed' = 1..Len(proposed')
            /\ \A w \in DOMAIN proposed' :
                  /\ DOMAIN proposed'[w] = 1..Len(proposed'[w])
                  /\ Len(proposed'[w]) \in 0..MaxPaths
          BY <3>2, ProposalShapeNext
      <4> QED
          BY <4>1
    <3>4. LoopPosition'
        BY <3>1, <3>3 DEF LoopPosition
    <3>5. \A p \in Planning!Places' : ~PastPlace(p)'
        BY <3>1, <3>3 DEF PastPlace, Planning!Places
    <3>6. SeenIsPast'
      <4>1. \A w \in DOMAIN proposed' : ~(w < work')
          BY <3>1, <3>3
      <4> QED
          BY <3>1, <3>5, <4>1 DEF SeenIsPast
    <3>7. VerdictIsRight'
        BY <2>3 DEF VerdictIsRight, Planning!VerdictIsRight, Planning!Parallel
    <3> QED
        BY <2>3, <3>2, <3>4, <3>6, <3>7 DEF PlanningInv, Planning!Verdicts
  <2> QED
      BY <1>1, <2>2, <2>3 DEF Planning!InvokeDecomposer
<1>2. CASE Planning!KeepOnlyWorkstream
  <2>1. verdict = "deciding" /\ Planning!Decided("as_proposed") /\ Len(proposed) = 1
      BY <1>2 DEF Planning!KeepOnlyWorkstream
  <2> QED
      BY <2>1, DecidedStep
<1>3. ASSUME NEW w \in 1..MaxWorkstreams, Planning!Checking(w)
      PROVE  /\ verdict = "deciding" /\ Len(proposed) > 1
             /\ w = work /\ w \in DOMAIN proposed
             /\ proposed \in Planning!Proposals
             /\ LoopPosition /\ SeenIsPast
    BY <1>3 DEF Planning!Checking, PlanningInv
<1>4. ASSUME NEW w \in 1..MaxWorkstreams, Planning!RefuseUndeclared(w)
      PROVE  PlanningInv'
  <2>1. Planning!SomeUndeclared
      BY <1>3, <1>4 DEF Planning!RefuseUndeclared, Planning!Undeclared,
                        Planning!SomeUndeclared
  <2> QED
      BY <1>3, <1>4, <2>1, DecidedStep DEF Planning!RefuseUndeclared
<1>5. ASSUME NEW w \in 1..MaxWorkstreams, Planning!RefuseSeenPath(w)
      PROVE  PlanningInv'
  <2>1. /\ Planning!Checking(w) /\ at \in DOMAIN proposed[w]
        /\ proposed[w][at] \in seenPaths
        /\ Planning!Decided("one_worker")
      BY <1>5 DEF Planning!RefuseSeenPath, Planning!SeenBefore
  <2>2. PICK p \in Planning!Places :
              PastPlace(p) /\ Planning!PathAt(p) = proposed[w][at]
      BY <1>3, <2>1 DEF SeenIsPast
  <2>3. <<w, at>> \in Planning!Places
      BY <1>3, <2>1, PlacesOfProposal
  <2>4. p # <<w, at>>
    <3>1. w = work /\ w \in Nat /\ at \in Nat
        BY <1>3, <2>1, ProposalShape
    <3>2. ~PastPlace(<<w, at>>)
        BY <3>1 DEF PastPlace
    <3> QED
        BY <2>2, <3>2
  <2>5. Planning!NamedTwice
      BY <2>2, <2>3, <2>4 DEF Planning!NamedTwice, Planning!PathAt
  <2> QED
      BY <1>3, <2>1, <2>5, DecidedStep
<1>6. ASSUME NEW w \in 1..MaxWorkstreams, Planning!NotePath(w)
      PROVE  PlanningInv'
  <2>1. /\ Planning!Checking(w) /\ at \in DOMAIN proposed[w]
        /\ proposed[w][at] \notin seenPaths
        /\ seenPaths' = seenPaths \cup {proposed[w][at]}
        /\ at' = at + 1
        /\ proposed' = proposed /\ work' = work /\ verdict' = "deciding"
      BY <1>3, <1>6 DEF Planning!NotePath, Planning!SeenBefore
  <2>2. proposed' \in Planning!Proposals'
      BY <1>3, <2>1 DEF Planning!Proposals, Planning!UpTo
  <2>3. /\ work \in Nat /\ at \in 1..Len(proposed[w]) /\ Len(proposed[w]) \in Nat
        /\ w = work /\ w \in DOMAIN proposed
        /\ Planning!Places' = Planning!Places
        /\ <<w, at>> \in Planning!Places
    <3>1. Planning!Places' = Planning!Places
        BY <2>1 DEF Planning!Places
    <3>2. <<w, at>> \in Planning!Places
        BY <1>3, <2>1, PlacesOfProposal
    <3> QED
        BY <1>3, <2>1, <3>1, <3>2, ProposalShape
  <2>4. LoopPosition'
      BY <1>3, <2>1, <2>3 DEF LoopPosition
  <2>5. \A p \in Planning!Places :
            /\ PastPlace(p)' <=> (PastPlace(p) \/ p = <<w, at>>)
            /\ Planning!PathAt(p)' = Planning!PathAt(p)
    <3>1. ASSUME NEW p \in Planning!Places
          PROVE  PastPlace(p)' <=> (PastPlace(p) \/ p = <<w, at>>)
      <4>1. /\ p[1] \in DOMAIN proposed /\ p[2] \in DOMAIN proposed[p[1]]
            /\ p = <<p[1], p[2]>>
          BY <1>3, <2>1, <3>1, PlacesOfProposal
      <4>2. p[1] \in Nat /\ p[2] \in Nat
        <5>1. /\ DOMAIN proposed = 1..Len(proposed) /\ Len(proposed) \in Nat
              /\ DOMAIN proposed[p[1]] = 1..Len(proposed[p[1]])
              /\ Len(proposed[p[1]]) \in Nat
            BY <1>3, <2>1, <4>1, ProposalShape, BoundsAssumption
        <5>2. p[1] \in Nat
            BY <4>1, <5>1
        <5>3. p[2] \in Nat
            BY <4>1, <5>1
        <5> QED
            BY <5>2, <5>3
      <4>3. p = <<w, at>> <=> p[1] = w /\ p[2] = at
          BY <4>1
      <4> QED
          BY <2>1, <2>3, <4>2, <4>3 DEF PastPlace
    <3> QED
        BY <2>1, <3>1 DEF Planning!PathAt
  <2>6. Planning!PathAt(<<w, at>>) = proposed[w][at]
      BY DEF Planning!PathAt
  <2>7. SeenIsPast'
    <3>1. \A v \in DOMAIN proposed' : v < work' => proposed'[v] # <<>>
        BY <1>3, <2>1 DEF SeenIsPast
    <3>2. \A p \in Planning!Places' : PastPlace(p)' => Planning!PathAt(p)' \in seenPaths'
        BY <1>3, <2>1, <2>3, <2>5, <2>6 DEF SeenIsPast
    <3>3. \A path \in seenPaths' : \E p \in Planning!Places' :
              PastPlace(p)' /\ Planning!PathAt(p)' = path
        BY <1>3, <2>1, <2>3, <2>5, <2>6 DEF SeenIsPast
    <3>4. \A p, q \in Planning!Places' :
              PastPlace(p)' /\ PastPlace(q)' /\ Planning!PathAt(p)' = Planning!PathAt(q)'
                 => p = q
      <4>1. ASSUME NEW p \in Planning!Places, NEW q \in Planning!Places,
                   PastPlace(p)', PastPlace(q)',
                   Planning!PathAt(p)' = Planning!PathAt(q)'
            PROVE  p = q
        <5>1. /\ PastPlace(p) \/ p = <<w, at>>
              /\ PastPlace(q) \/ q = <<w, at>>
              /\ Planning!PathAt(p) = Planning!PathAt(q)
            BY <2>5, <4>1
        <5>2. ~(PastPlace(p) /\ q = <<w, at>>) /\ ~(PastPlace(q) /\ p = <<w, at>>)
          <6>1. \A o \in Planning!Places :
                    PastPlace(o) => Planning!PathAt(o) # proposed[w][at]
              BY <1>3, <2>1 DEF SeenIsPast
          <6> QED
              BY <2>6, <4>1, <5>1, <6>1
        <5>3. PastPlace(p) /\ PastPlace(q) => p = q
            BY <1>3, <2>1, <4>1, <5>1 DEF SeenIsPast
        <5> QED
            BY <5>1, <5>2, <5>3
      <4> QED
          BY <2>3, <4>1
    <3> QED
        BY <3>1, <3>2, <3>3, <3>4 DEF SeenIsPast
  <2>8. VerdictIsRight'
      BY <2>1 DEF VerdictIsRight, Planning!VerdictIsRight, Planning!Parallel
  <2> QED
      BY <2>1, <2>2, <2>4, <2>7, <2>8 DEF PlanningInv, Planning!Verdicts
<1>7. ASSUME NEW w \in 1..MaxWorkstreams, Planning!NextWorkstream(w)
      PROVE  PlanningInv'
  <2>1. /\ Planning!Checking(w) /\ at \notin DOMAIN proposed[w]
        /\ proposed[w] # <<>>
        /\ work' = w + 1 /\ at' = 1
        /\ proposed' = proposed /\ seenPaths' = seenPaths /\ verdict' = "deciding"
      BY <1>3, <1>7 DEF Planning!NextWorkstream, Planning!Undeclared,
                        Planning!FirstPath
  <2>2. proposed' \in Planning!Proposals'
      BY <1>3, <2>1 DEF Planning!Proposals, Planning!UpTo
  <2>3. /\ w = work /\ w \in 1..Len(proposed) /\ Len(proposed) \in Nat
        /\ DOMAIN proposed = 1..Len(proposed)
        /\ Len(proposed[w]) \in Nat /\ at = Len(proposed[w]) + 1
      BY <1>3, <2>1, ProposalShape DEF LoopPosition
  <2>4. LoopPosition'
    <3>1. \A v \in DOMAIN proposed : Len(proposed[v]) \in Nat
        BY <1>3, ProposalShape
    <3> QED
        BY <2>1, <2>3, <3>1 DEF LoopPosition
  <2>5. Planning!Places' = Planning!Places
      BY <2>1 DEF Planning!Places
  <2>6. ASSUME NEW p \in Planning!Places
        PROVE  (PastPlace(p)' <=> PastPlace(p))
               /\ Planning!PathAt(p)' = Planning!PathAt(p)
    <3>1. p[1] \in DOMAIN proposed /\ p[2] \in DOMAIN proposed[p[1]]
        BY <1>3, <2>1, <2>6, PlacesOfProposal
    <3>2. p[1] \in Nat /\ p[2] \in 1..Len(proposed[p[1]])
          /\ Len(proposed[p[1]]) \in Nat
        BY <1>3, <2>1, <3>1, ProposalShape
    <3>3. PastPlace(p)' <=> PastPlace(p)
        BY <2>1, <2>3, <3>2 DEF PastPlace
    <3> QED
        BY <2>1, <3>3 DEF Planning!PathAt
  <2>7. SeenIsPast'
    <3>1. \A v \in DOMAIN proposed' : v < work' => proposed'[v] # <<>>
      <4>1. ASSUME NEW v \in DOMAIN proposed, v < w + 1
            PROVE  proposed[v] # <<>>
        <5>1. v < w \/ v = w
            BY <2>3, <4>1
        <5> QED
            BY <1>3, <2>1, <2>3, <4>1, <5>1 DEF SeenIsPast
      <4> QED
          BY <2>1, <4>1
    <3>2. \A p \in Planning!Places' : PastPlace(p)' => Planning!PathAt(p)' \in seenPaths'
        BY <1>3, <2>1, <2>5, <2>6 DEF SeenIsPast
    <3>3. \A path \in seenPaths' : \E p \in Planning!Places' :
              PastPlace(p)' /\ Planning!PathAt(p)' = path
        BY <1>3, <2>1, <2>5, <2>6 DEF SeenIsPast
    <3>4. \A p, q \in Planning!Places' :
              PastPlace(p)' /\ PastPlace(q)' /\ Planning!PathAt(p)' = Planning!PathAt(q)'
                 => p = q
        BY <1>3, <2>1, <2>5, <2>6 DEF SeenIsPast
    <3> QED
        BY <3>1, <3>2, <3>3, <3>4 DEF SeenIsPast
  <2>8. VerdictIsRight'
      BY <2>1 DEF VerdictIsRight, Planning!VerdictIsRight, Planning!Parallel
  <2> QED
      BY <2>1, <2>2, <2>4, <2>7, <2>8 DEF PlanningInv, Planning!Verdicts
<1>8. CASE Planning!AcceptParallel
  <2>1. /\ verdict = "deciding" /\ work \notin DOMAIN proposed
        /\ Planning!Decided("as_proposed")
        /\ proposed \in Planning!Proposals /\ LoopPosition /\ SeenIsPast
      BY <1>8 DEF Planning!AcceptParallel, PlanningInv
  <2>2. work = Len(proposed) + 1 /\ DOMAIN proposed = 1..Len(proposed)
        /\ Len(proposed) \in Nat
      BY <2>1, ProposalShape DEF LoopPosition
  <2>3. ~Planning!SomeUndeclared
      BY <2>1, <2>2 DEF Planning!SomeUndeclared, SeenIsPast
  <2>4. \A p \in Planning!Places : PastPlace(p)
    <3>1. \A p \in Planning!Places : p[1] \in DOMAIN proposed
        BY <2>1, PlacesOfProposal
    <3> QED
        BY <2>2, <3>1 DEF PastPlace
  <2>5. ~Planning!NamedTwice
      BY <2>1, <2>4 DEF Planning!NamedTwice, SeenIsPast
  <2> QED
      BY <2>1, <2>3, <2>5, DecidedStep
<1>9. CASE UNCHANGED Planning!vars
  <2>1. /\ proposed' = proposed /\ work' = work /\ at' = at
        /\ seenPaths' = seenPaths /\ verdict' = verdict
      BY <1>9 DEF Planning!vars
  <2>2. Planning!Proposals' = Planning!Proposals
      BY <2>1 DEF Planning!Proposals, Planning!UpTo
  <2>3. /\ Planning!Places' = Planning!Places
        /\ \A p \in Planning!Places : /\ PastPlace(p)' = PastPlace(p)
                                      /\ Planning!PathAt(p)' = Planning!PathAt(p)
      BY <2>1 DEF Planning!Places, PastPlace, Planning!PathAt
  <2>4. LoopPosition' = LoopPosition
      BY <2>1 DEF LoopPosition
  <2>5. SeenIsPast => SeenIsPast'
      BY <2>1, <2>3 DEF SeenIsPast
  <2>6. VerdictIsRight' = VerdictIsRight
    <3>1. Planning!NamedTwice' = Planning!NamedTwice
        BY <2>3 DEF Planning!NamedTwice
    <3>2. Planning!SomeUndeclared' = Planning!SomeUndeclared
        BY <2>1 DEF Planning!SomeUndeclared
    <3> QED
        BY <2>1, <3>1, <3>2 DEF VerdictIsRight, Planning!VerdictIsRight,
                                Planning!Parallel
  <2> QED
      BY <2>1, <2>2, <2>4, <2>5, <2>6 DEF PlanningInv, Planning!Verdicts
<1> QED
    BY <1>1, <1>2, <1>4, <1>5, <1>6, <1>7, <1>8, <1>9
       DEF Planning!Next, Planning!CanRunInParallel

\* Workstreams that the coordinator starts side by side have all declared
\* what they change and never the same path, however many are proposed and
\* in whatever order; and one worker takes over only for a reason
\* (_can_run_in_parallel).
THEOREM ParallelIsDisjoint == Planning!Spec => []VerdictIsRight
<1>1. PlanningInv => VerdictIsRight
    BY DEF PlanningInv
<1> QED
    BY <1>1, PlanningInitial, PlanningStep, PTL DEF Planning!Spec

\* While the loop runs, where it is says what the variables are.
LEMMA PlanningTypesHere ==
    PlanningInv /\ verdict \in {"planning", "deciding"}
        => Planning!TypeOK
<1> SUFFICES ASSUME PlanningInv, verdict \in {"planning", "deciding"}
             PROVE  Planning!TypeOK
    OBVIOUS
<1> USE BoundsAssumption
<1>1. CASE verdict = "planning"
    BY <1>1 DEF PlanningInv, Planning!TypeOK, Planning!Verdicts
<1>2. CASE verdict = "deciding"
  <2>1. proposed \in Planning!Proposals /\ LoopPosition /\ SeenIsPast
      BY <1>2 DEF PlanningInv
  <2>2. work \in 1..(MaxWorkstreams + 1) /\ at \in 1..(MaxPaths + 1)
    <3>1. Len(proposed) \in 1..MaxWorkstreams
          /\ \A w \in DOMAIN proposed : Len(proposed[w]) \in 0..MaxPaths
        BY <2>1, ProposalShape
    <3> QED
        BY <2>1, <3>1 DEF LoopPosition
  <2>3. ASSUME NEW path \in seenPaths
        PROVE  path \in Paths
    <3>1. PICK p \in Planning!Places : Planning!PathAt(p) = path
        BY <2>1, <2>3 DEF SeenIsPast
    <3>2. p[1] \in DOMAIN proposed /\ p[2] \in DOMAIN proposed[p[1]]
        BY <2>1, PlacesOfProposal
    <3>3. proposed[p[1]] \in Seq(Paths)
        BY <2>1, <3>2, ProposalShape
    <3> QED
        BY <3>1, <3>2, <3>3 DEF Planning!PathAt
  <2>4. proposed \in Seq(Seq(Paths))
      BY <2>1, ProposalShape
  <2> QED
      BY <1>2, <2>2, <2>3, <2>4 DEF Planning!TypeOK, Planning!Verdicts
<1> QED
    BY <1>1, <1>2

LEMMA PlanningTypes == Planning!Spec => []Planning!TypeOK
<1> DEFINE Here == verdict \in {"planning", "deciding"}
           L == PlanningInv /\ Here => Planning!TypeOK
<1>1. L
    BY PlanningTypesHere
<1>2. L'
    BY <1>1, PTL
<1>3. Planning!Init => Planning!TypeOK
    BY BoundsAssumption DEF Planning!Init, Planning!TypeOK, Planning!Verdicts
<1>4. ASSUME Planning!TypeOK, PlanningInv', [Planning!Next]_(Planning!vars)
      PROVE  Planning!TypeOK'
  <2>1. CASE Here'
      BY <1>2, <1>4, <2>1
  <2>2. CASE ~Here'
    <3>1. UNCHANGED <<proposed, work, at, seenPaths>>
        BY <1>4, <2>2 DEF Planning!Next, Planning!vars, Planning!InvokeDecomposer,
              Planning!KeepOnlyWorkstream, Planning!CanRunInParallel,
              Planning!RefuseUndeclared, Planning!RefuseSeenPath,
              Planning!NotePath, Planning!NextWorkstream,
              Planning!AcceptParallel, Planning!Decided, Planning!Checking
    <3>2. verdict' \in Planning!Verdicts
        BY <1>4 DEF PlanningInv, Planning!Verdicts
    <3> QED
        BY <1>4, <3>1, <3>2 DEF Planning!TypeOK, Planning!Verdicts
  <2> QED
      BY <2>1, <2>2
<1> QED
    BY <1>3, <1>4, PlanningInitial, PlanningStep, PTL DEF Planning!Spec

-----------------------------------------------------------------------------
(* Facts about the sequences of AgentRun.                                    *)

LEMMA HeadAndTail ==
    ASSUME NEW S, NEW s \in Seq(S), s # <<>>
    PROVE  /\ Head(s) = s[1] /\ Head(s) \in S /\ 1 \in DOMAIN s
           /\ Tail(s) \in Seq(S)
           /\ \A i \in DOMAIN Tail(s) :
                 i \in Nat /\ i + 1 \in DOMAIN s /\ i + 1 # 1
                    /\ Tail(s)[i] = s[i + 1]
<1>1. Len(s) \in Nat /\ Len(s) # 0 /\ DOMAIN s = 1..Len(s)
    OBVIOUS
<1>2. Tail(s) \in Seq(S) /\ Len(Tail(s)) = Len(s) - 1
    OBVIOUS
<1>3. \A i \in 1..(Len(s) - 1) : Tail(s)[i] = s[i + 1]
    OBVIOUS
<1>4. DOMAIN Tail(s) = 1..(Len(s) - 1)
    BY <1>2
<1> QED
    BY <1>1, <1>2, <1>3, <1>4

LEMMA Concatenation ==
    ASSUME NEW S, NEW s \in Seq(S), NEW n \in Nat, NEW f \in [1..n -> S]
    PROVE  /\ s \o f \in Seq(S)
           /\ Len(s \o f) = Len(s) + n
           /\ DOMAIN (s \o f) = 1..(Len(s) + n)
           /\ \A i \in 1..Len(s) : (s \o f)[i] = s[i]
           /\ \A i \in 1..n : (s \o f)[Len(s) + i] = f[i]
<1>1. f \in Seq(S) /\ Len(f) = n
    OBVIOUS
<1>2. s \o f \in Seq(S) /\ Len(s \o f) = Len(s) + n
    BY <1>1
<1>3. Len(s) \in Nat
    OBVIOUS
<1>4. \A i \in 1..Len(s) : (s \o f)[i] = s[i]
    BY <1>1
<1>5. \A i \in 1..n : (s \o f)[Len(s) + i] = f[i]
    BY <1>1
<1> QED
    BY <1>2, <1>3, <1>4, <1>5

-----------------------------------------------------------------------------
(***************************************************************************)
(* AgentRun.  A call belongs to one conversation, and to one place of it:  *)
(* the fresh ids of AskForPatches are the only ones that are added.  So a  *)
(* call that waits in a restored turn has been applied by earlier          *)
(* processes only, and one that is asked for by none.                      *)
(***************************************************************************)

NoRepeat(turn) == \A i, j \in DOMAIN turn : turn[i] = turn[j] => i = j

ApartFrom(turn, other) ==
    \A i \in DOMAIN turn, j \in DOMAIN other : turn[i] # other[j]

KnownCalls(turn) == \A i \in DOMAIN turn : turn[i] \in DOMAIN calls

ConversationsOK ==
    \A a \in Agents :
        /\ live[a].step \in {"idle", "thinking", "completed"} => live[a].turn = <<>>
        /\ group # "running" => live[a] = AgentRun!Idle
        /\ KnownCalls(live[a].turn)
        /\ NoRepeat(live[a].turn)
        /\ \A b \in Agents \ {a} : ApartFrom(live[a].turn, live[b].turn)

SavedOK ==
    \A a \in Agents :
        /\ saved[a].status # "pending_approval" => saved[a].requests = <<>>
        /\ group = "running" /\ saved[a].status = "pending_approval"
              => live[a].step # "idle"
        /\ KnownCalls(saved[a].requests)
        /\ NoRepeat(saved[a].requests)
        /\ \A b \in Agents \ {a} : ApartFrom(saved[a].requests, saved[b].requests)

\* The calls a conversation still has before it.
TurnsOK ==
    \A a \in Agents : \A i \in DOMAIN live[a].turn :
        LET c == live[a].turn[i] IN
        /\ live[a].step = "applying" =>
              /\ calls[c].decision \in {"approved", "rejected"}
              /\ calls[c].applied <= agentHistory.crashes
        /\ live[a].step = "pending_approval" =>
              calls[c].decision = "none" /\ calls[c].applied = 0

RequestsOK ==
    \A a \in Agents : \A i \in DOMAIN saved[a].requests :
        LET c == saved[a].requests[i] IN
        /\ group = "waiting" => calls[c].decision # "none" /\ calls[c].applied = 0
        /\ group \in {"queued", "running"} =>
              calls[c].decision \in {"approved", "rejected"}
        /\ group = "queued" => calls[c].applied <= agentHistory.crashes

CallsOK ==
    \A c \in DOMAIN calls :
        /\ calls[c].applied > 0 => calls[c].decision = "approved"
        /\ calls[c].applied <= 1 + agentHistory.crashes
        /\ group \in {"queued", "running"} => calls[c].decision # "pending"

AgentInv == ConversationsOK /\ SavedOK /\ TurnsOK /\ RequestsOK /\ CallsOK

AgentTexts == Seq(AgentRun!CallIds \cup {AgentRun!BaseText})

LEMMA ResultsType ==
    ASSUME NEW content \in AgentTexts, NEW c \in AgentRun!CallIds,
           NEW result \in AgentRun!Results(content, AgentRun!Patch(c)),
           calls[c].operation \in AgentRun!Operations
    PROVE  result \in AgentTexts
<1>0. /\ AgentRun!Patch(c).call = c
      /\ AgentRun!Patch(c).operation = calls[c].operation
    BY DEF AgentRun!Patch
<1>1. <<c>> \in AgentTexts /\ Append(content, c) \in AgentTexts /\ <<>> \in AgentTexts
    BY DEF AgentTexts
<1>2. CASE calls[c].operation = "create_file"
    BY <1>0, <1>1, <1>2 DEF AgentRun!Results, AgentRun!CreateFile
<1>3. CASE calls[c].operation = "delete_file"
    BY <1>0, <1>1, <1>3 DEF AgentRun!Results, AgentRun!Absent
<1>4. CASE calls[c].operation = "update_file"
  <2>1. result \in {content, Append(content, c)}
      BY <1>0, <1>4 DEF AgentRun!Results
  <2> QED
      BY <1>1, <2>1
<1> QED
    BY <1>2, <1>3, <1>4 DEF AgentRun!Operations

LEMMA AgentInit == AgentRun!Init => AgentRun!TypeOK /\ AgentInv
<1> USE BoundsAssumption
<1> SUFFICES ASSUME AgentRun!Init
             PROVE  AgentRun!TypeOK /\ AgentInv
    OBVIOUS
<1>1. <<AgentRun!BaseText>> \in AgentTexts /\ AgentRun!Absent \in AgentTexts
    BY DEF AgentTexts, AgentRun!Absent
<1>2. files \in [Agents -> AgentTexts]
    BY <1>1 DEF AgentRun!Init
<1>3. live \in [Agents -> AgentRun!Conversations]
  <2>1. AgentRun!Idle \in AgentRun!Conversations
      BY DEF AgentRun!Idle, AgentRun!Conversations
  <2> QED
      BY <2>1 DEF AgentRun!Init
<1>4. saved \in [Agents -> AgentRun!Executions]
  <2>1. [status |-> "none", requests |-> <<>>] \in AgentRun!Executions
      BY DEF AgentRun!Executions
  <2> QED
      BY <2>1 DEF AgentRun!Init
<1>5. agentHistory = [files |-> files, crashes |-> 0] /\ 0 \in 0..AgentCrashes
    BY DEF AgentRun!Init
<1>6. calls = <<>> /\ group = "queued"
    BY DEF AgentRun!Init
<1>7. AgentRun!TypeOK
    BY <1>2, <1>3, <1>4, <1>5, <1>6 DEF AgentRun!TypeOK, AgentTexts
<1>8. \A a \in Agents : /\ live[a] = AgentRun!Idle
                        /\ live[a].step = "idle" /\ live[a].turn = <<>>
                        /\ saved[a].status = "none" /\ saved[a].requests = <<>>
    BY DEF AgentRun!Init, AgentRun!Idle
<1>9. AgentInv
    BY <1>6, <1>8 DEF AgentInv, ConversationsOK, SavedOK, TurnsOK, RequestsOK,
                      CallsOK, KnownCalls, NoRepeat, ApartFrom
<1> QED
    BY <1>7, <1>9

LEMMA AgentTypesStep ==
    AgentRun!TypeOK /\ AgentInv /\ [AgentRun!Next]_(AgentRun!vars)
        => AgentRun!TypeOK'
<1> USE BoundsAssumption
<1> SUFFICES ASSUME AgentRun!TypeOK, AgentInv, [AgentRun!Next]_(AgentRun!vars)
             PROVE  AgentRun!TypeOK'
    OBVIOUS
<1> DEFINE Group == {"queued", "running", "waiting", "finished", "failed"}
           Histories == [files: [Agents -> AgentTexts], crashes: 0..AgentCrashes]
<1>0. /\ live \in [Agents -> AgentRun!Conversations]
      /\ saved \in [Agents -> AgentRun!Executions]
      /\ calls \in Seq(AgentRun!Calls) /\ Len(calls) <= MaxCalls
      /\ files \in [Agents -> AgentTexts]
      /\ group \in Group
      /\ agentHistory \in Histories
    BY DEF AgentRun!TypeOK, AgentTexts
<1>q. ASSUME   /\ live' \in [Agents -> AgentRun!Conversations]
               /\ saved' \in [Agents -> AgentRun!Executions]
               /\ calls' \in Seq(AgentRun!Calls) /\ Len(calls') <= MaxCalls
               /\ files' \in [Agents -> AgentTexts]
               /\ group' \in Group
               /\ agentHistory' \in Histories
      PROVE    AgentRun!TypeOK'
    BY <1>q DEF AgentRun!TypeOK, AgentTexts, AgentRun!Conversations,
           AgentRun!Executions, AgentRun!Calls, AgentRun!CallIds,
           AgentRun!BaseText, AgentRun!Operations, AgentRun!Decisions
<1>i. AgentRun!Idle \in AgentRun!Conversations
    BY DEF AgentRun!Idle, AgentRun!Conversations
<1>j. [a \in Agents |-> AgentRun!Idle] \in [Agents -> AgentRun!Conversations]
    BY <1>i
<1>k. Len(calls) \in Nat /\ DOMAIN calls = 1..Len(calls)
    BY <1>0
<1>1. CASE AgentRun!InvokeWorkers
  <2>1. [step |-> "thinking", turn |-> <<>>] \in AgentRun!Conversations
      BY DEF AgentRun!Conversations
  <2> QED
      BY <1>0, <1>1, <1>q, <2>1 DEF AgentRun!InvokeWorkers
<1>2. CASE AgentRun!ResumeWorkers
  <2>1. ASSUME NEW a \in Agents
        PROVE  [step |-> "applying", turn |-> saved[a].requests]
                  \in AgentRun!Conversations
      BY <1>0, <2>1 DEF AgentRun!Conversations, AgentRun!Executions
  <2> QED
      BY <1>0, <1>2, <1>i, <1>q, <2>1 DEF AgentRun!ResumeWorkers
<1>3. ASSUME NEW a \in Agents, AgentRun!TakeCall(a)
      PROVE  /\ live' \in [Agents -> AgentRun!Conversations]
             /\ saved' = saved /\ group' = group /\ agentHistory' = agentHistory
             /\ Head(live[a].turn) \in AgentRun!CallIds
             /\ Head(live[a].turn) \in DOMAIN calls
  <2>1. live[a].turn \in Seq(AgentRun!CallIds) /\ live[a].turn # <<>>
      BY <1>0, <1>3 DEF AgentRun!TakeCall, AgentRun!Conversations
  <2>2. /\ Tail(live[a].turn) \in Seq(AgentRun!CallIds)
        /\ Head(live[a].turn) \in AgentRun!CallIds
        /\ Head(live[a].turn) = live[a].turn[1] /\ 1 \in DOMAIN live[a].turn
      BY <2>1, HeadAndTail
  <2>3. live' = [live EXCEPT ![a].turn = Tail(live[a].turn)]
      BY <1>0, <1>3 DEF AgentRun!TakeCall
  <2>4. live' \in [Agents -> AgentRun!Conversations]
      BY <1>0, <2>2, <2>3 DEF AgentRun!Conversations
  <2>5. Head(live[a].turn) \in DOMAIN calls
      BY <2>2 DEF AgentInv, ConversationsOK, KnownCalls
  <2> QED
      BY <1>3, <2>2, <2>4, <2>5 DEF AgentRun!TakeCall
<1>4. ASSUME NEW a \in Agents, AgentRun!ApplyPatch(a)
      PROVE  AgentRun!TypeOK'
  <2> DEFINE c == Head(live[a].turn)
  <2>1. AgentRun!TakeCall(a)
      BY <1>4 DEF AgentRun!ApplyPatch
  <2>2. c \in AgentRun!CallIds /\ c \in DOMAIN calls
      BY <1>3, <2>1
  <2>3. PICK content \in AgentRun!Results(files[a], AgentRun!Patch(c)) :
              files' = [files EXCEPT ![a] = content]
      BY <1>4 DEF AgentRun!ApplyPatch
  <2>4. calls' = [calls EXCEPT ![c].applied = @ + 1]
      BY <1>4 DEF AgentRun!ApplyPatch
  <2> HIDE DEF c
  <2>5. calls[c] \in AgentRun!Calls
      BY <1>0, <2>2
  <2>6. calls[c].operation \in AgentRun!Operations
      BY <2>5 DEF AgentRun!Calls
  <2>7. content \in AgentTexts
      BY <1>0, <2>2, <2>3, <2>6, ResultsType
  <2>8. files' \in [Agents -> AgentTexts]
      BY <1>0, <2>3, <2>7
  <2>9. calls' \in Seq(AgentRun!Calls) /\ Len(calls') <= MaxCalls
    <3>1. [calls[c] EXCEPT !.applied = @ + 1] \in AgentRun!Calls
        BY <2>5 DEF AgentRun!Calls
    <3>2. calls' = [calls EXCEPT ![c] = [calls[c] EXCEPT !.applied = @ + 1]]
        BY <2>4
    <3> QED
        BY <1>0, <1>k, <2>2, <3>1, <3>2
  <2> QED
      BY <1>0, <1>3, <1>q, <2>1, <2>8, <2>9
<1>5. ASSUME NEW a \in Agents, AgentRun!RejectPatch(a)
      PROVE  AgentRun!TypeOK'
  <2>1. AgentRun!TakeCall(a) /\ calls' = calls /\ files' = files
      BY <1>5 DEF AgentRun!RejectPatch
  <2> QED
      BY <1>0, <1>3, <1>q, <2>1
<1>6. ASSUME NEW a \in Agents, AgentRun!TurnDone(a)
      PROVE  AgentRun!TypeOK'
  <2>1. live' \in [Agents -> AgentRun!Conversations]
      BY <1>0, <1>6 DEF AgentRun!TurnDone, AgentRun!Conversations
  <2> QED
      BY <1>0, <1>6, <1>q, <2>1 DEF AgentRun!TurnDone
<1>7. ASSUME NEW a \in Agents, AgentRun!AskForPatches(a)
      PROVE  AgentRun!TypeOK'
  <2>n. PICK n \in 1..(MaxCalls - Len(calls)) :
          \E operations \in [1..n -> AgentRun!Operations] :
          /\ calls' = calls \o [i \in 1..n |->
                [operation |-> operations[i], decision |-> "none", applied |-> 0]]
          /\ live' = [live EXCEPT ![a] =
                [step |-> "pending_approval",
                 turn |-> [i \in 1..n |-> Len(calls) + i]]]
      BY <1>7 DEF AgentRun!AskForPatches
  <2>1. PICK operations \in [1..n -> AgentRun!Operations] :
          /\ calls' = calls \o [i \in 1..n |->
                [operation |-> operations[i], decision |-> "none", applied |-> 0]]
          /\ live' = [live EXCEPT ![a] =
                [step |-> "pending_approval",
                 turn |-> [i \in 1..n |-> Len(calls) + i]]]
      BY <2>n
  <2> DEFINE new == [i \in 1..n |->
                [operation |-> operations[i], decision |-> "none", applied |-> 0]]
             asked == [i \in 1..n |-> Len(calls) + i]
  <2>2. new \in [1..n -> AgentRun!Calls]
      BY DEF AgentRun!Calls, AgentRun!Decisions
  <2>3. asked \in Seq(AgentRun!CallIds)
      BY <1>k DEF AgentRun!CallIds
  <2>4. calls' = calls \o new
      BY <2>1
  <2>5. live' = [live EXCEPT ![a] = [step |-> "pending_approval", turn |-> asked]]
      BY <2>1
  <2> HIDE DEF new, asked
  <2>6. calls' \in Seq(AgentRun!Calls) /\ Len(calls') <= MaxCalls
      BY <1>0, <1>k, <2>2, <2>4, Concatenation
  <2>7. live' \in [Agents -> AgentRun!Conversations]
      BY <1>0, <2>3, <2>5 DEF AgentRun!Conversations
  <2> QED
      BY <1>0, <1>7, <1>q, <2>6, <2>7 DEF AgentRun!AskForPatches
<1>8. ASSUME NEW a \in Agents, AgentRun!CompleteWork(a)
      PROVE  AgentRun!TypeOK'
  <2>1. live' \in [Agents -> AgentRun!Conversations]
      BY <1>0, <1>8 DEF AgentRun!CompleteWork, AgentRun!Conversations
  <2> QED
      BY <1>0, <1>8, <1>q, <2>1 DEF AgentRun!CompleteWork
<1>9. ASSUME NEW a \in Agents, AgentRun!Returned(a)
      PROVE  AgentRun!ExecutionAfter(a) \in AgentRun!Executions
    BY <1>0, <1>9 DEF AgentRun!Returned, AgentRun!ExecutionAfter,
                      AgentRun!Executions, AgentRun!Conversations
<1>10. CASE AgentRun!SavePause
  <2>1. saved' \in [Agents -> AgentRun!Executions]
      BY <1>9, <1>10 DEF AgentRun!SavePause
  <2>2. calls' \in Seq(AgentRun!Calls) /\ Len(calls') <= MaxCalls
    <3>1. ASSUME NEW c \in DOMAIN calls
          PROVE  [calls[c] EXCEPT !.decision = "pending"] \in AgentRun!Calls
                 /\ calls[c] \in AgentRun!Calls
      <4>1. calls[c] \in AgentRun!Calls
          BY <1>0, <3>1
      <4> QED
          BY <4>1 DEF AgentRun!Calls, AgentRun!Decisions
    <3>2. calls' \in [1..Len(calls) -> AgentRun!Calls]
        BY <1>k, <1>10, <3>1 DEF AgentRun!SavePause
    <3> QED
        BY <1>0, <1>k, <3>2
  <2>3. agentHistory' \in Histories
      BY <1>0, <1>10 DEF AgentRun!SavePause
  <2> QED
      BY <1>0, <1>10, <1>j, <1>q, <2>1, <2>2, <2>3 DEF AgentRun!SavePause
<1>11. CASE AgentRun!GroupFinishes
  <2>1. saved' \in [Agents -> AgentRun!Executions]
      BY <1>9, <1>11 DEF AgentRun!GroupFinishes
  <2> QED
      BY <1>0, <1>11, <1>j, <1>q, <2>1 DEF AgentRun!GroupFinishes
<1>12. CASE AgentRun!AgentFails
    BY <1>0, <1>12, <1>j, <1>q DEF AgentRun!AgentFails
<1>13. ASSUME NEW c \in DOMAIN calls, NEW decision \in {"approved", "rejected"},
              AgentRun!Decide(c, decision)
       PROVE  AgentRun!TypeOK'
  <2>1. calls' \in Seq(AgentRun!Calls) /\ Len(calls') <= MaxCalls
    <3>1. [calls[c] EXCEPT !.decision = decision] \in AgentRun!Calls
      <4>1. calls[c] \in AgentRun!Calls
          BY <1>0, <1>13
      <4> QED
          BY <1>13, <4>1 DEF AgentRun!Calls, AgentRun!Decisions
    <3>2. calls' = [calls EXCEPT ![c] = [calls[c] EXCEPT !.decision = decision]]
        BY <1>13 DEF AgentRun!Decide
    <3> QED
        BY <1>0, <1>k, <1>13, <3>1, <3>2
  <2>2. group' \in Group
      BY <1>0, <1>13 DEF AgentRun!Decide
  <2> QED
      BY <1>0, <1>13, <1>q, <2>1, <2>2 DEF AgentRun!Decide
<1>14. CASE AgentRun!Crash
  <2>1. agentHistory' \in Histories
    <3>1. agentHistory.crashes + 1 \in 0..AgentCrashes
        BY <1>0, <1>14 DEF AgentRun!Crash
    <3> QED
        BY <1>0, <1>14, <3>1 DEF AgentRun!Crash
  <2> QED
      BY <1>0, <1>14, <1>j, <1>q, <2>1 DEF AgentRun!Crash
<1>15. CASE UNCHANGED AgentRun!vars
    BY <1>0, <1>15, <1>q DEF AgentRun!vars
<1> QED
    BY <1>1, <1>2, <1>4, <1>5, <1>6, <1>7, <1>8, <1>10, <1>11, <1>12, <1>13,
       <1>14, <1>15 DEF AgentRun!Next

\* What _replace_work_execution makes of an agent that has returned: it waits
\* for the calls of its last turn, or for none.
LEMMA ReturnedExecution ==
    ASSUME AgentInv, group = "running", NEW a \in Agents, AgentRun!Returned(a)
    PROVE  /\ AgentRun!ExecutionAfter(a).requests = live[a].turn
           /\ AgentRun!ExecutionAfter(a).status # "pending_approval"
                 => live[a].turn = <<>>
           /\ live[a].turn # <<>> => live[a].step = "pending_approval"
<1>1. CASE live[a].step = "idle"
    BY <1>1 DEF AgentRun!ExecutionAfter, AgentInv, ConversationsOK, SavedOK
<1>2. CASE live[a].step = "completed"
    BY <1>2 DEF AgentRun!ExecutionAfter, AgentInv, ConversationsOK
<1>3. CASE live[a].step = "pending_approval"
    BY <1>3 DEF AgentRun!ExecutionAfter
<1> QED
    BY <1>1, <1>2, <1>3 DEF AgentRun!Returned

LEMMA AgentStep ==
    AgentRun!TypeOK /\ AgentInv /\ [AgentRun!Next]_(AgentRun!vars) => AgentInv'
<1> SUFFICES ASSUME AgentRun!TypeOK, AgentInv, [AgentRun!Next]_(AgentRun!vars)
             PROVE  AgentInv'
    OBVIOUS
<1> USE BoundsAssumption
<1>0. /\ ConversationsOK /\ SavedOK /\ TurnsOK /\ RequestsOK /\ CallsOK
    BY DEF AgentInv
<1>q. ASSUME ConversationsOK', SavedOK', TurnsOK', RequestsOK', CallsOK'
      PROVE  AgentInv'
    BY <1>q DEF AgentInv
<1>l. /\ live \in [Agents -> AgentRun!Conversations]
      /\ saved \in [Agents -> AgentRun!Executions]
      /\ calls \in Seq(AgentRun!Calls)
      /\ Len(calls) \in Nat /\ DOMAIN calls = 1..Len(calls)
      /\ agentHistory.crashes \in Nat
    BY DEF AgentRun!TypeOK
<1>c. ASSUME NEW d \in DOMAIN calls
      PROVE  /\ calls[d] \in AgentRun!Calls
             /\ calls[d].decision \in {"none", "pending", "approved", "rejected"}
             /\ calls[d].applied \in Nat
  <2>1. calls[d] \in AgentRun!Calls
      BY <1>l, <1>c
  <2> QED
      BY <2>1 DEF AgentRun!Calls, AgentRun!Decisions
<1>k. ASSUME NEW a \in Agents
      PROVE  /\ live[a].turn \in Seq(AgentRun!CallIds)
             /\ saved[a].requests \in Seq(AgentRun!CallIds)
             /\ \A i \in DOMAIN live[a].turn : live[a].turn[i] \in DOMAIN calls
             /\ \A i \in DOMAIN saved[a].requests :
                   saved[a].requests[i] \in DOMAIN calls
  <2>1. live[a] \in AgentRun!Conversations /\ saved[a] \in AgentRun!Executions
      BY <1>l, <1>k
  <2> QED
      BY <1>0, <2>1 DEF AgentRun!Conversations, AgentRun!Executions,
                        ConversationsOK, SavedOK, KnownCalls
<1>1. CASE AgentRun!InvokeWorkers
  <2>1. /\ group = "queued" /\ group' = "running"
        /\ calls' = calls /\ agentHistory' = agentHistory /\ saved' = saved
        /\ \A a \in Agents : /\ saved[a].status = "none"
                             /\ live'[a].step = "thinking" /\ live'[a].turn = <<>>
      BY <1>1 DEF AgentRun!InvokeWorkers
  <2>2. ConversationsOK'
      BY <2>1 DEF ConversationsOK, KnownCalls, NoRepeat, ApartFrom
  <2>3. SavedOK'
      BY <1>0, <2>1 DEF SavedOK, KnownCalls, NoRepeat, ApartFrom
  <2>4. TurnsOK'
      BY <2>1 DEF TurnsOK
  <2>5. RequestsOK' /\ CallsOK'
      BY <1>0, <2>1 DEF RequestsOK, CallsOK
  <2> QED
      BY <1>q, <2>2, <2>3, <2>4, <2>5
<1>2. CASE AgentRun!ResumeWorkers
  <2>1. /\ group = "queued" /\ group' = "running"
        /\ calls' = calls /\ agentHistory' = agentHistory /\ saved' = saved
        /\ \A a \in Agents :
              IF saved[a].status = "pending_approval"
              THEN live'[a].step = "applying" /\ live'[a].turn = saved[a].requests
              ELSE live'[a].step = "idle" /\ live'[a].turn = <<>>
      BY <1>2 DEF AgentRun!ResumeWorkers, AgentRun!Pending, AgentRun!Idle
  <2>2. \A a \in Agents : live'[a].turn = saved[a].requests
      BY <1>0, <2>1 DEF SavedOK
  <2>3. ConversationsOK'
      BY <1>0, <2>1, <2>2 DEF ConversationsOK, SavedOK, KnownCalls, NoRepeat,
                              ApartFrom
  <2>4. SavedOK'
      BY <1>0, <2>1 DEF SavedOK, KnownCalls, NoRepeat, ApartFrom
  <2>5. TurnsOK'
      BY <1>0, <2>1, <2>2 DEF TurnsOK, RequestsOK
  <2>6. RequestsOK' /\ CallsOK'
      BY <1>0, <2>1 DEF RequestsOK, CallsOK
  <2> QED
      BY <1>q, <2>3, <2>4, <2>5, <2>6
<1>3. ASSUME NEW a \in Agents, AgentRun!TakeCall(a), DOMAIN calls' = DOMAIN calls
      PROVE  /\ group = "running" /\ group' = "running"
             /\ agentHistory' = agentHistory /\ saved' = saved
             /\ live[a].step = "applying"
             /\ 1 \in DOMAIN live[a].turn
             /\ Head(live[a].turn) = live[a].turn[1]
             /\ live'[a].step = "applying"
             /\ \A i \in DOMAIN live'[a].turn :
                   i + 1 \in DOMAIN live[a].turn /\ i + 1 # 1 /\ i \in Nat
                      /\ live'[a].turn[i] = live[a].turn[i + 1]
             /\ \A b \in Agents \ {a} : live'[b] = live[b]
             /\ ConversationsOK'
  <2>1. /\ group = "running" /\ group' = "running"
        /\ agentHistory' = agentHistory /\ saved' = saved
        /\ live[a].step = "applying" /\ live[a].turn # <<>>
        /\ live' = [live EXCEPT ![a].turn = Tail(@)]
      BY <1>3 DEF AgentRun!TakeCall
  <2>2. live[a] \in AgentRun!Conversations
      BY <1>l, <1>3
  <2>3. /\ live'[a].step = "applying" /\ live'[a].turn = Tail(live[a].turn)
        /\ \A b \in Agents \ {a} : live'[b] = live[b]
      BY <1>l, <2>1, <2>2 DEF AgentRun!Conversations
  <2>4. /\ 1 \in DOMAIN live[a].turn
        /\ Head(live[a].turn) = live[a].turn[1]
        /\ \A i \in DOMAIN live'[a].turn :
              i + 1 \in DOMAIN live[a].turn /\ i + 1 # 1 /\ i \in Nat
                 /\ live'[a].turn[i] = live[a].turn[i + 1]
    <3>1. live[a].turn \in Seq(AgentRun!CallIds) /\ live[a].turn # <<>>
        BY <1>k, <1>3, <2>1
    <3>2. /\ 1 \in DOMAIN live[a].turn
          /\ Head(live[a].turn) = live[a].turn[1]
          /\ \A i \in DOMAIN Tail(live[a].turn) :
                i \in Nat /\ i + 1 \in DOMAIN live[a].turn /\ i + 1 # 1
                   /\ Tail(live[a].turn)[i] = live[a].turn[i + 1]
        BY <3>1, HeadAndTail
    <3> QED
        BY <2>3, <3>2
  <2>5. ConversationsOK'
    <3>0. ASSUME NEW b \in Agents, NEW i \in DOMAIN live'[b].turn
          PROVE  \E j \in DOMAIN live[b].turn : live'[b].turn[i] = live[b].turn[j]
      <4>1. CASE b = a
          BY <2>4, <3>0, <4>1
      <4>2. CASE b # a
          BY <2>3, <3>0, <4>2
      <4> QED
          BY <4>1, <4>2
    <3>1. \A b \in Agents : KnownCalls(live[b].turn)'
      <4>1. \A b \in Agents : KnownCalls(live[b].turn)
          BY <1>0 DEF ConversationsOK
      <4>2. DOMAIN calls' = DOMAIN calls
          BY <1>3
      <4>3. ASSUME NEW b \in Agents, NEW i \in DOMAIN live'[b].turn
            PROVE  live'[b].turn[i] \in DOMAIN calls'
          BY <3>0, <4>1, <4>2, <4>3 DEF KnownCalls
      <4> QED
          BY <4>3 DEF KnownCalls
    <3>2. \A b \in Agents : NoRepeat(live[b].turn)'
      <4>1. NoRepeat(live'[a].turn)
        <5> SUFFICES ASSUME NEW i \in DOMAIN live'[a].turn,
                            NEW j \in DOMAIN live'[a].turn,
                            live'[a].turn[i] = live'[a].turn[j]
                     PROVE  i = j
            BY DEF NoRepeat
        <5>1. i + 1 = j + 1
            BY <1>0, <2>4 DEF ConversationsOK, NoRepeat
        <5> QED
            BY <2>4, <5>1
      <4> QED
          BY <1>0, <2>3, <4>1 DEF ConversationsOK, NoRepeat
    <3>3. \A b \in Agents : \A d \in Agents \ {b} :
              ApartFrom(live[b].turn, live[d].turn)'
      <4>1. \A b \in Agents : \A d \in Agents \ {b} :
                ApartFrom(live[b].turn, live[d].turn)
          BY <1>0 DEF ConversationsOK
      <4>2. ASSUME NEW b \in Agents, NEW d \in Agents \ {b},
                   NEW i \in DOMAIN live'[b].turn, NEW j \in DOMAIN live'[d].turn
            PROVE  live'[b].turn[i] # live'[d].turn[j]
        <5>1. PICK k \in DOMAIN live[b].turn : live'[b].turn[i] = live[b].turn[k]
            BY <3>0
        <5>2. PICK m \in DOMAIN live[d].turn : live'[d].turn[j] = live[d].turn[m]
            BY <3>0
        <5> QED
            BY <4>1, <5>1, <5>2 DEF ApartFrom
      <4> QED
          BY <4>2 DEF ApartFrom
    <3> QED
        BY <1>0, <2>1, <2>3, <3>1, <3>2, <3>3 DEF ConversationsOK
  <2> QED
      BY <2>1, <2>3, <2>4, <2>5
<1>4. ASSUME NEW a \in Agents, AgentRun!ApplyPatch(a)
      PROVE  AgentInv'
  <2> DEFINE c == Head(live[a].turn)
  <2>1. /\ AgentRun!TakeCall(a) /\ calls[c].decision = "approved"
        /\ calls' = [calls EXCEPT ![c].applied = @ + 1]
      BY <1>4 DEF AgentRun!ApplyPatch, AgentRun!IsApproved, AgentRun!Decision
  <2>2. DOMAIN calls' = DOMAIN calls
      BY <2>1
  <2>3. c = live[a].turn[1] /\ 1 \in DOMAIN live[a].turn /\ c \in DOMAIN calls
      BY <1>3, <1>k, <2>1, <2>2
  <2>4. /\ calls'[c].decision = "approved"
        /\ calls'[c].applied = calls[c].applied + 1
        /\ \A d \in DOMAIN calls \ {c} : calls'[d] = calls[d]
      BY <1>c, <2>1, <2>3 DEF AgentRun!Calls
  <2>5. calls[c].applied <= agentHistory.crashes /\ calls[c].applied \in Nat
      BY <1>0, <1>3, <1>c, <2>1, <2>2, <2>3 DEF TurnsOK
  <2> HIDE DEF c
  <2>6. \A d \in DOMAIN calls : calls'[d].decision = calls[d].decision
      BY <2>1, <2>4
  <2>7. ASSUME NEW b \in Agents, NEW i \in DOMAIN live'[b].turn
        PROVE  /\ live'[b].turn[i] \in DOMAIN calls \ {c}
               /\ live'[b].step = live[b].step
               /\ \E j \in DOMAIN live[b].turn : live'[b].turn[i] = live[b].turn[j]
    <3>1. CASE b = a
        BY <1>0, <1>3, <1>k, <2>1, <2>2, <2>3, <2>7, <3>1
           DEF ConversationsOK, NoRepeat
    <3>2. CASE b # a
        BY <1>0, <1>3, <1>k, <2>1, <2>2, <2>3, <2>7, <3>2
           DEF ConversationsOK, ApartFrom
    <3> QED
        BY <3>1, <3>2
  <2>8. TurnsOK'
    <3> SUFFICES ASSUME NEW b \in Agents, NEW i \in DOMAIN live'[b].turn
                 PROVE  LET d == live'[b].turn[i] IN
                        /\ live'[b].step = "applying" =>
                              /\ calls'[d].decision \in {"approved", "rejected"}
                              /\ calls'[d].applied <= agentHistory'.crashes
                        /\ live'[b].step = "pending_approval" =>
                              calls'[d].decision = "none" /\ calls'[d].applied = 0
        BY DEF TurnsOK
    <3>1. PICK j \in DOMAIN live[b].turn : live'[b].turn[i] = live[b].turn[j]
        BY <2>7
    <3>2. calls'[live'[b].turn[i]] = calls[live[b].turn[j]]
          /\ live'[b].step = live[b].step /\ agentHistory' = agentHistory
        BY <1>3, <2>1, <2>2, <2>4, <2>7, <3>1
    <3> QED
        BY <1>0, <3>1, <3>2 DEF TurnsOK
  <2>9. ConversationsOK' /\ saved' = saved /\ agentHistory' = agentHistory
        /\ group = "running" /\ group' = "running"
      BY <1>3, <2>1, <2>2
  <2>10. SavedOK'
    <3>1. \A b \in Agents : live'[b].step = live[b].step
        BY <1>3, <2>1, <2>2
    <3> QED
        BY <1>0, <2>2, <2>9, <3>1 DEF SavedOK, KnownCalls, NoRepeat, ApartFrom
  <2>11. RequestsOK'
      BY <1>0, <1>k, <2>6, <2>9 DEF RequestsOK
  <2>12. CallsOK'
    <3>1. ASSUME NEW d \in DOMAIN calls, d # c
          PROVE  /\ calls'[d].applied > 0 => calls'[d].decision = "approved"
                 /\ calls'[d].applied <= 1 + agentHistory.crashes
                 /\ calls'[d].decision # "pending"
        BY <1>0, <2>4, <2>9, <3>1 DEF CallsOK
    <3>2. /\ calls'[c].decision = "approved"
          /\ calls'[c].applied <= 1 + agentHistory.crashes
        BY <1>l, <2>4, <2>5
    <3> QED
        BY <2>2, <2>9, <3>1, <3>2 DEF CallsOK
  <2> QED
      BY <1>q, <2>8, <2>9, <2>10, <2>11, <2>12
<1>5. ASSUME NEW a \in Agents, AgentRun!RejectPatch(a)
      PROVE  AgentInv'
  <2>1. AgentRun!TakeCall(a) /\ calls' = calls
      BY <1>5 DEF AgentRun!RejectPatch
  <2>2. ConversationsOK' /\ saved' = saved /\ agentHistory' = agentHistory
        /\ group = "running" /\ group' = "running"
        /\ \A b \in Agents : live'[b].step = live[b].step
      BY <1>3, <2>1
  <2>3. SavedOK'
      BY <1>0, <2>1, <2>2 DEF SavedOK, KnownCalls, NoRepeat, ApartFrom
  <2>4. TurnsOK'
    <3>1. ASSUME NEW b \in Agents, NEW i \in DOMAIN live'[b].turn
          PROVE  \E j \in DOMAIN live[b].turn : live'[b].turn[i] = live[b].turn[j]
        BY <1>3, <2>1, <3>1
    <3> QED
        BY <1>0, <2>1, <2>2, <3>1 DEF TurnsOK
  <2>5. RequestsOK' /\ CallsOK'
      BY <1>0, <2>1, <2>2 DEF RequestsOK, CallsOK
  <2> QED
      BY <1>q, <2>2, <2>3, <2>4, <2>5
<1>6. ASSUME NEW a \in Agents, AgentRun!TurnDone(a) \/ AgentRun!CompleteWork(a)
      PROVE  AgentInv'
  <2>1. /\ group = "running" /\ group' = "running"
        /\ calls' = calls /\ agentHistory' = agentHistory /\ saved' = saved
        /\ live[a].turn = <<>>
        /\ live'[a].turn = <<>> /\ live'[a].step \in {"thinking", "completed"}
        /\ \A b \in Agents \ {a} : live'[b] = live[b]
    <3>1. live[a] \in AgentRun!Conversations
        BY <1>l, <1>6
    <3>2. CASE AgentRun!TurnDone(a)
        BY <1>l, <3>1, <3>2 DEF AgentRun!TurnDone, AgentRun!Conversations
    <3>3. CASE AgentRun!CompleteWork(a)
        BY <1>0, <1>l, <3>1, <3>3 DEF AgentRun!CompleteWork,
                                      AgentRun!Conversations, ConversationsOK
    <3> QED
        BY <1>6, <3>2, <3>3
  <2>2. \A b \in Agents : live'[b].turn = live[b].turn
      BY <2>1
  <2>3. ConversationsOK'
    <3>1. \A b \in Agents : live'[b].step \in {"idle", "thinking", "completed"}
                               => live'[b].turn = <<>>
        BY <1>0, <2>1 DEF ConversationsOK
    <3> QED
        BY <1>0, <2>1, <2>2, <3>1 DEF ConversationsOK, KnownCalls, NoRepeat,
                                      ApartFrom
  <2>4. SavedOK'
      BY <1>0, <2>1 DEF SavedOK, KnownCalls, NoRepeat, ApartFrom
  <2>5. TurnsOK'
      BY <1>0, <2>1 DEF TurnsOK
  <2>6. RequestsOK' /\ CallsOK'
      BY <1>0, <2>1 DEF RequestsOK, CallsOK
  <2> QED
      BY <1>q, <2>3, <2>4, <2>5, <2>6
<1>7. ASSUME NEW a \in Agents, AgentRun!AskForPatches(a)
      PROVE  AgentInv'
  <2>n. PICK n \in 1..(MaxCalls - Len(calls)) :
          \E operations \in [1..n -> AgentRun!Operations] :
          /\ calls' = calls \o [i \in 1..n |->
                [operation |-> operations[i], decision |-> "none", applied |-> 0]]
          /\ live' = [live EXCEPT ![a] =
                [step |-> "pending_approval",
                 turn |-> [i \in 1..n |-> Len(calls) + i]]]
      BY <1>7 DEF AgentRun!AskForPatches
  <2>1. PICK operations \in [1..n -> AgentRun!Operations] :
          /\ calls' = calls \o [i \in 1..n |->
                [operation |-> operations[i], decision |-> "none", applied |-> 0]]
          /\ live' = [live EXCEPT ![a] =
                [step |-> "pending_approval",
                 turn |-> [i \in 1..n |-> Len(calls) + i]]]
      BY <2>n
  <2> DEFINE new == [i \in 1..n |->
                [operation |-> operations[i], decision |-> "none", applied |-> 0]]
             asked == [i \in 1..n |-> Len(calls) + i]
  <2>2. /\ group = "running" /\ group' = "running"
        /\ agentHistory' = agentHistory /\ saved' = saved
        /\ live[a].step = "thinking"
      BY <1>7 DEF AgentRun!AskForPatches
  <2>3. /\ new \in [1..n -> AgentRun!Calls]
        /\ \A i \in 1..n : new[i].decision = "none" /\ new[i].applied = 0
      BY DEF AgentRun!Calls, AgentRun!Decisions
  <2>4. DOMAIN asked = 1..n /\ \A i \in 1..n : asked[i] = Len(calls) + i
      BY <1>l
  <2>5. /\ calls' = calls \o new
        /\ live'[a].step = "pending_approval" /\ live'[a].turn = asked
        /\ \A b \in Agents \ {a} : live'[b] = live[b]
      BY <1>l, <2>1
  <2> HIDE DEF new, asked
  <2>6. /\ DOMAIN calls' = 1..(Len(calls) + n)
        /\ \A d \in DOMAIN calls : calls'[d] = calls[d]
        /\ \A i \in 1..n : calls'[Len(calls) + i] = new[i]
    <3>1. n \in Nat
        BY <1>l
    <3> QED
        BY <1>l, <2>3, <2>5, <3>1, Concatenation
  <2>7. /\ DOMAIN calls \subseteq DOMAIN calls'
        /\ \A i \in 1..n : asked[i] \in DOMAIN calls' /\ asked[i] \notin DOMAIN calls
        /\ \A i \in 1..n : calls'[asked[i]].decision = "none"
                           /\ calls'[asked[i]].applied = 0
    <3>1. \A i \in 1..n : Len(calls) + i \in 1..(Len(calls) + n)
                          /\ Len(calls) + i \notin 1..Len(calls)
        BY <1>l
    <3>2. DOMAIN calls \subseteq DOMAIN calls'
        BY <1>l, <2>6
    <3>3. ASSUME NEW i \in 1..n
          PROVE  /\ asked[i] \in DOMAIN calls' /\ asked[i] \notin DOMAIN calls
                 /\ calls'[asked[i]].decision = "none"
                 /\ calls'[asked[i]].applied = 0
      <4>1. asked[i] = Len(calls) + i /\ calls'[asked[i]] = new[i]
          BY <2>4, <2>6, <3>3
      <4>2. asked[i] \in DOMAIN calls' /\ asked[i] \notin DOMAIN calls
          BY <1>l, <2>6, <3>1, <3>3, <4>1
      <4> QED
          BY <2>3, <3>3, <4>1, <4>2
    <3> QED
        BY <3>2, <3>3
  <2>8. \A d \in DOMAIN calls' : d \in DOMAIN calls \/ \E i \in 1..n : d = asked[i]
    <3>1. ASSUME NEW d \in 1..(Len(calls) + n), d \notin 1..Len(calls)
          PROVE  d - Len(calls) \in 1..n /\ d = Len(calls) + (d - Len(calls))
        BY <1>l, <3>1
    <3>2. \A d \in 1..(Len(calls) + n) :
              d \in 1..Len(calls) \/ \E i \in 1..n : d = asked[i]
        BY <2>4, <3>1
    <3> QED
        BY <1>l, <2>6, <3>2
  <2>9. ConversationsOK'
    <3>1. \A b \in Agents : KnownCalls(live[b].turn)'
      <4>1. \A b \in Agents \ {a} : KnownCalls(live[b].turn)
          BY <1>0 DEF ConversationsOK
      <4>2. \A b \in Agents \ {a} : KnownCalls(live[b].turn)'
          BY <2>5, <2>7, <4>1 DEF KnownCalls
      <4>3. KnownCalls(live[a].turn)'
          BY <2>4, <2>5, <2>7 DEF KnownCalls
      <4> QED
          BY <4>2, <4>3
    <3>2. \A b \in Agents : NoRepeat(live[b].turn)'
      <4>1. NoRepeat(asked)
          BY <1>l, <2>4 DEF NoRepeat
      <4> QED
          BY <1>0, <2>5, <4>1 DEF ConversationsOK, NoRepeat
    <3>3. \A b \in Agents : \A d \in Agents \ {b} :
              ApartFrom(live[b].turn, live[d].turn)'
      <4>1. ASSUME NEW b \in Agents \ {a}, NEW i \in DOMAIN live[b].turn,
                   NEW j \in 1..n
            PROVE  live[b].turn[i] # asked[j]
          BY <1>k, <2>7, <4>1
      <4>2. \A b \in Agents \ {a} : /\ ApartFrom(live[b].turn, asked)
                                    /\ ApartFrom(asked, live[b].turn)
          BY <2>4, <4>1 DEF ApartFrom
      <4>3. \A b \in Agents \ {a} : \A d \in Agents \ {a, b} :
                ApartFrom(live[b].turn, live[d].turn)
          BY <1>0 DEF ConversationsOK
      <4>4. \A b \in Agents : \A d \in Agents \ {b} :
                ApartFrom(live'[b].turn, live'[d].turn)
          BY <2>5, <4>2, <4>3
      <4> QED
          BY <4>4 DEF ApartFrom
    <3> QED
        BY <1>0, <2>2, <2>5, <3>1, <3>2, <3>3 DEF ConversationsOK
  <2>10. SavedOK'
    <3>1. \A b \in Agents : group' = "running" /\ saved'[b].status = "pending_approval"
                               => live'[b].step # "idle"
        BY <1>0, <2>2, <2>5 DEF SavedOK
    <3>2. \A b \in Agents : KnownCalls(saved[b].requests)'
        BY <1>0, <2>2, <2>7 DEF SavedOK, KnownCalls
    <3> QED
        BY <1>0, <2>2, <3>1, <3>2 DEF SavedOK, NoRepeat, ApartFrom
  <2>11. TurnsOK'
    <3>1. ASSUME NEW b \in Agents \ {a}, NEW i \in DOMAIN live'[b].turn
          PROVE  calls'[live'[b].turn[i]] = calls[live[b].turn[i]]
        BY <1>k, <2>5, <2>6, <3>1
    <3>2. \A i \in DOMAIN live'[a].turn :
              calls'[live'[a].turn[i]].decision = "none"
              /\ calls'[live'[a].turn[i]].applied = 0
        BY <2>4, <2>5, <2>7
    <3>3. ASSUME NEW b \in Agents, NEW i \in DOMAIN live'[b].turn
          PROVE  LET d == live'[b].turn[i] IN
                 /\ live'[b].step = "applying" =>
                       /\ calls'[d].decision \in {"approved", "rejected"}
                       /\ calls'[d].applied <= agentHistory'.crashes
                 /\ live'[b].step = "pending_approval" =>
                       calls'[d].decision = "none" /\ calls'[d].applied = 0
      <4>1. CASE b = a
          BY <2>5, <3>2, <3>3, <4>1
      <4>2. CASE b # a
        <5>1. live'[b] = live[b] /\ calls'[live[b].turn[i]] = calls[live[b].turn[i]]
              /\ i \in DOMAIN live[b].turn
            BY <2>5, <3>1, <3>3, <4>2
        <5>2. LET d == live[b].turn[i] IN
              /\ live[b].step = "applying" =>
                    /\ calls[d].decision \in {"approved", "rejected"}
                    /\ calls[d].applied <= agentHistory.crashes
              /\ live[b].step = "pending_approval" =>
                    calls[d].decision = "none" /\ calls[d].applied = 0
            BY <1>0, <5>1 DEF TurnsOK
        <5> QED
            BY <2>2, <5>1, <5>2
      <4> QED
          BY <4>1, <4>2
    <3> QED
        BY <3>3 DEF TurnsOK
  <2>12. RequestsOK'
      BY <1>0, <1>k, <2>2, <2>6 DEF RequestsOK
  <2>13. CallsOK'
    <3>1. \A d \in DOMAIN calls :
              /\ calls'[d].applied > 0 => calls'[d].decision = "approved"
              /\ calls'[d].applied <= 1 + agentHistory.crashes
              /\ calls'[d].decision # "pending"
        BY <1>0, <2>2, <2>6 DEF CallsOK
    <3>2. \A i \in 1..n :
              /\ ~(calls'[asked[i]].applied > 0)
              /\ calls'[asked[i]].applied <= 1 + agentHistory.crashes
              /\ calls'[asked[i]].decision # "pending"
        BY <1>l, <2>7
    <3> QED
        BY <2>2, <2>8, <3>1, <3>2 DEF CallsOK
  <2> QED
      BY <1>q, <2>9, <2>10, <2>11, <2>12, <2>13
<1>8. CASE AgentRun!SavePause
  <2>1. /\ group = "running" /\ group' = "waiting"
        /\ \A a \in Agents : AgentRun!Returned(a)
        /\ \A a \in Agents : saved'[a] = AgentRun!ExecutionAfter(a)
        /\ \A a \in Agents : live'[a] = AgentRun!Idle
        /\ calls' = [d \in DOMAIN calls |->
              IF d \in AgentRun!PendingApprovalRequests
              THEN [calls[d] EXCEPT !.decision = "pending"] ELSE calls[d]]
      BY <1>8 DEF AgentRun!SavePause
  <2>2. agentHistory'.crashes = agentHistory.crashes
      BY <1>8 DEF AgentRun!SavePause, AgentRun!TypeOK
  <2>3. \A a \in Agents :
            /\ saved'[a].requests = live[a].turn
            /\ saved'[a].status # "pending_approval" => live[a].turn = <<>>
            /\ live[a].turn # <<>> => live[a].step = "pending_approval"
      BY <2>1, ReturnedExecution
  <2>4. ASSUME NEW a \in Agents, NEW i \in DOMAIN live[a].turn
        PROVE  /\ live[a].turn[i] \in AgentRun!PendingApprovalRequests
               /\ live[a].step = "pending_approval"
    <3>1. live[a].turn # <<>>
        BY <2>4
    <3>2. AgentRun!ExecutionAfter(a).requests = live[a].turn
        BY <2>1, <2>3
    <3> QED
        BY <2>3, <2>4, <3>1, <3>2 DEF AgentRun!PendingApprovalRequests
  <2>5. ASSUME NEW d \in AgentRun!PendingApprovalRequests
        PROVE  \E a \in Agents : \E i \in DOMAIN live[a].turn : d = live[a].turn[i]
    <3>1. PICK a \in Agents : d \in {AgentRun!ExecutionAfter(a).requests[i] :
                                 i \in DOMAIN AgentRun!ExecutionAfter(a).requests}
        BY <2>5 DEF AgentRun!PendingApprovalRequests
    <3>2. AgentRun!ExecutionAfter(a).requests = live[a].turn
        BY <2>1, <2>3
    <3> QED
        BY <3>1, <3>2
  <2>6. ASSUME NEW d \in DOMAIN calls, d \in AgentRun!PendingApprovalRequests
        PROVE  calls'[d].decision = "pending" /\ calls'[d].applied = 0
    <3>1. PICK a \in Agents : \E i \in DOMAIN live[a].turn : d = live[a].turn[i]
        BY <2>5, <2>6
    <3>2. calls[d].applied = 0
        BY <1>0, <2>4, <3>1 DEF TurnsOK
    <3>3. calls'[d] = [calls[d] EXCEPT !.decision = "pending"]
        BY <2>1, <2>6
    <3>4. calls[d] \in AgentRun!Calls
        BY <1>c
    <3> QED
        BY <3>2, <3>3, <3>4 DEF AgentRun!Calls
  <2>7. /\ DOMAIN calls' = DOMAIN calls
        /\ \A d \in DOMAIN calls \ AgentRun!PendingApprovalRequests :
              calls'[d] = calls[d]
      BY <2>1
  <2>8. ConversationsOK'
      BY <2>1 DEF ConversationsOK, AgentRun!Idle, KnownCalls, NoRepeat, ApartFrom
  <2>9. SavedOK'
    <3>1. \A a \in Agents : /\ KnownCalls(saved[a].requests)'
                            /\ NoRepeat(saved[a].requests)'
        BY <1>0, <2>3, <2>7 DEF ConversationsOK, KnownCalls, NoRepeat
    <3>2. \A a \in Agents : \A b \in Agents \ {a} :
              ApartFrom(saved[a].requests, saved[b].requests)'
        BY <1>0, <2>3 DEF ConversationsOK, ApartFrom
    <3> QED
        BY <2>1, <2>3, <3>1, <3>2 DEF SavedOK
  <2>10. TurnsOK'
      BY <2>1 DEF TurnsOK, AgentRun!Idle
  <2>11. RequestsOK'
    <3>1. ASSUME NEW a \in Agents, NEW i \in DOMAIN saved'[a].requests
          PROVE  calls'[saved'[a].requests[i]].decision = "pending"
                 /\ calls'[saved'[a].requests[i]].applied = 0
        BY <1>k, <2>3, <2>4, <2>6, <3>1
    <3> QED
        BY <2>1, <3>1 DEF RequestsOK
  <2>12. CallsOK'
    <3>1. ASSUME NEW d \in DOMAIN calls
          PROVE  /\ calls'[d].applied > 0 => calls'[d].decision = "approved"
                 /\ calls'[d].applied <= 1 + agentHistory.crashes
      <4>1. CASE d \in AgentRun!PendingApprovalRequests
          BY <1>l, <2>6, <4>1
      <4>2. CASE d \notin AgentRun!PendingApprovalRequests
          BY <1>0, <2>7, <4>2 DEF CallsOK
      <4> QED
          BY <4>1, <4>2
    <3> QED
        BY <2>1, <2>2, <2>7, <3>1 DEF CallsOK
  <2> QED
      BY <1>q, <2>8, <2>9, <2>10, <2>11, <2>12
<1>9. CASE AgentRun!GroupFinishes
  <2>1. /\ group = "running" /\ group' = "finished"
        /\ calls' = calls /\ agentHistory' = agentHistory
        /\ \A a \in Agents : live'[a] = AgentRun!Idle
        /\ \A a \in Agents : saved'[a].status = "completed"
                             /\ saved'[a].requests = <<>>
    <3>1. \A a \in Agents :
              /\ AgentRun!Returned(a)
              /\ AgentRun!ExecutionAfter(a).status = "completed"
              /\ saved'[a] = AgentRun!ExecutionAfter(a)
        BY <1>9 DEF AgentRun!GroupFinishes
    <3>2. group = "running"
        BY <1>9 DEF AgentRun!GroupFinishes
    <3>3. \A a \in Agents : saved'[a].requests = <<>>
        BY <3>1, <3>2, ReturnedExecution
    <3> QED
        BY <1>9, <3>1, <3>3 DEF AgentRun!GroupFinishes
  <2>2. ConversationsOK'
      BY <2>1 DEF ConversationsOK, AgentRun!Idle, KnownCalls, NoRepeat, ApartFrom
  <2>3. SavedOK'
      BY <2>1 DEF SavedOK, KnownCalls, NoRepeat, ApartFrom
  <2>4. TurnsOK' /\ RequestsOK'
      BY <2>1 DEF TurnsOK, RequestsOK, AgentRun!Idle
  <2>5. CallsOK'
      BY <1>0, <2>1 DEF CallsOK
  <2> QED
      BY <1>q, <2>2, <2>3, <2>4, <2>5
<1>10. CASE AgentRun!AgentFails
  <2>1. /\ group' = "failed"
        /\ calls' = calls /\ agentHistory' = agentHistory /\ saved' = saved
        /\ \A a \in Agents : live'[a] = AgentRun!Idle
      BY <1>10 DEF AgentRun!AgentFails
  <2>2. ConversationsOK'
      BY <2>1 DEF ConversationsOK, AgentRun!Idle, KnownCalls, NoRepeat, ApartFrom
  <2>3. SavedOK'
      BY <1>0, <2>1 DEF SavedOK, KnownCalls, NoRepeat, ApartFrom
  <2>4. TurnsOK' /\ RequestsOK'
      BY <2>1 DEF TurnsOK, RequestsOK, AgentRun!Idle
  <2>5. CallsOK'
      BY <1>0, <2>1 DEF CallsOK
  <2> QED
      BY <1>q, <2>2, <2>3, <2>4, <2>5
<1>11. ASSUME NEW c \in DOMAIN calls, NEW decision \in {"approved", "rejected"},
              AgentRun!Decide(c, decision)
       PROVE  AgentInv'
  <2>1. /\ group = "waiting" /\ calls[c].decision = "pending"
        /\ calls' = [calls EXCEPT ![c].decision = decision]
        /\ group' \in {"waiting", "queued"}
        /\ group' = "queued" =>
              \A d \in DOMAIN calls \ {c} : calls[d].decision # "pending"
        /\ live' = live /\ saved' = saved /\ agentHistory' = agentHistory
      BY <1>11 DEF AgentRun!Decide, AgentRun!Decision
  <2>2. /\ DOMAIN calls' = DOMAIN calls
        /\ calls'[c].decision = decision /\ calls'[c].applied = calls[c].applied
        /\ \A d \in DOMAIN calls \ {c} : calls'[d] = calls[d]
      BY <1>c, <1>11, <2>1 DEF AgentRun!Calls
  <2>3. calls[c].applied = 0
      BY <1>0, <1>c, <1>11, <2>1 DEF CallsOK
  <2>4. ConversationsOK'
      BY <1>0, <2>1, <2>2 DEF ConversationsOK, KnownCalls, NoRepeat, ApartFrom
  <2>5. SavedOK'
      BY <1>0, <2>1, <2>2 DEF SavedOK, KnownCalls, NoRepeat, ApartFrom
  <2>6. TurnsOK'
    <3>1. \A a \in Agents : live[a].turn = <<>>
        BY <1>0, <2>1 DEF ConversationsOK, AgentRun!Idle
    <3> QED
        BY <2>1, <3>1 DEF TurnsOK
  <2>7. RequestsOK'
    <3>1. ASSUME NEW a \in Agents, NEW i \in DOMAIN saved[a].requests
          PROVE  LET d == saved[a].requests[i] IN
                 /\ calls'[d].decision # "none" /\ calls'[d].applied = 0
                 /\ group' = "queued" =>
                       calls'[d].decision \in {"approved", "rejected"}
      <4> DEFINE d == saved[a].requests[i]
      <4>1. d \in DOMAIN calls /\ calls[d].decision # "none" /\ calls[d].applied = 0
          BY <1>0, <1>k, <2>1, <3>1 DEF RequestsOK
      <4> HIDE DEF d
      <4>4. /\ calls'[d].decision # "none" /\ calls'[d].applied = 0
            /\ group' = "queued" => calls'[d].decision \in {"approved", "rejected"}
          BY <1>c, <1>11, <2>1, <2>2, <2>3, <4>1
      <4> QED
          BY <4>4 DEF d
    <3> QED
        BY <1>l, <2>1, <3>1 DEF RequestsOK
  <2>8. CallsOK'
      BY <1>0, <1>l, <1>11, <2>1, <2>2, <2>3 DEF CallsOK
  <2> QED
      BY <1>q, <2>4, <2>5, <2>6, <2>7, <2>8
<1>12. CASE AgentRun!Crash
  <2>1. /\ group = "running" /\ group' = "queued"
        /\ calls' = calls /\ saved' = saved
        /\ \A a \in Agents : live'[a] = AgentRun!Idle
        /\ agentHistory'.crashes = agentHistory.crashes + 1
      BY <1>12 DEF AgentRun!Crash, AgentRun!TypeOK
  <2>2. ConversationsOK'
      BY <2>1 DEF ConversationsOK, AgentRun!Idle, KnownCalls, NoRepeat, ApartFrom
  <2>3. SavedOK'
      BY <1>0, <2>1 DEF SavedOK, KnownCalls, NoRepeat, ApartFrom
  <2>4. TurnsOK'
      BY <2>1 DEF TurnsOK, AgentRun!Idle
  <2>5. RequestsOK'
    <3>1. \A d \in DOMAIN calls : calls[d].applied <= agentHistory.crashes + 1
        BY <1>0, <1>c, <1>l DEF CallsOK
    <3> QED
        BY <1>0, <1>k, <2>1, <3>1 DEF RequestsOK
  <2>6. CallsOK'
      BY <1>0, <1>c, <1>l, <2>1 DEF CallsOK
  <2> QED
      BY <1>q, <2>2, <2>3, <2>4, <2>5, <2>6
<1>13. CASE UNCHANGED AgentRun!vars
  <2>1. /\ live' = live /\ saved' = saved /\ calls' = calls /\ group' = group
        /\ agentHistory' = agentHistory
      BY <1>13 DEF AgentRun!vars
  <2> QED
      BY <1>0, <1>q, <2>1 DEF ConversationsOK, SavedOK, TurnsOK, RequestsOK,
            CallsOK, KnownCalls, NoRepeat, ApartFrom, AgentRun!Idle
<1> QED
    BY <1>1, <1>2, <1>4, <1>5, <1>6, <1>7, <1>8, <1>9, <1>10, <1>11, <1>12,
       <1>13 DEF AgentRun!Next

LEMMA AgentInvariant == AgentRun!Spec => [](AgentRun!TypeOK /\ AgentInv)
<1> QED
    BY AgentInit, AgentTypesStep, AgentStep, PTL DEF AgentRun!Spec

\* A patch changes a file only with the decision of a person behind it, and
\* again only in a resume that a crash made necessary, for any number of
\* agents, patches and crashes (resume_worker, the editor).
THEOREM OnlyApprovedIsApplied == AgentRun!Spec => []AppliedWasApproved
<1>1. AgentInv => AppliedWasApproved
    BY DEF AgentInv, CallsOK, AppliedWasApproved, AgentRun!AppliedWasApproved,
           AgentRun!Decision
<1> QED
    BY <1>1, AgentInvariant, PTL

\* Every question of a pause has its row, and a queued group has every
\* answer its agents need, so that no resume fails for want of one
\* (pending_approval_requests, _saved_approval_resolutions).
THEOREM QuestionsAreKept == AgentRun!Spec => []NoQuestionIsLost
<1>1. AgentInv /\ AgentRun!TypeOK => NoQuestionIsLost
  <2> SUFFICES ASSUME AgentInv, AgentRun!TypeOK
               PROVE  NoQuestionIsLost
      OBVIOUS
  <2>1. group = "waiting" =>
            \A a \in AgentRun!Pending : \A i \in DOMAIN saved[a].requests :
                calls[saved[a].requests[i]].decision # "none"
      BY DEF AgentInv, RequestsOK, AgentRun!Pending
  <2>2. group = "queued" => AgentRun!NoneUndecided
      BY DEF AgentInv, CallsOK, AgentRun!NoneUndecided, AgentRun!Decision
  <2>3. group = "queued" => AgentRun!AllResolved
      BY DEF AgentInv, RequestsOK, AgentRun!AllResolved, AgentRun!Pending,
             AgentRun!HasResolution, AgentRun!Decision
  <2> QED
      BY <2>1, <2>2, <2>3 DEF NoQuestionIsLost, AgentRun!NoQuestionIsLost,
                              AgentRun!Decision
<1> QED
    BY <1>1, AgentInvariant, PTL

-----------------------------------------------------------------------------
(***************************************************************************)
(* What Applied computes.  A set of numbers has a least one, because < is  *)
(* well founded; so if the recursion of Applied had no solution there      *)
(* would be a first number of patches for which it has none, and a         *)
(* solution for one patch fewer can be extended by that patch.             *)
(***************************************************************************)

LEMMA LeastNumber ==
    ASSUME NEW T, T \subseteq Nat, T # {}
    PROVE  \E m \in T : \A k \in T : m <= k
<1> DEFINE R == OpToRel(<, Nat)
<1>1. IsWellFoundedOn(R, Nat)
    BY NatLessThanWellFounded
<1>2. \A k, m \in Nat : k < m => <<k, m>> \in R
    BY DEF OpToRel
<1> HIDE DEF R
<1>3. PICK m \in T : \A k \in T : ~(<<k, m>> \in R)
    BY <1>1, WFMin
<1>4. ASSUME NEW k \in T
      PROVE  m <= k
  <2>1. k \in Nat /\ m \in Nat /\ ~(k < m)
      BY <1>2, <1>3
  <2> QED
      BY <2>1
<1> QED
    BY <1>4

LEMMA AppliedIsDefined ==
    ASSUME NEW content, NEW patches, Len(patches) \in Nat
    PROVE  /\ AgentRun!Applied(content, patches)[0] = {content}
           /\ \A i \in 1..Len(patches) :
                 AgentRun!Applied(content, patches)[i] =
                    AgentRun!AfterPatch(AgentRun!Applied(content, patches)[i - 1],
                                        patches[i])
<1> DEFINE Step(before, i) == AgentRun!AfterPatch(before, patches[i])
           IsAfter(g, n) ==
               g = [i \in 0..n |-> IF i = 0 THEN {content} ELSE Step(g[i - 1], i)]
           Stuck == {n \in Nat : ~\E g : IsAfter(g, n)}
<1>1. AgentRun!Applied(content, patches) = CHOOSE g : IsAfter(g, Len(patches))
    BY Zenon DEF AgentRun!Applied
<1>2. Stuck = {}
  <2> SUFFICES ASSUME Stuck # {}
               PROVE  FALSE
      OBVIOUS
  <2>1. PICK n \in Stuck : \A k \in Stuck : n <= k
      BY LeastNumber
  <2>2. n \in Nat /\ ~\E g : IsAfter(g, n)
      BY <2>1
  <2>3. n # 0
    <3> DEFINE start == [i \in 0..0 |-> {content}]
    <3> HIDE DEF Step
    <3>1. start = [i \in 0..0 |->
                      IF i = 0 THEN {content} ELSE Step(start[i - 1], i)]
        OBVIOUS
    <3> QED
        BY <2>2, <3>1
  <2>4. n - 1 \in Nat /\ n - 1 \notin Stuck
    <3> HIDE DEF Stuck
    <3>1. n - 1 \in Nat /\ ~(n <= n - 1)
        BY <2>2, <2>3
    <3> QED
        BY <2>1, <3>1
  <2>5. PICK g : IsAfter(g, n - 1)
      BY <2>4
  <2> DEFINE longer ==
                 [i \in 0..n |-> IF i = n THEN Step(g[n - 1], n) ELSE g[i]]
  <2> HIDE DEF Step
  <2>6. IsAfter(longer, n)
    <3>1. ASSUME NEW i \in 0..n
          PROVE  longer[i] = IF i = 0 THEN {content} ELSE Step(longer[i - 1], i)
      <4>1. CASE i = 0
          BY <2>2, <2>3, <2>5, <4>1
      <4>2. CASE i = n
        <5>1. /\ longer[n] = Step(g[n - 1], n)
              /\ n - 1 \in 0..n /\ n - 1 # n
            BY <2>2, <2>4
        <5>2. longer[n - 1] = g[n - 1]
            BY <5>1
        <5> QED
            BY <2>3, <4>2, <5>1, <5>2
      <4>3. CASE i # 0 /\ i # n
        <5>1. i \in 0..(n - 1) /\ i - 1 \in 0..n /\ i - 1 # n
            BY <2>2, <3>1, <4>3
        <5>2. longer[i] = g[i] /\ longer[i - 1] = g[i - 1]
            BY <4>3, <5>1
        <5>3. g[i] = Step(g[i - 1], i)
            BY <2>5, <4>3, <5>1
        <5> QED
            BY <4>3, <5>2, <5>3
      <4> QED
          BY <4>1, <4>2, <4>3
    <3> QED
        BY <3>1
  <2> QED
      BY <2>2, <2>6
<1>3. PICK g : IsAfter(g, Len(patches))
    BY <1>2
<1> DEFINE after == AgentRun!Applied(content, patches)
<1>4. IsAfter(after, Len(patches))
  <2> HIDE DEF IsAfter
  <2> QED
      BY <1>1, <1>3
<1> HIDE DEF after, Step
<1>5. after[0] = {content}
    BY <1>4
<1>6. ASSUME NEW i \in 1..Len(patches)
      PROVE  after[i] = Step(after[i - 1], i)
  <2>1. i \in 0..Len(patches) /\ i # 0
      BY <1>6
  <2> QED
      BY <1>4, <2>1
<1> QED
    BY <1>5, <1>6 DEF after, Step
-----------------------------------------------------------------------------
(***************************************************************************)
(* AgentRun: a turn that is repeated.  While a restored turn is gone       *)
(* through, the file is what its first patches make of the file of the     *)
(* last pause, if one of them has put a whole new file there or if no      *)
(* earlier process has got as far as a patch of this turn.  What makes     *)
(* this hold after a crash is that a file nobody has patched since the     *)
(* pause is still that of the pause.                                       *)
(***************************************************************************)

After(a) == AgentRun!Applied(agentHistory.files[a], AgentRun!RequestedPatches(a))

Handled(a) == Len(saved[a].requests) - Len(live[a].turn)

TurnIsRest(a) ==
    /\ Handled(a) \in 0..Len(saved[a].requests)
    /\ \A i \in DOMAIN live[a].turn :
          live[a].turn[i] = saved[a].requests[Handled(a) + i]

Untouched(a) ==
    group \in {"queued", "running", "waiting"}
    /\ (\A i \in DOMAIN saved[a].requests : calls[saved[a].requests[i]].applied = 0)
       => files[a] = agentHistory.files[a]

OverwrittenBy(a, k) ==
    \E i \in 1..k :
        LET patch == AgentRun!Patch(saved[a].requests[i])
        IN  patch.approved /\ patch.operation # "update_file"

OnceEach(a, k) ==
    \A i \in DOMAIN saved[a].requests :
        calls[saved[a].requests[i]].applied <= IF i <= k THEN 1 ELSE 0

FileFollows(a) ==
    /\ After(a)[Handled(a)] # {}
    /\ OverwrittenBy(a, Handled(a)) \/ OnceEach(a, Handled(a))
          => files[a] \in After(a)[Handled(a)]

ReplayOK(a) ==
    /\ Untouched(a)
    /\ live[a].step = "applying" => TurnIsRest(a) /\ FileFollows(a)

ReplayInv == \A a \in Agents : ReplayOK(a)

LEMMA AgentFacts ==
    ASSUME AgentRun!TypeOK, AgentInv, NEW a \in Agents
    PROVE  /\ saved[a].requests \in Seq(AgentRun!CallIds)
           /\ live[a].turn \in Seq(AgentRun!CallIds)
           /\ \A i \in DOMAIN saved[a].requests :
                 /\ saved[a].requests[i] \in DOMAIN calls
                 /\ calls[saved[a].requests[i]] \in AgentRun!Calls
           /\ files[a] \in AgentTexts
<1>1. live[a] \in AgentRun!Conversations /\ saved[a] \in AgentRun!Executions
      /\ files[a] \in AgentTexts /\ calls \in Seq(AgentRun!Calls)
    BY DEF AgentRun!TypeOK, AgentTexts
<1>2. \A i \in DOMAIN saved[a].requests : saved[a].requests[i] \in DOMAIN calls
    BY DEF AgentInv, SavedOK, KnownCalls
<1>3. \A c \in DOMAIN calls : calls[c] \in AgentRun!Calls
    BY <1>1
<1> QED
    BY <1>1, <1>2, <1>3 DEF AgentRun!Conversations, AgentRun!Executions

LEMMA PatchesShape ==
    ASSUME AgentRun!TypeOK, AgentInv, NEW a \in Agents
    PROVE  /\ Len(saved[a].requests) \in Nat
           /\ DOMAIN saved[a].requests = 1..Len(saved[a].requests)
           /\ Len(AgentRun!RequestedPatches(a)) = Len(saved[a].requests)
           /\ DOMAIN AgentRun!RequestedPatches(a) = DOMAIN saved[a].requests
           /\ \A i \in DOMAIN saved[a].requests :
                 AgentRun!RequestedPatches(a)[i] = AgentRun!Patch(saved[a].requests[i])
<1>1. saved[a].requests \in Seq(AgentRun!CallIds)
    BY AgentFacts
<1>2. /\ Len(saved[a].requests) \in Nat
      /\ DOMAIN saved[a].requests = 1..Len(saved[a].requests)
    BY <1>1
<1>3. /\ DOMAIN AgentRun!RequestedPatches(a) = DOMAIN saved[a].requests
      /\ \A i \in DOMAIN saved[a].requests :
            AgentRun!RequestedPatches(a)[i] = AgentRun!Patch(saved[a].requests[i])
    BY DEF AgentRun!RequestedPatches
<1>4. Len(AgentRun!RequestedPatches(a)) = Len(saved[a].requests)
    BY <1>2 DEF AgentRun!RequestedPatches
<1> QED
    BY <1>2, <1>3, <1>4

\* What Applied says of one patch more.
LEMMA AfterSteps ==
    ASSUME AgentRun!TypeOK, AgentInv, NEW a \in Agents
    PROVE  /\ After(a)[0] = {agentHistory.files[a]}
           /\ \A i \in 1..Len(saved[a].requests) :
                 After(a)[i] = AgentRun!AfterPatch(After(a)[i - 1],
                                   AgentRun!Patch(saved[a].requests[i]))
<1> DEFINE patches == AgentRun!RequestedPatches(a)
<1>1. /\ Len(patches) = Len(saved[a].requests) /\ Len(patches) \in Nat
      /\ \A i \in 1..Len(patches) : patches[i] = AgentRun!Patch(saved[a].requests[i])
    BY PatchesShape
<1> HIDE DEF patches
<1>2. /\ AgentRun!Applied(agentHistory.files[a], patches)[0] = {agentHistory.files[a]}
      /\ \A i \in 1..Len(patches) :
            AgentRun!Applied(agentHistory.files[a], patches)[i] =
               AgentRun!AfterPatch(
                   AgentRun!Applied(agentHistory.files[a], patches)[i - 1], patches[i])
    BY <1>1, AppliedIsDefined
<1>3. After(a) = AgentRun!Applied(agentHistory.files[a], patches)
    BY DEF After, patches
<1> QED
    BY <1>1, <1>2, <1>3

\* What one patch makes of the possible files does not depend on how they came
\* about; after a whole new file, not even on what they are.
LEMMA OnePatchMore ==
    ASSUME NEW results, results # {}, NEW patch,
           patch.operation \in AgentRun!Operations
    PROVE  /\ AgentRun!AfterPatch(results, patch) # {}
           /\ patch.approved =>
                 \A content \in results : \A new \in AgentRun!Results(content, patch) :
                    new \in AgentRun!AfterPatch(results, patch)
           /\ patch.approved /\ patch.operation # "update_file" =>
                 \A content : \A new \in AgentRun!Results(content, patch) :
                    new \in AgentRun!AfterPatch(results, patch)
<1>1. \A content : AgentRun!Results(content, patch) # {}
  <2>1. CASE patch.operation = "create_file"
      BY <2>1 DEF AgentRun!Results
  <2>2. CASE patch.operation = "delete_file"
      BY <2>2 DEF AgentRun!Results
  <2>3. CASE patch.operation = "update_file"
      BY <2>3 DEF AgentRun!Results
  <2> QED
      BY <2>1, <2>2, <2>3 DEF AgentRun!Operations
<1>2. ASSUME patch.operation # "update_file", NEW r, NEW s
      PROVE  AgentRun!Results(r, patch) = AgentRun!Results(s, patch)
  <2>1. CASE patch.operation = "create_file"
      BY <2>1 DEF AgentRun!Results, AgentRun!CreateFile
  <2>2. CASE patch.operation = "delete_file"
      BY <2>2 DEF AgentRun!Results
  <2> QED
      BY <1>2, <2>1, <2>2 DEF AgentRun!Operations
<1>3. PICK one : one \in results
    OBVIOUS
<1>4. ASSUME patch.approved, NEW content \in results,
             NEW new \in AgentRun!Results(content, patch)
      PROVE  new \in AgentRun!AfterPatch(results, patch)
    BY <1>4 DEF AgentRun!AfterPatch
<1>5. AgentRun!AfterPatch(results, patch) # {}
    BY <1>1, <1>3, <1>4 DEF AgentRun!AfterPatch
<1>6. ASSUME patch.approved, patch.operation # "update_file", NEW content,
             NEW new \in AgentRun!Results(content, patch)
      PROVE  new \in AgentRun!AfterPatch(results, patch)
  <2>1. new \in AgentRun!Results(one, patch)
      BY <1>2, <1>6
  <2> QED
      BY <1>3, <1>4, <1>6, <2>1
<1> QED
    BY <1>4, <1>5, <1>6

\* What a step leaves of the requests of an agent.
SameQuestions(a) ==
    /\ saved'[a] = saved[a] /\ agentHistory'.files[a] = agentHistory.files[a]
    /\ \A i \in DOMAIN saved[a].requests :
          LET c == saved[a].requests[i]
          IN  calls'[c].operation = calls[c].operation
              /\ calls'[c].decision = calls[c].decision

SameCalls(a) ==
    \A i \in DOMAIN saved[a].requests :
        calls'[saved[a].requests[i]] = calls[saved[a].requests[i]]

LEMMA SameAfter ==
    ASSUME NEW a \in Agents, SameQuestions(a)
    PROVE  /\ After(a)' = After(a)
           /\ \A i \in DOMAIN saved[a].requests :
                 AgentRun!Patch(saved[a].requests[i])' = AgentRun!Patch(saved[a].requests[i])
<1>1. ASSUME NEW i \in DOMAIN saved[a].requests
      PROVE  AgentRun!Patch(saved[a].requests[i])' = AgentRun!Patch(saved[a].requests[i])
  <2> DEFINE c == saved[a].requests[i]
  <2>1. /\ saved'[a].requests[i] = c
        /\ calls'[c].operation = calls[c].operation
        /\ calls'[c].decision = calls[c].decision
      BY <1>1 DEF SameQuestions
  <2> HIDE DEF c
  <2>2. AgentRun!Patch(c)' = [call |-> saved'[a].requests[i],
            operation |-> calls'[saved'[a].requests[i]].operation,
            approved |-> calls'[saved'[a].requests[i]].decision = "approved"]
      BY DEF AgentRun!Patch, AgentRun!IsApproved, AgentRun!Decision, c
  <2> QED
      BY <2>1, <2>2 DEF AgentRun!Patch, AgentRun!IsApproved, AgentRun!Decision, c
<1>2. AgentRun!RequestedPatches(a)' = AgentRun!RequestedPatches(a)
    BY <1>1 DEF AgentRun!RequestedPatches, SameQuestions
<1>3. After(a)' = After(a)
    BY <1>2 DEF After, SameQuestions, AgentRun!Applied, AgentRun!AfterPatch,
        AgentRun!Results, AgentRun!CreateFile, AgentRun!InFile
<1> QED
    BY <1>1, <1>3

\* An agent whose own part of the state a step leaves alone.
LEMMA OthersFollow ==
    ASSUME AgentRun!TypeOK, AgentInv, NEW a \in Agents, ReplayOK(a),
           live'[a] = live[a] \/ live'[a].step # "applying",
           saved'[a] = saved[a], files'[a] = files[a],
           agentHistory'.files[a] = agentHistory.files[a],
           SameCalls(a),
           group' \in {"queued", "running", "waiting"} =>
              group \in {"queued", "running", "waiting"}
    PROVE  ReplayOK(a)'
<1>1. Untouched(a)'
    BY DEF ReplayOK, Untouched, SameCalls
<1>2. ASSUME live'[a].step = "applying"
      PROVE  TurnIsRest(a)' /\ FileFollows(a)'
  <2>1. live'[a] = live[a] /\ TurnIsRest(a) /\ FileFollows(a)
      BY <1>2 DEF ReplayOK
  <2>2. Handled(a)' = Handled(a)
      BY <2>1 DEF Handled
  <2>3. SameQuestions(a)
      BY DEF SameQuestions, SameCalls
  <2>4. /\ After(a)' = After(a)
        /\ \A i \in DOMAIN saved[a].requests :
              AgentRun!Patch(saved[a].requests[i])' = AgentRun!Patch(saved[a].requests[i])
      BY <2>3, SameAfter
  <2>5. TurnIsRest(a)'
      BY <2>1, <2>2 DEF TurnIsRest
  <2>6. \A i \in 1..Handled(a) : i \in DOMAIN saved[a].requests
      BY <2>1, PatchesShape DEF TurnIsRest
  <2>7. OverwrittenBy(a, Handled(a))' => OverwrittenBy(a, Handled(a))
      BY <2>2, <2>4, <2>6 DEF OverwrittenBy
  <2>8. OnceEach(a, Handled(a))' => OnceEach(a, Handled(a))
      BY <2>2 DEF OnceEach, SameCalls
  <2>9. FileFollows(a)'
      BY <2>1, <2>2, <2>4, <2>7, <2>8 DEF FileFollows
  <2> QED
      BY <2>5, <2>9
<1> QED
    BY <1>1, <1>2 DEF ReplayOK

\* A step that takes a call: the file is then what one patch more makes of it.
LEMMA CallTaken ==
    ASSUME AgentRun!TypeOK, AgentInv, NEW a \in Agents,
           group = "running", live[a].step = "applying", live[a].turn # <<>>,
           live' = [live EXCEPT ![a].turn = Tail(@)], TurnIsRest(a)
    PROVE  /\ Handled(a) \in Nat
           /\ Handled(a) + 1 \in DOMAIN saved[a].requests
           /\ Handled(a) + 1 \in 1..Len(saved[a].requests)
           /\ saved[a].requests[Handled(a) + 1] = Head(live[a].turn)
           /\ live'[a].turn = Tail(live[a].turn)
           /\ saved' = saved =>
                 Handled(a)' = Handled(a) + 1 /\ TurnIsRest(a)'
<1>1. /\ live[a].turn \in Seq(AgentRun!CallIds)
      /\ saved[a].requests \in Seq(AgentRun!CallIds)
    BY AgentFacts
<1>2. live'[a].turn = Tail(live[a].turn)
    BY DEF AgentRun!TypeOK, AgentRun!Conversations
<1> DEFINE n == Len(saved[a].requests)
           m == Len(live[a].turn)
<1>3. n \in Nat /\ DOMAIN saved[a].requests = 1..n
    BY <1>1
<1>4. m \in Nat /\ m # 0 /\ DOMAIN live[a].turn = 1..m
    BY <1>1
<1>5. Len(Tail(live[a].turn)) = m - 1 /\ DOMAIN Tail(live[a].turn) = 1..(m - 1)
    BY <1>1
<1>6. /\ Head(live[a].turn) = live[a].turn[1]
      /\ \A i \in DOMAIN Tail(live[a].turn) :
            Tail(live[a].turn)[i] = live[a].turn[i + 1]
    BY <1>1, HeadAndTail
<1>7. /\ Handled(a) = n - m /\ Handled(a) \in 0..n
      /\ \A i \in 1..m : live[a].turn[i] = saved[a].requests[Handled(a) + i]
    BY <1>4 DEF Handled, TurnIsRest
<1>8. saved' = saved => Handled(a)' = n - Len(Tail(live[a].turn))
    BY <1>2 DEF Handled
<1> HIDE DEF n, m
<1>9. Handled(a) \in Nat /\ Handled(a) + 1 \in 1..n
    BY <1>3, <1>4, <1>7
<1>10. saved[a].requests[Handled(a) + 1] = Head(live[a].turn)
    BY <1>4, <1>6, <1>7
<1>11. ASSUME saved' = saved
       PROVE  Handled(a)' = Handled(a) + 1 /\ TurnIsRest(a)'
  <2>1. Handled(a)' = Handled(a) + 1
      BY <1>3, <1>4, <1>5, <1>7, <1>8, <1>11
  <2>2. Handled(a)' \in 0..Len(saved'[a].requests)
      BY <1>9, <1>11, <2>1 DEF n
  <2>3. ASSUME NEW i \in DOMAIN live'[a].turn
        PROVE  live'[a].turn[i] = saved'[a].requests[Handled(a)' + i]
    <3>1. i \in 1..(m - 1) /\ i + 1 \in 1..m
      <4>1. i \in 1..(m - 1)
          BY <1>2, <1>5, <2>3
      <4> QED
          BY <1>4, <4>1
    <3>2. live'[a].turn[i] = live[a].turn[i + 1]
        BY <1>2, <1>6, <2>3
    <3>3. live[a].turn[i + 1] = saved[a].requests[Handled(a) + (i + 1)]
        BY <1>7, <3>1
    <3>4. Handled(a) + (i + 1) = Handled(a)' + i
        BY <1>9, <2>1, <3>1
    <3> QED
        BY <1>11, <3>2, <3>3, <3>4
  <2> QED
      BY <2>1, <2>2, <2>3 DEF TurnIsRest
<1> QED
    BY <1>2, <1>3, <1>9, <1>10, <1>11 DEF n

LEMMA AppliedFollows ==
    ASSUME AgentRun!TypeOK, AgentInv, NEW a \in Agents, ReplayOK(a),
           AgentRun!ApplyPatch(a)
    PROVE  ReplayOK(a)'
<1> DEFINE c == Head(live[a].turn)
           k == Handled(a)
           reqs == saved[a].requests
<1>1. /\ group = "running" /\ live[a].step = "applying" /\ live[a].turn # <<>>
      /\ live' = [live EXCEPT ![a].turn = Tail(@)]
      /\ saved' = saved /\ agentHistory' = agentHistory
      /\ calls[c].decision = "approved"
      /\ calls' = [calls EXCEPT ![c].applied = @ + 1]
    BY DEF AgentRun!ApplyPatch, AgentRun!TakeCall, AgentRun!IsApproved,
           AgentRun!Decision
<1>2. PICK new \in AgentRun!Results(files[a], AgentRun!Patch(c)) :
            files' = [files EXCEPT ![a] = new]
    BY DEF AgentRun!ApplyPatch
<1>3. files'[a] = new
    BY <1>2 DEF AgentRun!TypeOK
<1>4. TurnIsRest(a) /\ FileFollows(a)
    BY <1>1 DEF ReplayOK
<1>5. /\ k \in Nat /\ k + 1 \in DOMAIN reqs /\ k + 1 \in 1..Len(reqs) /\ reqs[k + 1] = c
      /\ Handled(a)' = k + 1 /\ TurnIsRest(a)'
    BY <1>1, <1>4, CallTaken
<1>6. /\ c \in DOMAIN calls /\ calls[c] \in AgentRun!Calls
      /\ \A i \in DOMAIN reqs : reqs[i] \in DOMAIN calls
                                /\ calls[reqs[i]] \in AgentRun!Calls
    BY <1>5, AgentFacts
<1>7. \A i \in DOMAIN reqs : i # k + 1 => reqs[i] # c
    BY <1>5 DEF AgentInv, SavedOK, NoRepeat
<1> HIDE DEF c, k, reqs
<1>8. /\ calls'[c].applied = calls[c].applied + 1 /\ calls[c].applied \in Nat
      /\ calls'[c].operation = calls[c].operation
      /\ calls'[c].decision = calls[c].decision
      /\ calls[c].operation \in AgentRun!Operations
      /\ \A d \in DOMAIN calls : d # c => calls'[d] = calls[d]
  <2>1. calls'[c] = [calls[c] EXCEPT !.applied = @ + 1]
      BY <1>1, <1>6
  <2>2. \A d \in DOMAIN calls : d # c => calls'[d] = calls[d]
      BY <1>1
  <2> QED
      BY <1>6, <2>1, <2>2 DEF AgentRun!Calls
<1>9. SameQuestions(a)
    BY <1>1, <1>6, <1>8 DEF SameQuestions, reqs
<1>10. /\ After(a)' = After(a)
       /\ \A i \in DOMAIN reqs : AgentRun!Patch(saved[a].requests[i])'
                                    = AgentRun!Patch(saved[a].requests[i])
    BY <1>9, SameAfter DEF reqs
<1>11. After(a)[k + 1] = AgentRun!AfterPatch(After(a)[k], AgentRun!Patch(c))
  <2>1. (k + 1) - 1 = k
      BY <1>5
  <2> QED
      BY <1>5, <2>1, AfterSteps DEF reqs
<1>12. AgentRun!Patch(c).approved /\ AgentRun!Patch(c).operation = calls[c].operation
    BY <1>1 DEF AgentRun!Patch, AgentRun!IsApproved, AgentRun!Decision
<1>13. /\ After(a)[k + 1] # {}
       /\ files[a] \in After(a)[k] => new \in After(a)[k + 1]
       /\ calls[c].operation # "update_file" => new \in After(a)[k + 1]
    BY <1>2, <1>4, <1>8, <1>11, <1>12, OnePatchMore DEF FileFollows, k
<1>14. ASSUME OverwrittenBy(a, Handled(a))', calls[c].operation = "update_file"
       PROVE  OverwrittenBy(a, k)
  <2>1. PICK i \in 1..(k + 1) :
              AgentRun!Patch(saved[a].requests[i])'.approved
              /\ AgentRun!Patch(saved[a].requests[i])'.operation # "update_file"
      BY <1>5, <1>14 DEF OverwrittenBy
  <2>2. i \in DOMAIN reqs
      BY <1>5, <2>1, PatchesShape DEF reqs
  <2>3. AgentRun!Patch(reqs[i]).approved
        /\ AgentRun!Patch(reqs[i]).operation # "update_file"
      BY <1>10, <2>1, <2>2 DEF reqs
  <2>4. i # k + 1
      BY <1>5, <1>12, <1>14, <2>3
  <2> QED
      BY <1>5, <2>1, <2>3, <2>4 DEF OverwrittenBy, reqs
<1>15. ASSUME OnceEach(a, Handled(a))'
       PROVE  OnceEach(a, k)
  <2>1. ASSUME NEW i \in DOMAIN reqs
        PROVE  calls[reqs[i]].applied <= IF i <= k THEN 1 ELSE 0
    <3>1. /\ calls'[reqs[i]].applied <= IF i <= k + 1 THEN 1 ELSE 0
          /\ i \in Nat /\ calls[reqs[i]].applied \in Nat
      <4>1. calls'[reqs[i]].applied <= IF i <= k + 1 THEN 1 ELSE 0
          BY <1>1, <1>5, <1>15, <2>1 DEF OnceEach, reqs
      <4>2. i \in Nat
          BY <2>1, PatchesShape DEF reqs
      <4>3. calls[reqs[i]].applied \in Nat
          BY <1>6, <2>1 DEF AgentRun!Calls
      <4> QED
          BY <4>1, <4>2, <4>3
    <3>2. CASE i = k + 1
        BY <1>5, <1>8, <3>1, <3>2
    <3>3. CASE i # k + 1
      <4>1. calls'[reqs[i]] = calls[reqs[i]]
          BY <1>6, <1>7, <1>8, <2>1, <3>3
      <4> QED
          BY <1>5, <3>1, <3>3, <4>1
    <3> QED
        BY <3>2, <3>3
  <2> QED
      BY <2>1 DEF OnceEach, reqs
<1>16. OverwrittenBy(a, Handled(a))' \/ OnceEach(a, Handled(a))'
           => files'[a] \in After(a)[k + 1]
    BY <1>3, <1>4, <1>10, <1>13, <1>14, <1>15 DEF FileFollows, k
<1>17. FileFollows(a)'
    BY <1>5, <1>10, <1>13, <1>16 DEF FileFollows
<1>18. Untouched(a)'
  <2>1. calls'[saved'[a].requests[k + 1]].applied # 0
      BY <1>1, <1>5, <1>8 DEF reqs
  <2>2. k + 1 \in DOMAIN saved'[a].requests
      BY <1>1, <1>5 DEF reqs
  <2> QED
      BY <2>1, <2>2 DEF Untouched
<1> QED
    BY <1>5, <1>17, <1>18 DEF ReplayOK

LEMMA RejectedFollows ==
    ASSUME AgentRun!TypeOK, AgentInv, NEW a \in Agents, ReplayOK(a),
           AgentRun!RejectPatch(a)
    PROVE  ReplayOK(a)'
<1> DEFINE c == Head(live[a].turn)
           k == Handled(a)
           reqs == saved[a].requests
<1>1. /\ group = "running" /\ live[a].step = "applying" /\ live[a].turn # <<>>
      /\ live' = [live EXCEPT ![a].turn = Tail(@)]
      /\ saved' = saved /\ agentHistory' = agentHistory /\ group' = group
      /\ calls[c].decision # "approved"
      /\ calls' = calls /\ files' = files
    BY DEF AgentRun!RejectPatch, AgentRun!TakeCall, AgentRun!IsApproved,
           AgentRun!Decision
<1>2. TurnIsRest(a) /\ FileFollows(a)
    BY <1>1 DEF ReplayOK
<1>3. /\ k \in Nat /\ k + 1 \in DOMAIN reqs /\ k + 1 \in 1..Len(reqs) /\ reqs[k + 1] = c
      /\ Handled(a)' = k + 1 /\ TurnIsRest(a)'
    BY <1>1, <1>2, CallTaken
<1>4. \A i \in DOMAIN reqs : /\ reqs[i] \in DOMAIN calls
                             /\ calls[reqs[i]] \in AgentRun!Calls
    BY AgentFacts
<1>5. calls[c].applied = 0
  <2>1. c \in DOMAIN calls /\ calls[c].applied \in Nat
      BY <1>3, <1>4 DEF AgentRun!Calls
  <2>2. ~(calls[c].applied > 0)
      BY <1>1, <2>1 DEF AgentInv, CallsOK
  <2> QED
      BY <2>1, <2>2
<1> HIDE DEF c, k, reqs
<1>6. SameQuestions(a)
    BY <1>1 DEF SameQuestions
<1>7. /\ After(a)' = After(a)
      /\ \A i \in DOMAIN reqs : AgentRun!Patch(saved[a].requests[i])'
                                   = AgentRun!Patch(saved[a].requests[i])
    BY <1>6, SameAfter DEF reqs
<1>8. ~AgentRun!Patch(c).approved
    BY <1>1 DEF AgentRun!Patch, AgentRun!IsApproved, AgentRun!Decision
<1>9. After(a)[k + 1] = After(a)[k]
  <2>1. (k + 1) - 1 = k
      BY <1>3
  <2>2. After(a)[k + 1] = AgentRun!AfterPatch(After(a)[k], AgentRun!Patch(c))
      BY <1>3, <2>1, AfterSteps DEF reqs
  <2> QED
      BY <1>8, <2>2 DEF AgentRun!AfterPatch
<1>10. ASSUME OverwrittenBy(a, Handled(a))'
       PROVE  OverwrittenBy(a, k)
  <2>1. PICK i \in 1..(k + 1) :
              AgentRun!Patch(saved[a].requests[i])'.approved
              /\ AgentRun!Patch(saved[a].requests[i])'.operation # "update_file"
      BY <1>3, <1>10 DEF OverwrittenBy
  <2>2. i \in DOMAIN reqs
      BY <1>3, <2>1, PatchesShape DEF reqs
  <2>3. AgentRun!Patch(reqs[i]).approved
        /\ AgentRun!Patch(reqs[i]).operation # "update_file"
      BY <1>7, <2>1, <2>2 DEF reqs
  <2>4. i # k + 1
      BY <1>3, <1>8, <2>3
  <2> QED
      BY <1>3, <2>1, <2>3, <2>4 DEF OverwrittenBy, reqs
<1>11. ASSUME OnceEach(a, Handled(a))'
       PROVE  OnceEach(a, k)
  <2>1. ASSUME NEW i \in DOMAIN reqs
        PROVE  calls[reqs[i]].applied <= IF i <= k THEN 1 ELSE 0
    <3>1. calls[reqs[i]].applied <= IF i <= k + 1 THEN 1 ELSE 0
        BY <1>1, <1>3, <1>11, <2>1 DEF OnceEach, reqs
    <3>2. i \in Nat
        BY <2>1, PatchesShape DEF reqs
    <3>3. CASE i = k + 1
        BY <1>3, <1>5, <3>3
    <3>4. CASE i # k + 1
        BY <1>3, <3>1, <3>2, <3>4
    <3> QED
        BY <3>3, <3>4
  <2> QED
      BY <2>1 DEF OnceEach, reqs
<1>12. FileFollows(a)'
    BY <1>1, <1>2, <1>3, <1>7, <1>9, <1>10, <1>11 DEF FileFollows, k
<1>13. Untouched(a)'
    BY <1>1 DEF ReplayOK, Untouched
<1> QED
    BY <1>3, <1>12, <1>13 DEF ReplayOK

LEMMA ReplayInit == AgentRun!Init => ReplayInv
<1> SUFFICES ASSUME AgentRun!Init, NEW a \in Agents
             PROVE  ReplayOK(a)
    BY DEF ReplayInv
<1> QED
    BY DEF ReplayOK, Untouched, AgentRun!Init, AgentRun!Idle

LEMMA ReplayStep ==
    AgentRun!TypeOK /\ AgentInv /\ ReplayInv /\ [AgentRun!Next]_(AgentRun!vars)
        => ReplayInv'
<1> SUFFICES ASSUME AgentRun!TypeOK, AgentInv, ReplayInv,
                    [AgentRun!Next]_(AgentRun!vars), NEW a \in Agents
             PROVE  ReplayOK(a)'
    BY DEF ReplayInv
<1>0. /\ ReplayOK(a) /\ live \in [Agents -> AgentRun!Conversations]
      /\ calls \in Seq(AgentRun!Calls)
    BY DEF ReplayInv, AgentRun!TypeOK
<1>c. \A i \in DOMAIN saved[a].requests :
          /\ saved[a].requests[i] \in DOMAIN calls
          /\ calls[saved[a].requests[i]] \in AgentRun!Calls
    BY AgentFacts
<1>h. agentHistory \in [files: [Agents -> AgentTexts], crashes: 0..AgentCrashes]
    BY DEF AgentRun!TypeOK, AgentTexts
<1>1. CASE AgentRun!InvokeWorkers
  <2>1. live'[a].step # "applying"
      BY <1>1 DEF AgentRun!InvokeWorkers
  <2> QED
      BY <1>0, <1>1, <2>1, OthersFollow DEF AgentRun!InvokeWorkers, SameCalls
<1>2. CASE AgentRun!ResumeWorkers
  <2>1. /\ group = "queued" /\ group' = "running" /\ saved' = saved
        /\ calls' = calls /\ files' = files /\ agentHistory' = agentHistory
        /\ live'[a].step = "applying" => live'[a].turn = saved[a].requests
      BY <1>2 DEF AgentRun!ResumeWorkers, AgentRun!Idle
  <2>2. Untouched(a)'
      BY <1>0, <2>1 DEF ReplayOK, Untouched
  <2>3. ASSUME live'[a].step = "applying"
        PROVE  TurnIsRest(a)' /\ FileFollows(a)'
    <3>1. /\ Len(saved[a].requests) \in Nat
          /\ DOMAIN saved[a].requests = 1..Len(saved[a].requests)
        BY PatchesShape
    <3>2. Handled(a)' = 0
        BY <2>1, <2>3, <3>1 DEF Handled
    <3>3. TurnIsRest(a)'
      <4>1. \A i \in DOMAIN saved[a].requests : 0 + i = i
          BY <3>1
      <4> QED
          BY <2>1, <2>3, <3>1, <3>2, <4>1 DEF TurnIsRest
    <3>4. After(a)'[0] = {agentHistory.files[a]}
      <4>1. SameQuestions(a)
          BY <2>1 DEF SameQuestions
      <4> QED
          BY <4>1, SameAfter, AfterSteps
    <3>5. ~OverwrittenBy(a, Handled(a))'
        BY <3>2 DEF OverwrittenBy
    <3>6. ASSUME OnceEach(a, Handled(a))'
          PROVE  files[a] = agentHistory.files[a]
      <4>1. ASSUME NEW i \in DOMAIN saved[a].requests
            PROVE  calls[saved[a].requests[i]].applied = 0
        <5>1. calls[saved[a].requests[i]].applied \in Nat /\ i \in 1..Len(saved[a].requests)
            BY <1>c, <3>1, <4>1 DEF AgentRun!Calls
        <5>2. calls[saved[a].requests[i]].applied <= IF i <= 0 THEN 1 ELSE 0
            BY <2>1, <3>2, <3>6, <4>1 DEF OnceEach
        <5> QED
            BY <3>1, <5>1, <5>2
      <4> QED
          BY <1>0, <2>1, <4>1 DEF ReplayOK, Untouched
    <3>7. FileFollows(a)'
        BY <2>1, <3>2, <3>4, <3>5, <3>6 DEF FileFollows
    <3> QED
        BY <3>3, <3>7
  <2> QED
      BY <2>2, <2>3 DEF ReplayOK
<1>3. ASSUME NEW b \in Agents, AgentRun!ApplyPatch(b)
      PROVE  ReplayOK(a)'
  <2>1. CASE b = a
      BY <1>0, <1>3, <2>1, AppliedFollows
  <2>2. CASE b # a
    <3>1. /\ live[b].step = "applying" /\ live[b].turn # <<>>
          /\ live' = [live EXCEPT ![b].turn = Tail(@)]
          /\ saved' = saved /\ agentHistory' = agentHistory
          /\ group = "running" /\ group' = "running"
          /\ calls' = [calls EXCEPT ![Head(live[b].turn)].applied = @ + 1]
          /\ files'[a] = files[a]
        BY <1>3, <2>2 DEF AgentRun!ApplyPatch, AgentRun!TakeCall, AgentRun!TypeOK
    <3>2. TurnIsRest(b)
        BY <3>1 DEF ReplayInv, ReplayOK
    <3>3. /\ Handled(b) + 1 \in DOMAIN saved[b].requests
          /\ saved[b].requests[Handled(b) + 1] = Head(live[b].turn)
        BY <3>1, <3>2, CallTaken
    <3>4. \A i \in DOMAIN saved[a].requests : saved[a].requests[i] # Head(live[b].turn)
        BY <2>2, <3>3 DEF AgentInv, SavedOK, ApartFrom
    <3>5. SameCalls(a)
        BY <1>c, <3>1, <3>4 DEF SameCalls
    <3>6. live'[a] = live[a]
        BY <1>0, <2>2, <3>1
    <3> QED
        BY <1>0, <3>1, <3>5, <3>6, OthersFollow
  <2> QED
      BY <2>1, <2>2
<1>4. ASSUME NEW b \in Agents, AgentRun!RejectPatch(b)
      PROVE  ReplayOK(a)'
  <2>1. CASE b = a
      BY <1>0, <1>4, <2>1, RejectedFollows
  <2>2. CASE b # a
    <3>1. live'[a] = live[a]
        BY <1>0, <1>4, <2>2 DEF AgentRun!RejectPatch, AgentRun!TakeCall
    <3> QED
        BY <1>0, <1>4, <3>1, OthersFollow
           DEF AgentRun!RejectPatch, AgentRun!TakeCall, SameCalls
  <2> QED
      BY <2>1, <2>2
<1>5. ASSUME NEW b \in Agents, AgentRun!TurnDone(b) \/ AgentRun!CompleteWork(b)
      PROVE  ReplayOK(a)'
  <2>1. live'[a] = live[a] \/ live'[a].step # "applying"
      BY <1>0, <1>5 DEF AgentRun!TurnDone, AgentRun!CompleteWork, AgentRun!Conversations
  <2> QED
      BY <1>0, <1>5, <2>1, OthersFollow
         DEF AgentRun!TurnDone, AgentRun!CompleteWork, SameCalls
<1>6. ASSUME NEW b \in Agents, AgentRun!AskForPatches(b)
      PROVE  ReplayOK(a)'
  <2>n. PICK n \in 1..(MaxCalls - Len(calls)) :
          \E operations \in [1..n -> AgentRun!Operations] :
          /\ calls' = calls \o [i \in 1..n |->
                [operation |-> operations[i], decision |-> "none", applied |-> 0]]
          /\ live' = [live EXCEPT ![b] =
                [step |-> "pending_approval",
                 turn |-> [i \in 1..n |-> Len(calls) + i]]]
      BY <1>6 DEF AgentRun!AskForPatches
  <2>1. PICK operations \in [1..n -> AgentRun!Operations] :
          /\ calls' = calls \o [i \in 1..n |->
                [operation |-> operations[i], decision |-> "none", applied |-> 0]]
          /\ live' = [live EXCEPT ![b] =
                [step |-> "pending_approval",
                 turn |-> [i \in 1..n |-> Len(calls) + i]]]
      BY <2>n
  <2> DEFINE new == [i \in 1..n |->
                [operation |-> operations[i], decision |-> "none", applied |-> 0]]
             asked == [i \in 1..n |-> Len(calls) + i]
  <2>2. new \in [1..n -> AgentRun!Calls] /\ n \in Nat
      BY <1>0, BoundsAssumption DEF AgentRun!Calls, AgentRun!Decisions
  <2>3. /\ calls' = calls \o new
        /\ live' = [live EXCEPT ![b] = [step |-> "pending_approval", turn |-> asked]]
      BY <2>1
  <2> HIDE DEF new, asked
  <2>4. SameCalls(a)
    <3>1. \A i \in 1..Len(calls) : calls'[i] = calls[i]
        BY <1>0, <2>2, <2>3, Concatenation
    <3>2. DOMAIN calls = 1..Len(calls)
        BY <1>0
    <3> QED
        BY <1>c, <3>1, <3>2 DEF SameCalls
  <2>5. live'[a] = live[a] \/ live'[a].step # "applying"
      BY <1>0, <2>3
  <2> QED
      BY <1>0, <1>6, <2>4, <2>5, OthersFollow DEF AgentRun!AskForPatches
<1>7. CASE AgentRun!SavePause
  <2>1. /\ live'[a] = AgentRun!Idle
        /\ files' = files /\ agentHistory'.files = files
      BY <1>7, <1>h DEF AgentRun!SavePause
  <2> QED
      BY <2>1 DEF ReplayOK, Untouched, AgentRun!Idle
<1>8. CASE AgentRun!GroupFinishes \/ AgentRun!AgentFails
  <2>1. /\ live'[a] = AgentRun!Idle /\ group' \in {"finished", "failed"}
      BY <1>8 DEF AgentRun!GroupFinishes, AgentRun!AgentFails
  <2> QED
      BY <2>1 DEF ReplayOK, Untouched, AgentRun!Idle
<1>9. ASSUME NEW c \in DOMAIN calls, NEW decision \in {"approved", "rejected"},
             AgentRun!Decide(c, decision)
      PROVE  ReplayOK(a)'
  <2>1. /\ group = "waiting" /\ live' = live /\ saved' = saved /\ files' = files
        /\ agentHistory' = agentHistory
        /\ calls' = [calls EXCEPT ![c].decision = decision]
      BY <1>9 DEF AgentRun!Decide
  <2>2. live'[a].step # "applying"
      BY <2>1 DEF AgentInv, ConversationsOK, AgentRun!Idle
  <2>3. \A i \in DOMAIN saved[a].requests :
            calls'[saved[a].requests[i]].applied = calls[saved[a].requests[i]].applied
    <3>1. ASSUME NEW d \in DOMAIN calls
          PROVE  calls'[d].applied = calls[d].applied
      <4>1. calls[d] \in AgentRun!Calls
          BY <1>0, <3>1
      <4>2. calls'[d] = IF d = c THEN [calls[c] EXCEPT !.decision = decision]
                        ELSE calls[d]
          BY <2>1, <3>1
      <4> QED
          BY <4>1, <4>2 DEF AgentRun!Calls
    <3> QED
        BY <1>c, <3>1
  <2>4. Untouched(a)'
      BY <1>0, <2>1, <2>3 DEF ReplayOK, Untouched
  <2> QED
      BY <2>2, <2>4 DEF ReplayOK
<1>10. CASE AgentRun!Crash
  <2>1. /\ live'[a] = AgentRun!Idle /\ agentHistory'.files = agentHistory.files
        /\ group = "running"
        /\ saved' = saved /\ calls' = calls /\ files' = files
      BY <1>10, <1>h DEF AgentRun!Crash
  <2>2. live'[a].step # "applying"
      BY <2>1 DEF AgentRun!Idle
  <2> QED
      BY <1>0, <2>1, <2>2, OthersFollow DEF SameCalls
<1>11. CASE UNCHANGED AgentRun!vars
    BY <1>0, <1>11, OthersFollow DEF AgentRun!vars, SameCalls
<1> QED
    BY <1>1, <1>2, <1>3, <1>4, <1>5, <1>6, <1>7, <1>8, <1>9, <1>10, <1>11
       DEF AgentRun!Next

\* However often the process dies between the patches of a turn, the file ends
\* as if it had not, unless an update is repeated in a turn that leaves the
\* rest of the file alone (resume_worker, the editor); for turns of any length.
THEOREM ReplaysConverge == AgentRun!Spec => []ReplayConverges
<1>1. AgentRun!Spec => []ReplayInv
    BY ReplayInit, ReplayStep, AgentInvariant, PTL DEF AgentRun!Spec
<1>2. AgentRun!TypeOK /\ AgentInv /\ ReplayInv => ReplayConverges
  <2> SUFFICES ASSUME AgentRun!TypeOK, AgentInv, ReplayInv, NEW a \in Agents,
                      live[a] = [step |-> "applying", turn |-> <<>>],
                      AgentRun!RepeatedUpdate(a) =>
                         AgentRun!Overwritten(AgentRun!RequestedPatches(a))
               PROVE  LET patches == AgentRun!RequestedPatches(a)
                      IN  files[a] \in AgentRun!Applied(agentHistory.files[a],
                                                        patches)[Len(patches)]
      BY DEF ReplayConverges, AgentRun!ReplayConverges
  <2> DEFINE reqs == saved[a].requests
  <2>1. /\ Len(reqs) \in Nat /\ DOMAIN reqs = 1..Len(reqs)
        /\ Len(AgentRun!RequestedPatches(a)) = Len(reqs)
        /\ DOMAIN AgentRun!RequestedPatches(a) = DOMAIN reqs
        /\ \A i \in DOMAIN reqs :
              AgentRun!RequestedPatches(a)[i] = AgentRun!Patch(reqs[i])
      BY PatchesShape
  <2>2. Handled(a) = Len(reqs) /\ FileFollows(a)
      BY <2>1 DEF ReplayInv, ReplayOK, Handled
  <2>3. \A i \in DOMAIN reqs : /\ reqs[i] \in DOMAIN calls
                               /\ calls[reqs[i]] \in AgentRun!Calls
      BY AgentFacts
  <2> HIDE DEF reqs
  <2>4. CASE AgentRun!Overwritten(AgentRun!RequestedPatches(a))
    <3>1. OverwrittenBy(a, Len(reqs))
        BY <2>1, <2>4 DEF AgentRun!Overwritten, OverwrittenBy, reqs
    <3> QED
        BY <2>1, <2>2, <3>1 DEF FileFollows, After
  <2>5. CASE ~AgentRun!Overwritten(AgentRun!RequestedPatches(a))
    <3>1. ASSUME NEW i \in DOMAIN reqs
          PROVE  calls[reqs[i]].applied <= 1
      <4>1. ~(calls[reqs[i]].operation = "update_file" /\ calls[reqs[i]].applied > 1)
          BY <2>5, <3>1 DEF AgentRun!RepeatedUpdate, reqs
      <4>2. ~(calls[reqs[i]].decision = "approved"
                 /\ calls[reqs[i]].operation # "update_file")
        <5>1. ~(AgentRun!Patch(reqs[i]).approved
                   /\ AgentRun!Patch(reqs[i]).operation # "update_file")
            BY <2>1, <2>5, <3>1 DEF AgentRun!Overwritten
        <5>2. /\ AgentRun!Patch(reqs[i]).operation = calls[reqs[i]].operation
              /\ AgentRun!Patch(reqs[i]).approved
                    <=> calls[reqs[i]].decision = "approved"
            BY DEF AgentRun!Patch, AgentRun!IsApproved, AgentRun!Decision
        <5> QED
            BY <5>1, <5>2
      <4>3. calls[reqs[i]].applied > 0 => calls[reqs[i]].decision = "approved"
          BY <2>3, <3>1 DEF AgentInv, CallsOK
      <4>4. calls[reqs[i]].applied \in Nat
          BY <2>3, <3>1 DEF AgentRun!Calls
      <4> QED
          BY <4>1, <4>2, <4>3, <4>4
    <3>2. OnceEach(a, Len(reqs))
        BY <2>1, <3>1 DEF OnceEach, reqs
    <3> QED
        BY <2>1, <2>2, <3>2 DEF FileFollows, After
  <2> QED
      BY <2>4, <2>5
<1> QED
    BY <1>1, <1>2, AgentInvariant, PTL
-----------------------------------------------------------------------------
(***************************************************************************)
(* The parts side by side: each step of MCParts is one of a part, which    *)
(* leaves the variables of the others alone.                               *)
(***************************************************************************)

\* Every behaviour of the four parts together is one of each of them, so what
\* the theorems above say of a part holds where TLC checks it.
THEOREM PartsStandAlone ==
    FairSpec => Planning!Spec /\ AgentRun!Spec /\ Workspace!Spec /\ Publication!Spec
<1>1. Init => Planning!Init /\ AgentRun!Init /\ Workspace!Init /\ Publication!Init
    BY DEF Init
<1>2. [Next]_vars => [Planning!Next]_(Planning!vars)
    BY DEF Next, vars, planning, agents, workspace, publication, Planning!vars
<1>3. [Next]_vars => [AgentRun!Next]_(AgentRun!vars)
    BY DEF Next, vars, planning, agents, workspace, publication, AgentRun!vars
<1>4. [Next]_vars => [Workspace!Next]_(Workspace!vars)
    BY DEF Next, vars, planning, agents, workspace, publication, Workspace!vars
<1>5. [Next]_vars => [Publication!Next]_(Publication!vars)
    BY DEF Next, vars, planning, agents, workspace, publication, Publication!vars
<1> QED
    BY <1>1, <1>2, <1>3, <1>4, <1>5, PTL
       DEF FairSpec, Planning!Spec, AgentRun!Spec, Workspace!Spec, Publication!Spec

\* The variables of every part stay in their types.
THEOREM PartsTypes == FairSpec => []TypeOK
<1>1. Planning!TypeOK /\ AgentRun!TypeOK /\ Workspace!TypeOK /\ Publication!TypeOK
          => TypeOK
    BY DEF TypeOK
<1> QED
    BY <1>1, PartsStandAlone, PlanningTypes, AgentInvariant, WorkspaceTypes,
       PublicationTypes, PTL
=============================================================================
