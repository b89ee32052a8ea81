------------------------------- MODULE MCParts -------------------------------
(* The parts of a run that share no state with one another: the check of a   *)
(* decomposition, a group of agents, the managed workspace and the           *)
(* publication.  Init picks one of them, which then runs by itself, so that  *)
(* the states of the parts add up and do not multiply.                       *)
EXTENDS Naturals, Sequences

CONSTANTS
    Paths, MaxWorkstreams, MaxPaths,                \* Planning
    Agents, MaxCalls,                               \* AgentRun
    Base, DefaultBranches, EnclosingBranches, NoBranch, \* Workspace
    Names, NoName, MaxRenames,                      \* Publication
    AgentCrashes, MaxCrashes    \* AgentRun's bound, and that of the others

ASSUME BoundsAssumption ==
    /\ MaxWorkstreams \in Nat /\ MaxPaths \in Nat /\ MaxCalls \in Nat
    /\ MaxRenames \in Nat /\ AgentCrashes \in Nat /\ MaxCrashes \in Nat

VARIABLES
    part,
    proposed, work, at, seenPaths, verdict,
    live, saved, calls, files, group, agentHistory,
    root, repository, worktrees, clone, outside, task, fresh, advanced, relied,
    crashes,
    github, intake, run, step, request, local, history

planning == <<proposed, work, at, seenPaths, verdict>>
agents == <<live, saved, calls, files, group, agentHistory>>
workspace ==
    <<root, repository, worktrees, clone, outside, task, fresh, advanced, relied,
      crashes>>
publication == <<github, intake, run, step, request, local, history>>
vars == <<part, planning, agents, workspace, publication>>

Planning == INSTANCE Planning
AgentRun == INSTANCE AgentRun WITH
    history <- agentHistory, MaxCrashes <- AgentCrashes
Workspace == INSTANCE Workspace WITH run <- advanced
Publication == INSTANCE Publication

\* A part that is not picked has one initial state.
Init ==
    /\ part \in {"planning", "agents", "workspace", "publication"}
    /\ Planning!Init /\ AgentRun!Init /\ Workspace!Init /\ Publication!Init
    /\ part # "agents" => files = [a \in Agents |-> AgentRun!Absent]
    /\ part # "workspace" => outside = CHOOSE o \in Workspace!Outsides : TRUE
    /\ part # "publication" =>
          github.former = {} /\ github.name = CHOOSE name \in Names : TRUE

Next ==
    /\ part' = part
    /\ \/ /\ part = "planning"
          /\ Planning!Next
          /\ UNCHANGED <<agents, workspace, publication>>
       \/ /\ part = "agents"
          /\ AgentRun!Next
          /\ UNCHANGED <<planning, workspace, publication>>
       \/ /\ part = "workspace"
          /\ Workspace!Next
          /\ UNCHANGED <<planning, agents, publication>>
       \/ /\ part = "publication"
          /\ Publication!Next
          /\ UNCHANGED <<planning, agents, workspace>>

\* The fairness of Workspace, of its part.
OwnStep ==
    /\ part = "workspace"
    /\ Workspace!OwnStep
    /\ UNCHANGED <<part, planning, agents, publication>>

FairSpec == Init /\ [][Next]_vars /\ WF_vars(OwnStep)

------------------------------------------------------------------------------

\* The types of all parts.
TypeOK ==
    /\ Planning!TypeOK
    /\ AgentRun!TypeOK
    /\ Workspace!TypeOK
    /\ Publication!TypeOK

\* Planning: workstreams run side by side name different paths, all of them,
\* and one worker takes over only when they do not (_can_run_in_parallel).
VerdictIsRight == Planning!VerdictIsRight

\* AgentRun: only approved patches change files, once for each process
\* that resumed them (resume_worker, the editor).
AppliedWasApproved == AgentRun!AppliedWasApproved

\* AgentRun: a pause shows each question of each agent, and a queued group can
\* be resumed (pending_approval_requests, _saved_approval_resolutions).
NoQuestionIsLost == AgentRun!NoQuestionIsLost

\* AgentRun: a turn repeated after a crash ends in the files of one that was
\* not, unless it is a turn of nothing but updates and repeats one
\* (RepositoryEditor).
ReplayConverges == AgentRun!ReplayConverges

\* Workspace: what is handed out has the base branch, and without a crash all
\* its files, but for a left-over that Git takes for another repository
\* (prepare_workspace).
ReadyIsUsable == Workspace!ReadyIsUsable

\* Workspace: a clone a task has relied on is kept while the run goes on.
WorkIsKept == Workspace!WorkIsKept

\* Workspace: a task gets its workspace or an error, from any remote.
TaskReturns == Workspace!TaskReturns

\* Publication: Completed means one pull request and its URL in the row,
\* Cancelled means nothing pushed (finalize_workflow).
OutcomeIsTrue == Publication!OutcomeIsTrue

\* Publication: a result that was not rejected is on GitHub or in the workspace
\* (finalize_workflow).
ResultIsNotLost == Publication!ResultIsNotLost

\* Publication: no second request pushes what a first one has pushed.
OnePublication == Publication!OnePublication
=============================================================================
