------------------------------ MODULE AgentRun ------------------------------
(***************************************************************************)
(* The agents of one run and their patches (agents/workers.py, approvals.py*)
(* and tools/editor.py): a group of agents, each in its own worktree, ask  *)
(* for patches, are saved, wait for a person, and are resumed by a process *)
(* that restores their conversations, hands out the decisions and lets the *)
(* editor change files.  The SDK's own loop is external; it runs the calls *)
(* of one turn in order and shows them again when it is restored.          *)
(*                                                                         *)
(* Module Coordinator has the groups and the stages between them; here one *)
(* group is followed down to the single patch.                             *)
(***************************************************************************)
EXTENDS Naturals, Sequences

CONSTANTS
    Agents,        \* the agents of the group
    MaxCalls,      \* bound: patches asked for
    MaxCrashes     \* bound: how often the process dies

VARIABLES
    live,       \* the conversation of each agent, in memory
    saved,      \* the WorkExecution of each agent in agent_state
    calls,      \* every patch asked for, with its approval row
    files,      \* what the one file of each worktree is made of
    group,      \* what is being done for the group
    history     \* files at the last pause, and crashes; no code reads it

vars == <<live, saved, calls, files, group, history>>

----------------------------------------------------------------------------

CallIds == 1..MaxCalls

Operations == {"create_file", "update_file", "delete_file"}

\* "none": no row of the approvals table yet.
Decisions == {"none", "pending", "approved", "rejected"}

Calls == [operation: Operations, decision: Decisions, applied: Nat]

Conversations ==
    [step: {"idle", "thinking", "applying", "pending_approval", "completed"},
     turn: Seq(CallIds)]    \* calls of this turn, not yet dealt with

Executions ==
    [status: {"none", "pending_approval", "completed"},
     requests: Seq(CallIds)]    \* approval_requests, and with run_state

\* A file is the list of the calls that made it; BaseText stands for that
\* of the base branch.
BaseText == 0
Absent == <<>>

TypeOK ==
    /\ live \in [Agents -> Conversations]
    /\ saved \in [Agents -> Executions]
    /\ calls \in Seq(Calls) /\ Len(calls) <= MaxCalls
    /\ files \in [Agents -> Seq(CallIds \cup {BaseText})]
    /\ group \in {"queued", "running", "waiting", "finished", "failed"}
    /\ history \in [files: [Agents -> Seq(CallIds \cup {BaseText})],
                    crashes: 0..MaxCrashes]

Idle == [step |-> "idle", turn |-> <<>>]

Init ==
    /\ live = [a \in Agents |-> Idle]
    /\ saved = [a \in Agents |-> [status |-> "none", requests |-> <<>>]]
    /\ calls = <<>>
    /\ files \in [Agents -> {<<BaseText>>, Absent}]
    /\ group = "queued"
    /\ history = [files |-> files, crashes |-> 0]

----------------------------------------------------------------------------
(* Starting and resuming.                                                  *)

Decision(c) == calls[c].decision

NoneUndecided == \A c \in DOMAIN calls : Decision(c) # "pending"

\* invoke_worker for a new group; execute_new_work gives each agent a task.
\* A process that died before the first pause leaves worktrees behind, and
\* the next one makes new ones.
InvokeWorkers ==
    /\ group = "queued"
    /\ \A a \in Agents : saved[a].status = "none"
    /\ live' = [a \in Agents |-> [step |-> "thinking", turn |-> <<>>]]
    /\ group' = "running"
    /\ UNCHANGED <<saved, calls, files, history>>

\* Mutant: every decision lets the call through.
AnyDecision(c) == Decision(c) # "pending"

\* state.approve or state.reject, from what is saved of the decision.
IsApproved(c) == Decision(c) = "approved"

\* resume_worker raises when a call of the turn has no decision, and
\* _saved_approval_resolutions when any has none yet: NoQuestionIsLost shows
\* that neither ever does.
HasResolution(c) == Decision(c) \in {"approved", "rejected"}

Pending == {a \in Agents : saved[a].status = "pending_approval"}

AllResolved ==
    \A a \in Pending : \A i \in DOMAIN saved[a].requests :
        HasResolution(saved[a].requests[i])

\* resume_pending_work: the restored conversations go on with their last turn.
ResumeWorkers ==
    /\ group = "queued"
    /\ Pending # {}
    /\ NoneUndecided
    /\ AllResolved
    /\ live' = [a \in Agents |->
          IF a \in Pending
          THEN [step |-> "applying", turn |-> saved[a].requests]
          ELSE Idle]
    /\ group' = "running"
    /\ UNCHANGED <<saved, calls, files, history>>

----------------------------------------------------------------------------
(* The editor.                                                             *)

\* Mutant: the new text goes after the old.
AppendToFile(content, c) == Append(content, c)

\* create_file overwrites.
CreateFile(content, c) == <<c>>

InFile(content, c) == \E i \in DOMAIN content : content[i] = c

\* What an operation may make of a file.  update_file needs the file and the
\* lines it changes; after it has changed them it may find them again.
\* delete_file does not mind a file that is not there.
Results(content, patch) ==
    CASE patch.operation = "create_file" -> {CreateFile(content, patch.call)}
      [] patch.operation = "delete_file" -> {Absent}
      [] patch.operation = "update_file" ->
            IF content = Absent THEN {content}
            ELSE IF InFile(content, patch.call)
            THEN {content, Append(content, patch.call)}
            ELSE {Append(content, patch.call)}

\* What the editor and the approval tool know of a call.
Patch(c) ==
    [call |-> c, operation |-> calls[c].operation, approved |-> IsApproved(c)]

\* The restored turn is gone through in the order of its calls.
TakeCall(a) ==
    /\ group = "running"
    /\ live[a].step = "applying"
    /\ live[a].turn # <<>>
    /\ live' = [live EXCEPT ![a].turn = Tail(@)]
    /\ UNCHANGED <<saved, group, history>>

\* An approved call; an operation that raises becomes its output.
ApplyPatch(a) ==
    /\ TakeCall(a)
    /\ LET c == Head(live[a].turn) IN
          /\ IsApproved(c)
          /\ \E content \in Results(files[a], Patch(c)) :
                files' = [files EXCEPT ![a] = content]
          /\ calls' = [calls EXCEPT ![c].applied = @ + 1]

\* A rejected call becomes its rejection message.
RejectPatch(a) ==
    /\ TakeCall(a)
    /\ ~IsApproved(Head(live[a].turn))
    /\ UNCHANGED <<calls, files>>

TurnDone(a) ==
    /\ group = "running"
    /\ live[a] = [step |-> "applying", turn |-> <<>>]
    /\ live' = [live EXCEPT ![a].step = "thinking"]
    /\ UNCHANGED <<saved, calls, files, group, history>>

----------------------------------------------------------------------------
(* The conversation, and what is saved of it.                              *)

\* The model asks for one patch or more: the run is interrupted, and
\* _work_execution turns the interruptions into approval requests.
AskForPatches(a) ==
    /\ group = "running"
    /\ live[a].step = "thinking"
    /\ \E n \in 1..(MaxCalls - Len(calls)) :
          \E operations \in [1..n -> Operations] :
             /\ calls' = calls \o [i \in 1..n |->
                   [operation |-> operations[i], decision |-> "none",
                    applied |-> 0]]
             /\ live' = [live EXCEPT ![a] =
                   [step |-> "pending_approval",
                    turn |-> [i \in 1..n |-> Len(calls) + i]]]
    /\ UNCHANGED <<saved, files, group, history>>

CompleteWork(a) ==
    /\ group = "running"
    /\ live[a].step = "thinking"
    /\ live' = [live EXCEPT ![a].step = "completed"]
    /\ UNCHANGED <<saved, calls, files, group, history>>

Returned(a) == live[a].step \in {"idle", "pending_approval", "completed"}

\* Mutant: an agent that pauses once more keeps its old run_state.
CompletedOnly(a) ==
    IF live[a].step = "completed" \/ saved[a].status = "none"
    THEN [status |-> live[a].step, requests |-> live[a].turn]
    ELSE saved[a]

\* _replace_work_execution for those that were run, the others as they are.
ExecutionAfter(a) ==
    IF live[a].step = "idle" THEN saved[a]
    ELSE [status |-> live[a].step, requests |-> live[a].turn]

\* Mutant: the requests of one agent only.
OneAgentsRequests ==
    LET one == CHOOSE a \in Agents : live[a].step = "pending_approval"
    IN  {live[one].turn[i] : i \in DOMAIN live[one].turn}

\* pending_approval_requests: of every record, those it waits for.
PendingApprovalRequests ==
    UNION {{ExecutionAfter(a).requests[i] : i \in DOMAIN ExecutionAfter(a).requests}
              : a \in Agents}

\* _save_coordinator_execution with AWAITING_APPROVALS.
SavePause ==
    /\ group = "running"
    /\ \A a \in Agents : Returned(a)
    /\ \E a \in Agents : ExecutionAfter(a).status = "pending_approval"
    /\ saved' = [a \in Agents |-> ExecutionAfter(a)]
    /\ calls' = [c \in DOMAIN calls |->
          IF c \in PendingApprovalRequests
          THEN [calls[c] EXCEPT !.decision = "pending"] ELSE calls[c]]
    /\ live' = [a \in Agents |-> Idle]
    /\ group' = "waiting"
    /\ history' = [history EXCEPT !.files = files]
    /\ UNCHANGED files

\* No agent waits: the coordinator goes on with WORK_COMPLETED.
GroupFinishes ==
    /\ group = "running"
    /\ \A a \in Agents : Returned(a) /\ ExecutionAfter(a).status = "completed"
    /\ saved' = [a \in Agents |-> ExecutionAfter(a)]
    /\ live' = [a \in Agents |-> Idle]
    /\ group' = "finished"
    /\ UNCHANGED <<calls, files, history>>

\* A WorkerError or an ApprovalRequestError: the TaskGroup cancels the rest.
AgentFails ==
    /\ group = "running"
    /\ \E a \in Agents : live[a].step \in {"thinking", "applying"}
    /\ group' = "failed"
    /\ live' = [a \in Agents |-> Idle]
    /\ UNCHANGED <<saved, calls, files, history>>

----------------------------------------------------------------------------
(* People and crashes.                                                     *)

\* decide_approval; the last decision queues the run.
Decide(c, decision) ==
    /\ group = "waiting"
    /\ Decision(c) = "pending"
    /\ calls' = [calls EXCEPT ![c].decision = decision]
    /\ group' = IF \A d \in DOMAIN calls \ {c} : Decision(d) # "pending"
                THEN "queued" ELSE group
    /\ UNCHANGED <<live, saved, files, history>>

\* The process dies; what it held is lost, what it wrote is not, but for a
\* first attempt: the next one has new worktrees of the base branch.
Crash ==
    /\ group = "running"
    /\ history.crashes < MaxCrashes
    /\ group' = "queued"
    /\ live' = [a \in Agents |-> Idle]
    /\ history' = [history EXCEPT !.crashes = @ + 1]
    /\ UNCHANGED <<saved, calls, files>>

Next ==
    \/ InvokeWorkers \/ ResumeWorkers
    \/ \E a \in Agents :
          \/ ApplyPatch(a) \/ RejectPatch(a) \/ TurnDone(a)
          \/ AskForPatches(a) \/ CompleteWork(a)
    \/ SavePause \/ GroupFinishes \/ AgentFails
    \/ \E c \in DOMAIN calls, decision \in {"approved", "rejected"} :
          Decide(c, decision)
    \/ Crash

Spec == Init /\ [][Next]_vars

----------------------------------------------------------------------------
(* Properties.                                                             *)

\* A patch changes a file only after a person has approved exactly this
\* call, whichever process, pause or agent it comes from
\* (test_approval_guard.py:38); and it changes it again only in a resume that
\* a crash made necessary, in particular not in the resume of a later pause.
AppliedWasApproved ==
    \A c \in DOMAIN calls : calls[c].applied > 0 =>
        /\ Decision(c) = "approved"
        /\ calls[c].applied <= 1 + history.crashes

\* A pause shows every question it waits for: each call of each paused agent
\* has a row, so that once nothing is pending every agent can be resumed and
\* resume_worker's check never fails a run.
NoQuestionIsLost ==
    /\ group = "waiting" =>
          \A a \in Pending : \A i \in DOMAIN saved[a].requests :
              Decision(saved[a].requests[i]) # "none"
    /\ group = "queued" => NoneUndecided /\ AllResolved

\* What the patches of a turn make of a file that no crash disturbed: [i] is
\* what it may be after the first i, of which the approved ones are applied.
AfterPatch(results, patch) ==
    IF patch.approved THEN UNION {Results(r, patch) : r \in results} ELSE results

Applied(content, patches) ==
    LET after[i \in 0..Len(patches)] ==
            IF i = 0 THEN {content} ELSE AfterPatch(after[i - 1], patches[i])
    IN  after

RequestedPatches(a) ==
    [i \in DOMAIN saved[a].requests |-> Patch(saved[a].requests[i])]

RepeatedUpdate(a) ==
    \E i \in DOMAIN saved[a].requests :
        LET c == saved[a].requests[i]
        IN  calls[c].operation = "update_file" /\ calls[c].applied > 1

Overwritten(patches) ==
    \E i \in DOMAIN patches :
        patches[i].approved /\ patches[i].operation # "update_file"

\* A crash between two patches of a turn is made good by doing the turn
\* again: the file ends as if nothing had happened, whatever updates were
\* repeated, when one patch creates or deletes it.  Only a turn of nothing but
\* updates, one of them repeated, can leave something else.
ReplayConverges ==
    \A a \in Agents :
        LET patches == RequestedPatches(a)
        IN  /\ group = "running"
            /\ live[a] = [step |-> "applying", turn |-> <<>>]
            /\ RepeatedUpdate(a) => Overwritten(patches)
            => files[a] \in Applied(history.files[a], patches)[Len(patches)]
=============================================================================
