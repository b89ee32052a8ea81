--------------------------- MODULE WorkflowProofs ---------------------------
(***************************************************************************)
(* Theorems about Workflow for any number of workers, requests and         *)
(* approvals, checked by TLAPS.                                            *)
(***************************************************************************)
EXTENDS Workflow, TLAPS

-----------------------------------------------------------------------------
(* Type correctness *)

LEMMA IdleWorkerTyped == IdleWorker \in WorkerStates
  BY TimeAssumption DEF IdleWorker, WorkerStates, NoSnapshot, Snapshots,
                        WorkerSteps, SavedStages

LEMMA IdleRequestTyped == IdleRequest \in RequestStates
  BY DEF IdleRequest, RequestStates, RequestSteps, SavedStages, Decisions

LEMMA DiskTyped ==
    ASSUME NEW cloned \in BOOLEAN, NEW left \in BOOLEAN
    PROVE  [workspace |-> cloned, checkouts |-> left] \in DiskStates
  BY DEF DiskStates

LEMMA InitTyped == Init => TypeOK
<1>1. NoRow \in RunRows
  BY DEF NoRow, RunRows, SavedStages
<1>2. [c \in Calls |-> "none"] \in [Calls -> ApprovalStates]
  BY DEF ApprovalStates
<1>3. [workspace |-> FALSE, checkouts |-> FALSE] \in DiskStates
  BY DEF DiskStates
<1>4. 0 \in 0..MaxMessages /\ 0 \in 0..MaxFaults
  BY BoundAssumption
<1> QED BY <1>1, <1>2, <1>3, <1>4, IdleWorkerTyped, IdleRequestTyped
           DEF Init, TypeOK

LEMMA GotoTyped ==
    ASSUME worker \in [Workers -> WorkerStates], NEW w \in Workers,
           NEW step \in WorkerSteps, Goto(w, step)
    PROVE  worker' \in [Workers -> WorkerStates]
  BY DEF Goto, WorkerStates

LEMMA TaskEndsTyped ==
    ASSUME worker \in [Workers -> WorkerStates], NEW w \in Workers, TaskEnds(w)
    PROVE  worker' \in [Workers -> WorkerStates]
  BY IdleWorkerTyped DEF TaskEnds

LEMMA ProceedTyped ==
    ASSUME request \in [Requests -> RequestStates], NEW q \in Requests,
           NEW step \in RequestSteps, Proceed(q, step)
    PROVE  request' \in [Requests -> RequestStates]
  BY DEF Proceed, RequestStates

LEMMA RespondTyped ==
    ASSUME request \in [Requests -> RequestStates], NEW q \in Requests,
           Respond(q)
    PROVE  request' \in [Requests -> RequestStates]
  BY IdleRequestTyped DEF Respond

LEMMA StatusTyped ==
    ASSUME run \in RunRows, NEW status \in Statuses
    PROVE  [run EXCEPT !.status = status] \in RunRows
  BY DEF RunRows

LEMMA StatusAndClaimTyped ==
    ASSUME run \in RunRows, NEW status \in Statuses,
           NEW age \in {NoClaim} \cup 0..StaleAfter
    PROVE  [run EXCEPT !.status = status, !.claimAge = age] \in RunRows
  BY DEF RunRows

LEMMA WrittenBackTyped ==
    ASSUME run \in RunRows, NEW w \in Workers, NEW status \in Statuses,
           NEW plan \in BOOLEAN, NEW stage \in SavedStages,
           NEW calls \in SUBSET Calls
    PROVE  WrittenBack(w, status, plan, stage, calls) \in RunRows
<1>1. Flushed(worker[w].loaded.status, status, run.status) \in Statuses \cup {"absent"}
  BY DEF Flushed, RunRows
<1> QED BY <1>1 DEF WrittenBack, RunRows

LEMMA WorkerStepTyped ==
    ASSUME TypeOK, NEW w \in Workers, WorkerStep(w) \/ WorkerFault(w)
    PROVE  TypeOK'
<1> USE BoundAssumption DEF TypeOK, rows, broker, outside
<1> DEFINE WorkersTyped == worker' \in [Workers -> WorkerStates]
<1>1. CASE DeliverMessage(w)
  <2>1. WorkersTyped
    BY <1>1, GotoTyped DEF DeliverMessage, WorkerSteps
  <2> QED BY <1>1, <2>1 DEF DeliverMessage
<1>2. CASE ClaimQueuedWorkflow(w)
  <2>1. RowClaimed \in RunRows
    <3>1. 0 \in 0..StaleAfter /\ "processing" \in Statuses
      BY TimeAssumption DEF Statuses
    <3> QED BY <3>1, StatusAndClaimTyped DEF RowClaimed
  <2>2. WorkersTyped
    BY <1>2, GotoTyped, TaskEndsTyped DEF ClaimQueuedWorkflow, WorkerSteps
  <2> QED BY <1>2, <2>1, <2>2 DEF ClaimQueuedWorkflow
<1>3. CASE LoadClaimedRun(w)
  <2> DEFINE snapshot == [status |-> run.status, claimed |-> run.claimAge # NoClaim,
                          plan |-> run.plan, stage |-> run.stage,
                          calls |-> run.calls]
  <2>1. snapshot \in Snapshots
    BY DEF RunRows, Snapshots
  <2> HIDE DEF snapshot
  <2>2. worker' = [worker EXCEPT ![w].step = "workspace", ![w].loaded = snapshot]
    BY <1>3 DEF LoadClaimedRun, snapshot
  <2>3. WorkersTyped
    BY <2>1, <2>2 DEF WorkerStates, WorkerSteps
  <2> QED BY <1>3, <2>3 DEF LoadClaimedRun
<1>4. CASE PrepareWorkspace(w)
  <2>1. WorkersTyped
    BY <1>4, GotoTyped DEF PrepareWorkspace, WorkerSteps
  <2>2. disk' \in DiskStates
    BY <1>4 DEF DiskStates, PrepareWorkspace
  <2> QED BY <1>4, <2>1, <2>2 DEF PrepareWorkspace
<1>5. CASE SaveWorkflowPlan(w)
  <2>1. run' \in RunRows
    BY <1>5, WrittenBackTyped DEF SaveWorkflowPlan, RunRows, Statuses
  <2>2. WorkersTyped
    BY <1>5, TaskEndsTyped DEF SaveWorkflowPlan
  <2> QED BY <1>5, <2>1, <2>2 DEF SaveWorkflowPlan
<1>6. CASE ReadResolutions(w)
  <2> DEFINE read == [c \in Calls |-> IF c \in worker[w].loaded.calls
                                        THEN Resolution(c) ELSE "none"]
  <2>1. read \in [Calls -> {"none"} \cup Decisions]
    BY <1>6 DEF ReadResolutions, Resolution, Pending, ApprovalStates
  <2> HIDE DEF read
  <2>2. worker' = [worker EXCEPT ![w].step = "coordinating",
                                 ![w].resolutions = read]
    BY <1>6 DEF ReadResolutions, read
  <2>3. [worker[w] EXCEPT !.step = "coordinating", !.resolutions = read] \in WorkerStates
    BY <2>1 DEF WorkerStates, WorkerSteps
  <2>4. WorkersTyped
    BY <2>2, <2>3
  <2> QED BY <1>6, <2>4 DEF ReadResolutions
<1>7. CASE SavePausedForSomeTools(w)
  <2>1. PICK asked \in SUBSET Calls : SavePausedForTools(w, asked)
    BY <1>7 DEF SavePausedForSomeTools
  <2>2. run' \in RunRows
    BY <2>1, WrittenBackTyped
       DEF SavePausedForTools, RunRows, Statuses, SavedStages
  <2>3. WorkersTyped
    BY <2>1, TaskEndsTyped DEF SavePausedForTools
  <2>4. approvals' \in [Calls -> ApprovalStates]
    BY <2>1 DEF SavePausedForTools, ApprovalStates
  <2>5. disk' \in DiskStates
    BY <2>1 DEF DiskStates, SavePausedForTools
  <2> QED BY <2>1, <2>2, <2>3, <2>4, <2>5 DEF SavePausedForTools
<1>8. CASE SavePausedForFinal(w)
  <2>1. run' \in RunRows
    BY <1>8, WrittenBackTyped
       DEF SavePausedForFinal, RunRows, Statuses, SavedStages
  <2>2. WorkersTyped
    BY <1>8, TaskEndsTyped DEF SavePausedForFinal
  <2>3. disk' \in DiskStates
    BY <1>8 DEF DiskStates, SavePausedForFinal
  <2> QED BY <1>8, <2>1, <2>2, <2>3 DEF SavePausedForFinal
<1>9. CASE FailWorkflow(w)
  <2>1. run' \in RunRows
    BY <1>9, WrittenBackTyped DEF FailWorkflow, FailedStatus, RunRows, Statuses
  <2>2. WorkersTyped
    BY <1>9, TaskEndsTyped DEF FailWorkflow
  <2> QED BY <1>9, <2>1, <2>2 DEF FailWorkflow
<1>10. CASE WorkerCrash(w)
  <2>1. WorkersTyped
    BY <1>10, TaskEndsTyped DEF WorkerCrash
  <2> QED BY <1>10, <2>1 DEF WorkerCrash, MessageReturned, ClaimOrphaned
<1>11. CASE TaskAborts(w)
  <2>1. WorkersTyped
    BY <1>11, TaskEndsTyped DEF TaskAborts
  <2> QED BY <1>11, <2>1 DEF TaskAborts, ClaimOrphaned
<1>12. CASE ClaimFails(w)
  <2>1. WorkersTyped
    BY <1>12, TaskEndsTyped DEF ClaimFails
  <2> QED BY <1>12, <2>1 DEF ClaimFails
<1> QED BY <1>1, <1>2, <1>3, <1>4, <1>5, <1>6, <1>7, <1>8, <1>9, <1>10, <1>11,
           <1>12 DEF WorkerStep, WorkerFault

LEMMA RequestStepTyped ==
    ASSUME TypeOK, NEW q \in Requests, Submit(q) \/ RequestStep(q) \/ RequestFault(q)
    PROVE  TypeOK'
<1> USE BoundAssumption DEF TypeOK, rows, broker, outside
<1> DEFINE RequestsTyped == request' \in [Requests -> RequestStates]
<1>1. ASSUME NEW issue \in BOOLEAN, CreateRun(q, issue) PROVE TypeOK'
  <2>1. run' \in RunRows
    BY <1>1 DEF CreateRun, RunRows, Statuses
  <2>2. RequestsTyped
    BY <1>1, ProceedTyped DEF CreateRun, RequestSteps
  <2> QED BY <1>1, <2>1, <2>2 DEF CreateRun
<1>2. CASE EnqueueWorkflow(q)
  <2>1. RequestsTyped
    BY <1>2, RespondTyped DEF EnqueueWorkflow
  <2> QED BY <1>2, <2>1 DEF EnqueueWorkflow
<1>3. CASE ApprovePlanRead(q)
  <2>1. RequestsTyped
    BY <1>3, ProceedTyped DEF ApprovePlanRead, RequestSteps
  <2> QED BY <1>3, <2>1 DEF ApprovePlanRead
<1>4. CASE ApprovePlanCommit(q)
  <2>1. run' \in RunRows
    BY <1>4, StatusTyped DEF ApprovePlanCommit, Statuses
  <2>2. RequestsTyped
    BY <1>4, ProceedTyped DEF ApprovePlanCommit, RequestSteps
  <2> QED BY <1>4, <2>1, <2>2 DEF ApprovePlanCommit
<1>5. ASSUME NEW c \in Calls, NEW d \in Decisions, DecideReadApproval(q, c, d)
      PROVE TypeOK'
  <2>1. "decide_run" \in RequestSteps
    BY DEF RequestSteps, DecideSteps
  <2>2. [request[q] EXCEPT !.step = "decide_run", !.call = c, !.decision = d]
            \in RequestStates
    BY <1>5, <2>1 DEF RequestStates
  <2>3. RequestsTyped
    BY <1>5, <2>2 DEF DecideReadApproval
  <2> QED BY <1>5, <2>3 DEF DecideReadApproval
<1>6. CASE DecideReadRun(q)
  <2>1. RequestsTyped
    BY <1>6, ProceedTyped, RespondTyped DEF DecideReadRun, RequestSteps, DecideSteps
  <2> QED BY <1>6, <2>1 DEF DecideReadRun
<1>7. CASE DecideFlush(q)
  <2>1. RequestsTyped
    BY <1>7, ProceedTyped DEF DecideFlush, RequestSteps, DecideSteps
  <2> QED BY <1>7, <2>1 DEF DecideFlush
<1>8. CASE DecideCount(q)
  <2>1. NoneLeft(q) \in BOOLEAN
    BY DEF NoneLeft
  <2>2. "decide_commit" \in RequestSteps
    BY DEF RequestSteps, DecideSteps
  <2>3. ASSUME NEW last \in BOOLEAN
        PROVE  [request[q] EXCEPT !.step = "decide_commit", !.last = last]
                  \in RequestStates
    BY <2>2 DEF RequestStates
  <2>4. RequestsTyped
    BY <1>8, <2>1, <2>3 DEF DecideCount
  <2> QED BY <1>8, <2>4 DEF DecideCount
<1>9. CASE DecideCommit(q)
  <2>1. RunToEnqueue \in RequestStates
    BY IdleRequestTyped DEF RunToEnqueue, RequestStates, RequestSteps
  <2>2. RequestsTyped
    BY <1>9, <2>1, RespondTyped DEF DecideCommit
  <2>3. run' \in RunRows
    BY <1>9, StatusTyped DEF DecideCommit, Statuses
  <2>4. request[q].decision \in Decisions
    BY DEF RequestStates
  <2>5. approvals' \in [Calls -> ApprovalStates]
    BY <1>9, <2>4 DEF DecideCommit, ApprovalStates
  <2> QED BY <1>9, <2>2, <2>3, <2>5 DEF DecideCommit
<1>10. ASSUME NEW approved \in BOOLEAN, FinalizeRead(q, approved) PROVE TypeOK'
  <2>1. run.stage \in SavedStages /\ "finalize_git" \in RequestSteps
    BY DEF RunRows, RequestSteps, FinalizeSteps
  <2>2. [request[q] EXCEPT !.step = "finalize_git", !.approved = approved,
                           !.stage = run.stage] \in RequestStates
    BY <1>10, <2>1 DEF RequestStates
  <2>3. RequestsTyped
    BY <1>10, <2>2 DEF FinalizeRead
  <2> QED BY <1>10, <2>3 DEF FinalizeRead
<1>11. CASE FinalizeGit(q)
  <2>1. RequestsTyped
    BY <1>11, ProceedTyped DEF FinalizeGit, RequestSteps, FinalizeSteps
  <2>2. disk.workspace \in BOOLEAN /\ disk.checkouts \in BOOLEAN
    BY DEF DiskStates
  <2>3. CASE disk' = [disk EXCEPT !.checkouts = FALSE]
    BY <1>11, <2>1, <2>3 DEF FinalizeGit, DiskStates
  <2>4. CASE \E cloned \in {disk.workspace, TRUE}, left \in {disk.checkouts, FALSE} :
                disk' = [workspace |-> cloned, checkouts |-> left]
    <3>1. PICK cloned \in BOOLEAN, left \in BOOLEAN :
                disk' = [workspace |-> cloned, checkouts |-> left]
      BY <2>2, <2>4
    <3>2. disk' \in DiskStates
      BY <3>1, DiskTyped
    <3> QED BY <1>11, <2>1, <3>2 DEF FinalizeGit
  <2> QED BY <1>11, <2>3, <2>4 DEF FinalizeGit
<1>12. CASE FinalizePublish(q)
  <2>1. PICK outcome \in PublishOutcomes :
            /\ pullRequest' = (pullRequest \/ outcome.created)
            /\ Proceed(q, outcome.next)
    BY <1>12 DEF FinalizePublish
  <2>2. /\ outcome.created = TRUE \/ outcome.created = FALSE
        /\ outcome.next = "finalize_save" \/ outcome.next = "finalize_fail"
    BY DEF PublishOutcomes
  <2>3. RequestsTyped
    BY <2>1, <2>2, ProceedTyped DEF RequestSteps, FinalizeSteps
  <2>4. pullRequest' \in BOOLEAN
    BY <2>1, <2>2
  <2> QED BY <1>12, <2>3, <2>4 DEF FinalizePublish
<1>13. CASE FinalizeSave(q)
  <2>1. run' \in RunRows
    BY <1>13 DEF FinalizeSave, RunRows, Statuses, SavedStages
  <2>2. RequestsTyped
    BY <1>13, ProceedTyped, RespondTyped DEF FinalizeSave, RequestSteps, FinalizeSteps
  <2> QED BY <1>13, <2>1, <2>2 DEF FinalizeSave
<1>14. CASE FinalizeDiscard(q)
  <2>1. RequestsTyped
    BY <1>14, RespondTyped DEF FinalizeDiscard
  <2>2. disk' \in DiskStates
    BY <1>14, DiskTyped DEF FinalizeDiscard
  <2> QED BY <1>14, <2>1, <2>2 DEF FinalizeDiscard
<1>15. CASE FinalizeFail(q)
  <2>1. run' \in RunRows
    BY <1>15, StatusTyped DEF FinalizeFail, Statuses
  <2>2. RequestsTyped
    BY <1>15, RespondTyped DEF FinalizeFail
  <2> QED BY <1>15, <2>1, <2>2 DEF FinalizeFail
<1>16. CASE RequestFails(q)
  <2>1. RequestsTyped
    BY <1>16, RespondTyped DEF RequestFails
  <2> QED BY <1>16, <2>1 DEF RequestFails
<1>17. CASE FinalizeSaveFails(q)
  <2>1. RequestsTyped
    BY <1>17, ProceedTyped DEF FinalizeSaveFails, RequestSteps, FinalizeSteps
  <2> QED BY <1>17, <2>1 DEF FinalizeSaveFails
<1> QED BY <1>1, <1>2, <1>3, <1>4, <1>5, <1>6, <1>7, <1>8, <1>9, <1>10, <1>11,
           <1>12, <1>13, <1>14, <1>15, <1>16, <1>17
        DEF Submit, RequestStep, RequestFault

LEMMA OtherStepTyped ==
    ASSUME TypeOK,
           \/ DuplicateMessage \/ RequeueStaleWorkflows \/ EnqueueRequeued
           \/ RecoveryCrash \/ ApiCrash \/ Tick \/ UNCHANGED vars
    PROVE  TypeOK'
<1> USE BoundAssumption DEF TypeOK, rows, broker, outside
<1>1. CASE DuplicateMessage
  BY <1>1 DEF DuplicateMessage
<1>2. CASE RequeueStaleWorkflows
  <2>1. run' \in RunRows
    BY <1>2, StatusAndClaimTyped DEF RequeueStaleWorkflows, Statuses
  <2> QED BY <1>2, <2>1 DEF RequeueStaleWorkflows
<1>3. CASE EnqueueRequeued
  <2>1. messages < MaxMessages /\ messages' = messages + 1 /\ requeued' = FALSE
    BY <1>3 DEF EnqueueRequeued
  <2>2. messages' \in 0..MaxMessages
    BY <2>1
  <2> QED BY <1>3, <2>1, <2>2 DEF EnqueueRequeued
<1>4. CASE RecoveryCrash
  <2>1. faults < MaxFaults /\ faults' = faults + 1 /\ requeued' = FALSE
    BY <1>4 DEF RecoveryCrash
  <2>2. faults' \in 0..MaxFaults
    BY <2>1
  <2> QED BY <1>4, <2>1, <2>2 DEF RecoveryCrash
<1>5. CASE ApiCrash
  <2>1. faults < MaxFaults /\ faults' = faults + 1
    BY <1>5 DEF ApiCrash
  <2>2. faults' \in 0..MaxFaults
    BY <2>1
  <2>3. request' \in [Requests -> RequestStates]
    BY <1>5, IdleRequestTyped DEF ApiCrash
  <2> QED BY <1>5, <2>2, <2>3 DEF ApiCrash
<1>6. CASE Tick
  <2>1. run' \in RunRows
    <3> DEFINE age == IF run.claimAge \in 0..(StaleAfter - 1)
                        THEN run.claimAge + 1 ELSE run.claimAge
    <3>1. age \in {NoClaim} \cup 0..StaleAfter
      BY TimeAssumption DEF RunRows
    <3> HIDE DEF age
    <3>2. [run EXCEPT !.claimAge = age] \in RunRows
      BY <3>1 DEF RunRows
    <3> QED BY <1>6, <3>2 DEF Tick, age
  <2>2. ASSUME NEW w \in Workers
        PROVE  (IF worker[w].step \in AdvancingSteps
                  THEN [worker[w] EXCEPT !.age = worker[w].age + 1]
                  ELSE worker[w]) \in WorkerStates
    <3>1. worker[w] \in WorkerStates
      OBVIOUS
    <3>2. CASE worker[w].step \in AdvancingSteps
      <4>1. worker[w].age < MaxRunTime
        BY <1>6, <3>2 DEF Tick
      <4>2. worker[w].age + 1 \in 0..MaxRunTime
        BY <3>1, <4>1, TimeAssumption DEF WorkerStates
      <4> QED BY <3>1, <3>2, <4>2 DEF WorkerStates
    <3>3. CASE worker[w].step \notin AdvancingSteps
      BY <3>1, <3>3
    <3> QED BY <3>2, <3>3
  <2>3. worker' \in [Workers -> WorkerStates]
    BY <1>6, <2>2 DEF Tick
  <2> QED BY <1>6, <2>1, <2>3 DEF Tick
<1>7. CASE UNCHANGED vars
  BY <1>7 DEF vars
<1> QED BY <1>1, <1>2, <1>3, <1>4, <1>5, <1>6, <1>7

LEMMA NextTyped == TypeOK /\ [Next]_vars => TypeOK'
  BY WorkerStepTyped, RequestStepTyped, OtherStepTyped DEF Next

\* Every value the run's row, its approvals, the broker, the tasks, the requests
\* and the disk take is one that models.py and the code provide for.
THEOREM TypeCorrect == Spec => []TypeOK
<1>1. Init => TypeOK
  BY InitTyped
<1>2. TypeOK /\ [Next]_vars => TypeOK'
  BY NextTyped
<1> QED BY <1>1, <1>2, PTL DEF Spec

-----------------------------------------------------------------------------
(***************************************************************************)
(* No wakeup is lost: PendingRunHasPendingApproval.                        *)
(*                                                                         *)
(* The invariant is inductive only together with what decide_approval      *)
(* knows between its flush and its commit: it holds the row lock, so the   *)
(* approvals it counted are the approvals that are there when it commits.  *)
(***************************************************************************)

\* A request past its flush has the row lock; two of them cannot.
CountsUnderLock ==
    \A q \in Requests :
        request[q].step \in {"decide_count", "decide_commit"} => rowLock = q

\* A request that found others pending is still right when it commits.
CountIsCurrent ==
    \A q \in Requests :
        request[q].step = "decide_commit" /\ ~request[q].last
            => Pending(approvals) \ {request[q].call} # {}

WakeupInv == PendingRunHasPendingApproval /\ CountsUnderLock /\ CountIsCurrent

LEMMA WakeupInit == Init => WakeupInv
  BY DEF Init, WakeupInv, PendingRunHasPendingApproval, CountsUnderLock,
         CountIsCurrent, NoRow, IdleRequest

\* A step that leaves the approvals, the lock and the requests alone, and
\* brings no run into pending_tool_approval, disturbs nothing.
LEMMA WakeupUndisturbed ==
    ASSUME WakeupInv, UNCHANGED <<approvals, rowLock, request>>,
           run'.status = "pending_tool_approval"
                => run.status = "pending_tool_approval"
    PROVE  WakeupInv'
  BY DEF WakeupInv, PendingRunHasPendingApproval, CountsUnderLock,
         CountIsCurrent, Pending

\* Nor does a request that stays out of the last two steps of decide_approval.
LEMMA WakeupElsewhere ==
    ASSUME WakeupInv, TypeOK, NEW q \in Requests,
           UNCHANGED <<approvals, rowLock>>,
           run'.status = "pending_tool_approval"
                => run.status = "pending_tool_approval",
           request' \in [Requests -> RequestStates],
           \A p \in Requests \ {q} : request'[p] = request[p],
           request'[q].step \notin {"decide_count", "decide_commit"}
    PROVE  WakeupInv'
  BY DEF WakeupInv, PendingRunHasPendingApproval, CountsUnderLock,
         CountIsCurrent, Pending

\* What Proceed and Respond leave of a request, and of the others.
LEMMA OnlyRequestMoves ==
    ASSUME request \in [Requests -> RequestStates], NEW q \in Requests,
           Respond(q) \/ \E step \in RequestSteps \ {"decide_count", "decide_commit"} :
                            Proceed(q, step)
    PROVE  /\ \A p \in Requests \ {q} : request'[p] = request[p]
           /\ request'[q].step \notin {"decide_count", "decide_commit"}
  BY DEF Respond, Proceed, IdleRequest, RequestStates

LEMMA WakeupWorkerStep ==
    ASSUME WakeupInv, TypeOK, NEW w \in Workers, WorkerStep(w) \/ WorkerFault(w)
    PROVE  WakeupInv'
<1> USE DEF rows
<1>1. CASE \/ DeliverMessage(w) \/ LoadClaimedRun(w) \/ PrepareWorkspace(w)
           \/ ReadResolutions(w) \/ WorkerFault(w)
  BY <1>1, WakeupUndisturbed
     DEF DeliverMessage, LoadClaimedRun, PrepareWorkspace, ReadResolutions,
         WorkerFault, WorkerCrash, TaskAborts, ClaimFails
<1>2. CASE ClaimQueuedWorkflow(w)
  <2>1. run'.status = "processing" \/ run' = run
    BY <1>2 DEF ClaimQueuedWorkflow, RowClaimed, TypeOK, RunRows
  <2> QED BY <1>2, <2>1, WakeupUndisturbed DEF ClaimQueuedWorkflow
<1>3. CASE SaveWorkflowPlan(w) \/ SavePausedForFinal(w) \/ FailWorkflow(w)
  <2>1. run'.status \in {"pending_plan_approval", "pending_final_approval",
                         "failed", run.status}
    BY <1>3 DEF SaveWorkflowPlan, SavePausedForFinal, FailWorkflow,
                FailedStatus, WrittenBack, Flushed
  <2> QED BY <1>3, <2>1, WakeupUndisturbed
          DEF SaveWorkflowPlan, SavePausedForFinal, FailWorkflow
<1>4. CASE SavePausedForSomeTools(w)
  <2>1. PICK asked \in SUBSET Calls : SavePausedForTools(w, asked)
    BY <1>4 DEF SavePausedForSomeTools
  <2>2. PICK c \in asked : c \in Calls
    BY <2>1 DEF SavePausedForTools
  <2>3. PendingRunHasPendingApproval'
    BY <2>1, <2>2 DEF SavePausedForTools, PendingRunHasPendingApproval, Pending
  <2>4. \A q \in Requests :
            request[q].step \notin {"decide_count", "decide_commit"}
    BY <2>1, NoRequestAssumption
       DEF SavePausedForTools, RowFree, WakeupInv, CountsUnderLock
  <2> QED BY <2>1, <2>3, <2>4
          DEF SavePausedForTools, WakeupInv, CountsUnderLock, CountIsCurrent
<1> QED BY <1>1, <1>2, <1>3, <1>4 DEF WorkerStep

LEMMA WakeupRequestStep ==
    ASSUME WakeupInv, TypeOK, NEW q \in Requests, Submit(q) \/ RequestStep(q) \/ RequestFault(q)
    PROVE  WakeupInv'
<1> USE DEF rows
<1>1. TypeOK'
  BY RequestStepTyped
<1>2. request' \in [Requests -> RequestStates]
  BY <1>1 DEF TypeOK
<1>3. ASSUME \/ EnqueueWorkflow(q) \/ ApprovePlanRead(q) \/ DecideReadRun(q)
             \/ FinalizeGit(q) \/ FinalizePublish(q) \/ FinalizeDiscard(q)
             \/ \E c \in Calls, d \in Decisions : DecideReadApproval(q, c, d)
             \/ \E approved \in BOOLEAN : FinalizeRead(q, approved)
      PROVE  WakeupInv'
  <2> DEFINE Moves == /\ \A p \in Requests \ {q} : request'[p] = request[p]
                      /\ request'[q].step \notin {"decide_count", "decide_commit"}
  <2> USE DEF TypeOK, RequestSteps, DecideSteps, FinalizeSteps
  <2>1. ASSUME EnqueueWorkflow(q) \/ FinalizeDiscard(q) PROVE Moves
    BY <2>1, OnlyRequestMoves DEF EnqueueWorkflow, FinalizeDiscard
  <2>2. ASSUME ApprovePlanRead(q) \/ DecideReadRun(q) \/ FinalizeGit(q)
        PROVE  Moves
    BY <2>2, OnlyRequestMoves DEF ApprovePlanRead, DecideReadRun, FinalizeGit
  <2>3. ASSUME FinalizePublish(q) PROVE Moves
    BY <2>3, OnlyRequestMoves DEF FinalizePublish, PublishOutcomes
  <2>4. ASSUME NEW c \in Calls, NEW d \in Decisions, DecideReadApproval(q, c, d)
        PROVE  Moves
    BY <2>4 DEF DecideReadApproval, RequestStates
  <2>5. ASSUME NEW approved \in BOOLEAN, FinalizeRead(q, approved) PROVE Moves
    BY <2>5 DEF FinalizeRead, RequestStates
  <2>6. Moves
    BY <1>3, <2>1, <2>2, <2>3, <2>4, <2>5
  <2>7. UNCHANGED rows
    BY <1>3 DEF EnqueueWorkflow, ApprovePlanRead, DecideReadRun, FinalizeGit,
                FinalizePublish, FinalizeDiscard, DecideReadApproval,
                FinalizeRead
  <2> QED BY <1>2, <2>6, <2>7, WakeupElsewhere
<1>4. ASSUME \/ \E issue \in BOOLEAN : CreateRun(q, issue)
             \/ ApprovePlanCommit(q) \/ FinalizeSave(q) \/ FinalizeFail(q)
      PROVE  WakeupInv'
  <2>1. run'.status \in {"queued", "completed", "cancelled", "failed"}
    BY <1>4 DEF CreateRun, ApprovePlanCommit, FinalizeSave, FinalizeFail,
                TypeOK, RunRows
  <2>2. /\ \A p \in Requests \ {q} : request'[p] = request[p]
        /\ request'[q].step \notin {"decide_count", "decide_commit"}
        /\ UNCHANGED <<approvals, rowLock>>
    BY <1>4, OnlyRequestMoves
       DEF CreateRun, ApprovePlanCommit, FinalizeSave, FinalizeFail, TypeOK,
           RequestSteps, FinalizeSteps
  <2> QED BY <1>2, <2>1, <2>2, WakeupElsewhere
<1>5. CASE DecideFlush(q)
  <2>1. \A p \in Requests :
            request[p].step \notin {"decide_count", "decide_commit"}
    BY <1>5, NoRequestAssumption
       DEF DecideFlush, RowFree, WakeupInv, CountsUnderLock
  <2>2. \A p \in Requests : request'[p].step = IF p = q THEN "decide_count"
                                                       ELSE request[p].step
    BY <1>5 DEF DecideFlush, Proceed, TypeOK, RequestStates
  <2>3. UNCHANGED <<run, approvals>> /\ rowLock' = q
    BY <1>5 DEF DecideFlush
  <2> QED BY <2>1, <2>2, <2>3
          DEF WakeupInv, PendingRunHasPendingApproval, CountsUnderLock,
              CountIsCurrent, Pending
<1>6. CASE DecideCount(q)
  <2>1. /\ request'[q].step = "decide_commit"
        /\ request'[q].call = request[q].call
        /\ request'[q].last = NoneLeft(q)
        /\ \A p \in Requests \ {q} : request'[p] = request[p]
    <3>1. request \in [Requests -> RequestStates]
      BY DEF TypeOK
    <3> DEFINE none == NoneLeft(q)
    <3>2. request' = [request EXCEPT ![q].step = "decide_commit", ![q].last = none]
      BY <1>6 DEF DecideCount
    <3> HIDE DEF none
    <3>3. /\ request'[q].step = "decide_commit"
          /\ request'[q].call = request[q].call
          /\ request'[q].last = none
          /\ \A p \in Requests \ {q} : request'[p] = request[p]
      BY <3>1, <3>2 DEF RequestStates
    <3> QED BY <3>3 DEF none
  <2>2. UNCHANGED <<run, approvals, rowLock>>
    BY <1>6 DEF DecideCount
  <2>3. rowLock = q
    BY <1>6 DEF DecideCount, WakeupInv, CountsUnderLock
  <2>4. CountsUnderLock'
    BY <2>1, <2>2, <2>3 DEF WakeupInv, CountsUnderLock
  <2>5. CountIsCurrent'
    BY <2>1, <2>2 DEF WakeupInv, CountIsCurrent, NoneLeft, Pending
  <2> QED BY <2>2, <2>4, <2>5 DEF WakeupInv, PendingRunHasPendingApproval, Pending
<1>7. CASE DecideCommit(q)
  <2>1. rowLock = q
    BY <1>7 DEF DecideCommit, WakeupInv, CountsUnderLock
  <2>2. /\ \A p \in Requests \ {q} :
            /\ request[p].step \notin {"decide_count", "decide_commit"}
            /\ request'[p] = request[p]
        /\ request'[q].step \in {"idle", "enqueue"}
    <3>1. \/ request' = [request EXCEPT ![q] = RunToEnqueue]
          \/ request' = [request EXCEPT ![q] = IdleRequest]
      BY <1>7 DEF DecideCommit, Respond
    <3>2. RunToEnqueue.step = "enqueue" /\ IdleRequest.step = "idle"
      BY DEF RunToEnqueue, IdleRequest
    <3>3. \A p \in Requests \ {q} :
              request[p].step \notin {"decide_count", "decide_commit"}
      BY <2>1 DEF WakeupInv, CountsUnderLock
    <3> QED BY <3>1, <3>2, <3>3 DEF TypeOK
  <2>3. CountsUnderLock' /\ CountIsCurrent'
    BY <2>2 DEF CountsUnderLock, CountIsCurrent
  <2>4. CASE request[q].last
    <3>1. run'.status = "queued"
      BY <1>7, <2>4 DEF DecideCommit, TypeOK, RunRows
    <3> QED BY <2>3, <3>1 DEF WakeupInv, PendingRunHasPendingApproval
  <2>5. CASE ~request[q].last
    <3>1. PICK c \in Pending(approvals) : c # request[q].call
      BY <1>7, <2>5 DEF DecideCommit, WakeupInv, CountIsCurrent
    <3>2. approvals'[c] = "pending" /\ c \in Calls
      BY <1>7, <3>1 DEF DecideCommit, Pending, TypeOK
    <3> QED BY <2>3, <3>2 DEF WakeupInv, PendingRunHasPendingApproval, Pending
  <2> QED BY <2>4, <2>5
<1>8. CASE RequestFails(q)
  <2>1. /\ \A p \in Requests \ {q} : request'[p] = request[p]
        /\ request'[q].step \notin {"decide_count", "decide_commit"}
    BY <1>8, OnlyRequestMoves DEF RequestFails, TypeOK
  <2>2. UNCHANGED <<run, approvals>>
    BY <1>8 DEF RequestFails
  <2>3. \A p \in Requests \ {q} : rowLock = p => rowLock' = p
    BY <1>8 DEF RequestFails
  <2> QED BY <2>1, <2>2, <2>3
          DEF WakeupInv, PendingRunHasPendingApproval, CountsUnderLock,
              CountIsCurrent, Pending
<1>9. CASE FinalizeSaveFails(q)
  <2>1. /\ \A p \in Requests \ {q} : request'[p] = request[p]
        /\ request'[q].step \notin {"decide_count", "decide_commit"}
    BY <1>9, OnlyRequestMoves
       DEF FinalizeSaveFails, TypeOK, RequestSteps, FinalizeSteps
  <2> QED BY <1>2, <1>9, <2>1, WakeupElsewhere DEF FinalizeSaveFails
<1> QED BY <1>3, <1>4, <1>5, <1>6, <1>7, <1>8, <1>9
        DEF Submit, RequestStep, RequestFault

LEMMA WakeupStep == TypeOK /\ WakeupInv /\ [Next]_vars => WakeupInv'
<1> SUFFICES ASSUME TypeOK, WakeupInv, [Next]_vars PROVE WakeupInv'
  OBVIOUS
<1> USE DEF rows
<1>1. CASE \/ DuplicateMessage \/ EnqueueRequeued \/ RecoveryCrash
           \/ UNCHANGED vars
  BY <1>1, WakeupUndisturbed
     DEF DuplicateMessage, EnqueueRequeued, RecoveryCrash, vars
<1>2. CASE RequeueStaleWorkflows \/ Tick
  <2>1. run'.status \in {"queued", run.status}
    BY <1>2 DEF RequeueStaleWorkflows, Tick, TypeOK, RunRows
  <2> QED BY <1>2, <2>1, WakeupUndisturbed DEF RequeueStaleWorkflows, Tick
<1>3. CASE ApiCrash
  BY <1>3 DEF ApiCrash, IdleRequest, WakeupInv, PendingRunHasPendingApproval,
              CountsUnderLock, CountIsCurrent, Pending
<1> QED BY <1>1, <1>2, <1>3, WakeupWorkerStep, WakeupRequestStep DEF Next

\* However many reviewers decide at once, and whatever crashes or is delivered
\* twice, a run in pending_tool_approval has an approval left to decide: the
\* decision that leaves none is the one that queues the run.
THEOREM NoLostWakeup == Spec => []PendingRunHasPendingApproval
<1>1. Init => TypeOK /\ WakeupInv
  BY InitTyped, WakeupInit
<1>2. TypeOK /\ WakeupInv /\ [Next]_vars => TypeOK' /\ WakeupInv'
  BY NextTyped, WakeupStep
<1>3. WakeupInv => PendingRunHasPendingApproval
  BY DEF WakeupInv
<1> QED BY <1>1, <1>2, <1>3, PTL DEF Spec

-----------------------------------------------------------------------------
(***************************************************************************)
(* A queued run is known to somebody.  Where the API and the recovery task *)
(* may die between their commit and their message, or a task may lose its  *)
(* message before the claim, this is not so, and the property is a finding *)
(* there; everything else that happens keeps it by types alone.            *)
(***************************************************************************)

Delivered(w) == worker[w].step = "delivered"
Enqueueing(q) == request[q].step = "enqueue"

\* A step that queues no run and loses none of the ways to hear of it.
LEMMA StillKnown ==
    ASSUME QueuedIsDeliverable,
           run'.status = "queued" => run.status = "queued",
           messages > 0 => messages' > 0,
           \A w \in Workers : Delivered(w) => Delivered(w)',
           \A q \in Requests : Enqueueing(q) => Enqueueing(q)',
           requeued => requeued'
    PROVE  QueuedIsDeliverable'
  BY DEF QueuedIsDeliverable, Delivered, Enqueueing

LEMMA MessageArrives ==
    ASSUME TypeOK, messages' = messages + 1
    PROVE  QueuedIsDeliverable'
  BY BoundAssumption DEF TypeOK, QueuedIsDeliverable

LEMMA KnownWorkerStep ==
    ASSUME TypeOK, QueuedIsDeliverable, ~ClaimCanFail, NEW w \in Workers,
           WorkerStep(w) \/ WorkerFault(w)
    PROVE  QueuedIsDeliverable'
<1> USE DEF rows, broker
<1>1. worker \in [Workers -> WorkerStates]
  BY DEF TypeOK
<1>2. CASE DeliverMessage(w)
  <2>1. worker'[w].step = "delivered"
    BY <1>1, <1>2 DEF DeliverMessage, Goto, WorkerStates
  <2> QED BY <2>1 DEF QueuedIsDeliverable
<1>3. CASE ClaimQueuedWorkflow(w)
  <2>1. run'.status # "queued"
    BY <1>3 DEF ClaimQueuedWorkflow, RowClaimed, TypeOK, RunRows
  <2> QED BY <2>1 DEF QueuedIsDeliverable
<1>4. CASE \/ LoadClaimedRun(w) \/ PrepareWorkspace(w) \/ ReadResolutions(w)
           \/ SaveWorkflowPlan(w) \/ SavePausedForSomeTools(w)
           \/ SavePausedForFinal(w) \/ FailWorkflow(w) \/ TaskAborts(w)
  <2>1. worker[w].step # "delivered"
    BY <1>4 DEF LoadClaimedRun, PrepareWorkspace, ReadResolutions,
                SaveWorkflowPlan, SavePausedForSomeTools, SavePausedForTools,
                SavePausedForFinal, FailWorkflow, TaskAborts, AdvancingSteps
  <2>2. \A v \in Workers \ {w} : worker'[v] = worker[v]
    BY <1>1, <1>4
       DEF LoadClaimedRun, PrepareWorkspace, Goto, ReadResolutions,
           SaveWorkflowPlan, SavePausedForSomeTools, SavePausedForTools,
           SavePausedForFinal, FailWorkflow, TaskAborts, TaskEnds
  <2>3. UNCHANGED <<messages, requeued, request>>
    BY <1>4 DEF LoadClaimedRun, PrepareWorkspace, ReadResolutions,
                SaveWorkflowPlan, SavePausedForSomeTools, SavePausedForTools,
                SavePausedForFinal, FailWorkflow, TaskAborts
  <2>4. run'.status = "queued" => run.status = "queued"
    <3>1. ASSUME NEW status \in Statuses \ {"queued"}, NEW plan, NEW stage,
                 NEW calls, run' = WrittenBack(w, status, plan, stage, calls),
                 run'.status = "queued"
          PROVE  run.status = "queued"
      BY <3>1 DEF WrittenBack, Flushed
    <3>2. CASE \/ LoadClaimedRun(w) \/ PrepareWorkspace(w) \/ ReadResolutions(w)
               \/ TaskAborts(w)
      BY <3>2 DEF LoadClaimedRun, PrepareWorkspace, ReadResolutions, TaskAborts
    <3>3. CASE SaveWorkflowPlan(w)
      BY <3>1, <3>3 DEF SaveWorkflowPlan, Statuses
    <3>4. CASE SavePausedForSomeTools(w)
      BY <3>1, <3>4 DEF SavePausedForSomeTools, SavePausedForTools, Statuses
    <3>5. CASE SavePausedForFinal(w)
      BY <3>1, <3>5 DEF SavePausedForFinal, Statuses
    <3>6. CASE FailWorkflow(w)
      BY <3>1, <3>6 DEF FailWorkflow, FailedStatus, Statuses
    <3> QED BY <1>4, <3>2, <3>3, <3>4, <3>5, <3>6
  <2> QED BY <2>1, <2>2, <2>3, <2>4, StillKnown DEF Delivered, Enqueueing
<1>5. CASE WorkerCrash(w)
  BY <1>5, MessageArrives DEF WorkerCrash, MessageReturned
<1>6. CASE ClaimFails(w)
  BY <1>6 DEF ClaimFails
<1> QED BY <1>2, <1>3, <1>4, <1>5, <1>6 DEF WorkerStep, WorkerFault

LEMMA KnownRequestStep ==
    ASSUME TypeOK, QueuedIsDeliverable, ~ApiCanCrash, NEW q \in Requests,
           Submit(q) \/ RequestStep(q) \/ RequestFault(q)
    PROVE  QueuedIsDeliverable'
<1> USE DEF rows, broker
<1> DEFINE Sends == request'[q].step = "enqueue"
<1>1. request \in [Requests -> RequestStates]
  BY DEF TypeOK
<1>2. ASSUME NEW issue \in BOOLEAN, CreateRun(q, issue) PROVE Sends
  BY <1>1, <1>2 DEF CreateRun, Proceed, RequestStates
<1>3. ASSUME ApprovePlanCommit(q) PROVE Sends
  BY <1>1, <1>3 DEF ApprovePlanCommit, Proceed, RequestStates
<1>4. ASSUME DecideCommit(q), request[q].last PROVE Sends
  BY <1>1, <1>4 DEF DecideCommit, RunToEnqueue, IdleRequest
<1>5. Sends => QueuedIsDeliverable'
  BY DEF QueuedIsDeliverable
<1>6. ASSUME EnqueueWorkflow(q) PROVE QueuedIsDeliverable'
  BY <1>6, MessageArrives DEF EnqueueWorkflow
<1> DEFINE Quiet == /\ request[q].step # "enqueue"
                    /\ \A p \in Requests \ {q} : request'[p] = request[p]
                    /\ UNCHANGED <<messages, requeued, worker>>
                    /\ run'.status = "queued" => run.status = "queued"
<1>7. Quiet => QueuedIsDeliverable'
  BY StillKnown DEF Delivered, Enqueueing
<1>8. ASSUME \/ ApprovePlanRead(q)
             \/ \E c \in Calls, d \in Decisions : DecideReadApproval(q, c, d)
             \/ \E approved \in BOOLEAN : FinalizeRead(q, approved)
             \/ DecideReadRun(q) \/ DecideFlush(q) \/ DecideCount(q)
      PROVE  Quiet
  BY <1>1, <1>8 DEF ApprovePlanRead, DecideReadApproval, FinalizeRead,
                    DecideReadRun, DecideFlush, DecideCount, Proceed, Respond
<1>9. ASSUME DecideCommit(q), ~request[q].last PROVE Quiet
  BY <1>1, <1>9 DEF DecideCommit, Respond
<1>10. ASSUME FinalizeGit(q) \/ FinalizePublish(q) \/ FinalizeDiscard(q) PROVE Quiet
  BY <1>1, <1>10 DEF FinalizeGit, FinalizePublish, FinalizeDiscard, Proceed,
                     Respond
<1>11. ASSUME FinalizeSave(q) \/ FinalizeFail(q) PROVE Quiet
  <2>1. run'.status \in {"completed", "cancelled", "failed"}
    BY <1>11 DEF FinalizeSave, FinalizeFail, TypeOK, RunRows
  <2> QED BY <1>1, <1>11, <2>1 DEF FinalizeSave, FinalizeFail, Proceed, Respond
<1>12. ASSUME RequestFault(q) PROVE Quiet
  BY <1>1, <1>12 DEF RequestFault, RequestFails, FinalizeSaveFails, Proceed,
                     Respond, DecideSteps
<1> HIDE DEF Sends, Quiet
<1> QED BY <1>2, <1>3, <1>4, <1>5, <1>6, <1>7, <1>8, <1>9, <1>10, <1>11, <1>12
        DEF Submit, RequestStep

LEMMA KnownStep ==
    ASSUME ~ApiCanCrash, ~ClaimCanFail, TypeOK, QueuedIsDeliverable, [Next]_vars
    PROVE  QueuedIsDeliverable'
<1> USE DEF rows, broker
<1>1. CASE DuplicateMessage \/ EnqueueRequeued
  BY <1>1, MessageArrives DEF DuplicateMessage, EnqueueRequeued
<1>2. CASE RequeueStaleWorkflows
  BY <1>2 DEF RequeueStaleWorkflows, QueuedIsDeliverable
<1>3. CASE RecoveryCrash \/ ApiCrash
  BY <1>3 DEF RecoveryCrash, ApiCrash
<1>4. CASE Tick
  <2>1. \A w \in Workers : Delivered(w) => Delivered(w)'
    BY <1>4 DEF Tick, Delivered, AdvancingSteps
  <2>2. run'.status = run.status
    BY <1>4 DEF Tick, TypeOK, RunRows
  <2> QED BY <1>4, <2>1, <2>2, StillKnown DEF Tick, Enqueueing
<1>5. CASE UNCHANGED vars
  BY <1>5 DEF vars, QueuedIsDeliverable
<1> QED BY <1>1, <1>2, <1>3, <1>4, <1>5, KnownWorkerStep, KnownRequestStep DEF Next

\* Every commit that queues a run is followed by its message, and every message
\* that is taken and not used comes back: a queued run is never stranded while
\* the processes that owe it a message live.
THEOREM QueuedIsKnown ==
    ASSUME ~ApiCanCrash, ~ClaimCanFail
    PROVE  Spec => []QueuedIsDeliverable
<1>1. Init => TypeOK /\ QueuedIsDeliverable
  BY InitTyped DEF Init, NoRow, QueuedIsDeliverable
<1>2. TypeOK /\ QueuedIsDeliverable /\ [Next]_vars => TypeOK' /\ QueuedIsDeliverable'
  BY NextTyped, KnownStep
<1> QED BY <1>1, <1>2, PTL DEF Spec

-----------------------------------------------------------------------------
(***************************************************************************)
(* A Processing run has a task, or waits for recovery: ProcessingIsHeld.   *)
(* It is inductive with the types alone, and assumes nothing of rivals, of *)
(* how long a task lives or of what crashes: a session that loaded another *)
(* row than the one it writes to is one of the cases.                      *)
(***************************************************************************)

\* A step of the slot w that neither makes the run Processing nor leaves it so
\* when w holds it.
LEMMA HeldElsewhere ==
    ASSUME ProcessingIsHeld, NEW w \in Workers, UNCHANGED holder,
           \A v \in Workers \ {w} : worker'[v] = worker[v],
           run'.status = "processing" => run.status = "processing" /\ holder # w
    PROVE  ProcessingIsHeld'
  BY DEF ProcessingIsHeld, Advancing

\* A step that makes no run Processing and leaves the tasks at their work.
LEMMA StillHeld ==
    ASSUME ProcessingIsHeld, UNCHANGED holder,
           \A v \in Workers : worker'[v].step = worker[v].step
                              /\ worker'[v].loaded = worker[v].loaded,
           run'.status = "processing" => run.status = "processing"
    PROVE  ProcessingIsHeld'
  BY DEF ProcessingIsHeld, Advancing

\* What a commit of a task leaves in the row: the status it wrote, or the one a
\* rival wrote meanwhile.
LEMMA CommitReleases ==
    ASSUME TypeOK, ProcessingIsHeld, NEW w \in Workers,
           worker[w].step \in AdvancingSteps \ {"loading"},
           NEW status \in Statuses \ {"processing"}, NEW plan, NEW stage,
           NEW calls, run' = WrittenBack(w, status, plan, stage, calls),
           TaskEnds(w), UNCHANGED holder
    PROVE  ProcessingIsHeld'
<1>1. \A v \in Workers \ {w} : worker'[v] = worker[v]
  BY DEF TaskEnds, TypeOK
<1>2. ASSUME run'.status = "processing"
      PROVE  run.status = "processing" /\ holder # w
  <2>1. worker[w].loaded.status = status /\ run.status = "processing"
    BY <1>2 DEF WrittenBack, Flushed
  <2>2. NoWorker # w
    BY NoWorkerAssumption
  <2> QED BY <2>1, <2>2 DEF ProcessingIsHeld
<1> QED BY <1>1, <1>2, HeldElsewhere

LEMMA HeldWorkerStep ==
    ASSUME TypeOK, ProcessingIsHeld, NEW w \in Workers,
           WorkerStep(w) \/ WorkerFault(w)
    PROVE  ProcessingIsHeld'
<1> USE DEF rows
<1>1. worker \in [Workers -> WorkerStates] /\ NoWorker # w
  BY NoWorkerAssumption DEF TypeOK
<1>2. worker[w].step \in {"idle", "delivered"} /\ run.status = "processing"
          => holder # w
  BY <1>1 DEF ProcessingIsHeld, Advancing, AdvancingSteps
<1>3. CASE DeliverMessage(w) \/ ClaimFails(w)
  <2>1. /\ worker[w].step \in {"idle", "delivered"}
        /\ UNCHANGED <<run, holder>>
        /\ \A v \in Workers \ {w} : worker'[v] = worker[v]
    BY <1>1, <1>3 DEF DeliverMessage, ClaimFails, Goto, TaskEnds
  <2> QED BY <1>2, <2>1, HeldElsewhere
<1>4. CASE ClaimQueuedWorkflow(w)
  <2>1. CASE run.status = "queued"
    <3>1. holder' = w /\ worker'[w].step = "loading"
      BY <1>1, <1>4, <2>1 DEF ClaimQueuedWorkflow, Goto, WorkerStates
    <3> QED BY <3>1 DEF ProcessingIsHeld, Advancing, AdvancingSteps, WorkerSteps
  <2>2. CASE run.status # "queued"
    <3>1. /\ worker[w].step = "delivered" /\ UNCHANGED <<run, holder>>
          /\ \A v \in Workers \ {w} : worker'[v] = worker[v]
      BY <1>1, <1>4, <2>2 DEF ClaimQueuedWorkflow, TaskEnds
    <3> QED BY <1>2, <3>1, HeldElsewhere
  <2> QED BY <2>1, <2>2
<1>5. CASE LoadClaimedRun(w)
  <2> DEFINE snapshot == [status |-> run.status, claimed |-> run.claimAge # NoClaim,
                          plan |-> run.plan, stage |-> run.stage,
                          calls |-> run.calls]
  <2>1. snapshot.status = run.status
    OBVIOUS
  <2> HIDE DEF snapshot
  <2>2. /\ worker' = [worker EXCEPT ![w].step = "workspace", ![w].loaded = snapshot]
        /\ UNCHANGED <<run, holder>>
    BY <1>5 DEF LoadClaimedRun, snapshot
  <2>3. /\ worker'[w].step = "workspace"
        /\ worker'[w].loaded.status = run.status
        /\ \A v \in Workers \ {w} : worker'[v] = worker[v]
    BY <1>1, <2>1, <2>2 DEF WorkerStates
  <2>4. CASE holder = w
    BY <2>2, <2>3, <2>4 DEF ProcessingIsHeld, Advancing, AdvancingSteps,
                            WorkerSteps
  <2>5. CASE holder # w
    BY <2>2, <2>3, <2>5, HeldElsewhere
  <2> QED BY <2>4, <2>5
<1>6. CASE PrepareWorkspace(w) \/ ReadResolutions(w)
  <2>1. /\ worker[w].step \in AdvancingSteps \ {"loading"}
        /\ UNCHANGED <<run, holder>>
    BY <1>6 DEF PrepareWorkspace, ReadResolutions, AdvancingSteps, WorkerSteps
  <2>2. /\ worker'[w].step \in {"planning", "reading", "coordinating"}
        /\ worker'[w].loaded = worker[w].loaded
        /\ \A v \in Workers \ {w} : worker'[v] = worker[v]
    BY <1>1, <1>6 DEF PrepareWorkspace, ReadResolutions, Goto, WorkerStates
  <2>3. CASE holder = w
    BY <1>1, <2>1, <2>2, <2>3 DEF ProcessingIsHeld, Advancing, AdvancingSteps,
                                  WorkerSteps
  <2>4. CASE holder # w
    BY <2>1, <2>2, <2>4, HeldElsewhere
  <2> QED BY <2>3, <2>4
<1>7. CASE SaveWorkflowPlan(w)
  <2>1. /\ worker[w].step \in AdvancingSteps \ {"loading"}
        /\ TaskEnds(w) /\ UNCHANGED holder
    BY <1>7 DEF SaveWorkflowPlan, AdvancingSteps, WorkerSteps
  <2>2. "pending_plan_approval" \in Statuses \ {"processing"}
    BY DEF Statuses
  <2> QED BY <1>7, <2>1, <2>2, CommitReleases DEF SaveWorkflowPlan
<1>8. CASE SavePausedForSomeTools(w) \/ SavePausedForFinal(w)
  <2>1. /\ worker[w].step \in AdvancingSteps \ {"loading"}
        /\ TaskEnds(w) /\ UNCHANGED holder
    BY <1>8 DEF SavePausedForSomeTools, SavePausedForTools, SavePausedForFinal,
                AdvancingSteps, WorkerSteps
  <2>2. PICK status \in {"pending_tool_approval", "pending_final_approval"} :
            \E stage, calls : run' = WrittenBack(w, status, run.plan, stage, calls)
    BY <1>8 DEF SavePausedForSomeTools, SavePausedForTools, SavePausedForFinal
  <2>3. status \in Statuses \ {"processing"}
    BY <2>2 DEF Statuses
  <2> QED BY <2>1, <2>2, <2>3, CommitReleases
<1>9. CASE FailWorkflow(w)
  <2>1. /\ worker[w].step \in AdvancingSteps \ {"loading"}
        /\ TaskEnds(w) /\ UNCHANGED holder
    BY <1>9 DEF FailWorkflow, AdvancingSteps, WorkerSteps
  <2>2. FailedStatus \in Statuses \ {"processing"}
    BY DEF Statuses, FailedStatus
  <2> QED BY <1>9, <2>1, <2>2, CommitReleases DEF FailWorkflow
<1>10. CASE WorkerCrash(w) \/ TaskAborts(w)
  <2>1. /\ UNCHANGED run /\ holder' = IF holder = w THEN NoWorker ELSE holder
        /\ \A v \in Workers \ {w} : worker'[v] = worker[v]
    BY <1>1, <1>10 DEF WorkerCrash, TaskAborts, ClaimOrphaned, TaskEnds
  <2>2. CASE holder = w
    BY <2>1, <2>2 DEF ProcessingIsHeld
  <2>3. CASE holder # w
    BY <2>1, <2>3, HeldElsewhere
  <2> QED BY <2>2, <2>3
<1> QED BY <1>3, <1>4, <1>5, <1>6, <1>7, <1>8, <1>9, <1>10
        DEF WorkerStep, WorkerFault

LEMMA HeldRequestStep ==
    ASSUME TypeOK, ProcessingIsHeld, NEW q \in Requests,
           Submit(q) \/ RequestStep(q) \/ RequestFault(q)
    PROVE  ProcessingIsHeld'
<1> USE DEF rows
<1>1. UNCHANGED <<worker, holder>>
  BY DEF Submit, CreateRun, ApprovePlanRead, DecideReadApproval, FinalizeRead,
         RequestStep, EnqueueWorkflow, ApprovePlanCommit, DecideReadRun,
         DecideFlush, DecideCount, DecideCommit, FinalizeGit, FinalizePublish,
         FinalizeSave, FinalizeDiscard, FinalizeFail, RequestFault,
         RequestFails, FinalizeSaveFails
<1>2. run'.status \in {run.status, "queued", "completed", "cancelled", "failed"}
  <2>1. ASSUME \/ \E issue \in BOOLEAN : CreateRun(q, issue)
               \/ ApprovePlanCommit(q) \/ DecideCommit(q)
        PROVE  run'.status \in {run.status, "queued"}
    BY <2>1 DEF CreateRun, ApprovePlanCommit, DecideCommit, TypeOK, RunRows
  <2>2. ASSUME FinalizeSave(q) \/ FinalizeFail(q)
        PROVE  run'.status \in {"completed", "cancelled", "failed"}
    BY <2>2 DEF FinalizeSave, FinalizeFail, TypeOK, RunRows
  <2>3. ASSUME \/ ApprovePlanRead(q)
               \/ \E c \in Calls, d \in Decisions : DecideReadApproval(q, c, d)
               \/ \E approved \in BOOLEAN : FinalizeRead(q, approved)
               \/ EnqueueWorkflow(q) \/ DecideReadRun(q) \/ DecideFlush(q)
               \/ DecideCount(q) \/ FinalizeGit(q) \/ FinalizePublish(q)
               \/ FinalizeDiscard(q) \/ RequestFault(q)
        PROVE  run' = run
    BY <2>3 DEF ApprovePlanRead, DecideReadApproval, FinalizeRead,
                EnqueueWorkflow, DecideReadRun, DecideFlush, DecideCount,
                FinalizeGit, FinalizePublish, FinalizeDiscard, RequestFault,
                RequestFails, FinalizeSaveFails
  <2> QED BY <2>1, <2>2, <2>3 DEF Submit, RequestStep
<1> QED BY <1>1, <1>2, StillHeld

LEMMA HeldStep == TypeOK /\ ProcessingIsHeld /\ [Next]_vars => ProcessingIsHeld'
<1> SUFFICES ASSUME TypeOK, ProcessingIsHeld, [Next]_vars PROVE ProcessingIsHeld'
  OBVIOUS
<1> USE DEF rows
<1>1. CASE \/ DuplicateMessage \/ EnqueueRequeued \/ RecoveryCrash \/ ApiCrash
           \/ UNCHANGED vars
  BY <1>1, StillHeld
     DEF DuplicateMessage, EnqueueRequeued, RecoveryCrash, ApiCrash, vars
<1>2. CASE RequeueStaleWorkflows
  <2>1. run'.status = "queued"
    BY <1>2 DEF RequeueStaleWorkflows, TypeOK, RunRows
  <2> QED BY <2>1 DEF ProcessingIsHeld
<1>3. CASE Tick
  <2>1. run'.status = run.status /\ UNCHANGED holder
    BY <1>3 DEF Tick, TypeOK, RunRows
  <2>2. ASSUME NEW v \in Workers
        PROVE  worker'[v].step = worker[v].step /\ worker'[v].loaded = worker[v].loaded
    <3> DEFINE older == worker[v].age + 1
    <3>1. worker'[v] \in {worker[v], [worker[v] EXCEPT !.age = older]}
      BY <1>3 DEF Tick
    <3> HIDE DEF older
    <3>2. worker[v] \in WorkerStates
      BY DEF TypeOK
    <3> QED BY <3>1, <3>2 DEF WorkerStates
  <2> QED BY <2>1, <2>2, StillHeld
<1> QED BY <1>1, <1>2, <1>3, HeldWorkerStep, HeldRequestStep DEF Next

\* A run is never left Processing by a task that has ended: whichever sessions
\* hold an older row, however long a task lives and whoever decides twice, the
\* task that claimed a Processing run last is still at work on what it claimed,
\* or it died, and then only requeue_stale_workflows is left to take the claim
\* back.
THEOREM ProcessingHasTask == Spec => []ProcessingIsHeld
<1>1. Init => TypeOK /\ ProcessingIsHeld
  BY InitTyped DEF Init, NoRow, ProcessingIsHeld
<1>2. TypeOK /\ ProcessingIsHeld /\ [Next]_vars => TypeOK' /\ ProcessingIsHeld'
  BY NextTyped, HeldStep
<1> QED BY <1>1, <1>2, PTL DEF Spec
=============================================================================
