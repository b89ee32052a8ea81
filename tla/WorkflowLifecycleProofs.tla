----------------------- MODULE WorkflowLifecycleProofs -----------------------
(***************************************************************************)
(* Workflow implements Lifecycle: the refinement that WorkflowLifecycle    *)
(* states, proved step by step for any number of workers, requests and     *)
(* approvals, without rival submissions of one request.                    *)
(***************************************************************************)
EXTENDS WorkflowLifecycle, WorkflowClaimProofs

-----------------------------------------------------------------------------
(***************************************************************************)
(* The claim invariant says whose turn it is.  What it does not say is     *)
(* when a pull request exists: only after the checkouts the final decision *)
(* was about are gone, so that a second attempt to finalize the run, which *)
(* needs them, cannot reject or publish what is already published.         *)
(***************************************************************************)

PublishedStatuses == {"pending_final_approval", "completed", "failed"}
PublishingSteps == {"finalize_publish", "finalize_save"}

PublishingOK(q) ==
    /\ request[q].step = "finalize_publish" =>
          request[q].approved /\ run.issue /\ ~disk.checkouts
    /\ request[q].step = "finalize_save" =>
          IF request[q].approved THEN run.issue => pullRequest ELSE ~pullRequest

PublishOK ==
    /\ pullRequest => run.status \in PublishedStatuses /\ ~disk.checkouts
    /\ \A q \in Requests : PublishingOK(q)

LEMMA PublishInit == Init => PublishOK
  BY DEF Init, IdleRequest, PublishOK, PublishingOK

\* A step that neither moves the run nor lets a request begin to publish.
LEMMA PublishUndisturbed ==
    ASSUME PublishOK, run'.status = run.status, run'.issue = run.issue,
           UNCHANGED pullRequest, disk'.checkouts => disk.checkouts,
           \A q \in Requests : request'[q].step \in PublishingSteps
                                  => request'[q] = request[q]
    PROVE  PublishOK'
<1>1. ASSUME NEW q \in Requests PROVE PublishingOK(q)'
  <2>1. CASE request'[q].step \in PublishingSteps
    BY <2>1 DEF PublishOK, PublishingOK
  <2>2. CASE request'[q].step \notin PublishingSteps
    BY <2>2 DEF PublishingSteps, PublishingOK
  <2> QED BY <2>1, <2>2
<1> QED BY <1>1 DEF PublishOK

\* A step of a run that nobody finalizes and nobody has finalized.
LEMMA NothingToPublish ==
    ASSUME ClaimInv, PublishOK, run.status \notin PublishedStatuses,
           UNCHANGED pullRequest,
           \A q \in Requests : request'[q].step \in PublishingSteps
                                  => request'[q].step = request[q].step
    PROVE  PublishOK'
<1>1. ~pullRequest /\ pullRequest' = pullRequest
  BY DEF PublishOK
<1>2. ASSUME NEW q \in Requests PROVE request'[q].step \notin PublishingSteps
  BY DEF ClaimInv, RequestOK, PublishedStatuses, PublishingSteps, FinalizeSteps
<1>3. \A q \in Requests : PublishingOK(q)'
  BY <1>2 DEF PublishingOK, PublishingSteps
<1> QED BY <1>1, <1>3 DEF PublishOK

\* A step of the request that finalizes the run: there is no other.
LEMMA PublishAlone ==
    ASSUME ClaimInv, NEW q \in Requests, request[q].step \in FinalizeSteps,
           \A p \in Requests \ {q} : request'[p] = request[p],
           pullRequest' => run'.status \in PublishedStatuses /\ ~disk'.checkouts,
           PublishingOK(q)'
    PROVE  PublishOK'
<1>1. ASSUME NEW p \in Requests \ {q} PROVE request'[p].step \notin PublishingSteps
  BY DEF ClaimInv, RivalsExclude, Rivals, PublishingSteps, FinalizeSteps
<1>2. ASSUME NEW p \in Requests \ {q} PROVE PublishingOK(p)'
  BY <1>1 DEF PublishingOK, PublishingSteps
<1> QED BY <1>2 DEF PublishOK

LEMMA PublishWorkerStep ==
    ASSUME TypeOK, ClaimInv, PublishOK, NEW w \in Workers,
           WorkerStep(w) \/ WorkerFault(w)
    PROVE  PublishOK'
<1> USE DEF rows, outside
<1>1. UNCHANGED <<request, pullRequest>>
  BY DEF WorkerStep, WorkerFault, DeliverMessage, ClaimQueuedWorkflow,
         LoadClaimedRun, PrepareWorkspace, SaveWorkflowPlan, ReadResolutions,
         SavePausedForSomeTools, SavePausedForTools, SavePausedForFinal,
         FailWorkflow, WorkerCrash, TaskAborts, ClaimFails
<1>2. CASE \/ DeliverMessage(w) \/ LoadClaimedRun(w) \/ ReadResolutions(w)
           \/ WorkerFault(w)
  BY <1>1, <1>2, PublishUndisturbed
     DEF DeliverMessage, LoadClaimedRun, ReadResolutions, WorkerFault,
         WorkerCrash, TaskAborts, ClaimFails
<1>3. CASE PrepareWorkspace(w)
  <2>1. UNCHANGED run /\ disk' = [disk EXCEPT !.workspace = TRUE]
    BY <1>3 DEF PrepareWorkspace
  <2>2. disk'.checkouts = disk.checkouts
    BY <2>1 DEF TypeOK, DiskStates
  <2> QED BY <1>1, <2>1, <2>2, PublishUndisturbed
<1>4. CASE ClaimQueuedWorkflow(w)
  <2>1. CASE run.status = "queued"
    BY <1>1, <2>1, NothingToPublish DEF PublishedStatuses
  <2>2. CASE run.status # "queued"
    BY <1>1, <1>4, <2>2, PublishUndisturbed DEF ClaimQueuedWorkflow
  <2> QED BY <2>1, <2>2
<1>5. CASE \/ SaveWorkflowPlan(w) \/ SavePausedForSomeTools(w)
           \/ SavePausedForFinal(w) \/ FailWorkflow(w)
  <2>1. Advancing(w)
    BY <1>5 DEF SaveWorkflowPlan, SavePausedForSomeTools, SavePausedForTools,
                SavePausedForFinal, FailWorkflow, Advancing, AdvancingSteps,
                WorkerSteps
  <2>2. run.status = "processing"
    BY <2>1 DEF ClaimInv, WorkerOK
  <2> QED BY <1>1, <2>2, NothingToPublish DEF PublishedStatuses
<1> QED BY <1>2, <1>3, <1>4, <1>5 DEF WorkerStep

LEMMA PublishRequestStep ==
    ASSUME TypeOK, ClaimInv, PublishOK, NEW q \in Requests,
           Submit(q) \/ RequestStep(q) \/ RequestFault(q)
    PROVE  PublishOK'
<1> USE DEF rows, outside
<1>1. request \in [Requests -> RequestStates] /\ RequestOK(q) /\ PublishingOK(q)
  BY DEF TypeOK, ClaimInv, PublishOK
<1>2. ASSUME \/ EnqueueWorkflow(q) \/ ApprovePlanRead(q)
             \/ \E c \in Calls, d \in Decisions : DecideReadApproval(q, c, d)
             \/ DecideReadRun(q) \/ DecideFlush(q) \/ DecideCount(q)
             \/ \E approved \in BOOLEAN : FinalizeRead(q, approved)
             \/ FinalizeDiscard(q) \/ RequestFails(q)
      PROVE  PublishOK'
  <2>1. \A p \in Requests \ {q} : request'[p] = request[p]
    BY <1>1, <1>2
       DEF EnqueueWorkflow, ApprovePlanRead, DecideReadApproval, DecideReadRun,
           DecideFlush, DecideCount, FinalizeRead, FinalizeDiscard, RequestFails,
           Proceed, Respond
  <2>2. request'[q].step \notin PublishingSteps
    <3>1. ASSUME NEW step \in RequestSteps \ PublishingSteps, Proceed(q, step)
          PROVE  request'[q].step \notin PublishingSteps
      BY <1>1, <3>1 DEF Proceed, RequestStates
    <3>2. ASSUME Respond(q) PROVE request'[q].step \notin PublishingSteps
      BY <1>1, <3>2 DEF Respond, IdleRequest, PublishingSteps
    <3>3. {"approve_commit", "decide_run", "decide_flush", "decide_count",
           "decide_commit", "finalize_git"} \subseteq RequestSteps \ PublishingSteps
      BY DEF RequestSteps, DecideSteps, FinalizeSteps, PublishingSteps
    <3>4. ASSUME NEW c \in Calls, NEW d \in Decisions, DecideReadApproval(q, c, d)
          PROVE  request'[q].step = "decide_run"
      BY <1>1, <3>4 DEF DecideReadApproval, RequestStates
    <3>5. ASSUME DecideCount(q) PROVE request'[q].step = "decide_commit"
      BY <1>1, <3>5 DEF DecideCount, RequestStates
    <3>6. ASSUME NEW approved \in BOOLEAN, FinalizeRead(q, approved)
          PROVE  request'[q].step = "finalize_git"
      BY <1>1, <3>6 DEF FinalizeRead, RequestStates
    <3> QED BY <1>2, <3>1, <3>2, <3>3, <3>4, <3>5, <3>6
            DEF EnqueueWorkflow, ApprovePlanRead, DecideReadRun, DecideFlush,
                FinalizeDiscard, RequestFails
  <2>3. UNCHANGED <<run, pullRequest>> /\ (disk'.checkouts => disk.checkouts)
    <3>1. CASE FinalizeDiscard(q)
      BY <3>1 DEF FinalizeDiscard
    <3>2. CASE ~FinalizeDiscard(q)
      BY <1>2, <3>2
         DEF EnqueueWorkflow, ApprovePlanRead, DecideReadApproval, DecideReadRun,
             DecideFlush, DecideCount, FinalizeRead, RequestFails
    <3> QED BY <3>1, <3>2
  <2> QED BY <2>1, <2>2, <2>3, PublishUndisturbed
<1>3. ASSUME \/ \E issue \in BOOLEAN : CreateRun(q, issue)
             \/ ApprovePlanCommit(q) \/ DecideCommit(q)
      PROVE  PublishOK'
  <2>1. run.status \notin PublishedStatuses
    BY <1>1, <1>3 DEF CreateRun, ApprovePlanCommit, DecideCommit, RequestOK,
                      DecideSteps, PublishedStatuses
  <2>2. /\ \A p \in Requests \ {q} : request'[p] = request[p]
        /\ request'[q].step \in {"idle", "enqueue"}
    <3>1. CASE Proceed(q, "enqueue")
      BY <3>1, StepTaken
    <3>2. CASE DecideCommit(q)
      BY <1>1, <3>2 DEF DecideCommit, Respond, RunToEnqueue, IdleRequest
    <3> QED BY <1>3, <3>1, <3>2 DEF CreateRun, ApprovePlanCommit
  <2>3. UNCHANGED pullRequest
    BY <1>3 DEF CreateRun, ApprovePlanCommit, DecideCommit
  <2> QED BY <2>1, <2>2, <2>3, NothingToPublish DEF PublishingSteps
<1>4. CASE FinalizeGit(q)
  <2>1. /\ request[q].step = "finalize_git" /\ UNCHANGED <<run, pullRequest>>
        /\ disk \in DiskStates
        /\ run.status \in PublishedStatuses
    BY <1>1, <1>4 DEF FinalizeGit, RequestOK, FinalizeSteps, PublishedStatuses,
                      TypeOK
  <2>2. PICK step : Proceed(q, step)
    BY <1>4 DEF FinalizeGit
  <2>3. /\ request'[q].step = step
        /\ request'[q].approved = request[q].approved
        /\ \A p \in Requests \ {q} : request'[p] = request[p]
    BY <2>2, StepTaken
  <2>4. CASE CheckoutsPresent(q) /\ disk' = [disk EXCEPT !.checkouts = FALSE]
             /\ Proceed(q, IF request[q].approved /\ run.issue
                             THEN "finalize_publish" ELSE "finalize_save")
    <3>1. ~disk'.checkouts /\ ~pullRequest
      BY <2>1, <2>4 DEF DiskStates, PublishOK, CheckoutsPresent
    <3>2. request'[q].step = IF request[q].approved /\ run.issue
                               THEN "finalize_publish" ELSE "finalize_save"
      BY <2>4, StepTaken
    <3>3. PublishingOK(q)'
      BY <2>1, <2>3, <3>1, <3>2 DEF PublishingOK
    <3> QED BY <2>1, <2>3, <3>1, <3>3, PublishAlone DEF FinalizeSteps
  <2>5. CASE /\ \E cloned \in {disk.workspace, TRUE}, left \in {disk.checkouts, FALSE} :
                    disk' = [workspace |-> cloned, checkouts |-> left]
             /\ Proceed(q, "finalize_fail")
    <3>1. disk'.checkouts => disk.checkouts
      <4>1. PICK cloned \in {disk.workspace, TRUE}, left \in {disk.checkouts, FALSE} :
                disk' = [workspace |-> cloned, checkouts |-> left]
        BY <2>5
      <4>2. disk'.checkouts = left
        BY <4>1
      <4> QED BY <4>2
    <3>2. request'[q].step = "finalize_fail"
      BY <2>5, StepTaken
    <3> QED BY <2>1, <2>3, <3>1, <3>2, PublishUndisturbed DEF PublishingSteps
  <2> QED BY <1>4, <2>4, <2>5 DEF FinalizeGit
<1>5. CASE FinalizePublish(q)
  <2>1. PICK outcome \in PublishOutcomes :
            /\ pullRequest' = (pullRequest \/ outcome.created)
            /\ Proceed(q, outcome.next)
    BY <1>5 DEF FinalizePublish
  <2>2. /\ request[q].step = "finalize_publish" /\ UNCHANGED <<run, disk>>
    BY <1>5 DEF FinalizePublish
  <2>3. /\ request[q].approved /\ run.issue /\ ~disk.checkouts
        /\ run.status \in PublishedStatuses
    BY <1>1, <2>2 DEF PublishingOK, RequestOK, FinalizeSteps, PublishedStatuses
  <2>4. /\ request'[q].step = outcome.next
        /\ request'[q].approved = request[q].approved
        /\ \A p \in Requests \ {q} : request'[p] = request[p]
    BY <2>1, StepTaken
  <2>5. /\ outcome.next \in {"finalize_fail", "finalize_save"}
        /\ outcome.next = "finalize_save" => outcome.created
    <3>1. \/ outcome = [created |-> TRUE,  next |-> "finalize_save"]
          \/ outcome = [created |-> TRUE,  next |-> "finalize_fail"]
          \/ outcome = [created |-> FALSE, next |-> "finalize_fail"]
      BY DEF PublishOutcomes
    <3>2. outcome.next \in {"finalize_fail", "finalize_save"}
      BY <3>1
    <3>3. outcome.next = "finalize_save" => outcome.created
      BY <3>1
    <3> QED BY <3>2, <3>3
  <2>6. PublishingOK(q)'
    BY <2>1, <2>2, <2>3, <2>4, <2>5 DEF PublishingOK
  <2> QED BY <2>2, <2>3, <2>4, <2>6, PublishAlone DEF FinalizeSteps
<1>6. CASE FinalizeSave(q)
  <2>1. /\ request[q].step = "finalize_save" /\ UNCHANGED <<disk, pullRequest>>
        /\ run'.status = IF request[q].approved THEN "completed" ELSE "cancelled"
    BY <1>6 DEF FinalizeSave, TypeOK, RunRows
  <2>2. pullRequest => request[q].approved /\ ~disk.checkouts
    BY <1>1, <2>1 DEF PublishingOK, PublishOK
  <2>3. /\ request'[q].step \in {"idle", "finalize_discard"}
        /\ \A p \in Requests \ {q} : request'[p] = request[p]
    BY <1>1, <1>6, IdleStep, StepTaken DEF FinalizeSave
  <2> QED BY <2>1, <2>2, <2>3, PublishAlone
          DEF PublishingOK, PublishedStatuses, FinalizeSteps
<1>7. CASE FinalizeFail(q)
  <2>1. /\ request[q].step = "finalize_fail" /\ UNCHANGED <<disk, pullRequest>>
        /\ run'.status = "failed"
    BY <1>7 DEF FinalizeFail, TypeOK, RunRows
  <2>2. /\ request'[q].step = "idle"
        /\ \A p \in Requests \ {q} : request'[p] = request[p]
    BY <1>7, IdleStep DEF FinalizeFail
  <2>3. pullRequest => ~disk.checkouts
    BY DEF PublishOK
  <2> QED BY <2>1, <2>2, <2>3, PublishAlone
          DEF PublishingOK, PublishedStatuses, FinalizeSteps
<1>8. CASE FinalizeSaveFails(q)
  <2>1. /\ request'[q].step = "finalize_fail"
        /\ \A p \in Requests \ {q} : request'[p] = request[p]
    BY <1>8, StepTaken DEF FinalizeSaveFails
  <2> QED BY <1>8, <2>1, PublishUndisturbed DEF FinalizeSaveFails, PublishingSteps
<1> QED BY <1>2, <1>3, <1>4, <1>5, <1>6, <1>7, <1>8
        DEF Submit, RequestStep, RequestFault

LEMMA PublishStep ==
    ASSUME TypeOK, ClaimInv, PublishOK, [Next]_vars
    PROVE  PublishOK'
<1> USE DEF rows, outside
<1>1. CASE \/ DuplicateMessage \/ EnqueueRequeued \/ RecoveryCrash
           \/ UNCHANGED vars
  BY <1>1, PublishUndisturbed
     DEF DuplicateMessage, EnqueueRequeued, RecoveryCrash, vars
<1>2. CASE RequeueStaleWorkflows
  BY <1>2, NothingToPublish
     DEF RequeueStaleWorkflows, StaleClaim, PublishedStatuses
<1>3. CASE ApiCrash
  <2>1. \A q \in Requests : request'[q].step = "idle"
    BY <1>3 DEF ApiCrash, IdleRequest
  <2> QED BY <1>3, <2>1, PublishUndisturbed DEF ApiCrash, PublishingSteps
<1>4. CASE Tick
  <2>1. run'.status = run.status /\ run'.issue = run.issue
    BY <1>4 DEF Tick, TypeOK, RunRows
  <2> QED BY <1>4, <2>1, PublishUndisturbed DEF Tick
<1> QED BY <1>1, <1>2, <1>3, <1>4, PublishWorkerStep, PublishRequestStep DEF Next

\* A pull request exists only after finalize_workflow has removed the checkouts
\* that a second attempt to finalize the run would need.
THEOREM PublishInvariant ==
    ASSUME ~DoubleSubmit, ClaimOutlivesTask
    PROVE  Spec => []PublishOK
<1>1. Init => PublishOK
  BY PublishInit
<1>2. TypeOK /\ ClaimInv /\ PublishOK /\ [Next]_vars => PublishOK'
  BY PublishStep
<1> QED BY <1>1, <1>2, ClaimInvariant, PTL DEF Spec

-----------------------------------------------------------------------------
(* Each step of Workflow as one of Lifecycle *)

LEMMA LifeInit == Init => Life!Init
  BY DEF Init, NoRow, PhaseOfStatus, Pending, Life!Init

\* Whose turn it is, what is asked and what is agreed to are in the two tables.
LEMMA LifeStutters ==
    ASSUME run'.status = run.status, run'.plan = run.plan, run'.issue = run.issue,
           UNCHANGED <<approvals, pullRequest>>
    PROVE  UNCHANGED Life!life
  BY DEF Life!life, Pending

LEMMA LifeWorkerStep ==
    ASSUME TypeOK, ClaimInv, NEW w \in Workers, WorkerStep(w) \/ WorkerFault(w)
    PROVE  [Life!Next]_(Life!life)
<1> USE DEF rows, outside
<1>1. CASE \/ DeliverMessage(w) \/ LoadClaimedRun(w) \/ ReadResolutions(w)
           \/ PrepareWorkspace(w) \/ WorkerFault(w)
  BY <1>1, LifeStutters
     DEF DeliverMessage, LoadClaimedRun, ReadResolutions, PrepareWorkspace,
         WorkerFault, WorkerCrash, TaskAborts, ClaimFails
<1>2. CASE ClaimQueuedWorkflow(w)
  <2>1. CASE run.status # "queued"
    BY <1>2, <2>1, LifeStutters DEF ClaimQueuedWorkflow
  <2>2. CASE run.status = "queued"
    <3>1. /\ run'.status = "processing" /\ run'.plan = run.plan
          /\ run'.issue = run.issue
          /\ UNCHANGED <<approvals, pullRequest>>
      BY <1>2, <2>2 DEF ClaimQueuedWorkflow, RowClaimed, TypeOK, RunRows
    <3>2. Life!Start
      BY <2>2, <3>1 DEF Life!Start, PhaseOfStatus, Pending
    <3> QED BY <3>2 DEF Life!Next
  <2> QED BY <2>1, <2>2
<1>3. ASSUME worker[w].step \in LoadedSteps
      PROVE  /\ run.status = "processing" /\ Pending(approvals) = {}
             /\ worker[w].loaded = LoadedRow
  <2>1. Advancing(w) /\ WorkerOK(w)
    BY <1>3 DEF Advancing, LoadedSteps, ClaimInv
  <2> QED BY <1>3, <2>1 DEF WorkerOK, ClaimInv, RowOK
<1>4. CASE SaveWorkflowPlan(w)
  <2>1. worker[w].step \in LoadedSteps /\ ~run.plan
    BY <1>4 DEF SaveWorkflowPlan, LoadedSteps, AdvancingSteps, WorkerSteps,
                ClaimInv, WorkerOK
  <2>2. run' = WrittenBack(w, "pending_plan_approval", TRUE, run.stage, run.calls)
    BY <1>4 DEF SaveWorkflowPlan
  <2>3. run'.status = "pending_plan_approval" /\ run'.issue = run.issue
    BY <2>1, <2>2, SavedRow DEF Statuses
  <2>4. UNCHANGED <<approvals, pullRequest>>
    BY <1>4 DEF SaveWorkflowPlan
  <2>5. Life!AskForPlan
    BY <1>3, <2>1, <2>3, <2>4 DEF Life!AskForPlan, PhaseOfStatus, Pending
  <2> QED BY <2>5 DEF Life!Next
<1>5. ASSUME NEW asked \in SUBSET Calls, SavePausedForTools(w, asked)
      PROVE  Life!Next
  <2>1. worker[w].step \in LoadedSteps /\ run.plan
    BY <1>5 DEF SavePausedForTools, LoadedSteps, AdvancingSteps, WorkerSteps,
                ClaimInv, WorkerOK
  <2>2. run' = WrittenBack(w, "pending_tool_approval", run.plan,
                           "awaiting_tools", asked)
    BY <1>5 DEF SavePausedForTools
  <2>3. /\ run'.status = "pending_tool_approval" /\ run'.issue = run.issue
        /\ run'.plan = run.plan
    BY <2>1, <2>2, SavedRow DEF Statuses
  <2>4. /\ approvals' = [c \in Calls |-> IF c \in asked THEN "pending"
                                                        ELSE approvals[c]]
        /\ asked # {} /\ UNCHANGED pullRequest
    BY <1>5 DEF SavePausedForTools
  <2>5. Pending(approvals)' = asked
    BY <1>3, <2>1, <2>4 DEF Pending
  <2>6. Life!AskForTools(asked)
    BY <1>3, <2>1, <2>3, <2>4, <2>5 DEF Life!AskForTools, PhaseOfStatus
  <2> QED BY <2>6 DEF Life!Next
<1>6. CASE SavePausedForFinal(w)
  <2>1. worker[w].step \in LoadedSteps /\ run.plan
    BY <1>6 DEF SavePausedForFinal, LoadedSteps, AdvancingSteps, WorkerSteps,
                ClaimInv, WorkerOK
  <2>2. run' = WrittenBack(w, "pending_final_approval", run.plan,
                           "awaiting_final", {})
    BY <1>6 DEF SavePausedForFinal
  <2>3. /\ run'.status = "pending_final_approval" /\ run'.issue = run.issue
        /\ run'.plan = run.plan
    BY <2>1, <2>2, SavedRow DEF Statuses
  <2>4. UNCHANGED <<approvals, pullRequest>>
    BY <1>6 DEF SavePausedForFinal
  <2>5. Life!AskForFinal
    BY <1>3, <2>1, <2>3, <2>4 DEF Life!AskForFinal, PhaseOfStatus, Pending
  <2> QED BY <2>5 DEF Life!Next
<1>7. CASE FailWorkflow(w)
  <2>1. worker[w].step \in LoadedSteps
    BY <1>7 DEF FailWorkflow, LoadedSteps, AdvancingSteps, WorkerSteps
  <2>2. run' = WrittenBack(w, FailedStatus, run.plan, run.stage, run.calls)
    BY <1>7 DEF FailWorkflow
  <2>3. run'.status = "failed" /\ run'.issue = run.issue /\ run'.plan = run.plan
    BY <2>1, <2>2, SavedRow DEF Statuses, FailedStatus
  <2>4. UNCHANGED <<approvals, pullRequest>>
    BY <1>7 DEF FailWorkflow
  <2>5. Life!Fail
    BY <1>3, <2>1, <2>3, <2>4 DEF Life!Fail, PhaseOfStatus, Pending
  <2> QED BY <2>5 DEF Life!Next
<1> QED BY <1>1, <1>2, <1>4, <1>5, <1>6, <1>7 DEF WorkerStep, SavePausedForSomeTools

LEMMA LifeRequestStep ==
    ASSUME TypeOK, ClaimInv, PublishOK, NEW q \in Requests,
           Submit(q) \/ RequestStep(q) \/ RequestFault(q)
    PROVE  [Life!Next]_(Life!life)
<1> USE DEF rows, outside
<1>1. RequestOK(q) /\ PublishingOK(q)
  BY DEF ClaimInv, PublishOK
<1>2. CASE \/ EnqueueWorkflow(q) \/ ApprovePlanRead(q)
           \/ \E c \in Calls, d \in Decisions : DecideReadApproval(q, c, d)
           \/ DecideReadRun(q) \/ DecideFlush(q) \/ DecideCount(q)
           \/ \E approved \in BOOLEAN : FinalizeRead(q, approved)
           \/ FinalizeGit(q) \/ FinalizeDiscard(q) \/ RequestFault(q)
  <2>1. UNCHANGED <<run, approvals, pullRequest>>
    BY <1>2
       DEF EnqueueWorkflow, ApprovePlanRead, DecideReadApproval, DecideReadRun,
           DecideFlush, DecideCount, FinalizeRead, FinalizeGit, FinalizeDiscard,
           RequestFault, RequestFails, FinalizeSaveFails
  <2> QED BY <2>1, LifeStutters
<1>3. ASSUME NEW issue \in BOOLEAN, CreateRun(q, issue) PROVE Life!Next
  <2>1. run.status = "absent" /\ UNCHANGED <<approvals, pullRequest>>
    BY <1>3 DEF CreateRun
  <2> DEFINE given == issue
  <2>2. run' = [run EXCEPT !.status = "queued", !.issue = given]
    BY <1>3 DEF CreateRun
  <2> HIDE DEF given
  <2>3. run'.status = "queued" /\ run'.issue = given /\ run'.plan = run.plan
    BY <2>2 DEF TypeOK, RunRows
  <2>4. run'.issue \in BOOLEAN
    BY <2>3 DEF given
  <2>5. Life!Create
    BY <2>1, <2>3, <2>4 DEF Life!Create, PhaseOfStatus, Pending
  <2> QED BY <2>5 DEF Life!Next
<1>4. CASE ApprovePlanCommit(q)
  <2>1. run.status = "pending_plan_approval" /\ run.plan
    BY <1>1, <1>4 DEF ApprovePlanCommit, RequestOK, ClaimInv, RowOK, Paused
  <2>2. /\ run'.status = "queued" /\ run'.issue = run.issue /\ run'.plan = run.plan
        /\ UNCHANGED <<approvals, pullRequest>>
    BY <1>4 DEF ApprovePlanCommit, TypeOK, RunRows
  <2>3. Life!ApprovePlan
    BY <2>1, <2>2 DEF Life!ApprovePlan, PhaseOfStatus, Pending
  <2> QED BY <2>3 DEF Life!Next
<1>5. CASE DecideCommit(q)
  <2> DEFINE call == request[q].call
  <2>1. /\ request[q].step = "decide_commit" /\ UNCHANGED pullRequest
        /\ approvals' = [approvals EXCEPT ![call] = request[q].decision]
    BY <1>5 DEF DecideCommit
  <2>2. /\ call \in Calls /\ approvals[call] = "pending"
        /\ run.status = "pending_tool_approval"
    BY <1>1, <2>1 DEF RequestOK, DecideSteps
  <2>3. request[q].last <=> NoneLeft(q)
    BY <1>1, <2>1 DEF RequestOK
  <2>4. Pending(approvals)' = Pending(approvals) \ {call}
    <3>1. request[q].decision \in Decisions /\ approvals \in [Calls -> ApprovalStates]
      BY DEF TypeOK, RequestStates
    <3> QED BY <2>1, <2>2, <3>1 DEF Pending, Decisions
  <2>5. /\ NoneLeft(q) => run' = [run EXCEPT !.status = "queued"]
        /\ ~NoneLeft(q) => run' = run
    BY <1>5, <2>3 DEF DecideCommit
  <2>6. /\ run'.status = IF NoneLeft(q) THEN "queued" ELSE "pending_tool_approval"
        /\ run'.issue = run.issue /\ run'.plan = run.plan
    BY <2>2, <2>5 DEF TypeOK, RunRows
  <2>7. NoneLeft(q) <=> Pending(approvals)' = {}
    BY <2>4 DEF NoneLeft
  <2>8. call \in Pending(approvals)
    BY <2>2 DEF Pending
  <2>9. run.plan
    BY <2>2 DEF ClaimInv, RowOK, Paused
  <2>10. Life!DecideTool(call)
    BY <2>1, <2>2, <2>4, <2>6, <2>7, <2>8, <2>9
       DEF Life!DecideTool, PhaseOfStatus
  <2> QED BY <2>2, <2>10 DEF Life!Next
<1>6. CASE FinalizePublish(q)
  <2>1. PICK outcome \in PublishOutcomes :
            /\ outcome.created => ~pullRequest
            /\ pullRequest' = (pullRequest \/ outcome.created)
    BY <1>6 DEF FinalizePublish
  <2>2. request[q].step = "finalize_publish" /\ UNCHANGED <<run, approvals>>
    BY <1>6 DEF FinalizePublish
  <2>3. run.issue /\ run.status = "pending_final_approval"
    BY <1>1, <2>2 DEF PublishingOK, RequestOK, FinalizeSteps
  <2>4. CASE outcome.created
    <3>1. Life!Publish
      BY <2>1, <2>2, <2>3, <2>4 DEF Life!Publish, PhaseOfStatus, Pending
    <3> QED BY <3>1 DEF Life!Next
  <2>5. CASE ~outcome.created
    <3>1. pullRequest' = pullRequest
      BY <2>1, <2>5 DEF TypeOK
    <3> QED BY <2>2, <3>1, LifeStutters
  <2> QED BY <2>4, <2>5
<1>7. CASE FinalizeSave(q)
  <2>1. /\ request[q].step = "finalize_save" /\ UNCHANGED <<approvals, pullRequest>>
        /\ run'.status = IF request[q].approved THEN "completed" ELSE "cancelled"
        /\ run'.issue = run.issue /\ run'.plan = run.plan
    BY <1>7 DEF FinalizeSave, TypeOK, RunRows
  <2>2. run.status = "pending_final_approval"
    BY <1>1, <2>1 DEF RequestOK, FinalizeSteps
  <2>3. CASE request[q].approved
    <3>1. run.issue => pullRequest
      BY <1>1, <2>1, <2>3 DEF PublishingOK
    <3>2. Life!Complete
      BY <2>1, <2>2, <2>3, <3>1 DEF Life!Complete, PhaseOfStatus, Pending
    <3> QED BY <3>2 DEF Life!Next
  <2>4. CASE ~request[q].approved
    <3>1. ~pullRequest
      BY <1>1, <2>1, <2>4 DEF PublishingOK
    <3>2. Life!Cancel
      BY <2>1, <2>2, <2>4, <3>1 DEF Life!Cancel, PhaseOfStatus, Pending
    <3> QED BY <3>2 DEF Life!Next
  <2> QED BY <2>3, <2>4
<1>8. CASE FinalizeFail(q)
  <2>1. /\ request[q].step = "finalize_fail" /\ UNCHANGED <<approvals, pullRequest>>
        /\ run'.status = "failed" /\ run'.issue = run.issue /\ run'.plan = run.plan
    BY <1>8 DEF FinalizeFail, TypeOK, RunRows
  <2>2. run.status = "pending_final_approval"
    BY <1>1, <2>1 DEF RequestOK, FinalizeSteps
  <2>3. Life!Fail
    BY <2>1, <2>2 DEF Life!Fail, PhaseOfStatus, Pending
  <2> QED BY <2>3 DEF Life!Next
<1> QED BY <1>2, <1>3, <1>4, <1>5, <1>6, <1>7, <1>8 DEF Submit, RequestStep

LEMMA LifeStep ==
    ASSUME TypeOK, ClaimInv, PublishOK, [Next]_vars
    PROVE  [Life!Next]_(Life!life)
<1> USE DEF rows, outside
<1>1. CASE \/ DuplicateMessage \/ EnqueueRequeued \/ RecoveryCrash \/ ApiCrash
           \/ UNCHANGED vars
  BY <1>1, LifeStutters
     DEF DuplicateMessage, EnqueueRequeued, RecoveryCrash, ApiCrash, vars
<1>2. CASE RequeueStaleWorkflows
  <2>1. /\ run.status = "processing" /\ run'.status = "queued"
        /\ run'.plan = run.plan /\ run'.issue = run.issue
        /\ UNCHANGED <<approvals, pullRequest>>
    BY <1>2 DEF RequeueStaleWorkflows, StaleClaim, TypeOK, RunRows
  <2>2. Life!StartOver
    BY <2>1 DEF Life!StartOver, PhaseOfStatus, Pending
  <2> QED BY <2>2 DEF Life!Next
<1>3. CASE Tick
  <2>1. /\ run'.status = run.status /\ run'.plan = run.plan
        /\ run'.issue = run.issue
        /\ UNCHANGED <<approvals, pullRequest>>
    BY <1>3 DEF Tick, TypeOK, RunRows
  <2> QED BY <2>1, LifeStutters
<1> QED BY <1>1, <1>2, <1>3, LifeWorkerStep, LifeRequestStep DEF Next

\* Each transaction of the API and of the tasks is one step of the life that is
\* promised or invisible in it: no task starts changing files before a person
\* has approved a plan, the decision that leaves nothing open and no other gives
\* the run back, and a rejected run has published nothing, however tasks,
\* reviewers and crashes interleave.
THEOREM WorkflowImplementsLifecycle ==
    ASSUME ~DoubleSubmit, ClaimOutlivesTask
    PROVE  Spec => ImplementsLifecycle
<1>1. Init => Life!Init
  BY LifeInit
<1>2. TypeOK /\ ClaimInv /\ PublishOK /\ [Next]_vars => [Life!Next]_(Life!life)
  BY LifeStep
<1> QED BY <1>1, <1>2, ClaimInvariant, PublishInvariant, PTL
        DEF Spec, ImplementsLifecycle, Life!Spec
=============================================================================
