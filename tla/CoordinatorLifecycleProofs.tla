---------------------- MODULE CoordinatorLifecycleProofs ----------------------
(***************************************************************************)
(* Coordinator implements Lifecycle from the approval of the plan on: the  *)
(* refinement that CoordinatorLifecycle states, proved step by step for    *)
(* any number of workstreams, fixes and crashes.                           *)
(***************************************************************************)
EXTENDS CoordinatorLifecycle, CoordinatorProofs

-----------------------------------------------------------------------------
(***************************************************************************)
(* The mapping, one task at a time.  The invariant is needed for the two   *)
(* pauses: a task that waits for tools has a pending request in what it    *)
(* saved, one that waits for the final decision has none.                  *)
(***************************************************************************)

OpenCalls == {c \in ToolCalls : task = "waiting" /\ PendingRequests # {}}

PhaseOfTask ==
    /\ task \in {"approved", "decided"} => Phase = "queued"
    /\ task \in {"preparing", "working", "advancing"} => Phase = "working"
    /\ task = "waiting" /\ saved.stage \in ToolPauses => Phase = "tools"
    /\ task = "waiting" /\ saved.stage \notin ToolPauses => Phase = "final"
    /\ task \in Finalizing => Phase = "final"
    /\ task = "completed" => Phase = "completed"
    /\ task = "rejected" => Phase = "cancelled"
    /\ task = "failed" => Phase = "failed"

CallsOfTask ==
    /\ task # "waiting" => OpenCalls = {}
    /\ saved.stage = "awaiting_final_approval" => OpenCalls = {}
    /\ task = "waiting" /\ saved.stage \in ToolPauses
          /\ SomePending(saved) /\ ExecutionOK(saved) => OpenCalls = {"calls"}

LEMMA PauseHasRequests ==
    ASSUME SomePending(saved), ExecutionOK(saved), saved.stage \in ToolPauses
    PROVE  PendingRequests # {}
<1>1. CASE saved.stage = "awaiting_approvals"
  <2>1. PICK w \in Works : saved.execution[w] = "pending_approval"
    BY <1>1 DEF SomePending
  <2>2. PendingRequests = {v \in Works : saved.execution[v] = "pending_approval"}
    BY <1>1 DEF PendingRequests
  <2> QED BY <2>1, <2>2
<1>2. CASE saved.stage = "merge_repair_awaiting_approvals"
  <2>1. PendingRequests = {t \in {Integration} : saved.repair = "pending_approval"}
    BY <1>2 DEF PendingRequests
  <2> QED BY <1>2, <2>1 DEF ExecutionOK
<1>3. CASE saved.stage = "review_fix_awaiting_approvals"
  <2>1. PendingRequests = {t \in {Integration} : saved.fix = "pending_approval"}
    BY <1>3 DEF PendingRequests
  <2> QED BY <1>3, <2>1 DEF ExecutionOK
<1> QED BY <1>1, <1>2, <1>3 DEF ToolPauses

LEMMA Mapping == PhaseOfTask /\ CallsOfTask
<1>1. PhaseOfTask
  BY DEF PhaseOfTask, Phase, Finalizing
<1>2. task # "waiting" => OpenCalls = {}
  BY DEF OpenCalls
<1>3. saved.stage = "awaiting_final_approval" => OpenCalls = {}
  BY DEF OpenCalls, PendingRequests
<1>4. task = "waiting" /\ PendingRequests # {} => OpenCalls = {"calls"}
  BY DEF OpenCalls, ToolCalls
<1> QED BY <1>1, <1>2, <1>3, <1>4, PauseHasRequests DEF CallsOfTask

LEMMA MappingNext == PhaseOfTask' /\ CallsOfTask'
  BY Mapping, PTL

-----------------------------------------------------------------------------
(* Steps *)

LEMMA LifeInit == Init => Life!InitAfterPlan
<1> SUFFICES ASSUME Init PROVE Life!InitAfterPlan
  OBVIOUS
<1>1. task = "approved"
  BY DEF Init
<1>2. Phase = "queued" /\ OpenCalls = {}
  BY <1>1, Mapping, MappingNext DEF PhaseOfTask, CallsOfTask
<1> QED BY <1>2 DEF Life!InitAfterPlan, OpenCalls

\* Nothing that the mapping looks at changes.
LEMMA LifeStutters ==
    ASSUME Phase' = Phase, OpenCalls' = OpenCalls
    PROVE  UNCHANGED Life!life
  BY DEF Life!life, OpenCalls

LEMMA LifeStep ==
    ASSUME CoordInv, CoordInv', [Next]_vars
    PROVE  [Life!Next]_(Life!life)
<1>1. TaskOK /\ TaskOK' /\ StateOK /\ StateOK'
  BY DEF CoordInv
<1>3. ASSUME task \in {"preparing", "working", "advancing"}, task' = "failed"
      PROVE  Life!Fail
  <2>1. Phase = "working" /\ Phase' = "failed" /\ OpenCalls = {} /\ OpenCalls' = {}
    BY <1>3, Mapping, MappingNext DEF PhaseOfTask, CallsOfTask
  <2> QED BY <2>1 DEF Life!Fail, OpenCalls
<1>4. CASE Advance \/ AgentWorks \/ AgentsReturn
  <2>1. /\ task \in {"working", "advancing"} /\ task' \in {"working", "advancing"}
    BY <1>4 DEF Advance, CommitCompletedWork, CreateIntegrationWorktree, SkipMerged,
                MergeWorktree, MergeConflicts, IntegrationFinished,
                CompleteMergeRepair, CompleteReviewFix, ReviewIntegrationWorktree,
                AgentWorks, AgentChangesFiles, WorkerReturns,
                AgentsReturn, WorkReturned, MergeRepairReturns, ReviewFixReturns, At
  <2>2. Phase' = Phase /\ OpenCalls' = OpenCalls
    BY <2>1, Mapping, MappingNext DEF PhaseOfTask, CallsOfTask
  <2> QED BY <2>2, LifeStutters
<1>5. CASE Fails
  <2>1. CASE task \in {"preparing", "working", "advancing"}
    <3>1. task' = "failed"
      BY <1>5 DEF Fails, PreparationFails, StartFails, FixesExhausted, Fail
    <3> QED BY <1>3, <2>1, <3>1 DEF Life!Next
  <2>2. CASE task \notin {"preparing", "working", "advancing"}
    <3>1. task \in Finalizing /\ task' = "failed"
      BY <1>5, <2>2 DEF Fails, PreparationFails, StartFails, FixesExhausted, Fail, At
    <3>2. task # "waiting" /\ task' # "waiting"
      BY <3>1 DEF Finalizing
    <3>3. Phase = "final" /\ Phase' = "failed" /\ OpenCalls = {} /\ OpenCalls' = {}
      BY <3>1, <3>2, Mapping, MappingNext DEF PhaseOfTask, CallsOfTask
    <3>4. Life!Fail
      BY <3>3 DEF Life!Fail, OpenCalls
    <3> QED BY <3>4 DEF Life!Next
  <2> QED BY <2>1, <2>2
<1>6. CASE Prepares \/ StartsAgents
  <2>1. /\ task \in {"approved", "decided", "preparing", "advancing"}
        /\ task' \in {"preparing", "working"}
    BY <1>6 DEF Prepares, StartCoordinator, CreateWorktree,
                StartsAgents, ExecuteNewWork, ResumeWork, StartMergeConflictRepair,
                ResumeMergeConflictRepair, StartReviewFix, ResumeReviewFix,
                RepairTakenUp, At
  <2>2. Phase' = "working" /\ OpenCalls' = {} /\ OpenCalls = {}
    BY <2>1, Mapping, MappingNext DEF PhaseOfTask, CallsOfTask
  <2>3. CASE task \in {"approved", "decided"}
    <3>1. Phase = "queued"
      BY <2>3, Mapping, MappingNext DEF PhaseOfTask
    <3>2. Life!Start
      BY <2>2, <3>1 DEF Life!Start, OpenCalls
    <3> QED BY <3>2 DEF Life!Next
  <2>4. CASE task \in {"preparing", "advancing"}
    BY <2>2, <2>4, Mapping, MappingNext, LifeStutters DEF PhaseOfTask
  <2> QED BY <2>1, <2>3, <2>4
<1>7. CASE SavePause
  <2>1. /\ task = "advancing" /\ task' = "waiting"
        /\ saved'.stage \in PausedStages
    BY <1>7 DEF SavePause, At
  <2>2. Phase = "working" /\ OpenCalls = {}
    BY <2>1, Mapping, MappingNext DEF PhaseOfTask, CallsOfTask
  <2>3. CASE saved'.stage \in ToolPauses
    <3>1. SomePending(saved)' /\ ExecutionOK(saved)'
      BY <1>1 DEF StateOK
    <3>2. Phase' = "tools" /\ OpenCalls' = {"calls"}
      BY <2>1, <2>3, <3>1, Mapping, MappingNext DEF PhaseOfTask, CallsOfTask
    <3>3. Life!AskForTools({"calls"})
      BY <2>2, <3>2 DEF Life!AskForTools, OpenCalls
    <3>4. {"calls"} \in SUBSET ToolCalls
      BY DEF ToolCalls
    <3> QED BY <3>3, <3>4 DEF Life!Next
  <2>4. CASE saved'.stage \notin ToolPauses
    <3>1. saved'.stage = "awaiting_final_approval"
      BY <2>1, <2>4 DEF PausedStages
    <3>2. Phase' = "final" /\ OpenCalls' = {}
      BY <2>1, <2>4, <3>1, Mapping, MappingNext DEF PhaseOfTask, CallsOfTask
    <3>3. Life!AskForFinal
      BY <2>2, <3>2 DEF Life!AskForFinal, OpenCalls
    <3> QED BY <3>3 DEF Life!Next
  <2> QED BY <2>3, <2>4
<1>8. CASE ToolsDecided
  <2>1. /\ task = "waiting" /\ task' = "decided" /\ saved.stage \in ToolPauses
    BY <1>8 DEF ToolsDecided
  <2>2. SomePending(saved) /\ ExecutionOK(saved)
    BY <1>1 DEF StateOK
  <2>3. /\ Phase = "tools" /\ OpenCalls = {"calls"}
        /\ Phase' = "queued" /\ OpenCalls' = {}
    BY <2>1, <2>2, Mapping, MappingNext DEF PhaseOfTask, CallsOfTask
  <2>4. Life!DecideTool("calls")
    BY <2>3 DEF Life!DecideTool, OpenCalls
  <2> QED BY <2>4 DEF Life!Next, ToolCalls
<1>9. ASSUME NEW decision \in Finalizing, StartFinalize(decision)
      PROVE  UNCHANGED Life!life
  <2>1. /\ task = "waiting" /\ task' \in Finalizing
        /\ saved.stage = "awaiting_final_approval"
    BY <1>9 DEF StartFinalize, AwaitsFinalApproval
  <2>2. task' # "waiting" /\ saved.stage \notin ToolPauses
    BY <2>1 DEF Finalizing, ToolPauses
  <2>3. Phase = "final" /\ Phase' = "final" /\ OpenCalls = {} /\ OpenCalls' = {}
    BY <2>1, <2>2, Mapping, MappingNext DEF PhaseOfTask, CallsOfTask
  <2> QED BY <2>3, LifeStutters
<1>10. CASE RemoveWorktree \/ FinalizeCrash
  <2>1. /\ task \in Finalizing /\ task' \in Finalizing \cup {"waiting"}
        /\ saved' = saved /\ saved.stage = "awaiting_final_approval"
    BY <1>1, <1>10 DEF RemoveWorktree, FinalizeCrash, TaskOK
  <2>2. saved'.stage \notin ToolPauses /\ task # "waiting"
    BY <2>1 DEF Finalizing, ToolPauses
  <2>3. Phase = "final" /\ Phase' = "final" /\ OpenCalls = {} /\ OpenCalls' = {}
    BY <2>1, <2>2, Mapping, MappingNext DEF PhaseOfTask, CallsOfTask
  <2> QED BY <2>3, LifeStutters
<1>11. CASE Finalized
  <2>1. /\ task \in Finalizing
        /\ task' = IF task = "publishing" THEN "completed" ELSE "rejected"
    BY <1>11 DEF Finalized
  <2>2. task # "waiting" /\ task' # "waiting"
    BY <2>1 DEF Finalizing
  <2>3. Phase = "final" /\ OpenCalls = {} /\ OpenCalls' = {}
    BY <2>1, <2>2, Mapping, MappingNext DEF PhaseOfTask, CallsOfTask
  <2>4. CASE task = "publishing"
    <3>1. Phase' = "completed"
      BY <2>1, <2>4, Mapping, MappingNext DEF PhaseOfTask
    <3>2. Life!Complete
      BY <2>3, <3>1 DEF Life!Complete, OpenCalls
    <3> QED BY <3>2 DEF Life!Next
  <2>5. CASE task # "publishing"
    <3>1. Phase' = "cancelled"
      BY <2>1, <2>5, Mapping, MappingNext DEF PhaseOfTask
    <3>2. Life!Cancel
      BY <2>3, <3>1 DEF Life!Cancel, OpenCalls
    <3> QED BY <3>2 DEF Life!Next
  <2> QED BY <2>4, <2>5
<1>12. CASE Crash
  <2>1. /\ task \in {"preparing", "working", "advancing"}
        /\ task' \in {"approved", "decided"}
    BY <1>12 DEF Crash
  <2>2. /\ Phase = "working" /\ Phase' = "queued"
        /\ OpenCalls = {} /\ OpenCalls' = {}
    BY <2>1, Mapping, MappingNext DEF PhaseOfTask, CallsOfTask
  <2>3. Life!StartOver
    BY <2>2 DEF Life!StartOver, OpenCalls
  <2> QED BY <2>3 DEF Life!Next
<1>13. CASE UNCHANGED vars
  <2>1. Phase' = Phase /\ OpenCalls' = OpenCalls
    BY <1>13 DEF vars, Phase, OpenCalls, PendingRequests
  <2> QED BY <2>1, LifeStutters
<1> QED BY <1>4, <1>5, <1>6, <1>7, <1>8, <1>9, <1>10, <1>11, <1>12, <1>13,
           KindsOfSteps
        DEF Pauses, Decide, Finalizes

\* Whatever the coordinator does between two pauses and wherever its process
\* dies, a pause for tools has something to decide and a pause for the final
\* decision has not, the run goes on only when all tools are decided, and it
\* ends well only by the final decision.
THEOREM CoordinatorImplementsLifecycle == Spec => ImplementsLifecycle
<1>1. Init => Life!InitAfterPlan
  BY LifeInit
<1>2. CoordInv /\ CoordInv' /\ [Next]_vars => [Life!Next]_(Life!life)
  BY LifeStep
<1> QED BY <1>1, <1>2, CoordinatorInvariant, PTL
        DEF Spec, ImplementsLifecycle, Life!SpecAfterPlan
=============================================================================
