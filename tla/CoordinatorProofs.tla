-------------------------- MODULE CoordinatorProofs --------------------------
(***************************************************************************)
(* Theorems about Coordinator for any number of workstreams, any fix       *)
(* allowance and any number of crashes.                                    *)
(***************************************************************************)
EXTENDS Coordinator, FiniteSetTheorems, TLAPS

-----------------------------------------------------------------------------
(***************************************************************************)
(* The inductive invariant.  What an execution (the one in memory or the   *)
(* saved one) says at each stage, where the two can differ, what Git holds *)
(* by then, how far a loop has come, and which trees are on disk.  The     *)
(* saved execution takes part in every conjunct that a crash needs: after  *)
(* one, the run goes on from it on whatever Git and the disk hold.         *)
(***************************************************************************)

EarlyStages == {"created", "awaiting_approvals", "work_completed"}
MergeStages == {"merge_conflict", "merge_repair_awaiting_approvals",
                "merge_repair_completed"}
FixStages == {"review_findings", "review_fix_awaiting_approvals"}
LateStages == {"integrating"} \cup MergeStages \cup Integrated

\* The stages at which agents are at work, in the work trees or in the
\* integration tree.
WorkStages == {"created", "awaiting_approvals"}
RepairStages == {"merge_conflict", "merge_repair_awaiting_approvals"} \cup FixStages

TaskOK ==
    /\ saved.stage \in {"created"} \cup PausedStages
    /\ saved.stage = "created" => saved = Created
    /\ task \in {"approved", "preparing"} => state = Created /\ saved = Created
    /\ task \in {"waiting", "decided"} \cup Finalizing =>
          state = saved /\ saved.stage \in PausedStages
    /\ task = "decided" => saved.stage \in ToolPauses
    /\ task \in Finalizing => saved.stage = "awaiting_final_approval"
    /\ task \in {"working", "advancing"} => saved.stage # "awaiting_final_approval"
    /\ task = "working" =>
          \/ state.stage \in WorkStages /\ running \subseteq Works
          \/ state.stage \in RepairStages /\ running = {Integration}
    /\ task # "working" => running = {}
    /\ SavedWorkIsKept

ExecutionOK(e) ==
    /\ e.stage \in EarlyStages => e.merged = {} /\ ~e.integration
    /\ e.stage \in LateStages => e.integration
    /\ e.stage \in MergeStages => e.conflict \in Works \ e.merged
    /\ e.stage \in Integrated => e.merged = Works
    /\ e.stage = "merge_repair_awaiting_approvals" => e.repair = "pending_approval"
    /\ e.stage \in FixStages => e.findings
    /\ e.stage = "review_fix_awaiting_approvals" =>
          e.fix = "pending_approval" /\ e.attempts < MaxFixCycles

SomePending(e) ==
    e.stage = "awaiting_approvals" =>
        \E w \in Works : e.execution[w] = "pending_approval"

StateOK ==
    /\ ExecutionOK(state) /\ ExecutionOK(saved)
    /\ SomePending(saved) /\ (task = "advancing" => SomePending(state))
    /\ task = "working" /\ state.stage = "review_findings" =>
          state.attempts < MaxFixCycles

\* What an execution calls merged is on the integration branch, and the merge
\* it repairs is the open one or, after a crash, already there.
OnBranch(e) ==
    /\ e.merged \cap git.committed \subseteq git.integrated
    /\ e.stage \in MergeStages => e.conflict \in git.integrated \cup {git.merging}

GitOK ==
    /\ state.stage \in LateStages => git.dirty \cap Works = {} /\ OnBranch(state)
    /\ saved.stage \in LateStages => state.stage \in LateStages /\ OnBranch(saved)
    /\ saved.stage \in Integrated => state.stage \in Integrated
    /\ state.stage \in {"integrating"} \cup Integrated => git.merging = NoWork
    /\ git.merging = NoWork => ~git.markers
    /\ ~git.marked
    /\ state.stage \in {"integrating", "integrated"} => Integration \notin git.dirty
    /\ history.crashes = 0 /\ state.stage \in MergeStages => git.merging = state.conflict

LoopOK ==
    \A w \in Works : w < cursor =>
        /\ task = "preparing" => w \in disk.checkouts
        /\ At("work_completed") => w \notin git.dirty
        /\ At("integrating") => w \in state.merged

\* The repairs committed are among the attempts counted: those a crash takes
\* back were not saved with a pause, and the saved count is the one resumed.
ReviewOK ==
    /\ FinalIsVerified
    /\ history.fixes <= MaxFixCycles
    /\ state.stage # "awaiting_final_approval" => history.fixes <= state.attempts
    /\ state.stage = "review_fix_completed" => history.fixes < state.attempts

\* While the run is in the hands of a task or waits for tools.
NeedsTrees ==
    \/ task \in {"working", "advancing", "decided"}
    \/ task = "waiting" /\ saved.stage \in ToolPauses

Branched(e) == e.integration => Integration \in disk.branches
Held(e) == Branched(e) /\ (e.integration => Integration \in disk.checkouts)

\* A finalization that begins anew after a crash can only come to its end when
\* the first removal of the one before had not happened.
DiskOK ==
    /\ NeedsTrees => Works \subseteq disk.checkouts /\ Held(state) /\ Held(saved)
    /\ history.crashes = 0 /\ task = "approved" => disk.checkouts = {}
    /\ history.crashes = 0 /\ ~state.integration => Integration \notin disk.checkouts
    /\ disk.abandoned => history.crashes > 0
    /\ task \in {"waiting"} \cup Finalizing /\ 1 \in disk.checkouts => Branched(saved)
    /\ task \in Finalizing =>
          /\ \A t \in Trees : t < cursor => t \notin disk.checkouts
          /\ \A t \in Works : t < cursor => t \notin disk.branches
    /\ task = "publishing" /\ cursor > 1 => Integration \in disk.branches
    /\ task = "discarding" /\ cursor > Integration => Integration \notin disk.branches
    /\ FinalizedIsClean

CoordInv == TypeOK /\ TaskOK /\ StateOK /\ GitOK /\ LoopOK /\ ReviewOK /\ DiskOK

-----------------------------------------------------------------------------
(* Numbers and kinds of steps *)

LEMMA TreeNumbers ==
    /\ Works \subseteq Nat \ {0} /\ Integration \in Nat
    /\ Integration \notin Works /\ NoWork \notin Works
    /\ Trees = Works \cup {Integration} /\ 1 \in Works
    /\ \A w \in Works : w < Integration
  BY WorkstreamsAssumption DEF Works, Integration, NoWork, Trees

\* Steps of the coordinator that only advance it.
Advance ==
    \/ CommitCompletedWork \/ CreateIntegrationWorktree
    \/ SkipMerged \/ MergeWorktree \/ MergeConflicts \/ IntegrationFinished
    \/ CompleteMergeRepair \/ CompleteReviewFix
    \/ \E passed, accepted \in BOOLEAN :
          ReviewIntegrationWorktree(passed, accepted)

Fails == PreparationFails \/ StartFails \/ FixesExhausted \/ Fail

Prepares == StartCoordinator \/ CreateWorktree

StartsAgents ==
    \/ ExecuteNewWork \/ ResumeWork
    \/ StartMergeConflictRepair \/ ResumeMergeConflictRepair
    \/ StartReviewFix \/ ResumeReviewFix

AgentWorks ==
    \/ \E t \in Trees : AgentChangesFiles(t)
    \/ \E w \in Works, status \in Statuses : WorkerReturns(w, status)

AgentsReturn ==
    \/ WorkReturned
    \/ \E status \in Statuses : MergeRepairReturns(status) \/ ReviewFixReturns(status)

Pauses == SavePause \/ Decide

Finalizes == RemoveWorktree \/ Finalized \/ FinalizeCrash

LEMMA KindsOfSteps ==
    ASSUME [Next]_vars
    PROVE  \/ Advance \/ Fails \/ Prepares \/ StartsAgents \/ AgentWorks
           \/ AgentsReturn \/ Pauses \/ Finalizes \/ Crash \/ UNCHANGED vars
  BY DEF Next, Coordinate, Decide, Advance, Fails, Prepares, StartsAgents,
         AgentWorks, AgentsReturn, Pauses, Finalizes

-----------------------------------------------------------------------------
(* Types *)

LEMMA TypeInit == Init => TypeOK
<1> SUFFICES ASSUME Init PROVE TypeOK
  OBVIOUS
<1>1. Created \in CoordinatorExecutions
  BY FixAssumption DEF Created, CoordinatorExecutions, Stages, Executions
<1>2. BaseBranch \in GitStates
  BY DEF BaseBranch, GitStates
<1>3. disk \in DiskStates /\ history \in Histories
  BY FixAssumption, CrashAssumption DEF Init, DiskStates, Histories, ManyFixes
<1> QED BY <1>1, <1>2, <1>3, TreeNumbers DEF Init, TypeOK, TaskStates

LEMMA UnreviewedTyped == TypeOK => Unreviewed \in Histories
  BY DEF TypeOK, Unreviewed, Histories

LEMMA CommittedTyped ==
    ASSUME TypeOK, NEW t \in Trees
    PROVE  Committed(t) \in GitStates
<1> DEFINE marked == git.marked \/ (t = Integration /\ git.markers)
<1>1. marked \in BOOLEAN
  BY DEF TypeOK, GitStates
<1> HIDE DEF marked
<1>2. [git EXCEPT !.dirty = @ \ {t}, !.committed = @ \cup ({t} \cap Works),
                  !.integrated = @ \ {t}, !.marked = marked] \in GitStates
  BY <1>1 DEF TypeOK, GitStates
<1> QED BY <1>2 DEF Committed, TypeOK, marked

\* TaskOK and StateOK are needed where a counter or a conflict is used.
LEMMA AdvanceTyped ==
    ASSUME TypeOK, TaskOK, StateOK, Advance
    PROVE  TypeOK'
<1> USE TreeNumbers DEF At
<1>1. /\ state \in CoordinatorExecutions /\ git \in GitStates
      /\ disk \in DiskStates /\ history \in Histories
      /\ cursor \in 1..(Integration + 1)
  BY DEF TypeOK
<1>2. CASE CommitCompletedWork
  <2>1. git' \in GitStates
    BY <1>2, CommittedTyped DEF CommitCompletedWork
  <2>2. cursor' \in 1..(Integration + 1)
    BY <1>2 DEF CommitCompletedWork
  <2> QED BY <1>2, <2>1, <2>2 DEF TypeOK, CommitCompletedWork
<1>3. CASE CreateIntegrationWorktree
  <2>1. state' \in CoordinatorExecutions
    BY <1>1, <1>3 DEF CreateIntegrationWorktree, CoordinatorExecutions, Stages
  <2>2. disk' \in DiskStates
    <3> DEFINE left == disk.abandoned \/ Integration \in disk.checkouts
    <3>1. left \in BOOLEAN
      BY <1>1 DEF DiskStates
    <3>2. disk' = [checkouts |-> disk.checkouts \cup {Integration},
                   branches |-> disk.branches \cup {Integration},
                   abandoned |-> left]
      BY <1>3 DEF CreateIntegrationWorktree
    <3> HIDE DEF left
    <3> QED BY <1>1, <3>1, <3>2 DEF DiskStates
  <2>3. git' \in GitStates
    BY <1>1, <1>3 DEF CreateIntegrationWorktree, GitStates
  <2> QED BY <1>3, <2>1, <2>2, <2>3, UnreviewedTyped DEF TypeOK, CreateIntegrationWorktree
<1>4. CASE SkipMerged
  <2>1. cursor' \in 1..(Integration + 1)
    BY <1>1, <1>4 DEF SkipMerged, CoordinatorExecutions
  <2> QED BY <1>4, <2>1 DEF TypeOK, SkipMerged
<1>5. CASE MergeWorktree
  <2>1. state' \in CoordinatorExecutions
    BY <1>1, <1>5 DEF MergeWorktree, CoordinatorExecutions
  <2>2. git' \in GitStates
    BY <1>1, <1>5 DEF MergeWorktree, GitStates
  <2>3. cursor' \in 1..(Integration + 1)
    BY <1>5 DEF MergeWorktree
  <2> QED BY <1>5, <2>1, <2>2, <2>3, UnreviewedTyped DEF TypeOK, MergeWorktree
<1>6. CASE MergeConflicts
  <2>1. state' \in CoordinatorExecutions
    BY <1>1, <1>6 DEF MergeConflicts, StateInConflict, CoordinatorExecutions,
                      Stages, Executions
  <2>2. git' \in GitStates
    <3>1. PICK found \in BOOLEAN :
              git' = [git EXCEPT !.merging = cursor, !.markers = found,
                                 !.dirty = @ \cup {Integration}]
      BY <1>6 DEF MergeConflicts
    <3>2. cursor \in Works
      BY <1>6 DEF MergeConflicts
    <3> QED BY <1>1, <3>1, <3>2 DEF GitStates
  <2> QED BY <1>6, <2>1, <2>2, UnreviewedTyped DEF TypeOK, MergeConflicts
<1>7. CASE IntegrationFinished
  <2>1. state' \in CoordinatorExecutions
    BY <1>1, <1>7 DEF IntegrationFinished, CoordinatorExecutions, Stages
  <2> QED BY <1>7, <2>1 DEF TypeOK, IntegrationFinished
<1>8. CASE CompleteMergeRepair
  <2>1. state.conflict \in Works
    BY <1>8 DEF CompleteMergeRepair, StateOK, ExecutionOK, MergeStages
  <2>2. state' \in CoordinatorExecutions
    BY <1>1, <1>8, <2>1 DEF CompleteMergeRepair, CoordinatorExecutions, Stages,
                            Executions
  <2>3. git.merging \in Works
    BY <1>1, <1>8 DEF CompleteMergeRepair, MergeCanComplete, GitStates
  <2>4. git' \in GitStates
    <3> DEFINE marked == git.marked \/ git.markers
    <3>1. marked \in BOOLEAN
      BY <1>1 DEF GitStates
    <3>2. git' = [git EXCEPT !.dirty = @ \ {Integration},
                             !.integrated = @ \cup {git.merging},
                             !.merging = NoWork, !.markers = FALSE,
                             !.marked = marked]
      BY <1>8 DEF CompleteMergeRepair
    <3> HIDE DEF marked
    <3> QED BY <1>1, <2>3, <3>1, <3>2 DEF GitStates
  <2> QED BY <1>8, <2>2, <2>4, UnreviewedTyped DEF TypeOK, CompleteMergeRepair
<1>9. CASE CompleteReviewFix
  <2>1. state' \in CoordinatorExecutions
    BY <1>1, <1>9 DEF CompleteReviewFix, CoordinatorExecutions, Stages
  <2>2. git' \in GitStates
    BY <1>9, CommittedTyped DEF CompleteReviewFix
  <2>3. history' \in Histories
    <3> DEFINE fixes == IF history.fixes < ManyFixes THEN history.fixes + 1
                                                     ELSE history.fixes
    <3>1. fixes \in 0..ManyFixes
      BY <1>1, FixAssumption DEF Histories, ManyFixes
    <3>2. history' = [Unreviewed EXCEPT !.fixes = fixes]
      BY <1>1, <1>9 DEF CompleteReviewFix, Unreviewed, Histories
    <3> HIDE DEF fixes
    <3> QED BY <3>1, <3>2, UnreviewedTyped DEF Histories
  <2> QED BY <1>9, <2>1, <2>2, <2>3 DEF TypeOK, CompleteReviewFix
<1>10. ASSUME NEW passed \in BOOLEAN, NEW accepted \in BOOLEAN,
              ReviewIntegrationWorktree(passed, accepted)
       PROVE  TypeOK'
  <2>1. state' \in CoordinatorExecutions
    <3>1. [state EXCEPT !.stage = "awaiting_final_approval", !.findings = FALSE,
                        !.attempts = 0, !.fix = "none"] \in CoordinatorExecutions
      <4>1. 0 \in 0..MaxFixCycles
        BY FixAssumption
      <4>2. "awaiting_final_approval" \in Stages /\ "none" \in Executions
        BY DEF Stages, Executions
      <4> QED BY <1>1, <4>1, <4>2 DEF CoordinatorExecutions
    <3>2. [state EXCEPT !.stage = "review_findings", !.findings = TRUE,
                        !.fix = "none"] \in CoordinatorExecutions
      BY <1>1 DEF CoordinatorExecutions, Stages, Executions
    <3> QED BY <1>10, <3>1, <3>2 DEF ReviewIntegrationWorktree
  <2>2. git' \in GitStates
    BY <1>1, <1>10 DEF ReviewIntegrationWorktree, GitStates
  <2>3. history' \in Histories
    BY <1>1, <1>10 DEF ReviewIntegrationWorktree, Histories
  <2> QED BY <1>10, <2>1, <2>2, <2>3 DEF TypeOK, ReviewIntegrationWorktree
<1> QED BY <1>2, <1>3, <1>4, <1>5, <1>6, <1>7, <1>8, <1>9, <1>10 DEF Advance

LEMMA CleanedTyped ==
    ASSUME disk \in DiskStates, NEW stop
    PROVE  CleanedDownTo(stop) \in DiskStates
  BY DEF CleanedDownTo, DiskStates

LEMMA OtherTyped ==
    ASSUME TypeOK, TaskOK, StateOK,
           \/ Fails \/ Prepares \/ StartsAgents \/ AgentWorks
           \/ AgentsReturn \/ Pauses \/ Finalizes \/ Crash \/ UNCHANGED vars
    PROVE  TypeOK'
<1> USE TreeNumbers DEF At
<1>1. /\ state \in CoordinatorExecutions /\ saved \in CoordinatorExecutions
      /\ git \in GitStates /\ disk \in DiskStates /\ history \in Histories
      /\ cursor \in 1..(Integration + 1)
  BY DEF TypeOK
<1>2. CASE Fails
  BY <1>2, CleanedTyped
     DEF Fails, PreparationFails, StartFails, FixesExhausted, Fail, TypeOK,
         TaskStates
<1>3. CASE StartCoordinator
  <2>1. Created \in CoordinatorExecutions
    BY FixAssumption DEF Created, CoordinatorExecutions, Stages, Executions
  <2>2. BaseBranch \in GitStates
    BY DEF BaseBranch, GitStates
  <2>3. disk' \in DiskStates
    <3> DEFINE left == disk.abandoned \/ disk.checkouts # {}
    <3>1. left \in BOOLEAN
      BY <1>1 DEF DiskStates
    <3>2. disk' = [checkouts |-> {}, branches |-> {}, abandoned |-> left]
      BY <1>3 DEF StartCoordinator
    <3> HIDE DEF left
    <3> QED BY <3>1, <3>2 DEF DiskStates
  <2> QED BY <1>3, <2>1, <2>2, <2>3 DEF StartCoordinator, TypeOK, TaskStates
<1>4. CASE CreateWorktree
  <2>1. disk' \in DiskStates
    BY <1>1, <1>4 DEF CreateWorktree, DiskStates
  <2>2. cursor' \in 1..(Integration + 1)
    BY <1>4 DEF CreateWorktree
  <2> QED BY <1>4, <2>1, <2>2 DEF CreateWorktree, TypeOK
<1>5. CASE StartsAgents
  BY <1>5 DEF StartsAgents, ExecuteNewWork, ResumeWork, StartMergeConflictRepair,
              ResumeMergeConflictRepair, StartReviewFix, ResumeReviewFix, RepairTakenUp,
              PendingWork, TypeOK, TaskStates
<1>6. ASSUME NEW t \in Trees, AgentChangesFiles(t) PROVE TypeOK'
  <2>1. git' \in GitStates
    <3>1. PICK left \in BOOLEAN :
              git' = [git EXCEPT !.dirty = @ \cup {t}, !.markers = left]
      BY <1>1, <1>6 DEF AgentChangesFiles, GitStates
    <3> QED BY <1>1, <3>1 DEF GitStates
  <2>2. history' \in Histories
    BY <1>1, <1>6, UnreviewedTyped DEF AgentChangesFiles
  <2> QED BY <1>6, <2>1, <2>2 DEF AgentChangesFiles, TypeOK
<1>7. ASSUME NEW w \in Works, NEW status \in Statuses, WorkerReturns(w, status)
      PROVE  TypeOK'
  <2>1. state' \in CoordinatorExecutions
    BY <1>1, <1>7 DEF WorkerReturns, Statuses, CoordinatorExecutions, Executions
  <2> QED BY <1>7, <2>1 DEF WorkerReturns, TypeOK
<1>8. CASE WorkReturned
  <2>1. StageOfWork(state.execution) \in Stages
    BY DEF StageOfWork, Stages
  <2>2. state' \in CoordinatorExecutions
    BY <1>1, <1>8, <2>1 DEF WorkReturned, CoordinatorExecutions
  <2>3. history' \in Histories
    <3> DEFINE done == {w \in Works : state.execution[w] = "completed"}
    <3>1. history' = [history EXCEPT !.finished = @ \cup done] /\ done \subseteq Works
      BY <1>8 DEF WorkReturned
    <3> HIDE DEF done
    <3> QED BY <1>1, <3>1 DEF Histories
  <2> QED BY <1>8, <2>2, <2>3 DEF WorkReturned, TypeOK, TaskStates
<1>9. ASSUME NEW status \in Statuses, MergeRepairReturns(status) PROVE TypeOK'
  <2> DEFINE stage == IF status = "pending_approval"
                        THEN "merge_repair_awaiting_approvals"
                        ELSE "merge_repair_completed"
  <2>1. stage \in Stages /\ status \in Executions
    BY DEF Stages, Statuses, Executions
  <2>2. state' = [state EXCEPT !.stage = stage, !.repair = status]
    BY <1>9 DEF MergeRepairReturns
  <2> HIDE DEF stage
  <2>3. state' \in CoordinatorExecutions
    BY <1>1, <2>1, <2>2 DEF CoordinatorExecutions
  <2> QED BY <1>9, <2>3 DEF MergeRepairReturns, TypeOK, TaskStates
<1>10. ASSUME NEW status \in Statuses, ReviewFixReturns(status) PROVE TypeOK'
  <2> DEFINE stage == IF status = "pending_approval"
                        THEN "review_fix_awaiting_approvals"
                        ELSE "review_fix_completed"
             attempts == AttemptsAfter(status)
  <2>1. stage \in Stages /\ status \in Executions
    BY DEF Stages, Statuses, Executions
  <2>2. attempts \in 0..MaxFixCycles
    <3>1. state.attempts \in 0..MaxFixCycles
      BY <1>1 DEF CoordinatorExecutions
    <3>2. state.attempts < MaxFixCycles
      BY <1>10 DEF ReviewFixReturns, StateOK, ExecutionOK
    <3> QED BY <3>1, <3>2, FixAssumption DEF AttemptsAfter
  <2>3. state' = [state EXCEPT !.stage = stage, !.attempts = attempts,
                               !.fix = status]
    BY <1>10 DEF ReviewFixReturns
  <2> HIDE DEF stage, attempts
  <2>4. state' \in CoordinatorExecutions
    BY <1>1, <2>1, <2>2, <2>3 DEF CoordinatorExecutions
  <2> QED BY <1>10, <2>4 DEF ReviewFixReturns, TypeOK, TaskStates
<1>11. CASE Pauses
  <2>1. CASE SavePause \/ ToolsDecided
    BY <2>1 DEF SavePause, ToolsDecided, TypeOK, TaskStates
  <2>2. ASSUME NEW decision \in Finalizing, StartFinalize(decision) PROVE TypeOK'
    BY <2>2 DEF StartFinalize, Finalizing, TypeOK, TaskStates
  <2> QED BY <1>11, <2>1, <2>2 DEF Pauses, Decide
<1>12. CASE RemoveWorktree
  <2>1. disk' \in DiskStates
    BY <1>1, <1>12 DEF RemoveWorktree, DiskStates
  <2>2. cursor' \in 1..(Integration + 1)
    BY <1>12 DEF RemoveWorktree, GeneratedTrees, Trees
  <2> QED BY <1>12, <2>1, <2>2 DEF RemoveWorktree, TypeOK
<1>13. CASE Finalized
  BY <1>13 DEF Finalized, TypeOK, TaskStates
<1>14. CASE FinalizeCrash
  <2>1. disk' \in DiskStates
    BY <1>1, <1>14 DEF FinalizeCrash, DiskStates
  <2>2. history' \in Histories
    BY <1>1, <1>14, CrashAssumption DEF FinalizeCrash, Histories
  <2> QED BY <1>14, <2>1, <2>2 DEF FinalizeCrash, TypeOK, TaskStates
<1>15. CASE Crash
  <2>1. history' \in Histories
    <3> DEFINE crashes == history.crashes + 1
    <3>1. crashes \in 0..MaxCrashes
      BY <1>1, <1>15, CrashAssumption DEF Crash, Histories
    <3>2. saved.attempts \in 0..ManyFixes
      BY <1>1, FixAssumption DEF ManyFixes, CoordinatorExecutions
    <3>3. history' = [history EXCEPT !.crashes = crashes, !.fixes = saved.attempts]
      BY <1>15 DEF Crash
    <3> HIDE DEF crashes
    <3> QED BY <1>1, <3>1, <3>2, <3>3 DEF Histories
  <2> QED BY <1>15, <2>1 DEF Crash, TypeOK, TaskStates
<1>16. CASE UNCHANGED vars
  BY <1>16 DEF vars, TypeOK
<1> QED BY <1>2, <1>3, <1>4, <1>5, <1>6, <1>7, <1>8, <1>9, <1>10, <1>11, <1>12,
           <1>13, <1>14, <1>15, <1>16
        DEF Prepares, AgentWorks, AgentsReturn, Finalizes

-----------------------------------------------------------------------------
(* The task, the agents and the two executions *)

LEMMA CreatedFacts ==
    /\ Created.stage = "created" /\ Created.merged = {} /\ ~Created.integration
    /\ Created.attempts = 0
    /\ \A w \in Works : Created.execution[w] = "none"
  BY DEF Created

LEMMA TaskInit == Init => TaskOK
  BY CreatedFacts DEF Init, TaskOK, SavedWorkIsKept, PausedStages, ToolPauses,
                      Finalizing

\* A step after which no agent runs and the saved execution is what it was.
LEMMA AgentsStopped ==
    ASSUME running' = {}
    PROVE  SavedWorkIsKept' /\ (task' # "working" => running' = {})
  BY DEF SavedWorkIsKept

LEMMA TaskStep ==
    ASSUME TypeOK, TaskOK, StateOK, [Next]_vars
    PROVE  TaskOK'
<1> USE TreeNumbers DEF At
<1> USE DEF PausedStages, ToolPauses, Finalizing
<1>1. /\ state \in CoordinatorExecutions /\ saved \in CoordinatorExecutions
      /\ running \subseteq Trees
  BY DEF TypeOK
<1>2. CASE Advance
  <2>1. UNCHANGED <<task, saved, running>> /\ task = "advancing"
    BY <1>2 DEF Advance, CommitCompletedWork, CreateIntegrationWorktree,
                SkipMerged, MergeWorktree, MergeConflicts, IntegrationFinished,
                CompleteMergeRepair, CompleteReviewFix, ReviewIntegrationWorktree
  <2> QED BY <2>1 DEF TaskOK, SavedWorkIsKept
<1>3. CASE Fails
  <2>1. task' = "failed" /\ running' = {} /\ UNCHANGED saved
    BY <1>3 DEF Fails, PreparationFails, StartFails, FixesExhausted, Fail, TaskOK
  <2> QED BY <2>1, AgentsStopped DEF TaskOK
<1>4. CASE Prepares
  <2>1. /\ task \in {"approved", "preparing"} /\ task' = "preparing"
        /\ state' \in {state, Created} /\ UNCHANGED <<saved, running>>
    BY <1>4 DEF Prepares, StartCoordinator, CreateWorktree
  <2> QED BY <2>1, CreatedFacts DEF TaskOK, SavedWorkIsKept
<1>5. CASE StartsAgents
  <2>1. CASE ExecuteNewWork
    <3>1. /\ task' = "working" /\ running' = Works
          /\ state' = Created /\ saved' = Created
      BY <2>1 DEF ExecuteNewWork, TaskOK
    <3> QED BY <3>1, CreatedFacts DEF TaskOK, SavedWorkIsKept, WorkStages
  <2>2. CASE ResumeWork
    <3>1. /\ task' = "working" /\ running' = PendingWork
          /\ state' = saved /\ saved' = saved
          /\ saved.stage = "awaiting_approvals"
      BY <2>2 DEF ResumeWork
    <3> QED BY <3>1 DEF TaskOK, SavedWorkIsKept, PendingWork, WorkStages
  <2>3. CASE \/ StartMergeConflictRepair \/ ResumeMergeConflictRepair
             \/ StartReviewFix \/ ResumeReviewFix
    <3>1. task' = "working" /\ running' = {Integration} /\ UNCHANGED saved
      BY <2>3 DEF StartMergeConflictRepair, ResumeMergeConflictRepair,
                  StartReviewFix, ResumeReviewFix, RepairTakenUp
    <3>2. state'.stage \in RepairStages
      BY <2>3 DEF StartMergeConflictRepair, ResumeMergeConflictRepair,
                  StartReviewFix, ResumeReviewFix, RepairTakenUp, RepairStages, FixStages
    <3>3. task \in {"decided", "advancing"}
      BY <2>3 DEF StartMergeConflictRepair, ResumeMergeConflictRepair,
                  StartReviewFix, ResumeReviewFix, RepairTakenUp
    <3> QED BY <3>1, <3>2, <3>3 DEF TaskOK, SavedWorkIsKept
  <2> QED BY <1>5, <2>1, <2>2, <2>3 DEF StartsAgents
<1>6. CASE AgentWorks
  <2>1. /\ task = "working" /\ UNCHANGED <<task, saved>>
        /\ running' \subseteq running
    BY <1>6 DEF AgentWorks, AgentChangesFiles, WorkerReturns
  <2>2. state'.stage = state.stage
    BY <1>1, <1>6 DEF AgentWorks, AgentChangesFiles, WorkerReturns,
                      CoordinatorExecutions
  <2>3. running' # running => running \cap Works # {}
    BY <1>6 DEF AgentWorks, AgentChangesFiles, WorkerReturns
  <2> QED BY <2>1, <2>2, <2>3 DEF TaskOK, SavedWorkIsKept
<1>7. CASE AgentsReturn
  <2>1. /\ task = "working" /\ task' = "advancing" /\ running' = {}
        /\ UNCHANGED saved
    BY <1>7 DEF AgentsReturn, WorkReturned, MergeRepairReturns, ReviewFixReturns
  <2> QED BY <2>1, AgentsStopped DEF TaskOK
<1>8. CASE SavePause
  <2>1. /\ task' = "waiting" /\ saved' = state /\ state' = state
        /\ state.stage \in PausedStages /\ running' = {}
    BY <1>8 DEF SavePause, TaskOK
  <2> QED BY <2>1, AgentsStopped DEF TaskOK
<1>9. CASE Decide
  <2>1. /\ task = "waiting" /\ UNCHANGED <<saved, running>>
        /\ state' = saved
        /\ \/ task' = "decided" /\ saved.stage \in ToolPauses
           \/ task' \in Finalizing /\ saved.stage = "awaiting_final_approval"
    BY <1>9 DEF Decide, ToolsDecided, StartFinalize, AwaitsFinalApproval, TaskOK
  <2> QED BY <2>1 DEF TaskOK, SavedWorkIsKept
<1>10. CASE Finalizes
  <2>1. /\ task \in Finalizing /\ UNCHANGED <<state, saved, running>>
        /\ task' \in Finalizing \cup {"completed", "rejected", "waiting"}
    BY <1>10 DEF Finalizes, RemoveWorktree, Finalized, FinalizeCrash
  <2> QED BY <2>1 DEF TaskOK, SavedWorkIsKept
<1>11. CASE Crash
  <2>1. /\ saved' = saved /\ state' = saved /\ running' = {}
        /\ task \in {"preparing", "working", "advancing"}
        /\ task' = IF saved.stage = "created" THEN "approved" ELSE "decided"
    BY <1>11 DEF Crash
  <2> QED BY <2>1, AgentsStopped, CreatedFacts DEF TaskOK
<1>12. CASE UNCHANGED vars
  BY <1>12 DEF vars, TaskOK, SavedWorkIsKept
<1> QED BY <1>2, <1>3, <1>4, <1>5, <1>6, <1>7, <1>8, <1>9, <1>10, <1>11, <1>12,
           KindsOfSteps
        DEF Pauses

-----------------------------------------------------------------------------
(* What the executions say *)

LEMMA StateInit == Init => StateOK
  BY CreatedFacts DEF Init, StateOK, ExecutionOK, SomePending, LateStages,
                      MergeStages, FixStages, Integrated

\* A step that leaves both executions alone, or one that takes the saved one up.
LEMMA SavedIsGood ==
    ASSUME StateOK, UNCHANGED saved, state' \in {state, saved},
           task' = "advancing" => task = "advancing" /\ state' = state,
           task' = "working" /\ state'.stage = "review_findings" =>
              state'.attempts < MaxFixCycles
    PROVE  StateOK'
  BY DEF StateOK, ExecutionOK, SomePending

\* What a stage says of the sets of stages it belongs to.
LEMMA StageKinds ==
    /\ LateStages \cap EarlyStages = {}
    /\ MergeStages \subseteq LateStages /\ Integrated \subseteq LateStages
    /\ FixStages \subseteq Integrated
    /\ MergeStages \cap Integrated = {}
    /\ "integrating" \in LateStages \ (MergeStages \cup Integrated)
    /\ \A stage \in Stages : stage \in EarlyStages \cup LateStages
  BY DEF LateStages, EarlyStages, MergeStages, Integrated, FixStages, Stages

\* The next execution, without agents in between: all of the old one but what
\* the step says.
LEMMA StateAdvances ==
    ASSUME StateOK, UNCHANGED <<saved, task>>, task = "advancing",
           ExecutionOK(state)', state'.stage # "awaiting_approvals"
    PROVE  StateOK'
  BY DEF StateOK, ExecutionOK, SomePending

LEMMA StateAdvanceStep ==
    ASSUME TypeOK, TaskOK, StateOK, LoopOK, Advance
    PROVE  StateOK'
<1> USE DEF At
<1> USE TreeNumbers
<1>1. state \in CoordinatorExecutions /\ ExecutionOK(state)
  BY DEF TypeOK, StateOK
<1>2. UNCHANGED <<saved, task>> /\ task = "advancing"
  BY DEF Advance, CommitCompletedWork, CreateIntegrationWorktree, SkipMerged,
         MergeWorktree, MergeConflicts, IntegrationFinished, CompleteMergeRepair,
         CompleteReviewFix, ReviewIntegrationWorktree
<1>3. CASE CommitCompletedWork \/ SkipMerged
  BY <1>2, <1>3, StateAdvances DEF CommitCompletedWork, SkipMerged, StateOK, ExecutionOK
<1>4. CASE CreateIntegrationWorktree
  <2>1. state'.stage = "integrating" /\ state'.integration
    BY <1>1, <1>4 DEF CreateIntegrationWorktree, CoordinatorExecutions
  <2> QED BY <1>2, <2>1, StateAdvances
          DEF ExecutionOK, EarlyStages, MergeStages, Integrated, FixStages
<1>5. CASE MergeWorktree
  <2>1. state'.stage = "integrating" /\ state.stage = "integrating"
        /\ state'.integration = state.integration
    BY <1>1, <1>5 DEF MergeWorktree, CoordinatorExecutions
  <2> QED BY <1>1, <1>2, <2>1, StateAdvances
          DEF ExecutionOK, EarlyStages, MergeStages, Integrated, FixStages, LateStages
<1>6. CASE MergeConflicts
  <2>1. /\ state'.stage = "merge_conflict" /\ state.stage = "integrating"
        /\ state'.conflict = cursor /\ state'.merged = state.merged
        /\ cursor \in Works \ state.merged
    BY <1>1, <1>6 DEF MergeConflicts, StateInConflict, CoordinatorExecutions
  <2>2. state'.integration = state.integration
    BY <1>1, <1>6 DEF MergeConflicts, StateInConflict, CoordinatorExecutions
  <2> QED BY <1>1, <1>2, <2>1, <2>2, StateAdvances
          DEF ExecutionOK, EarlyStages, MergeStages, Integrated, FixStages, LateStages
<1>7. CASE IntegrationFinished
  <2>1. /\ state'.stage = "integrated" /\ state.stage = "integrating"
        /\ state'.merged = state.merged /\ cursor \notin Works
    BY <1>1, <1>7 DEF IntegrationFinished, CoordinatorExecutions
  <2>2. state'.integration = state.integration
    BY <1>1, <1>7 DEF IntegrationFinished, CoordinatorExecutions
  <2>3. \A w \in Works : w < cursor
    BY <2>1, WorkstreamsAssumption DEF Works, Integration, TypeOK
  <2>4. state.merged = Works
    BY <1>1, <1>2, <2>1, <2>3 DEF LoopOK, CoordinatorExecutions
  <2> QED BY <1>1, <1>2, <2>1, <2>2, <2>4, StateAdvances
          DEF ExecutionOK, EarlyStages, MergeStages, Integrated, FixStages, LateStages
<1>8. CASE CompleteMergeRepair
  <2>1. state'.stage = "integrating" /\ state.stage = "merge_repair_completed"
        /\ state'.integration = state.integration
    BY <1>1, <1>8 DEF CompleteMergeRepair, CoordinatorExecutions
  <2> QED BY <1>1, <1>2, <2>1, StateAdvances
          DEF ExecutionOK, EarlyStages, MergeStages, Integrated, FixStages, LateStages
<1>9. CASE CompleteReviewFix
  <2>1. /\ state'.stage = "integrated" /\ state.stage = "review_fix_completed"
        /\ state'.merged = state.merged
    BY <1>1, <1>9 DEF CompleteReviewFix, CoordinatorExecutions
  <2>2. state'.integration = state.integration
    BY <1>1, <1>9 DEF CompleteReviewFix, CoordinatorExecutions
  <2> QED BY <1>1, <1>2, <2>1, <2>2, StateAdvances
          DEF ExecutionOK, EarlyStages, MergeStages, Integrated, FixStages, LateStages
<1>10. ASSUME NEW passed \in BOOLEAN, NEW accepted \in BOOLEAN,
              ReviewIntegrationWorktree(passed, accepted)
       PROVE  StateOK'
  <2>1. state.stage = "integrated"
    BY <1>10 DEF ReviewIntegrationWorktree
  <2>2. CASE state' = [state EXCEPT !.stage = "awaiting_final_approval",
                          !.findings = FALSE, !.attempts = 0, !.fix = "none"]
    <3>1. /\ state'.stage = "awaiting_final_approval"
          /\ state'.merged = state.merged
      BY <1>1, <2>2 DEF CoordinatorExecutions
    <3>2. state'.integration = state.integration
      BY <1>1, <2>2 DEF CoordinatorExecutions
    <3> QED BY <1>1, <1>2, <2>1, <3>1, <3>2, StateAdvances
            DEF ExecutionOK, EarlyStages, MergeStages, Integrated, FixStages,
                LateStages
  <2>3. CASE state' = [state EXCEPT !.stage = "review_findings",
                                    !.findings = TRUE, !.fix = "none"]
    <3>1. /\ state'.stage = "review_findings"
          /\ state'.merged = state.merged
      BY <1>1, <2>3 DEF CoordinatorExecutions
    <3>2. state'.integration = state.integration /\ state'.findings
      BY <1>1, <2>3 DEF CoordinatorExecutions
    <3> QED BY <1>1, <1>2, <2>1, <3>1, <3>2, StateAdvances
            DEF ExecutionOK, EarlyStages, MergeStages, Integrated, FixStages,
                LateStages
  <2> QED BY <1>10, <2>2, <2>3 DEF ReviewIntegrationWorktree
<1> QED BY <1>3, <1>4, <1>5, <1>6, <1>7, <1>8, <1>9, <1>10 DEF Advance

LEMMA StateOtherStep ==
    ASSUME TypeOK, TaskOK, StateOK,
           \/ Fails \/ Prepares \/ StartsAgents \/ AgentWorks
           \/ AgentsReturn \/ Pauses \/ Finalizes \/ Crash \/ UNCHANGED vars
    PROVE  StateOK'
<1> USE DEF At, PausedStages, ToolPauses, Finalizing
<1>1. /\ state \in CoordinatorExecutions /\ ExecutionOK(state)
      /\ saved.stage \in {"created"} \cup PausedStages
  BY DEF TypeOK, StateOK, TaskOK
<1>2. CASE Fails \/ Finalizes
  <2>1. /\ UNCHANGED <<state, saved>>
        /\ task' \in Finalizing \cup {"failed", "completed", "rejected", "waiting"}
    BY <1>2 DEF Fails, PreparationFails, StartFails, FixesExhausted, Fail,
                Finalizes, RemoveWorktree, Finalized, FinalizeCrash
  <2> QED BY <2>1, SavedIsGood
<1>3. CASE Prepares
  <2>1. task' = "preparing" /\ state' = state /\ UNCHANGED saved
    BY <1>3 DEF Prepares, StartCoordinator, CreateWorktree, TaskOK
  <2> QED BY <2>1, SavedIsGood
<1>4. CASE StartsAgents
  <2>1. /\ state' \in {state, saved} /\ UNCHANGED saved /\ task' = "working"
    BY <1>4 DEF StartsAgents, ExecuteNewWork, ResumeWork, StartMergeConflictRepair,
                ResumeMergeConflictRepair, StartReviewFix, ResumeReviewFix, RepairTakenUp
  <2>2. ASSUME state'.stage = "review_findings"
        PROVE  state'.attempts < MaxFixCycles
    BY <1>4, <2>2, CreatedFacts
       DEF StartsAgents, ExecuteNewWork, ResumeWork, StartMergeConflictRepair,
           ResumeMergeConflictRepair, StartReviewFix, ResumeReviewFix, RepairTakenUp,
           MayFixAgain, TaskOK
  <2> QED BY <2>1, <2>2, SavedIsGood
<1>5. CASE AgentWorks
  <2>1. task = "working" /\ UNCHANGED <<task, saved>>
    BY <1>5 DEF AgentWorks, AgentChangesFiles, WorkerReturns
  <2>2. CASE state' = state
    BY <2>1, <2>2, SavedIsGood DEF StateOK
  <2>3. ASSUME NEW w \in Works, NEW status \in Statuses, WorkerReturns(w, status)
        PROVE  StateOK'
    <3>1. state.stage \in WorkStages
      BY <2>1, <2>3, TreeNumbers DEF WorkerReturns, TaskOK
    <3>2. state'.stage = state.stage /\ state'.merged = state.merged
      BY <1>1, <2>3 DEF WorkerReturns, CoordinatorExecutions
    <3>3. state'.integration = state.integration
      BY <1>1, <2>3 DEF WorkerReturns, CoordinatorExecutions
    <3>4. ExecutionOK(state)'
      BY <1>1, <3>1, <3>2, <3>3
         DEF ExecutionOK, WorkStages, EarlyStages, LateStages, MergeStages,
             Integrated, FixStages
    <3> QED BY <2>1, <3>1, <3>2, <3>4 DEF StateOK, ExecutionOK, SomePending, WorkStages
  <2> QED BY <1>5, <2>2, <2>3 DEF AgentWorks, AgentChangesFiles
<1>6. CASE WorkReturned
  <2>1. state.stage \in WorkStages /\ UNCHANGED saved
    BY <1>6 DEF WorkReturned, TaskOK
  <2>2. /\ state'.stage = StageOfWork(state.execution)
        /\ state'.merged = state.merged
        /\ state'.execution = state.execution
    BY <1>1, <1>6 DEF WorkReturned, CoordinatorExecutions
  <2>3. state'.integration = state.integration
    BY <1>1, <1>6 DEF WorkReturned, CoordinatorExecutions
  <2>4. ExecutionOK(state)'
    BY <1>1, <2>1, <2>2, <2>3
       DEF ExecutionOK, StageOfWork, WorkStages, EarlyStages, LateStages,
           MergeStages, Integrated, FixStages
  <2>5. SomePending(state)'
    BY <2>2 DEF SomePending, StageOfWork
  <2>6. task' = "advancing"
    BY <1>6 DEF WorkReturned
  <2> QED BY <2>1, <2>4, <2>5, <2>6 DEF StateOK, ExecutionOK, SomePending
<1>7. ASSUME NEW status \in Statuses, MergeRepairReturns(status) PROVE StateOK'
  <2>1. /\ state.stage \in MergeStages /\ UNCHANGED saved /\ task' = "advancing"
    BY <1>7 DEF MergeRepairReturns, MergeStages
  <2>2. /\ state'.stage = IF status = "pending_approval"
                            THEN "merge_repair_awaiting_approvals"
                            ELSE "merge_repair_completed"
        /\ state'.repair = status
        /\ state'.merged = state.merged /\ state'.conflict = state.conflict
    BY <1>1, <1>7 DEF MergeRepairReturns, CoordinatorExecutions
  <2>3. state'.integration = state.integration
    BY <1>1, <1>7 DEF MergeRepairReturns, CoordinatorExecutions
  <2>4. ExecutionOK(state)'
    BY <1>1, <2>1, <2>2, <2>3
       DEF ExecutionOK, EarlyStages, LateStages, MergeStages, Integrated, FixStages
  <2> QED BY <2>1, <2>2, <2>4 DEF StateOK, ExecutionOK, SomePending
<1>8. ASSUME NEW status \in Statuses, ReviewFixReturns(status) PROVE StateOK'
  <2> DEFINE stage == IF status = "pending_approval"
                        THEN "review_fix_awaiting_approvals"
                        ELSE "review_fix_completed"
             attempts == AttemptsAfter(status)
  <2>1. /\ state.stage \in FixStages /\ UNCHANGED saved /\ task' = "advancing"
        /\ state.attempts < MaxFixCycles
    BY <1>8 DEF ReviewFixReturns, FixStages, StateOK, ExecutionOK
  <2>2. state' = [state EXCEPT !.stage = stage, !.attempts = attempts,
                               !.fix = status]
    BY <1>8 DEF ReviewFixReturns
  <2>3. /\ stage = "review_fix_awaiting_approvals" =>
              status = "pending_approval" /\ attempts = state.attempts
        /\ stage \in {"review_fix_awaiting_approvals", "review_fix_completed"}
    BY DEF AttemptsAfter
  <2> HIDE DEF stage, attempts
  <2>4. /\ state'.stage = stage /\ state'.attempts = attempts
        /\ state'.fix = status /\ state'.merged = state.merged
    BY <1>1, <2>2 DEF CoordinatorExecutions
  <2>5. /\ state'.integration = state.integration
        /\ state'.findings = state.findings
    BY <1>1, <2>2 DEF CoordinatorExecutions
  <2>6. ExecutionOK(state)'
    BY <1>1, <2>1, <2>3, <2>4, <2>5
       DEF ExecutionOK, EarlyStages, LateStages, MergeStages, Integrated, FixStages
  <2> QED BY <2>1, <2>3, <2>4, <2>6 DEF StateOK, ExecutionOK, SomePending
<1>9. CASE SavePause
  <2>1. task = "advancing" /\ task' = "waiting" /\ saved' = state /\ state' = state
    BY <1>9 DEF SavePause
  <2> QED BY <2>1 DEF StateOK, ExecutionOK, SomePending
<1>10. CASE Decide
  <2>1. /\ state' \in {state, saved} /\ UNCHANGED saved
        /\ task' \in {"decided"} \cup Finalizing
    BY <1>10 DEF Decide, ToolsDecided, StartFinalize
  <2> QED BY <2>1, SavedIsGood
<1>11. CASE Crash
  <2>1. state' = saved /\ UNCHANGED saved /\ task' \in {"approved", "decided"}
    BY <1>11 DEF Crash
  <2> QED BY <2>1, SavedIsGood
<1>12. CASE UNCHANGED vars
  BY <1>12, SavedIsGood DEF vars, StateOK
<1> QED BY <1>2, <1>3, <1>4, <1>5, <1>6, <1>7, <1>8, <1>9, <1>10, <1>11, <1>12
        DEF Pauses, AgentsReturn

-----------------------------------------------------------------------------
(* What Git holds *)

LEMMA GitInit == Init => GitOK
  BY CreatedFacts, StageKinds
     DEF Init, GitOK, BaseBranch, OnBranch, LateStages, MergeStages, Integrated

\* While the execution in memory is at an early stage, so is the saved one, and
\* only the open merge and its markers matter.
LEMMA GitEarly ==
    ASSUME GitOK, UNCHANGED saved, state.stage \in EarlyStages,
           state'.stage \in EarlyStages, git'.merging = git.merging,
           git'.markers => git.markers, ~git'.marked
    PROVE  GitOK'
<1>1. state'.stage \notin LateStages /\ saved'.stage \notin LateStages
  BY StageKinds DEF GitOK
<1>2. git'.merging = NoWork => ~git'.markers
  BY DEF GitOK
<1>3. /\ state'.stage \notin {"integrating"} \cup Integrated
      /\ state'.stage \notin {"integrating", "integrated"}
      /\ state'.stage \notin MergeStages /\ saved'.stage \notin Integrated
  BY <1>1, StageKinds DEF Integrated
<1> QED BY <1>1, <1>2, <1>3 DEF GitOK

\* A step among the late stages.  What merged work needs of the branch is kept
\* as long as the branch only grows.
LEMMA GitLate ==
    ASSUME GitOK, UNCHANGED saved,
           state.stage \in LateStages, state'.stage \in LateStages,
           saved.stage \in Integrated => state'.stage \in Integrated,
           git'.dirty \cap Works = {}, OnBranch(state)', OnBranch(saved) => OnBranch(saved)',
           state'.stage \in {"integrating"} \cup Integrated => git'.merging = NoWork,
           git'.merging = NoWork => ~git'.markers,
           ~git'.marked,
           state'.stage \in {"integrating", "integrated"} => Integration \notin git'.dirty,
           history'.crashes = 0 /\ state'.stage \in MergeStages =>
              git'.merging = state'.conflict
    PROVE  GitOK'
  BY DEF GitOK

LEMMA CommittedFacts ==
    ASSUME TypeOK, NEW t \in Trees, git' = Committed(t)
    PROVE  /\ git'.merging = git.merging /\ git'.markers = git.markers
           /\ t \notin git'.dirty /\ git'.dirty \subseteq git.dirty
           /\ t \in Works => (git'.marked => git.marked)
           /\ t = Integration => /\ git'.marked => git.marked \/ git.markers
                                 /\ git'.committed = git.committed
                                 /\ git'.integrated = git.integrated
           /\ git'.committed \subseteq git.committed \cup {t}
<1>1. git \in GitStates
  BY DEF TypeOK
<1>2. CASE t \notin git.dirty
  BY <1>2 DEF Committed
<1>3. CASE t \in git.dirty
  <2> DEFINE marked == git.marked \/ (t = Integration /\ git.markers)
  <2>1. git' = [git EXCEPT !.dirty = @ \ {t},
                           !.committed = @ \cup ({t} \cap Works),
                           !.integrated = @ \ {t}, !.marked = marked]
    BY <1>3 DEF Committed
  <2>2. /\ t \in Works => (marked => git.marked)
        /\ t = Integration => (marked => git.marked \/ git.markers)
    BY TreeNumbers
  <2> HIDE DEF marked
  <2>3. /\ git'.merging = git.merging
        /\ git'.dirty = git.dirty \ {t}
        /\ git'.committed = git.committed \cup ({t} \cap Works)
        /\ git'.integrated = git.integrated \ {t}
    BY <1>1, <2>1 DEF GitStates
  <2>4. git'.markers = git.markers /\ git'.marked = marked
    BY <1>1, <2>1 DEF GitStates
  <2>5. git.integrated \subseteq Works
    BY <1>1 DEF GitStates
  <2> QED BY <2>2, <2>3, <2>4, <2>5, TreeNumbers
<1> QED BY <1>2, <1>3

LEMMA GitAdvanceStep ==
    ASSUME TypeOK, TaskOK, StateOK, StateOK', GitOK, LoopOK, Advance
    PROVE  GitOK'
<1> USE DEF At
<1> USE TreeNumbers
<1>1. /\ state \in CoordinatorExecutions /\ git \in GitStates
      /\ history \in Histories
      /\ ExecutionOK(state) /\ ExecutionOK(state)'
  BY DEF TypeOK, StateOK
<1>2. UNCHANGED <<saved, task>> /\ task = "advancing"
  BY DEF Advance, CommitCompletedWork, CreateIntegrationWorktree, SkipMerged,
         MergeWorktree, MergeConflicts, IntegrationFinished, CompleteMergeRepair,
         CompleteReviewFix, ReviewIntegrationWorktree
<1>3. CASE CommitCompletedWork
  <2>1. /\ state' = state /\ state.stage = "work_completed"
        /\ git' = Committed(cursor) /\ cursor \in Works
    BY <1>3 DEF CommitCompletedWork
  <2>2. ~git'.marked
    BY <2>1, CommittedFacts DEF GitOK
  <2> QED BY <1>2, <2>1, <2>2, GitEarly, CommittedFacts DEF EarlyStages
<1>4. CASE SkipMerged
  BY <1>2, <1>4 DEF SkipMerged, GitOK, OnBranch
<1>5. CASE CreateIntegrationWorktree
  <2>1. /\ state'.stage = "integrating" /\ state'.merged = state.merged
        /\ state.stage = "work_completed" /\ cursor \notin Works
    BY <1>1, <1>5 DEF CreateIntegrationWorktree, CoordinatorExecutions
  <2>2. /\ git'.dirty = git.dirty \ {Integration} /\ git'.integrated = {}
        /\ git'.merging = NoWork /\ git'.committed = git.committed
    BY <1>1, <1>5 DEF CreateIntegrationWorktree, GitStates
  <2>3. ~git'.markers /\ ~git'.marked
    BY <1>1, <1>5 DEF CreateIntegrationWorktree, GitStates
  <2>4. state.merged = {}
    BY <1>1, <2>1 DEF ExecutionOK, EarlyStages
  <2>5. \A w \in Works : w < cursor
    BY <2>1, WorkstreamsAssumption DEF Works, Integration, TypeOK
  <2>6. git'.dirty \cap Works = {}
    BY <1>2, <2>1, <2>2, <2>5 DEF LoopOK
  <2>7. saved'.stage \notin LateStages
    BY <1>2, <2>1, StageKinds DEF GitOK, EarlyStages
  <2>8. OnBranch(state)'
    BY <2>1, <2>2, <2>4, StageKinds DEF OnBranch
  <2> QED BY <2>1, <2>2, <2>3, <2>6, <2>7, <2>8, StageKinds DEF GitOK
<1>6. CASE MergeWorktree
  <2>1. /\ state'.stage = "integrating" /\ state.stage = "integrating"
        /\ state'.merged = state.merged \cup {cursor}
    BY <1>1, <1>6 DEF MergeWorktree, CoordinatorExecutions
  <2>2. /\ git'.dirty = git.dirty /\ git'.merging = git.merging
        /\ git'.integrated = git.integrated \cup {cursor}
        /\ git'.committed = git.committed
    BY <1>1, <1>6 DEF MergeWorktree, GitStates
  <2>3. git'.markers = git.markers /\ git'.marked = git.marked
    BY <1>1, <1>6 DEF MergeWorktree, GitStates
  <2>4. OnBranch(state)' /\ (OnBranch(saved) => OnBranch(saved)')
    BY <1>2, <2>1, <2>2, StageKinds DEF OnBranch, GitOK
  <2> QED BY <1>2, <2>1, <2>2, <2>3, <2>4, GitLate, StageKinds DEF GitOK
<1>7. CASE MergeConflicts
  <2>1. /\ state'.stage = "merge_conflict" /\ state.stage = "integrating"
        /\ state'.conflict = cursor /\ state'.merged = state.merged
        /\ cursor \in Works
    BY <1>1, <1>7 DEF MergeConflicts, StateInConflict, CoordinatorExecutions
  <2>2. PICK found \in BOOLEAN :
            git' = [git EXCEPT !.merging = cursor, !.markers = found,
                               !.dirty = @ \cup {Integration}]
    BY <1>7 DEF MergeConflicts
  <2>3. /\ git'.dirty = git.dirty \cup {Integration} /\ git'.merging = cursor
        /\ git'.integrated = git.integrated /\ git'.committed = git.committed
    BY <1>1, <2>2 DEF GitStates
  <2>4. git'.marked = git.marked
    BY <1>1, <2>2 DEF GitStates
  <2>5. git.merging = NoWork /\ (saved.stage \in Integrated => FALSE)
    BY <2>1, StageKinds DEF GitOK
  <2>6. OnBranch(saved) /\ saved.stage \in LateStages => OnBranch(saved)'
    <3>1. ASSUME saved.stage \in MergeStages PROVE saved.conflict \in Works
      BY <3>1 DEF StateOK, ExecutionOK
    <3> QED BY <1>2, <2>3, <2>5, <3>1 DEF OnBranch
  <2>7. OnBranch(state)'
    BY <2>1, <2>3, StageKinds DEF OnBranch, GitOK
  <2>8. git'.dirty \cap Works = {}
    BY <2>1, <2>3, StageKinds DEF GitOK
  <2>9. cursor # NoWork /\ state'.stage \in LateStages \ Integrated
    BY <2>1 DEF LateStages, MergeStages, Integrated
  <2> QED BY <1>2, <2>1, <2>3, <2>4, <2>5, <2>6, <2>7, <2>8, <2>9, StageKinds DEF GitOK
<1>8. CASE IntegrationFinished
  <2>1. /\ state'.stage = "integrated" /\ state.stage = "integrating"
        /\ state'.merged = state.merged /\ UNCHANGED git
    BY <1>1, <1>8 DEF IntegrationFinished, CoordinatorExecutions
  <2>2. state'.stage \in Integrated
    BY <2>1 DEF Integrated
  <2>3. OnBranch(state)' /\ (OnBranch(saved) => OnBranch(saved)')
    BY <1>2, <2>1, <2>2, StageKinds DEF OnBranch, GitOK
  <2> QED BY <1>2, <2>1, <2>2, <2>3, GitLate, StageKinds DEF GitOK
<1>9. CASE CompleteMergeRepair
  <2>1. /\ state'.stage = "integrating" /\ state.stage = "merge_repair_completed"
        /\ state'.merged = state.merged \cup {state.conflict}
        /\ git.merging # NoWork /\ ~git.markers
    BY <1>1, <1>9 DEF CompleteMergeRepair, MergeCanComplete, CoordinatorExecutions
  <2> DEFINE marked == git.marked \/ git.markers
  <2>2. git' = [git EXCEPT !.dirty = @ \ {Integration},
                           !.integrated = @ \cup {git.merging},
                           !.merging = NoWork, !.markers = FALSE,
                           !.marked = marked]
    BY <1>9 DEF CompleteMergeRepair
  <2>3. ~marked
    BY <2>1 DEF GitOK
  <2> HIDE DEF marked
  <2>4. /\ git'.dirty = git.dirty \ {Integration} /\ git'.merging = NoWork
        /\ git'.integrated = git.integrated \cup {git.merging}
        /\ git'.committed = git.committed
    BY <1>1, <2>2 DEF GitStates
  <2>5. ~git'.marked /\ ~git'.markers
    BY <1>1, <2>2, <2>3 DEF GitStates
  <2>6. state.stage \in MergeStages
    BY <2>1 DEF MergeStages
  <2>7. OnBranch(state)' /\ (OnBranch(saved) => OnBranch(saved)')
    BY <1>2, <2>1, <2>4, <2>6, StageKinds DEF OnBranch, GitOK
  <2>8. git'.dirty \cap Works = {} /\ saved.stage \notin Integrated
    BY <2>4, <2>6, StageKinds DEF GitOK
  <2> QED BY <1>2, <2>1, <2>4, <2>5, <2>6, <2>7, <2>8, GitLate, StageKinds
<1>10. CASE CompleteReviewFix
  <2>1. /\ state'.stage = "integrated" /\ state.stage = "review_fix_completed"
        /\ state'.merged = state.merged
        /\ git' = Committed(Integration)
    BY <1>1, <1>10 DEF CompleteReviewFix, CoordinatorExecutions
  <2>2. state.stage \in Integrated /\ state'.stage \in Integrated
    BY <2>1 DEF Integrated
  <2>3. git.merging = NoWork /\ ~git.markers /\ ~git.marked
        /\ git.dirty \cap Works = {}
    BY <2>2, StageKinds DEF GitOK
  <2>4. /\ git'.merging = git.merging /\ ~git'.markers /\ ~git'.marked
        /\ Integration \notin git'.dirty /\ git'.dirty \subseteq git.dirty
        /\ git'.committed = git.committed /\ git'.integrated = git.integrated
    BY <2>1, <2>3, CommittedFacts
  <2>5. OnBranch(state)' /\ (OnBranch(saved) => OnBranch(saved)')
    BY <1>2, <2>1, <2>2, <2>4, StageKinds DEF OnBranch, GitOK
  <2> QED BY <1>2, <2>1, <2>2, <2>3, <2>4, <2>5, GitLate, StageKinds
<1>11. ASSUME NEW passed \in BOOLEAN, NEW accepted \in BOOLEAN,
              ReviewIntegrationWorktree(passed, accepted)
       PROVE  GitOK'
  <2>1. PICK leftovers \in {{}, {Integration}} :
            git' = [git EXCEPT !.dirty = @ \cup leftovers]
    BY <1>11 DEF ReviewIntegrationWorktree
  <2>2. /\ git'.dirty \subseteq git.dirty \cup {Integration}
        /\ git'.merging = git.merging
        /\ git'.committed = git.committed /\ git'.integrated = git.integrated
    BY <1>1, <2>1 DEF GitStates
  <2>3. git'.markers = git.markers /\ git'.marked = git.marked
    BY <1>1, <2>1 DEF GitStates
  <2>4. state.stage = "integrated"
        /\ state'.stage \in {"awaiting_final_approval", "review_findings"}
        /\ state'.merged = state.merged
    <3>1. state' \in {[state EXCEPT !.stage = "awaiting_final_approval",
                          !.findings = FALSE, !.attempts = 0, !.fix = "none"],
                      [state EXCEPT !.stage = "review_findings",
                                    !.findings = TRUE, !.fix = "none"]}
      BY <1>11 DEF ReviewIntegrationWorktree
    <3>2. state.stage = "integrated"
      BY <1>11 DEF ReviewIntegrationWorktree
    <3> QED BY <1>1, <3>1, <3>2 DEF CoordinatorExecutions
  <2>5. state.stage \in Integrated /\ state'.stage \in Integrated
    BY <2>4 DEF Integrated
  <2>6. OnBranch(state)' /\ (OnBranch(saved) => OnBranch(saved)')
    BY <1>2, <2>2, <2>4, <2>5, StageKinds DEF OnBranch, GitOK
  <2>7. git.merging = NoWork /\ ~git.markers /\ ~git.marked
        /\ git'.dirty \cap Works = {}
    BY <2>2, <2>5, StageKinds DEF GitOK
  <2> QED BY <1>2, <2>2, <2>3, <2>4, <2>5, <2>6, <2>7, GitLate, StageKinds
<1> QED BY <1>3, <1>4, <1>5, <1>6, <1>7, <1>8, <1>9, <1>10, <1>11 DEF Advance

LEMMA GitOtherStep ==
    ASSUME TypeOK, TaskOK, StateOK, GitOK,
           \/ Fails \/ Prepares \/ StartsAgents \/ AgentWorks
           \/ AgentsReturn \/ Pauses \/ Finalizes \/ Crash \/ UNCHANGED vars
    PROVE  GitOK'
<1> USE TreeNumbers
<1> USE DEF PausedStages, ToolPauses, Finalizing
<1>1. /\ state \in CoordinatorExecutions /\ git \in GitStates
      /\ history \in Histories /\ disk \in DiskStates
  BY DEF TypeOK
<1>2. ASSUME UNCHANGED <<saved, git>>, state' = state,
             history'.crashes = 0 => history.crashes = 0
      PROVE  GitOK'
  BY <1>2 DEF GitOK, OnBranch
<1>3. CASE Fails \/ Finalizes \/ UNCHANGED vars
  <2>1. UNCHANGED <<saved, git>> /\ state' = state
    BY <1>3 DEF Fails, PreparationFails, StartFails, FixesExhausted, Fail,
                Finalizes, RemoveWorktree, Finalized, FinalizeCrash, vars
  <2>2. \/ UNCHANGED history
        \/ history' = [history EXCEPT !.crashes = @ + 1]
    BY <1>3 DEF Fails, PreparationFails, StartFails, FixesExhausted, Fail,
                Finalizes, RemoveWorktree, Finalized, FinalizeCrash, vars
  <2>3. history'.crashes = 0 => history.crashes = 0
    BY <1>1, <2>2 DEF Histories
  <2> QED BY <1>2, <2>1, <2>3
<1>4. CASE CreateWorktree
  BY <1>2, <1>4 DEF CreateWorktree
<1>5. CASE StartCoordinator
  <2>1. /\ UNCHANGED saved /\ saved = Created /\ state' = Created
        /\ git' = BaseBranch
    BY <1>5 DEF StartCoordinator, TaskOK
  <2>2. git'.merging = NoWork /\ ~git'.markers /\ ~git'.marked
    BY <2>1 DEF BaseBranch
  <2>3. /\ state'.stage = "created" /\ saved'.stage = "created"
    BY <2>1, CreatedFacts
  <2>4. /\ state'.stage \notin LateStages /\ saved'.stage \notin LateStages
    BY <2>3, StageKinds DEF EarlyStages
  <2> QED BY <2>2, <2>3, <2>4, StageKinds DEF GitOK
<1>6. CASE StartsAgents
  <2>1. UNCHANGED <<saved, git, history>> /\ state' = state
    BY <1>6 DEF StartsAgents, ExecuteNewWork, ResumeWork, StartMergeConflictRepair,
                ResumeMergeConflictRepair, StartReviewFix, ResumeReviewFix,
                RepairTakenUp, TaskOK
  <2> QED BY <1>2, <2>1
<1>7. ASSUME NEW t \in Trees, AgentChangesFiles(t) PROVE GitOK'
  <2>1. /\ UNCHANGED <<state, saved>> /\ task = "working" /\ t \in running
    BY <1>7 DEF AgentChangesFiles
  <2>2. PICK left \in {git.markers, FALSE} :
            git' = [git EXCEPT !.dirty = @ \cup {t}, !.markers = left]
    BY <1>7 DEF AgentChangesFiles
  <2>3. /\ git'.dirty = git.dirty \cup {t} /\ git'.merging = git.merging
        /\ git'.committed = git.committed /\ git'.integrated = git.integrated
    BY <1>1, <2>2 DEF GitStates
  <2>4. (git'.markers => git.markers) /\ git'.marked = git.marked
    <3>1. git'.markers = left
      BY <1>1, <2>2 DEF GitStates
    <3>2. git'.marked = git.marked
      BY <1>1, <2>2 DEF GitStates
    <3> QED BY <2>2, <3>1, <3>2
  <2>5. history'.crashes = history.crashes
    BY <1>1, <1>7 DEF AgentChangesFiles, Unreviewed, Histories
  <2>6. CASE t \in Works
    <3>1. state.stage \in WorkStages
      BY <2>1, <2>6 DEF TaskOK
    <3>2. state.stage \in EarlyStages
      BY <3>1 DEF WorkStages, EarlyStages
    <3> QED BY <2>1, <2>3, <2>4, <3>2, GitEarly DEF GitOK
  <2>7. CASE t = Integration
    <3>1. state.stage \in RepairStages
      BY <2>1, <2>7 DEF TaskOK
    <3>2. /\ state.stage \in LateStages
          /\ state.stage \notin {"integrating", "integrated"}
      BY <3>1 DEF RepairStages, LateStages, MergeStages, FixStages, Integrated
    <3>3. OnBranch(state)' /\ (OnBranch(saved) => OnBranch(saved)')
      BY <2>1, <2>3, <3>2 DEF OnBranch, GitOK
    <3>4. git'.dirty \cap Works = {}
      BY <2>3, <2>7, <3>2 DEF GitOK
    <3> QED BY <2>1, <2>3, <2>4, <2>5, <3>2, <3>3, <3>4, GitLate DEF GitOK
  <2> QED BY <2>6, <2>7
<1>8. ASSUME NEW w \in Works, NEW status \in Statuses, WorkerReturns(w, status)
      PROVE  GitOK'
  <2>1. state'.stage = state.stage /\ UNCHANGED <<saved, git>>
    BY <1>1, <1>8 DEF WorkerReturns, CoordinatorExecutions
  <2>2. state.stage \in WorkStages
    BY <1>8 DEF WorkerReturns, TaskOK
  <2> QED BY <2>1, <2>2, GitEarly DEF WorkStages, EarlyStages, GitOK
<1>9. CASE WorkReturned
  <2>1. state.stage \in WorkStages /\ UNCHANGED <<saved, git>>
    BY <1>9 DEF WorkReturned, TaskOK
  <2>2. state'.stage = StageOfWork(state.execution)
    BY <1>1, <1>9 DEF WorkReturned, CoordinatorExecutions
  <2>3. state.stage \in EarlyStages /\ state'.stage \in EarlyStages
    BY <2>1, <2>2 DEF StageOfWork, WorkStages, EarlyStages
  <2> QED BY <2>1, <2>3, GitEarly DEF GitOK
<1>10. ASSUME NEW status \in Statuses, MergeRepairReturns(status) PROVE GitOK'
  <2>1. /\ state.stage \in MergeStages /\ UNCHANGED <<saved, git, history>>
    BY <1>10 DEF MergeRepairReturns, MergeStages
  <2>2. /\ state'.stage = IF status = "pending_approval"
                            THEN "merge_repair_awaiting_approvals"
                            ELSE "merge_repair_completed"
        /\ state'.merged = state.merged /\ state'.conflict = state.conflict
    BY <1>1, <1>10 DEF MergeRepairReturns, CoordinatorExecutions
  <2>3. state'.stage \in MergeStages
    BY <2>2 DEF MergeStages
  <2>4. /\ state.stage \in LateStages /\ state'.stage \in LateStages
        /\ state.stage \notin Integrated /\ state'.stage \notin Integrated
        /\ state'.stage # "integrating" /\ "integrated" \in Integrated
    BY <2>1, <2>3, StageKinds DEF Integrated
  <2>5. OnBranch(state)' /\ (OnBranch(saved) => OnBranch(saved)')
    BY <2>1, <2>2, <2>4 DEF OnBranch, GitOK
  <2> QED BY <2>1, <2>2, <2>4, <2>5, GitLate DEF GitOK
<1>11. ASSUME NEW status \in Statuses, ReviewFixReturns(status) PROVE GitOK'
  <2>1. /\ state.stage \in FixStages /\ UNCHANGED <<saved, git, history>>
    BY <1>11 DEF ReviewFixReturns, FixStages
  <2>2. /\ state'.stage = IF status = "pending_approval"
                            THEN "review_fix_awaiting_approvals"
                            ELSE "review_fix_completed"
        /\ state'.merged = state.merged
    BY <1>1, <1>11 DEF ReviewFixReturns, CoordinatorExecutions
  <2>3. /\ state'.stage \in Integrated
        /\ state'.stage \notin {"integrating", "integrated"}
    BY <2>2 DEF Integrated
  <2>4. /\ state.stage \in LateStages /\ state'.stage \in LateStages
        /\ state.stage \in Integrated /\ state'.stage \notin MergeStages
        /\ state.stage \notin MergeStages
    BY <2>1, <2>3, StageKinds
  <2>5. OnBranch(state)' /\ (OnBranch(saved) => OnBranch(saved)')
    BY <2>1, <2>2, <2>4 DEF OnBranch, GitOK
  <2> QED BY <2>1, <2>2, <2>3, <2>4, <2>5, GitLate DEF GitOK
<1>12. CASE SavePause
  <2>1. saved' = state /\ state' = state /\ UNCHANGED <<git, history>>
    BY <1>12 DEF SavePause
  <2> QED BY <2>1 DEF GitOK, OnBranch
<1>13. CASE Decide
  <2>1. UNCHANGED <<saved, git, history>> /\ state' = state
    BY <1>13 DEF Decide, ToolsDecided, StartFinalize, TaskOK
  <2> QED BY <1>2, <2>1
<1>14. CASE Crash
  <2>1. state' = saved /\ UNCHANGED <<saved, git>>
        /\ task \in {"preparing", "working", "advancing"}
    BY <1>14 DEF Crash
  <2>2. history'.crashes = history.crashes + 1
    BY <1>1, <1>14 DEF Crash, Histories
  <2>3. history'.crashes # 0
    BY <1>1, <2>2 DEF Histories
  <2>4. saved.stage \notin {"integrating", "integrated"}
    BY DEF TaskOK
  <2>5. saved.stage \in Integrated => git.merging = NoWork
    BY DEF GitOK
  <2> QED BY <2>1, <2>3, <2>4, <2>5 DEF GitOK, OnBranch
<1> QED BY <1>3, <1>4, <1>5, <1>6, <1>7, <1>8, <1>9, <1>10, <1>11, <1>12,
           <1>13, <1>14
        DEF Prepares, AgentWorks, AgentsReturn, Pauses

-----------------------------------------------------------------------------
(* How far a loop has come *)

LEMMA LoopInit == Init => LoopOK
  BY DEF Init, LoopOK, Works

\* Only preparing, committing and merging have a loop.
LEMMA NoLoop ==
    ASSUME task' # "preparing",
           task' = "advancing" => state'.stage \notin {"work_completed", "integrating"}
    PROVE  LoopOK'
  BY DEF LoopOK, At

LEMMA LoopBegins ==
    ASSUME cursor' = 1
    PROVE  LoopOK'
  BY DEF LoopOK, Works

LEMMA LoopStep ==
    ASSUME TypeOK, TaskOK, StateOK, LoopOK, [Next]_vars
    PROVE  LoopOK'
<1> USE DEF At
<1>1. /\ state \in CoordinatorExecutions /\ git \in GitStates /\ disk \in DiskStates
      /\ cursor \in Nat /\ \A w \in Works : w \in Nat
  BY TreeNumbers DEF TypeOK
<1>2. \A w \in Works : w < cursor + 1 => w < cursor \/ w = cursor
  BY <1>1
<1>3. CASE CreateWorktree
  <2>1. disk'.checkouts = disk.checkouts \cup {cursor} /\ cursor' = cursor + 1
        /\ task = "preparing" /\ task' = "preparing"
    BY <1>1, <1>3 DEF CreateWorktree, DiskStates
  <2> QED BY <1>2, <2>1 DEF LoopOK
<1>4. CASE CommitCompletedWork
  <2>1. /\ state'.stage = "work_completed" /\ state.stage = "work_completed"
        /\ task' = "advancing" /\ task = "advancing"
        /\ git' = Committed(cursor) /\ cursor' = cursor + 1 /\ cursor \in Works
    BY <1>4 DEF CommitCompletedWork
  <2>2. cursor \notin git'.dirty /\ git'.dirty \subseteq git.dirty
    BY <2>1, CommittedFacts, TreeNumbers
  <2> QED BY <1>2, <2>1, <2>2 DEF LoopOK
<1>5. CASE SkipMerged
  <2>1. /\ state' = state /\ state.stage = "integrating" /\ task = "advancing"
        /\ task' = "advancing" /\ cursor' = cursor + 1 /\ cursor \in state.merged
    BY <1>5 DEF SkipMerged
  <2> QED BY <1>2, <2>1 DEF LoopOK
<1>6. CASE MergeWorktree
  <2>1. /\ state'.stage = "integrating" /\ state.stage = "integrating"
        /\ state'.merged = state.merged \cup {cursor}
    BY <1>1, <1>6 DEF MergeWorktree, CoordinatorExecutions
  <2>2. /\ task = "advancing" /\ task' = "advancing" /\ cursor' = cursor + 1
    BY <1>6 DEF MergeWorktree
  <2> QED BY <1>2, <2>1, <2>2 DEF LoopOK
<1>7. CASE \/ StartCoordinator \/ WorkReturned \/ CreateIntegrationWorktree
           \/ CompleteMergeRepair \/ Crash
  <2>1. cursor' = 1
    BY <1>7 DEF StartCoordinator, WorkReturned, CreateIntegrationWorktree,
                CompleteMergeRepair, Crash
  <2> QED BY <2>1, LoopBegins
<1>8. CASE Fails \/ StartsAgents \/ SavePause \/ Decide \/ Finalizes
  <2>1. task' \notin {"preparing", "advancing"}
    BY <1>8 DEF Fails, PreparationFails, StartFails, FixesExhausted, Fail,
                StartsAgents, ExecuteNewWork, ResumeWork, StartMergeConflictRepair,
                ResumeMergeConflictRepair, StartReviewFix, ResumeReviewFix, RepairTakenUp,
                SavePause, Decide, ToolsDecided, StartFinalize, Finalizes,
                RemoveWorktree, Finalized, FinalizeCrash, Finalizing
  <2> QED BY <2>1, NoLoop
<1>9. CASE AgentWorks
  <2>1. task' = "working"
    BY <1>9 DEF AgentWorks, AgentChangesFiles, WorkerReturns
  <2> QED BY <2>1, NoLoop
<1>10. CASE MergeConflicts \/ IntegrationFinished \/ CompleteReviewFix
  <2>1. /\ state'.stage \in {"merge_conflict", "integrated"}
        /\ task' = "advancing"
    BY <1>1, <1>10 DEF MergeConflicts, StateInConflict, IntegrationFinished,
                       CompleteReviewFix, CoordinatorExecutions
  <2> QED BY <2>1, NoLoop
<1>11. ASSUME NEW passed \in BOOLEAN, NEW accepted \in BOOLEAN,
              ReviewIntegrationWorktree(passed, accepted)
       PROVE  LoopOK'
  <2>1. /\ state' \in {[state EXCEPT !.stage = "awaiting_final_approval",
                          !.findings = FALSE, !.attempts = 0, !.fix = "none"],
                       [state EXCEPT !.stage = "review_findings",
                          !.findings = TRUE, !.fix = "none"]}
        /\ task' = "advancing"
    BY <1>11 DEF ReviewIntegrationWorktree
  <2>2. state'.stage \in {"awaiting_final_approval", "review_findings"}
    BY <1>1, <2>1 DEF CoordinatorExecutions
  <2> QED BY <2>1, <2>2, NoLoop
<1>12. ASSUME NEW status \in Statuses,
              MergeRepairReturns(status) \/ ReviewFixReturns(status)
       PROVE  LoopOK'
  <2>1. /\ state'.stage \notin {"work_completed", "integrating"}
        /\ task' = "advancing"
    BY <1>1, <1>12 DEF MergeRepairReturns, ReviewFixReturns, CoordinatorExecutions
  <2> QED BY <2>1, NoLoop
<1>13. CASE UNCHANGED vars
  BY <1>13 DEF vars, LoopOK
<1> QED BY <1>3, <1>4, <1>5, <1>6, <1>7, <1>8, <1>9, <1>10, <1>11, <1>12, <1>13,
           KindsOfSteps
        DEF Advance, Prepares, AgentsReturn, Pauses

-----------------------------------------------------------------------------
(* What was reviewed, and how many repairs there were *)

LEMMA ReviewInit == Init => ReviewOK
  BY CreatedFacts, FixAssumption DEF Init, ReviewOK, FinalIsVerified

LEMMA UnreviewedKeeps ==
    TypeOK => Unreviewed.fixes = history.fixes /\ Unreviewed.crashes = history.crashes
  BY DEF TypeOK, Unreviewed, Histories

\* No review and no committed repair in between.
LEMMA ReviewKept ==
    ASSUME ReviewOK, history'.fixes = history.fixes,
           state'.attempts = state.attempts,
           state.stage # "awaiting_final_approval",
           state'.stage # "awaiting_final_approval",
           state'.stage = "review_fix_completed" => state.stage = "review_fix_completed"
    PROVE  ReviewOK'
  BY DEF ReviewOK, FinalIsVerified

LEMMA ReviewStep ==
    ASSUME TypeOK, TaskOK, StateOK, ReviewOK, [Next]_vars
    PROVE  ReviewOK'
<1> USE DEF At, PausedStages, ToolPauses, Finalizing
<1>1. /\ state \in CoordinatorExecutions /\ saved \in CoordinatorExecutions
      /\ history \in Histories
  BY DEF TypeOK
<1>2. ASSUME state' = state, history'.fixes = history.fixes,
             history'.passed = history.passed, history'.accepted = history.accepted
      PROVE  ReviewOK'
  BY <1>2 DEF ReviewOK, FinalIsVerified
<1>3. CASE \/ Fails \/ Prepares \/ StartsAgents \/ SavePause \/ Decide
           \/ RemoveWorktree \/ Finalized \/ UNCHANGED vars
  <2>1. state' = state /\ history' = history
    BY <1>3 DEF Fails, PreparationFails, StartFails, FixesExhausted, Fail,
                Prepares, StartCoordinator, CreateWorktree,
                StartsAgents, ExecuteNewWork, ResumeWork, StartMergeConflictRepair,
                ResumeMergeConflictRepair, StartReviewFix, ResumeReviewFix, RepairTakenUp,
                SavePause, Decide, ToolsDecided, StartFinalize,
                RemoveWorktree, Finalized, vars, TaskOK
  <2> QED BY <1>2, <2>1
<1>4. CASE FinalizeCrash
  <2>1. state' = state /\ history' = [history EXCEPT !.crashes = @ + 1]
    BY <1>4 DEF FinalizeCrash
  <2>2. /\ history'.fixes = history.fixes /\ history'.passed = history.passed
        /\ history'.accepted = history.accepted
    BY <1>1, <2>1 DEF Histories
  <2> QED BY <1>2, <2>1, <2>2
<1>5. CASE Crash
  <2>1. /\ state' = saved /\ task \in {"preparing", "working", "advancing"}
        /\ history' = [history EXCEPT !.crashes = @ + 1, !.fixes = saved.attempts]
    BY <1>5 DEF Crash
  <2>2. history'.fixes = saved.attempts
    BY <1>1, <2>1 DEF Histories
  <2>3. /\ saved.stage # "awaiting_final_approval"
        /\ saved.stage # "review_fix_completed"
    BY <2>1, CreatedFacts DEF TaskOK
  <2>4. saved.attempts \in 0..MaxFixCycles
    BY <1>1 DEF CoordinatorExecutions
  <2> QED BY <2>1, <2>2, <2>3, <2>4, FixAssumption DEF ReviewOK, FinalIsVerified
<1>6. CASE \/ CommitCompletedWork \/ CreateIntegrationWorktree \/ SkipMerged
           \/ MergeWorktree \/ MergeConflicts \/ IntegrationFinished
           \/ CompleteMergeRepair
  <2>1. /\ state.stage \in {"work_completed", "integrating", "merge_repair_completed"}
        /\ state'.stage \in {"work_completed", "integrating", "merge_conflict",
                             "integrated"}
        /\ state'.attempts = state.attempts
    BY <1>1, <1>6 DEF CommitCompletedWork, CreateIntegrationWorktree, SkipMerged,
                      MergeWorktree, MergeConflicts, StateInConflict,
                      IntegrationFinished, CompleteMergeRepair, CoordinatorExecutions
  <2>2. history' \in {history, Unreviewed}
    BY <1>6 DEF CommitCompletedWork, CreateIntegrationWorktree, SkipMerged,
                MergeWorktree, MergeConflicts, IntegrationFinished, CompleteMergeRepair
  <2>3. history'.fixes = history.fixes
    BY <2>2, UnreviewedKeeps
  <2> QED BY <2>1, <2>3, ReviewKept
<1>7. CASE CompleteReviewFix
  <2>1. /\ state.stage = "review_fix_completed" /\ state'.stage = "integrated"
        /\ state'.attempts = state.attempts
    BY <1>1, <1>7 DEF CompleteReviewFix, CoordinatorExecutions
  <2>2. history.fixes < state.attempts /\ state.attempts <= MaxFixCycles
        /\ history.fixes \in Nat /\ state.attempts \in Nat
    BY <1>1, <2>1, FixAssumption
       DEF ReviewOK, CoordinatorExecutions, Histories, ManyFixes
  <2>3. history.fixes < ManyFixes
    BY <2>2, FixAssumption DEF ManyFixes
  <2> DEFINE fixes == IF history.fixes < ManyFixes THEN history.fixes + 1
                                                   ELSE history.fixes
  <2>4. history' = [Unreviewed EXCEPT !.fixes = fixes]
    BY <1>1, <1>7 DEF CompleteReviewFix, Unreviewed, Histories
  <2>5. fixes = history.fixes + 1
    BY <2>3
  <2> HIDE DEF fixes
  <2>6. history'.fixes = history.fixes + 1
    BY <2>4, <2>5, UnreviewedTyped DEF Histories
  <2> QED BY <2>1, <2>2, <2>6, FixAssumption DEF ReviewOK, FinalIsVerified
<1>8. ASSUME NEW passed \in BOOLEAN, NEW accepted \in BOOLEAN,
             ReviewIntegrationWorktree(passed, accepted)
      PROVE  ReviewOK'
  <2>1. /\ state.stage = "integrated"
        /\ history' = [history EXCEPT !.passed = passed, !.accepted = accepted]
    BY <1>8 DEF ReviewIntegrationWorktree
  <2>2. history'.fixes = history.fixes
    BY <1>1, <2>1 DEF Histories
  <2>3. CASE ReviewSucceeds(passed, accepted)
    <3>1. state' = [state EXCEPT !.stage = "awaiting_final_approval",
                        !.findings = FALSE, !.attempts = 0, !.fix = "none"]
      BY <1>8, <2>3 DEF ReviewIntegrationWorktree
    <3>2. state'.stage = "awaiting_final_approval"
      BY <1>1, <3>1 DEF CoordinatorExecutions
    <3>3. history'.passed /\ history'.accepted
      BY <1>1, <2>1, <2>3 DEF Histories, ReviewSucceeds
    <3>4. FinalIsVerified'
      BY <3>3 DEF FinalIsVerified
    <3> QED BY <2>2, <3>2, <3>4 DEF ReviewOK
  <2>4. CASE ~ReviewSucceeds(passed, accepted)
    <3>1. state' = [state EXCEPT !.stage = "review_findings", !.findings = TRUE,
                                 !.fix = "none"]
      BY <1>8, <2>4 DEF ReviewIntegrationWorktree
    <3>2. state'.stage = "review_findings" /\ state'.attempts = state.attempts
      BY <1>1, <3>1 DEF CoordinatorExecutions
    <3> QED BY <2>1, <2>2, <3>2, ReviewKept
  <2> QED BY <2>3, <2>4
<1>9. ASSUME NEW t \in Trees, AgentChangesFiles(t) PROVE ReviewOK'
  <2>1. state' = state /\ history' \in {history, Unreviewed} /\ task = "working"
    BY <1>9 DEF AgentChangesFiles
  <2>2. /\ state.stage # "awaiting_final_approval"
        /\ history'.fixes = history.fixes
    BY <2>1, UnreviewedKeeps DEF TaskOK, WorkStages, RepairStages, FixStages
  <2> QED BY <2>1, <2>2, ReviewKept
<1>10. ASSUME NEW w \in Works, NEW status \in Statuses, WorkerReturns(w, status)
       PROVE  ReviewOK'
  <2>1. /\ state'.stage = state.stage /\ state'.attempts = state.attempts
        /\ UNCHANGED history /\ task = "working"
    BY <1>1, <1>10 DEF WorkerReturns, CoordinatorExecutions
  <2>2. state.stage # "awaiting_final_approval"
    BY <2>1 DEF TaskOK, WorkStages, RepairStages, FixStages
  <2> QED BY <2>1, <2>2, ReviewKept
<1>11. CASE WorkReturned
  <2>1. /\ state'.stage \in {"awaiting_approvals", "work_completed"}
        /\ state'.attempts = state.attempts /\ task = "working"
    BY <1>1, <1>11 DEF WorkReturned, StageOfWork, CoordinatorExecutions
  <2>2. history'.fixes = history.fixes
    BY <1>1, <1>11 DEF WorkReturned, Histories
  <2>3. state.stage # "awaiting_final_approval"
    BY <2>1 DEF TaskOK, WorkStages, RepairStages, FixStages
  <2> QED BY <2>1, <2>2, <2>3, ReviewKept
<1>12. ASSUME NEW status \in Statuses, MergeRepairReturns(status) PROVE ReviewOK'
  <2>1. /\ state.stage # "awaiting_final_approval" /\ UNCHANGED history
        /\ state'.stage \in {"merge_repair_awaiting_approvals",
                             "merge_repair_completed"}
        /\ state'.attempts = state.attempts
    BY <1>1, <1>12 DEF MergeRepairReturns, CoordinatorExecutions
  <2> QED BY <2>1, ReviewKept
<1>13. ASSUME NEW status \in Statuses, ReviewFixReturns(status) PROVE ReviewOK'
  <2> DEFINE stage == IF status = "pending_approval"
                        THEN "review_fix_awaiting_approvals"
                        ELSE "review_fix_completed"
             attempts == AttemptsAfter(status)
  <2>1. /\ state.stage # "awaiting_final_approval" /\ UNCHANGED history
        /\ state' = [state EXCEPT !.stage = stage, !.attempts = attempts,
                                  !.fix = status]
    BY <1>13 DEF ReviewFixReturns
  <2>2. history.fixes <= state.attempts /\ history.fixes \in Nat
        /\ state.attempts \in Nat
    BY <1>1, <2>1, FixAssumption
       DEF ReviewOK, CoordinatorExecutions, Histories, ManyFixes
  <2>3. /\ history.fixes <= attempts
        /\ stage = "review_fix_completed" => history.fixes < attempts
        /\ stage # "awaiting_final_approval"
    BY <2>2 DEF AttemptsAfter, Statuses
  <2> HIDE DEF stage, attempts
  <2>4. state'.stage = stage /\ state'.attempts = attempts
    BY <1>1, <2>1 DEF CoordinatorExecutions
  <2> QED BY <2>1, <2>3, <2>4 DEF ReviewOK, FinalIsVerified
<1> QED BY <1>3, <1>4, <1>5, <1>6, <1>7, <1>8, <1>9, <1>10, <1>11, <1>12, <1>13,
           KindsOfSteps
        DEF Advance, AgentWorks, AgentsReturn, Pauses, Finalizes

-----------------------------------------------------------------------------
(* What is on disk *)

LEMMA DiskInit == Init => DiskOK
  BY CreatedFacts
     DEF Init, DiskOK, NeedsTrees, Finalizing, FinalizedIsClean, ToolPauses

\* Neither the disk nor what the two executions say of it changes, and the run
\* stays where its trees are needed.
LEMMA DiskKept ==
    ASSUME DiskOK, NeedsTrees, UNCHANGED <<disk, saved>>,
           task' \in {"working", "advancing", "decided"},
           history'.crashes = history.crashes,
           state'.integration = state.integration
    PROVE  DiskOK'
<1>1. /\ Works \subseteq disk'.checkouts /\ Held(state)' /\ Held(saved)'
  BY DEF DiskOK, Held, Branched
<1>2. history'.crashes = 0 /\ ~state'.integration => Integration \notin disk'.checkouts
  BY DEF DiskOK
<1>3. disk'.abandoned => history'.crashes > 0
  BY DEF DiskOK
<1> QED BY <1>1, <1>2, <1>3 DEF DiskOK, Finalizing, FinalizedIsClean

LEMMA DiskAdvanceStep ==
    ASSUME TypeOK, TaskOK, StateOK, DiskOK, Advance
    PROVE  DiskOK'
<1> USE DEF At
<1> USE TreeNumbers
<1>1. /\ state \in CoordinatorExecutions /\ history \in Histories
      /\ disk \in DiskStates
  BY DEF TypeOK
<1>2. UNCHANGED <<saved, task>> /\ task = "advancing"
  BY DEF Advance, CommitCompletedWork, CreateIntegrationWorktree, SkipMerged,
         MergeWorktree, MergeConflicts, IntegrationFinished, CompleteMergeRepair,
         CompleteReviewFix, ReviewIntegrationWorktree
<1>3. NeedsTrees
  BY <1>2 DEF NeedsTrees
<1>4. CASE CreateIntegrationWorktree
  <2> DEFINE left == disk.abandoned \/ Integration \in disk.checkouts
  <2>1. disk' = [checkouts |-> disk.checkouts \cup {Integration},
                 branches |-> disk.branches \cup {Integration},
                 abandoned |-> left]
    BY <1>4 DEF CreateIntegrationWorktree
  <2>2. state.stage = "work_completed" /\ history' = Unreviewed
    BY <1>4 DEF CreateIntegrationWorktree
  <2>3. ~state.integration
    BY <2>2 DEF StateOK, ExecutionOK, EarlyStages
  <2>4. left => history.crashes > 0
    <3>1. history.crashes \in Nat
      BY <1>1, CrashAssumption DEF Histories
    <3> QED BY <2>3, <3>1 DEF DiskOK
  <2> HIDE DEF left
  <2>5. /\ disk'.checkouts = disk.checkouts \cup {Integration}
        /\ disk'.branches = disk.branches \cup {Integration}
    BY <2>1
  <2>6. disk'.abandoned = left
    BY <2>1
  <2>7. state'.integration
    BY <1>1, <1>4 DEF CreateIntegrationWorktree, CoordinatorExecutions
  <2>8. history'.crashes = history.crashes
    BY <2>2, UnreviewedKeeps
  <2>9. /\ Works \subseteq disk'.checkouts /\ Held(state)' /\ Held(saved)'
    BY <1>3, <2>5 DEF DiskOK, Held, Branched
  <2> QED BY <1>2, <2>4, <2>6, <2>7, <2>8, <2>9 DEF DiskOK, Finalizing, FinalizedIsClean
<1>5. CASE \/ CommitCompletedWork \/ SkipMerged \/ MergeWorktree \/ MergeConflicts
           \/ IntegrationFinished \/ CompleteMergeRepair
  <2>1. state'.integration = state.integration
    BY <1>1, <1>5 DEF CommitCompletedWork, SkipMerged, MergeWorktree, MergeConflicts,
                      StateInConflict, IntegrationFinished, CompleteMergeRepair,
                      CoordinatorExecutions
  <2>2. UNCHANGED disk /\ history' \in {history, Unreviewed}
    BY <1>5 DEF CommitCompletedWork, SkipMerged, MergeWorktree, MergeConflicts,
                IntegrationFinished, CompleteMergeRepair
  <2>3. history'.crashes = history.crashes
    BY <2>2, UnreviewedKeeps
  <2> QED BY <1>2, <1>3, <2>1, <2>2, <2>3, DiskKept
<1>6. CASE CompleteReviewFix
  <2>1. state'.integration = state.integration
    BY <1>1, <1>6 DEF CompleteReviewFix, CoordinatorExecutions
  <2> DEFINE fixes == IF history.fixes < ManyFixes THEN history.fixes + 1
                                                   ELSE history.fixes
  <2>2. history' = [Unreviewed EXCEPT !.fixes = fixes] /\ UNCHANGED disk
    BY <1>1, <1>6 DEF CompleteReviewFix, Unreviewed, Histories
  <2> HIDE DEF fixes
  <2>3. history'.crashes = history.crashes
    BY <2>2, UnreviewedTyped, UnreviewedKeeps DEF Histories
  <2> QED BY <1>2, <1>3, <2>1, <2>2, <2>3, DiskKept
<1>7. ASSUME NEW passed \in BOOLEAN, NEW accepted \in BOOLEAN,
             ReviewIntegrationWorktree(passed, accepted)
      PROVE  DiskOK'
  <2>1. /\ state' \in {[state EXCEPT !.stage = "awaiting_final_approval",
                          !.findings = FALSE, !.attempts = 0, !.fix = "none"],
                       [state EXCEPT !.stage = "review_findings",
                          !.findings = TRUE, !.fix = "none"]}
        /\ UNCHANGED disk
    BY <1>7 DEF ReviewIntegrationWorktree
  <2>2. state'.integration = state.integration
    BY <1>1, <2>1 DEF CoordinatorExecutions
  <2>3. history'.crashes = history.crashes
    BY <1>1, <1>7 DEF ReviewIntegrationWorktree, Histories
  <2> QED BY <1>2, <1>3, <2>1, <2>2, <2>3, DiskKept
<1> QED BY <1>4, <1>5, <1>6, <1>7 DEF Advance

LEMMA DiskAgentStep ==
    ASSUME TypeOK, TaskOK, StateOK, LoopOK, DiskOK,
           StartsAgents \/ AgentWorks \/ AgentsReturn
    PROVE  DiskOK'
<1> USE TreeNumbers
<1>1. /\ state \in CoordinatorExecutions /\ history \in Histories
      /\ disk \in DiskStates
  BY DEF TypeOK
<1>2. UNCHANGED <<disk, saved>> /\ task' \in {"working", "advancing"}
  BY DEF StartsAgents, ExecuteNewWork, ResumeWork, StartMergeConflictRepair,
         ResumeMergeConflictRepair, StartReviewFix, ResumeReviewFix, RepairTakenUp,
         AgentWorks, AgentChangesFiles, WorkerReturns,
         AgentsReturn, WorkReturned, MergeRepairReturns, ReviewFixReturns
<1>3. CASE ExecuteNewWork
  <2>1. /\ task = "preparing" /\ task' = "working" /\ cursor \notin Works
        /\ UNCHANGED <<state, history>>
    BY <1>3 DEF ExecuteNewWork
  <2>2. \A w \in Works : w < cursor
    BY <2>1, WorkstreamsAssumption DEF Works, Integration, TypeOK
  <2>3. Works \subseteq disk.checkouts
    BY <2>1, <2>2 DEF LoopOK
  <2>4. ~state.integration /\ ~saved.integration
    BY <2>1, CreatedFacts DEF TaskOK
  <2>5. Held(state)' /\ Held(saved)'
    BY <1>2, <2>1, <2>4 DEF Held, Branched
  <2> QED BY <1>2, <2>1, <2>3, <2>5 DEF DiskOK, Finalizing, FinalizedIsClean
<1>4. CASE \/ ResumeWork \/ StartMergeConflictRepair \/ ResumeMergeConflictRepair
           \/ StartReviewFix \/ ResumeReviewFix
  <2>1. /\ task \in {"decided", "advancing"} /\ state' = state /\ history' = history
    BY <1>4 DEF ResumeWork, StartMergeConflictRepair, ResumeMergeConflictRepair,
                StartReviewFix, ResumeReviewFix, RepairTakenUp, At, TaskOK
  <2> QED BY <1>2, <2>1, DiskKept DEF NeedsTrees
<1>5. ASSUME AgentWorks \/ AgentsReturn PROVE DiskOK'
  <2>1. task = "working"
    BY <1>5 DEF AgentWorks, AgentChangesFiles, WorkerReturns,
                AgentsReturn, WorkReturned, MergeRepairReturns, ReviewFixReturns
  <2>2. state'.integration = state.integration
    <3>1. CASE AgentWorks \/ WorkReturned
      BY <1>1, <3>1 DEF AgentWorks, AgentChangesFiles, WorkerReturns, WorkReturned,
                        CoordinatorExecutions
    <3>2. ASSUME NEW status \in Statuses,
                 MergeRepairReturns(status) \/ ReviewFixReturns(status)
          PROVE  state'.integration = state.integration
      BY <1>1, <3>2 DEF MergeRepairReturns, ReviewFixReturns, CoordinatorExecutions
    <3> QED BY <1>5, <3>1, <3>2 DEF AgentsReturn
  <2>3. history'.crashes = history.crashes
    BY <1>1, <1>5, UnreviewedKeeps
       DEF AgentWorks, AgentChangesFiles, WorkerReturns, AgentsReturn, WorkReturned,
           MergeRepairReturns, ReviewFixReturns, Histories
  <2> QED BY <1>2, <2>1, <2>2, <2>3, DiskKept DEF NeedsTrees
<1> QED BY <1>3, <1>4, <1>5 DEF StartsAgents

\* The finalization, and what a crash in the middle of it leaves to the next.
LEMMA DiskFinalStep ==
    ASSUME TypeOK, TaskOK, StateOK, DiskOK, Finalizes
    PROVE  DiskOK'
<1> USE TreeNumbers
<1>1. /\ history \in Histories /\ disk \in DiskStates /\ task \in Finalizing
      /\ cursor \in 1..(Integration + 1)
      /\ UNCHANGED <<state, saved>>
  BY DEF TypeOK, Finalizes, RemoveWorktree, Finalized, FinalizeCrash
<1>2. /\ saved.stage \notin ToolPauses /\ task \in {"publishing", "discarding"}
  BY <1>1 DEF TaskOK, ToolPauses, Finalizing
<1>3. saved.integration
  BY <1>1 DEF TaskOK, StateOK, ExecutionOK, LateStages, Integrated
<1>4. CASE RemoveWorktree
  <2> DEFINE branches == IF cursor = Integration /\ task = "publishing"
                           THEN disk.branches ELSE disk.branches \ {cursor}
  <2>1. /\ UNCHANGED <<task, history>> /\ cursor' = cursor + 1
        /\ cursor \in Trees /\ cursor \in disk.checkouts
        /\ disk' = [disk EXCEPT !.checkouts = @ \ {cursor}, !.branches = branches]
    BY <1>4 DEF RemoveWorktree, GeneratedTrees, CanRemove
  <2>2. /\ disk'.checkouts = disk.checkouts \ {cursor}
        /\ disk'.branches = branches
    BY <1>1, <2>1 DEF DiskStates
  <2>3. disk'.abandoned = disk.abandoned
    BY <1>1, <2>1 DEF DiskStates
  <2>4. task = "publishing" => Integration \in disk.branches
    <3>1. CASE 1 \in disk.checkouts
      BY <1>1, <1>3, <3>1 DEF DiskOK, Branched
    <3>2. CASE 1 \notin disk.checkouts
      <4>1. cursor > 1
        BY <1>1, <2>1, <3>2
      <4> QED BY <4>1 DEF DiskOK
    <3> QED BY <3>1, <3>2
  <2>5. 1 \in disk'.checkouts => Branched(saved)'
    <3>1. CASE cursor = Integration
      <4>1. 1 \in Trees /\ 1 < cursor
        BY <3>1
      <4>2. 1 \notin disk.checkouts
        BY <1>1, <4>1 DEF DiskOK
      <4> QED BY <2>2, <4>2
    <3>2. CASE cursor # Integration
      BY <1>1, <2>2, <3>2 DEF DiskOK, Branched
    <3> QED BY <3>1, <3>2
  <2>6. /\ \A t \in Trees : t < cursor' => t \notin disk'.checkouts
        /\ \A t \in Works : t < cursor' => t \notin disk'.branches
    <3>1. \A t \in Trees : t < cursor + 1 => t < cursor \/ t = cursor
      BY <1>1
    <3> QED BY <1>1, <2>1, <2>2, <3>1 DEF DiskOK
  <2>7. task' = "publishing" /\ cursor' > 1 => Integration \in disk'.branches
    BY <2>1, <2>2, <2>4
  <2>8. task' = "discarding" /\ cursor' > Integration => Integration \notin disk'.branches
    <3>1. cursor + 1 > Integration => cursor = Integration
      BY <1>1, <2>1
    <3>2. Finalizing = {"publishing", "discarding"}
      BY DEF Finalizing
    <3> QED BY <2>1, <2>2, <3>1, <3>2
  <2> QED BY <1>1, <1>2, <2>1, <2>2, <2>3, <2>5, <2>6, <2>7, <2>8
          DEF DiskOK, NeedsTrees, Finalizing, FinalizedIsClean
<1>5. CASE Finalized
  <2>1. /\ UNCHANGED <<disk, history>> /\ cursor \notin Trees
        /\ task' = IF task = "publishing" THEN "completed" ELSE "rejected"
    BY <1>5 DEF Finalized, GeneratedTrees
  <2>2. /\ cursor = Integration + 1 /\ \A t \in Trees : t < cursor
        /\ cursor > 1 /\ cursor > Integration
    BY <1>1, <2>1, WorkstreamsAssumption DEF Trees, Integration
  <2>3. disk.checkouts = {}
    BY <1>1, <2>2 DEF DiskOK, DiskStates
  <2>4. disk.branches \subseteq {Integration}
    BY <1>1, <2>2 DEF DiskOK, DiskStates
  <2>5. Integration \in disk.branches <=> task = "publishing"
    BY <1>2, <2>2 DEF DiskOK
  <2>6. FinalizedIsClean'
    <3>1. disk'.branches = IF task' = "completed" THEN {Integration} ELSE {}
      BY <2>1, <2>4, <2>5
    <3>2. disk'.abandoned => history'.crashes > 0
      BY <2>1 DEF DiskOK
    <3> QED BY <2>1, <2>3, <3>1, <3>2 DEF FinalizedIsClean
  <2>7. task' \in {"completed", "rejected"}
    BY <2>1
  <2> QED BY <1>1, <2>1, <2>3, <2>6, <2>7 DEF DiskOK, NeedsTrees, Finalizing
<1>6. CASE FinalizeCrash
  <2>1. PICK lost \in {{}, {cursor}} :
            disk' = [disk EXCEPT !.checkouts = @ \ lost]
    BY <1>6 DEF FinalizeCrash
  <2>2. /\ disk'.checkouts \subseteq disk.checkouts
        /\ disk'.branches = disk.branches
    BY <1>1, <2>1 DEF DiskStates
  <2>3. task' = "waiting" /\ history' = [history EXCEPT !.crashes = @ + 1]
    BY <1>6 DEF FinalizeCrash
  <2>4. history'.crashes > 0
    BY <1>1, <2>3, CrashAssumption DEF Histories
  <2>5. 1 \in disk'.checkouts => Branched(saved)'
    BY <1>1, <2>2 DEF DiskOK, Branched
  <2> QED BY <1>1, <1>2, <2>3, <2>4, <2>5 DEF DiskOK, NeedsTrees, Finalizing, FinalizedIsClean
<1> QED BY <1>4, <1>5, <1>6 DEF Finalizes

LEMMA DiskStep ==
    ASSUME TypeOK, TaskOK, StateOK, LoopOK, DiskOK, [Next]_vars
    PROVE  DiskOK'
<1> USE TreeNumbers DEF ToolPauses, PausedStages
<1>1. /\ state \in CoordinatorExecutions /\ history \in Histories
      /\ disk \in DiskStates
  BY DEF TypeOK
<1>2. CASE Fails
  <2>1. /\ task' = "failed" /\ UNCHANGED <<state, saved, history>>
        /\ disk' = disk \/ \E stop : disk' = CleanedDownTo(stop)
    BY <1>2 DEF Fails, PreparationFails, StartFails, FixesExhausted, Fail
  <2>2. /\ disk'.checkouts \subseteq disk.checkouts
    BY <1>1, <2>1 DEF CleanedDownTo, DiskStates
  <2>3. disk'.abandoned = disk.abandoned
    BY <1>1, <2>1 DEF CleanedDownTo, DiskStates
  <2> QED BY <2>1, <2>2, <2>3 DEF DiskOK, NeedsTrees, Finalizing, FinalizedIsClean
<1>3. CASE StartCoordinator
  <2> DEFINE left == disk.abandoned \/ disk.checkouts # {}
  <2>1. /\ task = "approved" /\ task' = "preparing" /\ UNCHANGED history
        /\ disk' = [checkouts |-> {}, branches |-> {}, abandoned |-> left]
    BY <1>3 DEF StartCoordinator
  <2>2. left => history.crashes > 0
    <3>1. history.crashes \in Nat
      BY <1>1, CrashAssumption DEF Histories
    <3> QED BY <2>1, <3>1 DEF DiskOK
  <2> HIDE DEF left
  <2>3. disk'.checkouts = {}
    BY <2>1
  <2>4. disk'.abandoned = left
    BY <2>1
  <2> QED BY <2>1, <2>2, <2>3, <2>4 DEF DiskOK, NeedsTrees, Finalizing, FinalizedIsClean
<1>4. CASE CreateWorktree
  <2>1. /\ task' = "preparing" /\ UNCHANGED <<state, history>> /\ cursor \in Works
        /\ disk' = [disk EXCEPT !.checkouts = @ \cup {cursor},
                                !.branches = @ \cup {cursor}]
    BY <1>4 DEF CreateWorktree
  <2>2. disk'.checkouts = disk.checkouts \cup {cursor}
    BY <1>1, <2>1 DEF DiskStates
  <2>3. disk'.abandoned = disk.abandoned
    BY <1>1, <2>1 DEF DiskStates
  <2> QED BY <2>1, <2>2, <2>3 DEF DiskOK, NeedsTrees, Finalizing, FinalizedIsClean
<1>5. CASE SavePause
  <2>1. /\ task = "advancing" /\ task' = "waiting" /\ state' = state /\ saved' = state
        /\ UNCHANGED <<disk, history>>
    BY <1>5 DEF SavePause
  <2>2. Works \subseteq disk.checkouts /\ Held(state)
    BY <2>1 DEF DiskOK, NeedsTrees
  <2>3. Held(state)' /\ Held(saved)' /\ Branched(saved)'
    BY <2>1, <2>2 DEF Held, Branched
  <2> QED BY <2>1, <2>2, <2>3 DEF DiskOK, Finalizing, FinalizedIsClean
<1>6. CASE ToolsDecided
  <2>1. /\ task = "waiting" /\ task' = "decided" /\ saved.stage \in ToolPauses
        /\ UNCHANGED <<state, saved, disk, history>>
    BY <1>6 DEF ToolsDecided
  <2> QED BY <2>1, DiskKept DEF NeedsTrees
<1>7. ASSUME NEW decision \in Finalizing, StartFinalize(decision) PROVE DiskOK'
  <2>1. /\ task = "waiting" /\ task' \in Finalizing /\ cursor' = 1
        /\ saved.stage = "awaiting_final_approval" /\ state' = state
        /\ UNCHANGED <<saved, disk, history>>
    BY <1>7 DEF StartFinalize, AwaitsFinalApproval, TaskOK
  <2>2. /\ \A t \in Trees : ~(t < 1)
        /\ ~(1 > Integration)
    BY WorkstreamsAssumption DEF Integration
  <2>3. 1 \in disk'.checkouts => Branched(saved)'
    BY <2>1 DEF DiskOK, Branched
  <2> QED BY <2>1, <2>2, <2>3 DEF DiskOK, NeedsTrees, Finalizing, FinalizedIsClean
<1>8. CASE Crash
  <2>1. /\ state' = saved /\ UNCHANGED <<saved, disk>>
        /\ task \in {"preparing", "working", "advancing"}
        /\ task' = IF saved.stage = "created" THEN "approved" ELSE "decided"
        /\ history' = [history EXCEPT !.crashes = @ + 1, !.fixes = saved.attempts]
    BY <1>8 DEF Crash
  <2>2. history'.crashes > 0 /\ history'.crashes # 0
    BY <1>1, <2>1, CrashAssumption DEF Histories
  <2>3. task' = "decided" => NeedsTrees
    BY <2>1, CreatedFacts DEF TaskOK, NeedsTrees
  <2>4. task' = "decided" => Works \subseteq disk'.checkouts /\ Held(state)' /\ Held(saved)'
    BY <2>1, <2>3 DEF DiskOK, Held, Branched
  <2> QED BY <2>1, <2>2, <2>4 DEF DiskOK, NeedsTrees, Finalizing, FinalizedIsClean
<1>9. CASE UNCHANGED vars
  BY <1>9 DEF vars, DiskOK, NeedsTrees, Held, Branched, FinalizedIsClean
<1> QED BY <1>2, <1>3, <1>4, <1>5, <1>6, <1>7, <1>8, <1>9, DiskAdvanceStep,
           DiskAgentStep, DiskFinalStep, KindsOfSteps
        DEF Prepares, Pauses, Decide

-----------------------------------------------------------------------------
(* The invariant, and what follows from it *)

LEMMA InvInit == Init => CoordInv
  BY TypeInit, TaskInit, StateInit, GitInit, LoopInit, ReviewInit, DiskInit
     DEF CoordInv

LEMMA InvStep == CoordInv /\ [Next]_vars => CoordInv'
<1> SUFFICES ASSUME CoordInv, [Next]_vars PROVE CoordInv'
  OBVIOUS
<1> USE DEF CoordInv
<1> DEFINE Other == \/ Fails \/ Prepares \/ StartsAgents \/ AgentWorks
                    \/ AgentsReturn \/ Pauses \/ Finalizes \/ Crash
                    \/ UNCHANGED vars
<1>1. Advance \/ Other
  BY KindsOfSteps
<1>2. TypeOK'
  BY <1>1, AdvanceTyped, OtherTyped
<1>3. TaskOK'
  BY TaskStep
<1>4. StateOK'
  BY <1>1, StateAdvanceStep, StateOtherStep
<1>5. GitOK'
  BY <1>1, <1>4, GitAdvanceStep, GitOtherStep
<1>6. LoopOK' /\ ReviewOK' /\ DiskOK'
  BY LoopStep, ReviewStep, DiskStep
<1> QED BY <1>2, <1>3, <1>4, <1>5, <1>6

\* Every reachable state of the coordinator satisfies the invariant above.
THEOREM CoordinatorInvariant == Spec => []CoordInv
<1>1. Init => CoordInv
  BY InvInit
<1>2. CoordInv /\ [Next]_vars => CoordInv'
  BY InvStep
<1> QED BY <1>1, <1>2, PTL DEF Spec

\* Type correctness: in particular no fix attempt is counted beyond the
\* allowance, and no merge of an unknown record is ever opened.
THEOREM CoordinatorTypes == Spec => []TypeOK
<1>1. CoordInv => TypeOK
  BY DEF CoordInv
<1> QED BY <1>1, CoordinatorInvariant, PTL

\* Whatever conflicts, repairs and process deaths happened on the way, what is
\* reviewed contains all the work of all the workstreams.
THEOREM AllWorkIsReviewed == Spec => []NothingLeftOut
<1>1. ASSUME CoordInv PROVE NothingLeftOut
  <2> SUFFICES ASSUME state.stage \in Integrated
               PROVE  /\ state.merged = Works /\ git.dirty \cap Works = {}
                      /\ git.committed \subseteq git.integrated
                      /\ git.merging = NoWork
    BY DEF NothingLeftOut
  <2>1. state.merged = Works
    BY <1>1 DEF CoordInv, StateOK, ExecutionOK
  <2>2. state.stage \in LateStages
    BY StageKinds
  <2>3. git.dirty \cap Works = {} /\ OnBranch(state) /\ git.merging = NoWork
    BY <1>1, <2>2 DEF CoordInv, GitOK
  <2>4. git.committed \subseteq Works
    BY <1>1 DEF CoordInv, TypeOK, GitStates
  <2> QED BY <2>1, <2>3, <2>4 DEF OnBranch
<1> QED BY <1>1, CoordinatorInvariant, PTL

\* The content a person is asked to publish passed the combined tests and the
\* review, and nothing changed it since.
THEOREM OnlyVerifiedIsOffered == Spec => []FinalIsVerified
<1>1. CoordInv => FinalIsVerified
  BY DEF CoordInv, ReviewOK
<1> QED BY <1>1, CoordinatorInvariant, PTL

\* When a review starts, the files under test are the commits under review.
THEOREM TestsAndReviewAgree == Spec => []TestedIsReviewed
<1>1. CoordInv => TestedIsReviewed
  BY DEF CoordInv, GitOK, TestedIsReviewed, At
<1> QED BY <1>1, CoordinatorInvariant, PTL

\* No commit of the integration branch has conflict markers in it.
THEOREM MarkersStayOut == Spec => []NoMarkersCommitted
<1>1. CoordInv => NoMarkersCommitted
  BY DEF CoordInv, GitOK, NoMarkersCommitted
<1> QED BY <1>1, CoordinatorInvariant, PTL

\* A workstream saved as completed has no agent at work for it.
THEOREM CompletedWorkRests == Spec => []SavedWorkIsKept
<1>1. CoordInv => SavedWorkIsKept
  BY DEF CoordInv, TaskOK
<1> QED BY <1>1, CoordinatorInvariant, PTL

\* The repairs of a review stay within the one allowance over all the pauses of
\* the run and all the processes that take it up: one that dies gives back the
\* repairs that no pause has saved, and none of those that one has.
THEOREM RepairIsBounded == Spec => []FixesBounded
<1>1. CoordInv => FixesBounded
  BY DEF CoordInv, StateOK, ExecutionOK, ReviewOK, FixesBounded
<1> QED BY <1>1, CoordinatorInvariant, PTL

\* A run that waits for tool decisions has on disk and in its saved state all
\* that the process that takes it up will ask for.
THEOREM PausesResume == Spec => []PauseIsResumable
<1>1. ASSUME CoordInv PROVE PauseIsResumable
  <2> SUFFICES ASSUME task \in {"waiting", "decided"}, saved.stage \in ToolPauses
               PROVE  /\ Works \subseteq disk.checkouts
                      /\ saved.integration => Integration \in disk.checkouts
                      /\ saved.stage = "awaiting_approvals" =>
                             \E w \in Works : saved.execution[w] = "pending_approval"
                      /\ saved.stage = "merge_repair_awaiting_approvals" =>
                             /\ saved.repair = "pending_approval"
                             /\ saved.conflict \in Works \ saved.merged
                             /\ history.crashes = 0 => git.merging = saved.conflict
                      /\ saved.stage = "review_fix_awaiting_approvals" =>
                             saved.findings /\ saved.fix = "pending_approval"
    BY DEF PauseIsResumable
  <2>1. NeedsTrees
    BY DEF NeedsTrees
  <2>2. /\ Works \subseteq disk.checkouts
        /\ saved.integration => Integration \in disk.checkouts
    BY <1>1, <2>1 DEF CoordInv, DiskOK, Held
  <2>3. SomePending(saved) /\ ExecutionOK(saved) /\ state = saved
    BY <1>1 DEF CoordInv, StateOK, TaskOK
  <2>4. ASSUME saved.stage = "merge_repair_awaiting_approvals"
        PROVE  /\ saved.repair = "pending_approval"
               /\ saved.conflict \in Works \ saved.merged
               /\ history.crashes = 0 => git.merging = saved.conflict
    <3>1. saved.stage \in MergeStages
      BY <2>4 DEF MergeStages
    <3> QED BY <1>1, <2>3, <2>4, <3>1 DEF ExecutionOK, CoordInv, GitOK
  <2>5. ASSUME saved.stage = "review_fix_awaiting_approvals"
        PROVE  saved.findings /\ saved.fix = "pending_approval"
    BY <2>3, <2>5 DEF ExecutionOK, FixStages
  <2> QED BY <2>2, <2>3, <2>4, <2>5 DEF SomePending
<1> QED BY <1>1, CoordinatorInvariant, PTL

\* A finalized run leaves behind nothing but the branch it published.
THEOREM FinalizationCleans == Spec => []FinalizedIsClean
<1>1. CoordInv => FinalizedIsClean
  BY DEF CoordInv, DiskOK
<1> QED BY <1>1, CoordinatorInvariant, PTL

-----------------------------------------------------------------------------
(***************************************************************************)
(* A coordinator left alone comes to an end.  Of each state there is a     *)
(* rank, nine numbers of which an earlier one counts for more:             *)
(*   1  whether the run is queued, advancing, or waiting or ended;         *)
(*   2  the part of the work it is in;                                     *)
(*   3  the workstreams not yet merged;                                    *)
(*   4  the repairs of a review still allowed;                             *)
(*   5  the stage within the part;                                         *)
(*   6  how far the loop over records or trees has to go;                  *)
(*   7  the agents at work;                                                *)
(*   8  the trees in which nobody has left files;                          *)
(*   9  what still holds of the integration tree: markers in it, tests and *)
(*      a review passed.                                                   *)
(***************************************************************************)

QueuedOrBusy ==
    CASE task \in {"approved", "decided"} -> 2
      [] task \in {"preparing", "working", "advancing"} \cup Finalizing -> 1
      [] OTHER -> 0

PartOfWork ==
    CASE state.stage \in WorkStages -> 4
      [] state.stage = "work_completed" -> 3
      [] state.stage \in {"integrating"} \cup MergeStages -> 2
      [] state.stage \in Integrated \ {"awaiting_final_approval"} -> 1
      [] OTHER -> 0

StageInPart ==
    CASE task = "preparing" -> 3
      [] task = "working" -> 2
      [] At("review_fix_completed") -> 5
      [] At("integrating") \/ At("integrated") -> 4
      [] At("merge_conflict") \/ At("review_findings") -> 3
      [] OTHER -> 1

Claims ==
    (IF git.markers THEN 1 ELSE 0) + (IF history.passed THEN 1 ELSE 0)
        + (IF history.accepted THEN 1 ELSE 0)

Rank ==
    <<QueuedOrBusy, PartOfWork, Cardinality(Works \ state.merged),
      MaxFixCycles - state.attempts, StageInPart, Integration + 1 - cursor,
      Cardinality(running), Cardinality(Trees \ git.dirty), Claims>>

Levels == 1..9

Below(m, n) ==
    \E i \in Levels : m[i] < n[i] /\ \A j \in 1..(i - 1) : m[j] = n[j]

Merges == state.merged \subseteq state'.merged /\ state.merged # state'.merged

Disturbs == git.dirty \subseteq git'.dirty /\ git.dirty # git'.dirty

LEMMA RankTyped ==
    ASSUME TypeOK
    PROVE  /\ \A i \in Levels : Rank[i] \in Nat
           /\ IsFiniteSet(Works \ state.merged) /\ IsFiniteSet(running)
           /\ IsFiniteSet(Trees \ git.dirty)
<1>1. IsFiniteSet(Works) /\ IsFiniteSet(Trees)
  <2>1. Workstreams \in Int /\ Integration \in Int /\ 1 \in Int
    BY WorkstreamsAssumption DEF Integration
  <2> QED BY <2>1, FS_Interval DEF Works, Trees
<1>2. /\ IsFiniteSet(Works \ state.merged) /\ IsFiniteSet(running)
      /\ IsFiniteSet(Trees \ git.dirty)
  BY <1>1, FS_Subset DEF TypeOK
<1>3. /\ Cardinality(Works \ state.merged) \in Nat /\ Cardinality(running) \in Nat
      /\ Cardinality(Trees \ git.dirty) \in Nat
  BY <1>2, FS_CardinalityType
<1>4. QueuedOrBusy \in Nat /\ PartOfWork \in Nat /\ StageInPart \in Nat /\ Claims \in Nat
  <2>1. QueuedOrBusy \in Nat
    BY DEF QueuedOrBusy
  <2>2. PartOfWork \in Nat
    BY DEF PartOfWork
  <2>3. StageInPart \in Nat
    BY DEF StageInPart
  <2> QED BY <2>1, <2>2, <2>3 DEF Claims
<1>5. MaxFixCycles - state.attempts \in Nat
  BY FixAssumption DEF TypeOK, CoordinatorExecutions
<1>6. Integration + 1 - cursor \in Nat
  BY WorkstreamsAssumption DEF TypeOK, Integration
<1>7. ASSUME NEW i \in Levels
      PROVE  Rank[i] \in Nat
  <2> HIDE DEF QueuedOrBusy, PartOfWork, StageInPart, Claims
  <2>1. i \in {1, 2, 3, 4, 5, 6, 7, 8, 9}
    BY DEF Levels
  <2> QED BY <1>3, <1>4, <1>5, <1>6, <2>1 DEF Rank
<1> QED BY <1>2, <1>7

LEMMA SmallerSet ==
    ASSUME NEW S, IsFiniteSet(S), NEW T, T \subseteq S, T # S
    PROVE  Cardinality(T) < Cardinality(S)
<1>1. /\ IsFiniteSet(T) /\ Cardinality(T) <= Cardinality(S)
      /\ Cardinality(T) # Cardinality(S)
  BY FS_Subset
<1>2. Cardinality(T) \in Nat /\ Cardinality(S) \in Nat
  BY <1>1, FS_CardinalityType
<1> QED BY <1>1, <1>2

\* Where a step lowers a rank.
LEMMA RankFalls ==
    ASSUME TypeOK, TypeOK',
           \/ QueuedOrBusy' < QueuedOrBusy
           \/ /\ QueuedOrBusy' = QueuedOrBusy
              /\ \/ PartOfWork' < PartOfWork
                 \/ PartOfWork' = PartOfWork /\ Merges
                 \/ /\ PartOfWork' = PartOfWork /\ state'.merged = state.merged
                    /\ \/ state.attempts < state'.attempts
                       \/ /\ state'.attempts = state.attempts
                          /\ \/ StageInPart' < StageInPart
                             \/ StageInPart' = StageInPart /\ cursor < cursor'
                             \/ /\ StageInPart' = StageInPart /\ cursor' = cursor
                                /\ \/ running' \subseteq running /\ running' # running
                                   \/ running' = running /\ Disturbs
                                   \/ /\ running' = running /\ git'.dirty = git.dirty
                                      /\ Claims' < Claims
    PROVE  Below(Rank', Rank)
<1>1. /\ IsFiniteSet(Works \ state.merged) /\ IsFiniteSet(running)
      /\ IsFiniteSet(Trees \ git.dirty)
  BY RankTyped
<1>2. /\ Rank[1] = QueuedOrBusy /\ Rank[2] = PartOfWork
      /\ Rank[3] = Cardinality(Works \ state.merged)
      /\ Rank[4] = MaxFixCycles - state.attempts
      /\ Rank[5] = StageInPart /\ Rank[6] = Integration + 1 - cursor
      /\ Rank[7] = Cardinality(running) /\ Rank[8] = Cardinality(Trees \ git.dirty)
      /\ Rank[9] = Claims
  BY DEF Rank
<1>3. /\ Rank'[1] = QueuedOrBusy' /\ Rank'[2] = PartOfWork'
      /\ Rank'[3] = Cardinality(Works \ state'.merged)
      /\ Rank'[4] = MaxFixCycles - state'.attempts
      /\ Rank'[5] = StageInPart' /\ Rank'[6] = Integration + 1 - cursor'
      /\ Rank'[7] = Cardinality(running') /\ Rank'[8] = Cardinality(Trees \ git'.dirty)
      /\ Rank'[9] = Claims'
  BY DEF Rank
<1>4. Merges => Rank'[3] < Rank[3]
  <2> SUFFICES ASSUME Merges
               PROVE  Cardinality(Works \ state'.merged) < Cardinality(Works \ state.merged)
    BY <1>2, <1>3
  <2>1. state'.merged \subseteq Works /\ state.merged \subseteq Works
    BY DEF TypeOK, CoordinatorExecutions
  <2>2. /\ Works \ state'.merged \subseteq Works \ state.merged
        /\ Works \ state'.merged # Works \ state.merged
    BY <2>1 DEF Merges
  <2> QED BY <1>1, <2>2, SmallerSet
<1>5. running' \subseteq running /\ running' # running => Rank'[7] < Rank[7]
  BY <1>1, <1>2, <1>3, SmallerSet
<1>6. Disturbs => Rank'[8] < Rank[8]
  <2> SUFFICES ASSUME Disturbs
               PROVE  Cardinality(Trees \ git'.dirty) < Cardinality(Trees \ git.dirty)
    BY <1>2, <1>3
  <2>1. git'.dirty \subseteq Trees /\ git.dirty \subseteq Trees
    BY DEF TypeOK, GitStates
  <2>2. /\ Trees \ git'.dirty \subseteq Trees \ git.dirty
        /\ Trees \ git'.dirty # Trees \ git.dirty
    BY <2>1 DEF Disturbs
  <2> QED BY <1>1, <2>2, SmallerSet
<1>7. state.attempts < state'.attempts => Rank'[4] < Rank[4]
  BY <1>2, <1>3, FixAssumption DEF TypeOK, CoordinatorExecutions
<1>8. cursor < cursor' => Rank'[6] < Rank[6]
  BY <1>2, <1>3, WorkstreamsAssumption DEF TypeOK, Integration
<1>9. \/ Rank'[1] < Rank[1]
      \/ /\ Rank'[1] = Rank[1]
         /\ \/ Rank'[2] < Rank[2]
            \/ /\ Rank'[2] = Rank[2]
               /\ \/ Rank'[3] < Rank[3]
                  \/ /\ Rank'[3] = Rank[3]
                     /\ \/ Rank'[4] < Rank[4]
                        \/ /\ Rank'[4] = Rank[4]
                           /\ \/ Rank'[5] < Rank[5]
                              \/ /\ Rank'[5] = Rank[5]
                                 /\ \/ Rank'[6] < Rank[6]
                                    \/ /\ Rank'[6] = Rank[6]
                                       /\ \/ Rank'[7] < Rank[7]
                                          \/ Rank'[7] = Rank[7] /\ Rank'[8] < Rank[8]
                                          \/ /\ Rank'[7] = Rank[7] /\ Rank'[8] = Rank[8]
                                             /\ Rank'[9] < Rank[9]
  BY <1>2, <1>3, <1>4, <1>5, <1>6, <1>7, <1>8
<1> DEFINE m == Rank' n == Rank
<1> HIDE DEF m, n
<1>10. \E i \in Levels : m[i] < n[i] /\ \A j \in 1..(i - 1) : m[j] = n[j]
  <2>1. \A j \in Levels : j \in {1, 2, 3, 4, 5, 6, 7, 8, 9}
    BY DEF Levels
  <2> QED BY <1>9, <2>1 DEF Levels, m, n
<1> QED BY <1>10 DEF Below, m, n

\* What a step does to the first two numbers and to the fifth.
InPlace ==
    /\ task \in {"approved", "decided"} => QueuedOrBusy = 2
    /\ task \in {"preparing", "working", "advancing"} \cup Finalizing
          => QueuedOrBusy = 1
    /\ task \in {"waiting", "completed", "rejected", "failed"}
          => QueuedOrBusy = 0
    /\ task = "preparing" => PartOfWork = 4 /\ StageInPart = 3
    /\ task = "working" => StageInPart = 2
    /\ state.stage \in WorkStages => PartOfWork = 4
    /\ state.stage = "work_completed" => PartOfWork = 3
    /\ state.stage \in {"integrating"} \cup MergeStages => PartOfWork = 2
    /\ state.stage \in {"integrated", "review_findings", "review_fix_completed",
                        "review_fix_awaiting_approvals"} => PartOfWork = 1
    /\ state.stage = "awaiting_final_approval" => PartOfWork = 0
    /\ At("review_fix_completed") => StageInPart = 5
    /\ At("integrating") \/ At("integrated") => StageInPart = 4
    /\ At("merge_conflict") \/ At("review_findings") => StageInPart = 3
    /\ At("awaiting_approvals") \/ At("merge_repair_awaiting_approvals")
          \/ At("merge_repair_completed") \/ At("work_completed")
          \/ At("review_fix_awaiting_approvals") => StageInPart = 1

LEMMA Places == CoordInv => InPlace
<1> SUFFICES ASSUME CoordInv PROVE InPlace
  OBVIOUS
<1>1. /\ task \in {"approved", "decided"} => QueuedOrBusy = 2
      /\ task \in {"preparing", "working", "advancing"} \cup Finalizing
            => QueuedOrBusy = 1
      /\ task \in {"waiting", "completed", "rejected", "failed"}
            => QueuedOrBusy = 0
  BY DEF QueuedOrBusy, Finalizing
<1>2. /\ state.stage \in WorkStages => PartOfWork = 4
      /\ state.stage = "work_completed" => PartOfWork = 3
      /\ state.stage \in {"integrating"} \cup MergeStages => PartOfWork = 2
      /\ state.stage \in {"integrated", "review_findings", "review_fix_completed",
                          "review_fix_awaiting_approvals"} => PartOfWork = 1
      /\ state.stage = "awaiting_final_approval" => PartOfWork = 0
  BY DEF PartOfWork, WorkStages, MergeStages, Integrated
<1>3. task = "preparing" => state.stage \in WorkStages
  BY DEF CoordInv, TaskOK, Created, WorkStages
<1>4. /\ task = "preparing" => StageInPart = 3
      /\ task = "working" => StageInPart = 2
      /\ At("review_fix_completed") => StageInPart = 5
      /\ At("integrating") \/ At("integrated") => StageInPart = 4
      /\ At("merge_conflict") \/ At("review_findings") => StageInPart = 3
      /\ At("awaiting_approvals") \/ At("merge_repair_awaiting_approvals")
            \/ At("merge_repair_completed") \/ At("work_completed")
            \/ At("review_fix_awaiting_approvals") => StageInPart = 1
  BY DEF StageInPart, At
<1> QED BY <1>1, <1>2, <1>3, <1>4 DEF InPlace

\* A step that begins or ends the advance.
LEMMA BeginsOrEnds ==
    ASSUME CoordInv, CoordInv',
           StartCoordinator \/ ResumeWork \/ ResumeMergeConflictRepair
              \/ ResumeReviewFix \/ Fails \/ SavePause \/ Finalized
    PROVE  QueuedOrBusy' < QueuedOrBusy
<1>0. InPlace /\ InPlace'
  BY Places, PTL
<1>1. CASE StartCoordinator \/ ResumeWork \/ ResumeMergeConflictRepair \/ ResumeReviewFix
  <2>1. /\ task \in {"approved", "decided"}
        /\ task' \in {"preparing", "working"}
    BY <1>1 DEF StartCoordinator, ResumeWork, ResumeMergeConflictRepair, ResumeReviewFix,
    RepairTakenUp
  <2>2. QueuedOrBusy = 2
    BY <1>0, <2>1 DEF InPlace
  <2>3. QueuedOrBusy' = 1
    BY <1>0, <2>1 DEF InPlace
  <2> QED BY <2>2, <2>3
<1>2. CASE Fails \/ SavePause \/ Finalized
  <2>1. /\ task \in {"preparing", "working", "advancing"} \cup Finalizing
        /\ task' \in {"waiting", "completed", "rejected", "failed"}
    BY <1>2 DEF Fails, PreparationFails, StartFails, FixesExhausted, Fail, SavePause,
                Finalized, At
  <2>2. QueuedOrBusy = 1
    BY <1>0, <2>1 DEF InPlace
  <2>3. QueuedOrBusy' = 0
    BY <1>0, <2>1 DEF InPlace
  <2> QED BY <2>2, <2>3
<1> QED BY <1>1, <1>2

\* A step that goes on to another part of the work.
LEMMA NextPart ==
    ASSUME CoordInv, CoordInv',
           CreateIntegrationWorktree \/ IntegrationFinished
    PROVE  Below(Rank', Rank)
<1>1. InPlace /\ InPlace' /\ TypeOK /\ TypeOK'
  BY Places, PTL DEF CoordInv
<1>2. QueuedOrBusy' = QueuedOrBusy
  <2>1. task = "advancing" /\ task' = "advancing"
    BY DEF CreateIntegrationWorktree, IntegrationFinished, At
  <2> QED BY <1>1, <2>1 DEF InPlace
<1>3. \/ state.stage = "work_completed" /\ state'.stage = "integrating"
      \/ state.stage = "integrating" /\ state'.stage = "integrated"
  BY <1>1 DEF CreateIntegrationWorktree, IntegrationFinished, At, TypeOK,
              CoordinatorExecutions
<1>4. PartOfWork' < PartOfWork
  BY <1>1, <1>3 DEF InPlace
<1> QED BY <1>1, <1>2, <1>4, RankFalls

\* A step that merges a workstream.
LEMMA OneMoreMerged ==
    ASSUME CoordInv, CoordInv', MergeWorktree \/ CompleteMergeRepair
    PROVE  Below(Rank', Rank)
<1>1. InPlace /\ InPlace' /\ TypeOK /\ TypeOK'
  BY Places, PTL DEF CoordInv
<1>2. QueuedOrBusy' = QueuedOrBusy
  <2>1. task = "advancing" /\ task' = "advancing"
    BY DEF MergeWorktree, CompleteMergeRepair, At
  <2> QED BY <1>1, <2>1 DEF InPlace
<1>3. /\ state.stage \in {"integrating"} \cup MergeStages
      /\ state'.stage = "integrating"
  BY <1>1 DEF MergeWorktree, CompleteMergeRepair, At, TypeOK, CoordinatorExecutions,
              MergeStages
<1>4. PartOfWork' = PartOfWork
  BY <1>1, <1>3 DEF InPlace
<1>5. Merges
  <2>1. CASE MergeWorktree
    BY <1>1, <2>1 DEF MergeWorktree, Merges, TypeOK, CoordinatorExecutions
  <2>2. CASE CompleteMergeRepair
    <3>1. state.conflict \in Works \ state.merged
      BY <2>2 DEF CompleteMergeRepair, At, CoordInv, StateOK, ExecutionOK, MergeStages
    <3> QED BY <1>1, <2>2, <3>1 DEF CompleteMergeRepair, Merges, TypeOK,
                                    CoordinatorExecutions
  <2> QED BY <2>1, <2>2
<1> QED BY <1>1, <1>2, <1>4, <1>5, RankFalls

\* A step within the integration, or within the review of one content.
StageStep ==
    \/ ExecuteNewWork \/ MergeConflicts \/ StartMergeConflictRepair
    \/ \E status \in Statuses : MergeRepairReturns(status)
    \/ StartReviewFix \/ CompleteReviewFix
    \/ ReviewFixReturns("pending_approval")

LEMMA NextStage ==
    ASSUME CoordInv, CoordInv', StageStep
    PROVE  Below(Rank', Rank)
<1>1. InPlace /\ InPlace' /\ TypeOK /\ TypeOK'
  BY Places, PTL DEF CoordInv
<1> DEFINE Same == /\ QueuedOrBusy' = QueuedOrBusy /\ PartOfWork' = PartOfWork
                   /\ state'.merged = state.merged /\ state'.attempts = state.attempts
<1>2. CASE ExecuteNewWork
  <2>1. /\ task = "preparing" /\ task' = "working"
        /\ state' = state /\ state.stage \in WorkStages
    BY <1>2 DEF ExecuteNewWork, CoordInv, TaskOK, Created, WorkStages
  <2>2. Same /\ StageInPart' < StageInPart
    BY <1>1, <2>1 DEF InPlace
  <2> QED BY <1>1, <2>2, RankFalls
<1>3. CASE MergeConflicts
  <2>1. /\ At("integrating") /\ At("merge_conflict")'
        /\ state.stage = "integrating" /\ state'.stage = "merge_conflict"
        /\ state'.merged = state.merged /\ state'.attempts = state.attempts
        /\ task = "advancing" /\ task' = "advancing"
    BY <1>1, <1>3 DEF MergeConflicts, StateInConflict, At, TypeOK, CoordinatorExecutions
  <2>2. Same /\ StageInPart' < StageInPart
    BY <1>1, <2>1 DEF InPlace, MergeStages
  <2> QED BY <1>1, <2>2, RankFalls
<1>4. CASE StartMergeConflictRepair \/ StartReviewFix
  <2>1. /\ At("merge_conflict") \/ At("review_findings")
        /\ task = "advancing" /\ task' = "working"
        /\ state' = state
        /\ state.stage \in MergeStages \cup FixStages
    BY <1>4 DEF StartMergeConflictRepair, StartReviewFix, At, MergeStages, FixStages
  <2>2. Same /\ StageInPart' < StageInPart
    BY <1>1, <2>1 DEF InPlace, FixStages
  <2> QED BY <1>1, <2>2, RankFalls
<1>5. ASSUME NEW status \in Statuses, MergeRepairReturns(status)
      PROVE  Below(Rank', Rank)
  <2>1. /\ state.stage \in MergeStages
        /\ \/ At("merge_repair_awaiting_approvals")'
           \/ At("merge_repair_completed")'
        /\ state'.stage \in MergeStages
        /\ state'.merged = state.merged /\ state'.attempts = state.attempts
        /\ task = "working" /\ task' = "advancing"
    BY <1>1, <1>5 DEF MergeRepairReturns, At, TypeOK, CoordinatorExecutions, MergeStages
  <2>2. Same /\ StageInPart' < StageInPart
    BY <1>1, <2>1 DEF InPlace
  <2> QED BY <1>1, <2>2, RankFalls
<1>6. CASE CompleteReviewFix
  <2>1. /\ At("review_fix_completed") /\ At("integrated")'
        /\ state.stage = "review_fix_completed" /\ state'.stage = "integrated"
        /\ state'.merged = state.merged /\ state'.attempts = state.attempts
        /\ task = "advancing" /\ task' = "advancing"
    BY <1>1, <1>6 DEF CompleteReviewFix, At, TypeOK, CoordinatorExecutions
  <2>2. Same /\ StageInPart' < StageInPart
    BY <1>1, <2>1 DEF InPlace
  <2> QED BY <1>1, <2>2, RankFalls
<1>7. CASE ReviewFixReturns("pending_approval")
  <2>1. /\ state.stage \in {"review_findings", "review_fix_awaiting_approvals"}
        /\ At("review_fix_awaiting_approvals")'
        /\ state'.stage = "review_fix_awaiting_approvals"
        /\ state'.merged = state.merged /\ state'.attempts = state.attempts
        /\ task = "working" /\ task' = "advancing"
    BY <1>1, <1>7 DEF ReviewFixReturns, AttemptsAfter, At, TypeOK, CoordinatorExecutions
  <2>2. Same /\ StageInPart' < StageInPart
    BY <1>1, <2>1 DEF InPlace
  <2> QED BY <1>1, <2>2, RankFalls
<1> QED BY <1>2, <1>3, <1>4, <1>5, <1>6, <1>7 DEF StageStep

\* The agents of the work, or the reviewer, have returned.
LEMMA GroupDescends ==
    ASSUME CoordInv, CoordInv',
           \/ WorkReturned
           \/ ReviewFixReturns("completed")
           \/ \E passed, accepted \in BOOLEAN :
                 ReviewIntegrationWorktree(passed, accepted)
    PROVE  Below(Rank', Rank)
<1>1. InPlace /\ InPlace' /\ TypeOK /\ TypeOK'
  BY Places, PTL DEF CoordInv
<1>2. CASE WorkReturned
  <2>1. /\ task = "working" /\ task' = "advancing" /\ running = {}
        /\ state'.stage \in {"awaiting_approvals", "work_completed"}
        /\ state'.merged = state.merged /\ state'.attempts = state.attempts
    BY <1>1, <1>2 DEF WorkReturned, StageOfWork, TypeOK, CoordinatorExecutions
  <2>2. state.stage \in WorkStages
    BY <2>1 DEF CoordInv, TaskOK
  <2>3. QueuedOrBusy' = QueuedOrBusy
    BY <1>1, <2>1 DEF InPlace
  <2>4. CASE state'.stage = "work_completed"
    <3>1. PartOfWork' < PartOfWork
      BY <1>1, <2>2, <2>4 DEF InPlace
    <3> QED BY <1>1, <2>3, <3>1, RankFalls
  <2>5. CASE state'.stage = "awaiting_approvals"
    <3>1. At("awaiting_approvals")' /\ state'.stage \in WorkStages
      BY <2>1, <2>5 DEF At, WorkStages
    <3>2. PartOfWork' = PartOfWork /\ StageInPart' < StageInPart
      BY <1>1, <2>1, <2>2, <3>1 DEF InPlace
    <3> QED BY <1>1, <2>1, <2>3, <3>2, RankFalls
  <2> QED BY <2>1, <2>4, <2>5
<1>3. CASE ReviewFixReturns("completed")
  <2>1. /\ state.stage \in {"review_findings", "review_fix_awaiting_approvals"}
        /\ state'.stage = "review_fix_completed"
        /\ state'.merged = state.merged /\ state'.attempts = state.attempts + 1
        /\ task = "working" /\ task' = "advancing"
    BY <1>1, <1>3 DEF ReviewFixReturns, AttemptsAfter, TypeOK, CoordinatorExecutions
  <2>2. QueuedOrBusy' = QueuedOrBusy /\ PartOfWork' = PartOfWork
    BY <1>1, <2>1 DEF InPlace
  <2>3. state.attempts < state'.attempts
    BY <1>1, <2>1, FixAssumption DEF TypeOK, CoordinatorExecutions
  <2> QED BY <1>1, <2>1, <2>2, <2>3, RankFalls
<1>4. ASSUME NEW passed \in BOOLEAN, NEW accepted \in BOOLEAN,
             ReviewIntegrationWorktree(passed, accepted)
      PROVE  Below(Rank', Rank)
  <2>1. /\ At("integrated") /\ state.stage = "integrated"
        /\ task = "advancing" /\ task' = "advancing"
    BY <1>4 DEF ReviewIntegrationWorktree, At
  <2>2. QueuedOrBusy' = QueuedOrBusy
    BY <1>1, <2>1 DEF InPlace
  <2>3. CASE ReviewSucceeds(passed, accepted)
    <3>1. state'.stage = "awaiting_final_approval"
      BY <1>1, <1>4, <2>3 DEF ReviewIntegrationWorktree, TypeOK, CoordinatorExecutions
    <3>2. PartOfWork' < PartOfWork
      BY <1>1, <2>1, <3>1 DEF InPlace
    <3> QED BY <1>1, <2>2, <3>2, RankFalls
  <2>4. CASE ~ReviewSucceeds(passed, accepted)
    <3>1. /\ state'.stage = "review_findings" /\ At("review_findings")'
          /\ state'.merged = state.merged /\ state'.attempts = state.attempts
      BY <1>1, <1>4, <2>1, <2>4
         DEF ReviewIntegrationWorktree, At, TypeOK, CoordinatorExecutions
    <3>2. PartOfWork' = PartOfWork /\ StageInPart' < StageInPart
      BY <1>1, <2>1, <3>1 DEF InPlace
    <3> QED BY <1>1, <2>2, <3>1, <3>2, RankFalls
  <2> QED BY <2>3, <2>4
<1> QED BY <1>2, <1>3, <1>4

\* A step within a loop.
LEMMA LoopDescends ==
    ASSUME CoordInv, CoordInv',
           CreateWorktree \/ CommitCompletedWork \/ SkipMerged \/ RemoveWorktree
    PROVE  Below(Rank', Rank)
<1>1. TypeOK /\ TypeOK'
  BY DEF CoordInv
<1>2. task' = task /\ state' = state /\ cursor' = cursor + 1
  BY DEF CreateWorktree, CommitCompletedWork, SkipMerged, RemoveWorktree
<1>3. cursor < cursor'
  BY <1>1, <1>2, WorkstreamsAssumption DEF TypeOK, Integration
<1>4. /\ QueuedOrBusy' = QueuedOrBusy /\ PartOfWork' = PartOfWork
      /\ StageInPart' = StageInPart
  BY <1>2 DEF QueuedOrBusy, PartOfWork, StageInPart, At
<1> QED BY <1>1, <1>2, <1>3, <1>4, RankFalls

\* An agent returns, or changes something that was as it should be.
LEMMA AgentDescends ==
    ASSUME CoordInv, CoordInv', AgentWorks, vars' # vars
    PROVE  Below(Rank', Rank)
<1>1. InPlace /\ InPlace' /\ TypeOK /\ TypeOK'
  BY Places, PTL DEF CoordInv
<1>2. ASSUME NEW w \in Works, NEW status \in Statuses, WorkerReturns(w, status)
      PROVE  Below(Rank', Rank)
  <2>1. /\ task = "working" /\ task' = "working" /\ cursor' = cursor
        /\ state'.stage = state.stage /\ state'.merged = state.merged
        /\ state'.attempts = state.attempts
        /\ running' \subseteq running /\ running' # running
    BY <1>1, <1>2 DEF WorkerReturns, TypeOK, CoordinatorExecutions
  <2>2. /\ QueuedOrBusy' = QueuedOrBusy /\ PartOfWork' = PartOfWork
        /\ StageInPart' = StageInPart
    BY <2>1 DEF QueuedOrBusy, PartOfWork, StageInPart
  <2> QED BY <1>1, <2>1, <2>2, RankFalls
<1>3. ASSUME NEW t \in Trees, AgentChangesFiles(t)
      PROVE  Below(Rank', Rank)
  <2>1. /\ task' = task /\ state' = state /\ cursor' = cursor /\ running' = running
        /\ saved' = saved /\ disk' = disk
        /\ history' = IF t = Integration THEN Unreviewed ELSE history
    BY <1>3 DEF AgentChangesFiles
  <2>2. PICK markers \in {git.markers, FALSE} :
                git' = [git EXCEPT !.dirty = @ \cup {t}, !.markers = markers]
    BY <1>3 DEF AgentChangesFiles
  <2>3. /\ QueuedOrBusy' = QueuedOrBusy /\ PartOfWork' = PartOfWork
        /\ StageInPart' = StageInPart
    BY <2>1 DEF QueuedOrBusy, PartOfWork, StageInPart, At
  <2>4. git'.dirty = git.dirty \cup {t} /\ git'.markers = markers
    BY <1>1, <2>2 DEF TypeOK, GitStates
  <2>5. CASE Disturbs
    BY <1>1, <2>1, <2>3, <2>5, RankFalls
  <2>6. CASE ~Disturbs
    <3>1. git'.dirty = git.dirty
      BY <2>4, <2>6 DEF Disturbs
    <3>2. /\ git.markers \in BOOLEAN /\ git'.markers \in BOOLEAN
          /\ history.passed \in BOOLEAN /\ history.accepted \in BOOLEAN
          /\ history'.passed \in BOOLEAN /\ history'.accepted \in BOOLEAN
          /\ history \in Histories /\ history' \in Histories
          /\ git \in GitStates /\ git' \in GitStates
      BY <1>1 DEF TypeOK, GitStates, Histories
    <3>3. /\ git'.markers => git.markers
          /\ history'.passed => history.passed
          /\ history'.accepted => history.accepted
      BY <2>1, <2>2, <2>4, <3>2 DEF Unreviewed, Histories
    <3>4. ~(/\ git'.markers = git.markers /\ history'.passed = history.passed
            /\ history'.accepted = history.accepted)
      <4> SUFFICES ASSUME git'.markers = git.markers, history'.passed = history.passed,
                          history'.accepted = history.accepted
                   PROVE  FALSE
        OBVIOUS
      <4>1. git' = git
        BY <2>2, <2>4, <3>1, <3>2 DEF GitStates
      <4>2. history' = history
        BY <2>1, <3>2 DEF Unreviewed, Histories
      <4> QED BY <2>1, <4>1, <4>2 DEF vars
    <3>5. Claims' < Claims
      BY <3>2, <3>3, <3>4 DEF Claims
    <3> QED BY <1>1, <2>1, <2>3, <3>1, <3>5, RankFalls
  <2> QED BY <2>5, <2>6
<1> QED BY <1>2, <1>3 DEF AgentWorks

\* Each step of the coordinator, of its agents and of the commands it runs
\* lowers the rank, through all conflicts, reviews and repairs
\* (advance_until_pause): nothing but a person's decision and a crash, which are
\* not its own steps, can raise it.
CoordinatorDescends == [][Coordinate => Below(Rank', Rank)]_vars

\* The loop of advance_until_pause never goes round in vain, for any number of
\* workstreams and any allowance of repairs.
THEOREM AdvanceDescends == Spec => CoordinatorDescends
<1>1. ASSUME CoordInv, CoordInv', [Next]_vars
      PROVE  [Coordinate => Below(Rank', Rank)]_vars
  <2> SUFFICES ASSUME Coordinate, vars' # vars
               PROVE  Below(Rank', Rank)
    OBVIOUS
  <2>1. TypeOK /\ TypeOK'
    BY <1>1 DEF CoordInv
  <2>2. CASE StartCoordinator \/ ResumeWork \/ ResumeMergeConflictRepair
                \/ ResumeReviewFix \/ Fails \/ SavePause \/ Finalized
    BY <1>1, <2>1, <2>2, BeginsOrEnds, RankFalls
  <2>3. CASE CreateIntegrationWorktree \/ IntegrationFinished
    BY <1>1, <2>3, NextPart
  <2>4. CASE MergeWorktree \/ CompleteMergeRepair
    BY <1>1, <2>4, OneMoreMerged
  <2>5. CASE StageStep
    BY <1>1, <2>5, NextStage
  <2>6. CASE \/ WorkReturned
             \/ ReviewFixReturns("completed")
             \/ \E passed, accepted \in BOOLEAN :
                   ReviewIntegrationWorktree(passed, accepted)
    BY <1>1, <2>6, GroupDescends
  <2>7. CASE CreateWorktree \/ CommitCompletedWork \/ SkipMerged \/ RemoveWorktree
    BY <1>1, <2>7, LoopDescends
  <2>8. CASE AgentWorks
    BY <1>1, <2>8, AgentDescends
  <2>9. ASSUME NEW status \in Statuses, ReviewFixReturns(status)
        PROVE  ReviewFixReturns("pending_approval") \/ ReviewFixReturns("completed")
    BY <2>9 DEF Statuses
  <2> QED BY <2>2, <2>3, <2>4, <2>5, <2>6, <2>7, <2>8, <2>9
             DEF Coordinate, Fails, StageStep, AgentWorks
<1> QED BY <1>1, CoordinatorInvariant, PTL DEF Spec, CoordinatorDescends

-----------------------------------------------------------------------------
(***************************************************************************)
(* There is no endless way down: of any ranks there is a lowest, so a      *)
(* coordinator that nobody interrupts takes finitely many steps.           *)
(***************************************************************************)

IsRank(m) == \A i \in Levels : m[i] \in Nat

\* A set of numbers has a least one.
LEMMA LeastNumber ==
    ASSUME NEW T, T \subseteq Nat, T # {}
    PROVE  \E m \in T : \A k \in T : m <= k
<1> DEFINE R == OpToRel(<, Nat)
<1>1. IsWellFoundedOn(R, Nat)
  BY NatLessThanWellFounded
<1>2. \A k, m \in Nat : k < m => <<k, m>> \in R
  BY DEF OpToRel
<1> HIDE DEF R
<1>3. PICK m \in T : \A k \in T : ~(<<k, m>> \in R)
  BY <1>1, WFMin
<1>4. \A k \in T : k \in Nat /\ m \in Nat /\ ~(k < m)
  BY <1>2, <1>3
<1>5. \A k \in T : m <= k
  BY <1>4
<1> QED BY <1>5

\* The ranks of a set that no other of it is below, counting the first i
\* numbers only.
Lowest(T, i) ==
    {m \in T : \A n \in T : \A j \in 1..i :
                  (\A k \in 1..(j - 1) : n[k] = m[k]) => m[j] <= n[j]}

LEMMA LowestExists ==
    ASSUME NEW T, T # {}, \A m \in T : IsRank(m), NEW i \in 0..9
    PROVE  Lowest(T, i) # {}
<1> DEFINE Stuck == {k \in 0..9 : Lowest(T, k) = {}}
<1>1. Stuck = {}
  <2> SUFFICES ASSUME Stuck # {} PROVE FALSE
    OBVIOUS
  <2>1. PICK s \in Stuck : \A k \in Stuck : s <= k
    <3>1. Stuck \subseteq Nat
      OBVIOUS
    <3> HIDE DEF Stuck
    <3> QED BY <3>1, LeastNumber
  <2>2. Lowest(T, 0) = T
    BY DEF Lowest
  <2>3. s \in 1..9 /\ s - 1 \in 0..9 /\ s - 1 \notin Stuck
    BY <2>1, <2>2
  <2> DEFINE U == Lowest(T, s - 1)
  <2>4. U # {} /\ U \subseteq T
    BY <2>3 DEF Lowest
  <2> DEFINE Numbers == {m[s] : m \in U}
  <2>5. Numbers \subseteq Nat /\ Numbers # {}
    BY <2>3, <2>4 DEF IsRank, Levels
  <2> HIDE DEF Numbers
  <2>6. PICK least \in Numbers : \A k \in Numbers : least <= k
    BY <2>5, LeastNumber
  <2>7. PICK m \in U : m[s] = least
    BY <2>6 DEF Numbers
  <2>8. ASSUME NEW n \in T, NEW j \in 1..s, \A k \in 1..(j - 1) : n[k] = m[k]
        PROVE  m[j] <= n[j]
    <3>1. CASE j # s
      <4>1. j \in 1..(s - 1)
        BY <2>3, <2>8, <3>1
      <4> QED BY <2>7, <2>8, <4>1 DEF Lowest
    <3>2. CASE j = s
      <4>1. n \in U
        <5>1. ASSUME NEW o \in T, NEW l \in 1..(s - 1),
                     \A k \in 1..(l - 1) : o[k] = n[k]
              PROVE  n[l] <= o[l]
          <6>1. /\ l \in 1..(j - 1)
                /\ \A k \in 1..(l - 1) : k \in 1..(j - 1)
            BY <2>3, <3>2, <5>1
          <6>2. \A k \in 1..(l - 1) : o[k] = m[k]
            BY <2>8, <5>1, <6>1
          <6>3. m[l] <= o[l]
            BY <2>7, <5>1, <6>2 DEF Lowest
          <6> QED BY <2>8, <6>1, <6>3
        <5> QED BY <2>8, <5>1 DEF Lowest
      <4>2. n[s] \in Numbers
        BY <4>1 DEF Numbers
      <4> QED BY <2>6, <2>7, <3>2, <4>2
    <3> QED BY <3>1, <3>2
  <2>9. m \in Lowest(T, s)
    BY <2>4, <2>7, <2>8 DEF Lowest
  <2> QED BY <2>1, <2>9
<1> QED BY <1>1

\* No sequence of ranks goes down for ever: with AdvanceDescends, a coordinator
\* (advance_until_pause) that nobody interrupts has an end to come to.
THEOREM RanksEnd ==
    ASSUME NEW f, \A t \in Nat : IsRank(f[t])
    PROVE  \E t \in Nat : ~Below(f[t + 1], f[t])
<1> DEFINE T == {f[t] : t \in Nat}
<1>1. T # {} /\ \A m \in T : IsRank(m)
  OBVIOUS
<1>2. PICK m : m \in Lowest(T, 9)
  <2> HIDE DEF T
  <2> QED BY <1>1, LowestExists
<1>3. PICK t \in Nat : m = f[t]
  BY <1>2 DEF Lowest
<1>4. f[t + 1] \in T
  BY <1>3
<1>5. ~Below(f[t + 1], m)
  <2> SUFFICES ASSUME NEW i \in Levels, f[t + 1][i] < m[i],
                      \A k \in 1..(i - 1) : f[t + 1][k] = m[k]
               PROVE  FALSE
    BY DEF Below
  <2>1. m[i] <= f[t + 1][i]
    BY <1>2, <1>4 DEF Lowest, Levels
  <2>2. m[i] \in Nat /\ f[t + 1][i] \in Nat
    BY <1>1, <1>3, <1>4 DEF IsRank
  <2> QED BY <2>1, <2>2
<1> QED BY <1>3, <1>5
=============================================================================
