------------------------ MODULE WorkflowClaimProofs ------------------------
(***************************************************************************)
(* Who may advance a run: theorems about Workflow without rival            *)
(* submissions of one request, for any number of workers, requests and     *)
(* approvals.                                                              *)
(***************************************************************************)
EXTENDS WorkflowProofs

-----------------------------------------------------------------------------
(***************************************************************************)
(* The inductive invariant.  A task between its claim and its commit, and  *)
(* a request between what it has read and its commit, each rely on the row *)
(* not having changed since; WorkerOK and RequestOK say what they rely on, *)
(* RivalsExclude that no other request relies on the same, and RowOK what  *)
(* the row and the approvals promise whoever comes next.                   *)
(***************************************************************************)

LoadedSteps == AdvancingSteps \ {"loading"}

\* What the session of the task that advances the run has loaded of the row.
LoadedRow ==
    [status |-> "processing", claimed |-> TRUE, plan |-> run.plan,
     stage |-> run.stage, calls |-> run.calls]

WorkerOK(w) ==
    /\ Advancing(w) => run.status = "processing" /\ run.claimAge = worker[w].age
    /\ ~Advancing(w) => worker[w].age = 0
    /\ worker[w].step \in LoadedSteps => worker[w].loaded = LoadedRow
    /\ worker[w].step = "planning" => ~run.plan
    /\ worker[w].step \in {"reading", "coordinating"} => run.plan
    /\ worker[w].step = "coordinating" =>
          \A c \in worker[w].loaded.calls : worker[w].resolutions[c] = approvals[c]

FlushedSteps == {"decide_count", "decide_commit"}

RequestOK(q) ==
    /\ request[q].step \notin DecideSteps => request[q].call = NoCall
    /\ request[q].step \in DecideSteps =>
          request[q].call \in Calls /\ approvals[request[q].call] = "pending"
    /\ request[q].step = "approve_commit" => run.status = "pending_plan_approval"
    /\ request[q].step \in DecideSteps \ {"decide_run"} =>
          run.status = "pending_tool_approval"
    /\ request[q].step \in FlushedSteps => rowLock = q
    /\ request[q].step = "decide_commit" => (request[q].last <=> NoneLeft(q))
    /\ request[q].step \in FinalizeSteps \ {"finalize_discard"} =>
          run.status = "pending_final_approval"

\* The two requests are about the same thing.
Rivals(p, q) ==
    \/ request[p].step = "approve_commit" /\ request[q].step = "approve_commit"
    \/ request[p].step \in FinalizeSteps /\ request[q].step \in FinalizeSteps
    \/ /\ request[p].step \in DecideSteps /\ request[q].step \in DecideSteps
       /\ request[p].call = request[q].call

RivalsExclude == \A p, q \in Requests : Rivals(p, q) => p = q

Paused == {"pending_plan_approval", "pending_tool_approval",
           "pending_final_approval"}

\* Recovery looks only at rows with a claimed_at.
ProcessingHasClaim ==
    run.status = "processing" => run.claimAge # NoClaim

RowOK ==
    /\ ProcessingHasClaim
    /\ run.status # "pending_tool_approval" => Pending(approvals) = {}
    /\ run.status = "absent" => ~run.plan
    /\ run.status \in Paused => run.plan
    /\ run.stage = "none" => run.calls = {}
    /\ run.stage = "awaiting_tools" =>
          run.calls # {} /\ \A c \in run.calls : approvals[c] # "none"

ClaimInv ==
    /\ OneTaskAdvances
    /\ \A w \in Workers : WorkerOK(w)
    /\ \A q \in Requests : RequestOK(q)
    /\ RivalsExclude
    /\ RowOK

LEMMA ClaimInit == Init => ClaimInv
<1> SUFFICES ASSUME Init PROVE ClaimInv
  OBVIOUS
<1>1. \A w \in Workers : ~Advancing(w) /\ worker[w].age = 0
                         /\ worker[w].step = "idle"
  BY DEF Init, IdleWorker, Advancing, AdvancingSteps
<1>2. \A q \in Requests : request[q].step = "idle" /\ request[q].call = NoCall
  BY DEF Init, IdleRequest
<1>3. OneTaskAdvances /\ \A w \in Workers : WorkerOK(w)
  BY <1>1 DEF OneTaskAdvances, WorkerOK, LoadedSteps, AdvancingSteps
<1>4. RivalsExclude /\ \A q \in Requests : RequestOK(q)
  BY <1>2 DEF RivalsExclude, Rivals, RequestOK, DecideSteps, FinalizeSteps,
              FlushedSteps
<1>5. RowOK
  BY DEF Init, NoRow, RowOK, ProcessingHasClaim, Pending, Paused
<1> QED BY <1>3, <1>4, <1>5 DEF ClaimInv

-----------------------------------------------------------------------------
(* Frames: what a step of each kind has to keep. *)

\* A step of one task that writes no row.
LEMMA WorkerMoves ==
    ASSUME ClaimInv, NEW w \in Workers, UNCHANGED <<rows, request>>,
           \A v \in Workers \ {w} : worker'[v] = worker[v],
           Advancing(w)' => Advancing(w), WorkerOK(w)'
    PROVE  ClaimInv'
<1> USE DEF rows
<1>1. OneTaskAdvances'
  BY DEF ClaimInv, OneTaskAdvances, Advancing
<1>2. ASSUME NEW v \in Workers \ {w} PROVE WorkerOK(v)'
  <2>1. WorkerOK(v) /\ worker'[v] = worker[v]
    BY DEF ClaimInv
  <2> QED BY <2>1 DEF WorkerOK, Advancing, LoadedRow
<1>3. RivalsExclude' /\ RowOK' /\ \A q \in Requests : RequestOK(q)'
  BY DEF ClaimInv, RivalsExclude, Rivals, RowOK, ProcessingHasClaim, Pending,
         RequestOK, NoneLeft
<1> QED BY <1>1, <1>2, <1>3 DEF ClaimInv

\* The commit with which a task ends: no request relies on a run that is
\* being processed, and no other task advances it.
LEMMA TaskCommits ==
    ASSUME TypeOK, ClaimInv, NEW w \in Workers, Advancing(w), TaskEnds(w),
           UNCHANGED <<rowLock, request>>, RowOK'
    PROVE  ClaimInv'
<1>1. /\ worker'[w] = IdleWorker
      /\ \A v \in Workers \ {w} : worker'[v] = worker[v]
  BY DEF TaskEnds, TypeOK
<1>2. \A v \in Workers : ~Advancing(v)'
  BY <1>1 DEF ClaimInv, OneTaskAdvances, Advancing, IdleWorker, AdvancingSteps
<1>3. \A v \in Workers : WorkerOK(v)'
  <2>1. ASSUME NEW v \in Workers PROVE worker'[v].age = 0
    BY <1>1 DEF ClaimInv, OneTaskAdvances, WorkerOK, IdleWorker
  <2> QED BY <1>2, <2>1 DEF WorkerOK, Advancing, LoadedSteps, AdvancingSteps,
                            WorkerSteps
<1>4. run.status = "processing"
  BY DEF ClaimInv, WorkerOK
<1>5. Pending(approvals) = {}
  BY <1>4 DEF ClaimInv, RowOK
<1>6. ASSUME NEW q \in Requests PROVE RequestOK(q)'
  <2>1. request[q].step \notin DecideSteps
    BY <1>5 DEF ClaimInv, RequestOK, Pending
  <2>2. request[q].step \notin {"approve_commit"}
              \cup (FinalizeSteps \ {"finalize_discard"})
    BY <1>4 DEF ClaimInv, RequestOK
  <2> QED BY <2>1, <2>2 DEF ClaimInv, RequestOK, FlushedSteps, DecideSteps
<1>7. RivalsExclude'
  BY DEF ClaimInv, RivalsExclude, Rivals
<1> QED BY <1>2, <1>3, <1>6, <1>7 DEF ClaimInv, OneTaskAdvances

\* A step of one request that commits nothing.
LEMMA RequestMoves ==
    ASSUME ClaimInv, NEW q \in Requests, UNCHANGED <<run, approvals, worker>>,
           \A p \in Requests \ {q} : request'[p] = request[p],
           \A p \in Requests \ {q} : rowLock = p => rowLock' = p,
           RequestOK(q)', \A p \in Requests \ {q} : ~Rivals(p, q)'
    PROVE  ClaimInv'
<1>1. OneTaskAdvances' /\ \A w \in Workers : WorkerOK(w)'
  BY DEF ClaimInv, OneTaskAdvances, WorkerOK, Advancing, LoadedRow
<1>2. ASSUME NEW p \in Requests \ {q} PROVE RequestOK(p)'
  <2>1. RequestOK(p) /\ request'[p] = request[p]
    BY DEF ClaimInv
  <2> QED BY <2>1 DEF RequestOK, NoneLeft, Pending
<1>3. RivalsExclude'
  <2> SUFFICES ASSUME NEW p \in Requests, NEW r \in Requests, p # r,
                      Rivals(p, r)'
               PROVE  FALSE
    BY DEF RivalsExclude
  <2>1. p # q /\ r # q
    BY DEF Rivals
  <2> QED BY <2>1 DEF ClaimInv, RivalsExclude, Rivals
<1>4. RowOK'
  BY DEF ClaimInv, RowOK, ProcessingHasClaim, Pending
<1> QED BY <1>1, <1>2, <1>3, <1>4 DEF ClaimInv

\* The commit of a request on a run that is not being processed.
LEMMA RequestCommits ==
    ASSUME ClaimInv, NEW q \in Requests, UNCHANGED worker,
           run.status # "processing",
           \A p \in Requests \ {q} : request'[p] = request[p],
           \A p \in Requests : RequestOK(p)',
           \A p \in Requests \ {q} : ~Rivals(p, q)',
           RowOK'
    PROVE  ClaimInv'
<1>1. \A w \in Workers : ~Advancing(w)
  BY DEF ClaimInv, WorkerOK
<1>2. \A w \in Workers : ~Advancing(w)' /\ worker'[w].age = 0
  BY <1>1 DEF ClaimInv, WorkerOK, Advancing
<1>3. OneTaskAdvances' /\ \A w \in Workers : WorkerOK(w)'
  BY <1>2 DEF OneTaskAdvances, WorkerOK, Advancing, LoadedSteps,
              AdvancingSteps, WorkerSteps
<1>4. RivalsExclude'
  <2> SUFFICES ASSUME NEW p \in Requests, NEW r \in Requests, p # r,
                      Rivals(p, r)'
               PROVE  FALSE
    BY DEF RivalsExclude
  <2>1. p # q /\ r # q
    BY DEF Rivals
  <2> QED BY <2>1 DEF ClaimInv, RivalsExclude, Rivals
<1> QED BY <1>3, <1>4 DEF ClaimInv

-----------------------------------------------------------------------------
(* Tasks *)

LEMMA SavedRow ==
    ASSUME TypeOK, ClaimInv, NEW w \in Workers, worker[w].step \in LoadedSteps,
           NEW status \in Statuses \ {"queued", "processing"},
           NEW plan, NEW stage, NEW calls,
           run' = WrittenBack(w, status, plan, stage, calls)
    PROVE  /\ run'.status = status
           /\ run'.plan = plan
           /\ run'.stage = stage
           /\ run'.calls = calls
           /\ run'.issue = run.issue
<1>1. worker[w].loaded.status = "processing"
  BY DEF ClaimInv, WorkerOK, LoadedRow
<1> QED BY <1>1 DEF WrittenBack, Flushed

LEMMA ClaimWorkerStep ==
    ASSUME TypeOK, ClaimInv, NEW w \in Workers, WorkerStep(w) \/ WorkerFault(w)
    PROVE  ClaimInv'
<1> USE DEF rows
<1>1. /\ worker \in [Workers -> WorkerStates]
      /\ WorkerOK(w)
  BY DEF TypeOK, ClaimInv
<1>2. CASE DeliverMessage(w)
  <2>1. /\ worker'[w].step = "delivered" /\ worker'[w].age = worker[w].age
        /\ \A v \in Workers \ {w} : worker'[v] = worker[v]
        /\ worker[w].step = "idle"
    BY <1>1, <1>2 DEF DeliverMessage, Goto, WorkerStates
  <2>2. WorkerOK(w)' /\ ~Advancing(w)'
    BY <1>1, <2>1 DEF WorkerOK, Advancing, AdvancingSteps, LoadedSteps
  <2> QED BY <1>2, <2>1, <2>2, WorkerMoves DEF DeliverMessage
<1>3. CASE ClaimQueuedWorkflow(w)
  <2>1. CASE run.status = "queued"
    <3>1. \A v \in Workers : ~Advancing(v) /\ worker[v].age = 0
      BY <2>1 DEF ClaimInv, WorkerOK
    <3>2. /\ worker'[w].step = "loading" /\ worker'[w].age = 0
          /\ \A v \in Workers \ {w} : worker'[v] = worker[v]
      BY <1>1, <1>3, <2>1, <3>1 DEF ClaimQueuedWorkflow, Goto, WorkerStates
    <3>3. /\ run'.status = "processing" /\ run'.claimAge = 0
          /\ run'.plan = run.plan /\ run'.stage = run.stage
          /\ run'.calls = run.calls
      BY <1>3, <2>1 DEF ClaimQueuedWorkflow, RowClaimed, TypeOK, RunRows
    <3>4. UNCHANGED <<approvals, rowLock, request>>
      BY <1>3 DEF ClaimQueuedWorkflow
    <3>5. OneTaskAdvances'
      BY <3>1, <3>2 DEF OneTaskAdvances, Advancing
    <3>6. ASSUME NEW v \in Workers PROVE WorkerOK(v)'
      BY <3>1, <3>2, <3>3
         DEF WorkerOK, Advancing, LoadedSteps, AdvancingSteps, WorkerSteps
    <3>7. RowOK'
      BY <2>1, <3>3, <3>4 DEF ClaimInv, RowOK, ProcessingHasClaim, NoClaim,
                              Pending, Paused
    <3>8. ASSUME NEW q \in Requests PROVE RequestOK(q)'
      <4>1. RequestOK(q)
        BY DEF ClaimInv
      <4> QED BY <2>1, <3>4, <4>1 DEF RequestOK, NoneLeft, Pending, FlushedSteps,
                                      DecideSteps
    <3>9. RivalsExclude'
      BY <3>4 DEF ClaimInv, RivalsExclude, Rivals
    <3> QED BY <3>5, <3>6, <3>7, <3>8, <3>9 DEF ClaimInv
  <2>2. CASE run.status # "queued"
    <3>1. /\ worker'[w] = IdleWorker
          /\ \A v \in Workers \ {w} : worker'[v] = worker[v]
      BY <1>1, <1>3, <2>2 DEF ClaimQueuedWorkflow, TaskEnds
    <3>2. WorkerOK(w)' /\ ~Advancing(w)'
      BY <3>1 DEF WorkerOK, IdleWorker, Advancing, LoadedSteps, AdvancingSteps
    <3> QED BY <1>3, <2>2, <3>1, <3>2, WorkerMoves DEF ClaimQueuedWorkflow
  <2> QED BY <2>1, <2>2
<1>4. CASE LoadClaimedRun(w)
  <2>1. run.status = "processing" /\ run.claimAge = worker[w].age
    BY <1>1, <1>4 DEF LoadClaimedRun, WorkerOK, Advancing, AdvancingSteps,
                      WorkerSteps
  <2>2. run.claimAge # NoClaim
    BY <1>1, <2>1 DEF WorkerStates, NoClaim
  <2>3. worker' = [worker EXCEPT ![w].step = "workspace", ![w].loaded = LoadedRow]
    BY <1>4, <2>1, <2>2 DEF LoadClaimedRun, LoadedRow
  <2>4. /\ worker'[w].step = "workspace" /\ worker'[w].loaded = LoadedRow
        /\ worker'[w].age = worker[w].age
        /\ \A v \in Workers \ {w} : worker'[v] = worker[v]
    BY <1>1, <2>3 DEF WorkerStates
  <2>5. Advancing(w)
    BY <1>4 DEF LoadClaimedRun, Advancing, AdvancingSteps, WorkerSteps
  <2>6. UNCHANGED <<rows, request>>
    BY <1>4 DEF LoadClaimedRun
  <2>7. WorkerOK(w)'
    BY <2>1, <2>4, <2>6 DEF WorkerOK, Advancing, LoadedSteps, LoadedRow,
                            AdvancingSteps, WorkerSteps
  <2> QED BY <2>4, <2>5, <2>6, <2>7, WorkerMoves
<1>5. CASE PrepareWorkspace(w)
  <2>1. PICK step \in {"planning", "reading", "coordinating"} :
            /\ Goto(w, step)
            /\ step = "planning" => ~worker[w].loaded.plan
            /\ step # "planning" => worker[w].loaded.plan
            /\ step = "coordinating" => worker[w].loaded.stage = "none"
    BY <1>5 DEF PrepareWorkspace
  <2>2. /\ worker[w].step = "workspace" /\ UNCHANGED <<rows, request>>
    BY <1>5 DEF PrepareWorkspace
  <2>3. Advancing(w) /\ worker[w].loaded = LoadedRow
    BY <1>1, <2>2 DEF WorkerOK, Advancing, LoadedSteps, AdvancingSteps,
                      WorkerSteps
  <2>4. /\ worker'[w].step = step /\ worker'[w].loaded = LoadedRow
        /\ worker'[w].age = worker[w].age
        /\ \A v \in Workers \ {w} : worker'[v] = worker[v]
    BY <1>1, <2>1, <2>3 DEF Goto, WorkerStates
  <2>5. step = "coordinating" => run.calls = {}
    BY <2>1, <2>3 DEF LoadedRow, ClaimInv, RowOK
  <2>6. WorkerOK(w)'
    BY <1>1, <2>1, <2>2, <2>3, <2>4, <2>5
       DEF WorkerOK, Advancing, LoadedRow, LoadedSteps, AdvancingSteps,
           WorkerSteps
  <2> QED BY <2>2, <2>3, <2>4, <2>6, WorkerMoves
<1>6. CASE ReadResolutions(w)
  <2> DEFINE read == [c \in Calls |-> IF c \in worker[w].loaded.calls
                                        THEN Resolution(c) ELSE "none"]
  <2>1. \A c \in run.calls : c \in worker[w].loaded.calls => read[c] = approvals[c]
    BY DEF Resolution, TypeOK, RunRows
  <2>2. worker' = [worker EXCEPT ![w].step = "coordinating",
                                 ![w].resolutions = read]
    BY <1>6 DEF ReadResolutions
  <2> HIDE DEF read
  <2>3. worker[w].step = "reading" /\ UNCHANGED <<rows, request>>
    BY <1>6 DEF ReadResolutions
  <2>4. Advancing(w) /\ worker[w].loaded = LoadedRow
    BY <1>1, <2>3 DEF WorkerOK, Advancing, LoadedSteps, AdvancingSteps,
                      WorkerSteps
  <2>5. /\ worker'[w].step = "coordinating" /\ worker'[w].loaded = LoadedRow
        /\ worker'[w].age = worker[w].age /\ worker'[w].resolutions = read
        /\ \A v \in Workers \ {w} : worker'[v] = worker[v]
    BY <1>1, <2>2, <2>4 DEF WorkerStates
  <2>6. WorkerOK(w)'
    BY <1>1, <2>1, <2>3, <2>4, <2>5
       DEF WorkerOK, Advancing, LoadedRow, LoadedSteps, AdvancingSteps,
           WorkerSteps
  <2> QED BY <2>3, <2>4, <2>5, <2>6, WorkerMoves
<1>7. ASSUME SaveWorkflowPlan(w) \/ SavePausedForSomeTools(w)
             \/ SavePausedForFinal(w) \/ FailWorkflow(w)
      PROVE  ClaimInv'
  <2>1. /\ worker[w].step \in LoadedSteps /\ Advancing(w) /\ TaskEnds(w)
        /\ UNCHANGED <<rowLock, request>>
    BY <1>7 DEF SaveWorkflowPlan, SavePausedForSomeTools, SavePausedForTools,
                SavePausedForFinal, FailWorkflow, Advancing, LoadedSteps,
                AdvancingSteps, WorkerSteps
  <2>2. /\ Pending(approvals) = {}
        /\ worker[w].loaded.status = "processing"
    BY <1>1, <2>1 DEF ClaimInv, RowOK, WorkerOK, LoadedRow
  <2>3. CASE SaveWorkflowPlan(w)
    <3>1. /\ run'.status = "pending_plan_approval" /\ run'.plan
          /\ run'.stage = run.stage /\ run'.calls = run.calls
          /\ approvals' = approvals
      <4>1. /\ run' = WrittenBack(w, "pending_plan_approval", TRUE, run.stage, run.calls)
            /\ approvals' = approvals
        BY <2>3 DEF SaveWorkflowPlan
      <4> QED BY <2>2, <4>1 DEF WrittenBack, Flushed
    <3>2. RowOK'
      BY <2>2, <3>1 DEF ClaimInv, RowOK, ProcessingHasClaim, Pending, Paused
    <3> QED BY <2>1, <3>2, TaskCommits
  <2>4. CASE SavePausedForSomeTools(w)
    <3>1. PICK asked \in SUBSET Calls : SavePausedForTools(w, asked)
      BY <2>4 DEF SavePausedForSomeTools
    <3>2. run.plan
      BY <1>1, <3>1 DEF SavePausedForTools, WorkerOK
    <3>3. /\ run'.status = "pending_tool_approval" /\ run'.plan
          /\ run'.stage = "awaiting_tools" /\ run'.calls = asked
      <4>1. run' = WrittenBack(w, "pending_tool_approval", run.plan,
                               "awaiting_tools", asked)
        BY <3>1 DEF SavePausedForTools
      <4>2. "pending_tool_approval" \in Statuses \ {"queued", "processing"}
        BY DEF Statuses
      <4>3. /\ run'.status = "pending_tool_approval" /\ run'.plan = run.plan
            /\ run'.stage = "awaiting_tools" /\ run'.calls = asked
        BY <2>1, <4>1, <4>2, SavedRow
      <4> QED BY <3>2, <4>3
    <3>4. asked # {} /\ \A c \in asked : approvals'[c] = "pending"
      BY <3>1 DEF SavePausedForTools
    <3>5. RowOK'
      BY <3>3, <3>4 DEF RowOK, ProcessingHasClaim
    <3> QED BY <2>1, <3>5, TaskCommits
  <2>5. CASE SavePausedForFinal(w)
    <3>1. run.plan
      BY <1>1, <2>5 DEF SavePausedForFinal, WorkerOK
    <3>2. /\ run'.status = "pending_final_approval" /\ run'.plan
          /\ run'.stage = "awaiting_final" /\ run'.calls = {}
          /\ approvals' = approvals
      <4>1. /\ run' = WrittenBack(w, "pending_final_approval", run.plan,
                                  "awaiting_final", {})
            /\ approvals' = approvals
        BY <2>5 DEF SavePausedForFinal
      <4> QED BY <2>2, <3>1, <4>1 DEF WrittenBack, Flushed
    <3>3. RowOK'
      BY <2>2, <3>2 DEF RowOK, ProcessingHasClaim, Pending
    <3> QED BY <2>1, <3>3, TaskCommits
  <2>6. CASE FailWorkflow(w)
    <3>1. /\ run'.status = "failed" /\ approvals' = approvals
          /\ run'.stage = run.stage /\ run'.calls = run.calls
      BY <2>1, <2>6, SavedRow DEF FailWorkflow, FailedStatus, Statuses
    <3>2. RowOK'
      BY <2>2, <3>1 DEF ClaimInv, RowOK, ProcessingHasClaim, Pending, Paused
    <3> QED BY <2>1, <3>2, TaskCommits
  <2> QED BY <1>7, <2>3, <2>4, <2>5, <2>6
<1>8. CASE WorkerFault(w)
  <2>1. TaskEnds(w) /\ UNCHANGED <<rows, request>>
    BY <1>8 DEF WorkerFault, WorkerCrash, TaskAborts, ClaimFails
  <2>2. /\ worker'[w] = IdleWorker
        /\ \A v \in Workers \ {w} : worker'[v] = worker[v]
    BY <1>1, <2>1 DEF TaskEnds
  <2>3. WorkerOK(w)' /\ ~Advancing(w)'
    BY <2>2 DEF WorkerOK, IdleWorker, Advancing, LoadedSteps, AdvancingSteps
  <2> QED BY <2>1, <2>2, <2>3, WorkerMoves
<1> QED BY <1>2, <1>3, <1>4, <1>5, <1>6, <1>7, <1>8 DEF WorkerStep

-----------------------------------------------------------------------------
(* Requests *)

\* A request that has nothing to do any more, or only a message to send.
LEMMA RequestRests ==
    ASSUME NEW q \in Requests, request'[q].call = NoCall,
           request'[q].step \in {"idle", "enqueue"}
    PROVE  RequestOK(q)' /\ \A p \in Requests : ~Rivals(p, q)'
  BY DEF RequestOK, Rivals, DecideSteps, FinalizeSteps, FlushedSteps

LEMMA IdleStep ==
    ASSUME TypeOK, NEW q \in Requests, Respond(q)
    PROVE  /\ request'[q].call = NoCall
           /\ request'[q].step = "idle"
           /\ \A p \in Requests \ {q} : request'[p] = request[p]
  BY DEF Respond, IdleRequest, TypeOK

LEMMA StepTaken ==
    ASSUME TypeOK, NEW q \in Requests, NEW step, Proceed(q, step)
    PROVE  /\ request'[q].call = request[q].call
           /\ request'[q].step = step
           /\ request'[q].approved = request[q].approved
           /\ \A p \in Requests \ {q} : request'[p] = request[p]
  BY DEF Proceed, TypeOK, RequestStates

\* Steps of a request that write nothing: what it reads is true when it reads
\* it, and nobody else is about the same thing.
LEMMA ClaimSubmit ==
    ASSUME TypeOK, ClaimInv, ~DoubleSubmit, NEW q \in Requests,
           \/ ApprovePlanRead(q)
           \/ \E c \in Calls, d \in Decisions : DecideReadApproval(q, c, d)
           \/ \E approved \in BOOLEAN : FinalizeRead(q, approved)
    PROVE  ClaimInv'
<1> USE DEF rows
<1>1. request \in [Requests -> RequestStates] /\ RequestOK(q)
  BY DEF TypeOK, ClaimInv
<1>2. \A p \in Requests : request[p].step \in {"approve_commit"} \cup FinalizeSteps
                             => request[p].call = NoCall
  BY DEF ClaimInv, RequestOK, DecideSteps, FinalizeSteps
<1>3. CASE ApprovePlanRead(q)
  <2>1. /\ request'[q].call = NoCall /\ request'[q].step = "approve_commit"
        /\ \A p \in Requests \ {q} : request'[p] = request[p]
    BY <1>1, <1>3, StepTaken DEF ApprovePlanRead, RequestOK, DecideSteps
  <2>2. UNCHANGED <<rows, worker>> /\ run.status = "pending_plan_approval"
    BY <1>3 DEF ApprovePlanRead
  <2>3. \A p \in Requests : request[p].step # "approve_commit"
    BY <1>2, <1>3 DEF ApprovePlanRead, Unrivalled
  <2>4. RequestOK(q)'
    BY <2>1, <2>2 DEF RequestOK, DecideSteps, FinalizeSteps, FlushedSteps
  <2>5. \A p \in Requests \ {q} : ~Rivals(p, q)'
    BY <2>1, <2>3 DEF Rivals, DecideSteps, FinalizeSteps
  <2> QED BY <2>1, <2>2, <2>4, <2>5, RequestMoves
<1>4. ASSUME NEW c \in Calls, NEW d \in Decisions, DecideReadApproval(q, c, d)
      PROVE  ClaimInv'
  <2>1. /\ request'[q].call = c /\ request'[q].step = "decide_run"
        /\ \A p \in Requests \ {q} : request'[p] = request[p]
    BY <1>1, <1>4 DEF DecideReadApproval, RequestStates
  <2>2. UNCHANGED <<rows, worker>> /\ approvals[c] = "pending"
    BY <1>4 DEF DecideReadApproval, Undecided
  <2>3. \A p \in Requests : ~(request[p].step \in DecideSteps /\ request[p].call = c)
    BY <1>4 DEF DecideReadApproval, Unrivalled
  <2>4. RequestOK(q)'
    BY <2>1, <2>2 DEF RequestOK, DecideSteps, FinalizeSteps, FlushedSteps
  <2>5. \A p \in Requests \ {q} : ~Rivals(p, q)'
    BY <2>1, <2>3 DEF Rivals, DecideSteps, FinalizeSteps
  <2> QED BY <2>1, <2>2, <2>4, <2>5, RequestMoves
<1>5. ASSUME NEW approved \in BOOLEAN, FinalizeRead(q, approved) PROVE ClaimInv'
  <2>1. /\ request'[q].call = request[q].call
        /\ request'[q].step = "finalize_git"
        /\ \A p \in Requests \ {q} : request'[p] = request[p]
    <3> DEFINE verdict == approved
               stage == run.stage
    <3>1. request' = [request EXCEPT ![q].step = "finalize_git",
                                     ![q].approved = verdict,
                                     ![q].stage = stage]
      BY <1>5 DEF FinalizeRead
    <3> HIDE DEF verdict, stage
    <3> QED BY <1>1, <3>1 DEF RequestStates
  <2>2. request'[q].call = NoCall
    BY <1>1, <1>5, <2>1 DEF FinalizeRead, RequestOK, DecideSteps
  <2>3. UNCHANGED <<rows, worker>> /\ run.status = "pending_final_approval"
    BY <1>5 DEF FinalizeRead, AwaitsFinalDecision
  <2>4. \A p \in Requests : request[p].step \notin FinalizeSteps
    BY <1>2, <1>5 DEF FinalizeRead, Unrivalled
  <2>5. RequestOK(q)'
    BY <2>1, <2>2, <2>3 DEF RequestOK, DecideSteps, FinalizeSteps, FlushedSteps
  <2>6. \A p \in Requests \ {q} : ~Rivals(p, q)'
    BY <2>1, <2>4 DEF Rivals, DecideSteps, FinalizeSteps
  <2> QED BY <2>1, <2>3, <2>5, <2>6, RequestMoves
<1> QED BY <1>3, <1>4, <1>5

\* A request that stays about what it was about has no new rival.
LEMMA SameSubject ==
    ASSUME ClaimInv, NEW q \in Requests,
           \A p \in Requests \ {q} : request'[p] = request[p],
           request'[q].call = request[q].call,
           \/ /\ request[q].step \in DecideSteps
              /\ request'[q].step \in DecideSteps
           \/ /\ request[q].step \in FinalizeSteps
              /\ request'[q].step \in FinalizeSteps
    PROVE  \A p \in Requests \ {q} : ~Rivals(p, q)'
  BY DEF ClaimInv, RivalsExclude, Rivals, DecideSteps, FinalizeSteps

\* Steps of a request in progress that commit nothing.
LEMMA ClaimRequestMoves ==
    ASSUME TypeOK, ClaimInv, NEW q \in Requests,
           \/ EnqueueWorkflow(q) \/ DecideReadRun(q) \/ DecideFlush(q)
           \/ DecideCount(q) \/ FinalizeGit(q) \/ FinalizePublish(q)
           \/ FinalizeDiscard(q) \/ RequestFault(q)
    PROVE  ClaimInv'
<1> USE DEF rows
<1>1. request \in [Requests -> RequestStates] /\ RequestOK(q)
  BY DEF TypeOK, ClaimInv
<1>2. ASSUME EnqueueWorkflow(q) \/ FinalizeDiscard(q) \/ RequestFails(q)
             \/ (DecideReadRun(q) /\ run.status # "pending_tool_approval")
      PROVE  ClaimInv'
  <2>1. Respond(q) /\ UNCHANGED <<run, approvals, worker>>
    BY <1>2 DEF EnqueueWorkflow, FinalizeDiscard, RequestFails, DecideReadRun
  <2>2. \A p \in Requests \ {q} : rowLock = p => rowLock' = p
    BY <1>2 DEF EnqueueWorkflow, FinalizeDiscard, RequestFails, DecideReadRun
  <2> QED BY <2>1, <2>2, IdleStep, RequestRests, RequestMoves
<1>3. CASE DecideReadRun(q) /\ run.status = "pending_tool_approval"
  <2>1. /\ request'[q].call = request[q].call /\ request'[q].step = "decide_flush"
        /\ \A p \in Requests \ {q} : request'[p] = request[p]
        /\ request[q].step = "decide_run"
    BY <1>3, StepTaken DEF DecideReadRun
  <2>2. UNCHANGED <<rows, worker>>
    BY <1>3 DEF DecideReadRun
  <2>3. RequestOK(q)'
    BY <1>1, <1>3, <2>1, <2>2 DEF RequestOK, DecideSteps, FinalizeSteps, FlushedSteps
  <2>4. \A p \in Requests \ {q} : ~Rivals(p, q)'
    BY <2>1, SameSubject DEF DecideSteps
  <2> QED BY <2>1, <2>2, <2>3, <2>4, RequestMoves
<1>4. CASE DecideFlush(q)
  <2>1. /\ request'[q].call = request[q].call /\ request'[q].step = "decide_count"
        /\ \A p \in Requests \ {q} : request'[p] = request[p]
        /\ request[q].step = "decide_flush"
    BY <1>4, StepTaken DEF DecideFlush
  <2>2. UNCHANGED <<run, approvals, worker>> /\ rowLock' = q
    BY <1>4 DEF DecideFlush
  <2>3. \A p \in Requests : rowLock # p
    BY <1>4, NoRequestAssumption DEF DecideFlush, RowFree
  <2>4. RequestOK(q)'
    BY <1>1, <2>1, <2>2 DEF RequestOK, DecideSteps, FinalizeSteps, FlushedSteps
  <2>5. \A p \in Requests \ {q} : ~Rivals(p, q)'
    BY <2>1, SameSubject DEF DecideSteps
  <2> QED BY <2>1, <2>2, <2>3, <2>4, <2>5, RequestMoves
<1>5. CASE DecideCount(q)
  <2> DEFINE none == NoneLeft(q)
  <2>1. request' = [request EXCEPT ![q].step = "decide_commit", ![q].last = none]
    BY <1>5 DEF DecideCount
  <2> HIDE DEF none
  <2>2. /\ request'[q].call = request[q].call /\ request'[q].step = "decide_commit"
        /\ request'[q].last = none
        /\ \A p \in Requests \ {q} : request'[p] = request[p]
    BY <1>1, <2>1 DEF RequestStates
  <2>3. UNCHANGED <<rows, worker>> /\ request[q].step = "decide_count"
    BY <1>5 DEF DecideCount
  <2>4. NoneLeft(q)' <=> none
    BY <2>2, <2>3 DEF NoneLeft, none, Pending
  <2>5. RequestOK(q)'
    <3>1. request'[q].last <=> NoneLeft(q)'
      BY <2>2, <2>4
    <3> QED BY <1>1, <2>2, <2>3, <3>1 DEF RequestOK, DecideSteps, FinalizeSteps,
                                          FlushedSteps
  <2>6. \A p \in Requests \ {q} : ~Rivals(p, q)'
    BY <2>2, <2>3, SameSubject DEF DecideSteps
  <2> QED BY <2>2, <2>3, <2>5, <2>6, RequestMoves
<1>6. ASSUME FinalizeGit(q) \/ FinalizePublish(q) \/ FinalizeSaveFails(q)
      PROVE  ClaimInv'
  <2>1. /\ request[q].step \in FinalizeSteps \ {"finalize_discard"}
        /\ \E step \in FinalizeSteps \ {"finalize_discard"} : Proceed(q, step)
    <3>1. ASSUME FinalizePublish(q)
          PROVE  \E step \in {"finalize_save", "finalize_fail"} : Proceed(q, step)
      BY <3>1 DEF FinalizePublish, PublishOutcomes
    <3> QED BY <1>6, <3>1 DEF FinalizeGit, FinalizePublish, FinalizeSaveFails,
                              FinalizeSteps
  <2>2. /\ request'[q].call = request[q].call
        /\ request'[q].step \in FinalizeSteps \ {"finalize_discard"}
        /\ \A p \in Requests \ {q} : request'[p] = request[p]
    BY <2>1, StepTaken
  <2>3. UNCHANGED <<rows, worker>>
    BY <1>6 DEF FinalizeGit, FinalizePublish, FinalizeSaveFails
  <2>4. RequestOK(q)'
    BY <1>1, <2>1, <2>2, <2>3 DEF RequestOK, DecideSteps, FinalizeSteps, FlushedSteps
  <2>5. \A p \in Requests \ {q} : ~Rivals(p, q)'
    BY <2>1, <2>2, SameSubject
  <2> QED BY <2>2, <2>3, <2>4, <2>5, RequestMoves
<1> QED BY <1>2, <1>3, <1>4, <1>5, <1>6 DEF RequestFault

\* Of a run that is not where p needs it, p has read nothing.
LEMMA ReliesOnStatus ==
    ASSUME ClaimInv, NEW p \in Requests
    PROVE  /\ request[p].step = "approve_commit" =>
                 run.status = "pending_plan_approval"
           /\ request[p].step \in DecideSteps =>
                 run.status = "pending_tool_approval"
           /\ request[p].step \in FinalizeSteps \ {"finalize_discard"} =>
                 run.status = "pending_final_approval"
  BY DEF ClaimInv, RequestOK, RowOK, Pending

\* A request that relies on nothing is not disturbed.
LEMMA ReliesOnNothing ==
    ASSUME ClaimInv, NEW p \in Requests, request'[p] = request[p],
           request[p].step \notin {"approve_commit"} \cup DecideSteps
                                     \cup (FinalizeSteps \ {"finalize_discard"})
    PROVE  RequestOK(p)'
  BY DEF ClaimInv, RequestOK, DecideSteps, FlushedSteps

\* The commits of requests: whoever else relied on the old status was about
\* the same thing.
LEMMA ClaimRequestCommits ==
    ASSUME TypeOK, ClaimInv, NEW q \in Requests,
           \/ \E issue \in BOOLEAN : CreateRun(q, issue)
           \/ ApprovePlanCommit(q) \/ DecideCommit(q)
           \/ FinalizeSave(q) \/ FinalizeFail(q)
    PROVE  ClaimInv'
<1> USE DEF rows
<1>1. /\ request \in [Requests -> RequestStates] /\ run \in RunRows
      /\ RequestOK(q) /\ RowOK
  BY DEF TypeOK, ClaimInv
<1>2. ASSUME NEW issue \in BOOLEAN, CreateRun(q, issue) PROVE ClaimInv'
  <2>1. /\ request'[q].call = NoCall /\ request'[q].step = "enqueue"
        /\ \A p \in Requests \ {q} : request'[p] = request[p]
    BY <1>1, <1>2, StepTaken DEF CreateRun, RequestOK, DecideSteps
  <2>2. /\ run.status = "absent" /\ run'.status = "queued"
        /\ run'.stage = run.stage /\ run'.calls = run.calls
        /\ UNCHANGED <<approvals, rowLock, worker>>
    BY <1>1, <1>2 DEF CreateRun, RunRows
  <2>3. \A p \in Requests \ {q} : RequestOK(p)'
    BY <2>1, <2>2, ReliesOnStatus, ReliesOnNothing
  <2>4. RowOK'
    BY <1>1, <2>2 DEF RowOK, ProcessingHasClaim, Pending, Paused
  <2> QED BY <2>1, <2>2, <2>3, <2>4, RequestRests, RequestCommits
<1>3. CASE ApprovePlanCommit(q)
  <2>1. /\ request'[q].call = NoCall /\ request'[q].step = "enqueue"
        /\ \A p \in Requests \ {q} : request'[p] = request[p]
        /\ request[q].step = "approve_commit"
    BY <1>1, <1>3, StepTaken DEF ApprovePlanCommit, RequestOK, DecideSteps
  <2>2. /\ run.status = "pending_plan_approval" /\ run'.status = "queued"
        /\ run'.stage = run.stage /\ run'.calls = run.calls
        /\ UNCHANGED <<approvals, rowLock, worker>>
    BY <1>1, <1>3, <2>1 DEF ApprovePlanCommit, RequestOK, RunRows
  <2>3. ASSUME NEW p \in Requests \ {q} PROVE RequestOK(p)'
    <3>1. request[p].step # "approve_commit"
      BY <2>1 DEF ClaimInv, RivalsExclude, Rivals
    <3> QED BY <2>1, <2>2, <3>1, ReliesOnStatus, ReliesOnNothing
  <2>4. RowOK'
    BY <1>1, <2>2 DEF RowOK, ProcessingHasClaim, Pending, Paused
  <2> QED BY <2>1, <2>2, <2>3, <2>4, RequestRests, RequestCommits
<1>4. CASE FinalizeSave(q) \/ FinalizeFail(q)
  <2>1. /\ request[q].step \in FinalizeSteps \ {"finalize_discard"}
        /\ \A p \in Requests \ {q} : request'[p] = request[p]
        /\ request'[q].call = NoCall
        /\ request'[q].step \in {"idle", "finalize_discard"}
    BY <1>1, <1>4, IdleStep, StepTaken
       DEF FinalizeSave, FinalizeFail, RequestOK, DecideSteps, FinalizeSteps
  <2>2. /\ run.status = "pending_final_approval"
        /\ run'.status \in {"completed", "cancelled", "failed"}
        /\ UNCHANGED <<approvals, rowLock, worker>>
    BY <1>1, <1>4, <2>1 DEF FinalizeSave, FinalizeFail, RequestOK, RunRows
  <2>3. \/ run'.stage = run.stage /\ run'.calls = run.calls
        \/ run'.stage \in {"completed", "rejected"} /\ run'.calls = {}
    BY <1>1, <1>4 DEF FinalizeSave, FinalizeFail, RunRows
  <2>4. ASSUME NEW p \in Requests \ {q} PROVE RequestOK(p)'
    <3>1. request[p].step \notin FinalizeSteps
      BY <2>1 DEF ClaimInv, RivalsExclude, Rivals
    <3> QED BY <2>1, <2>2, <3>1, ReliesOnStatus, ReliesOnNothing
  <2>5. RequestOK(q)' /\ \A p \in Requests \ {q} : ~Rivals(p, q)'
    <3>1. RequestOK(q)'
      BY <2>1 DEF RequestOK, DecideSteps, FinalizeSteps, FlushedSteps
    <3>2. ASSUME NEW p \in Requests \ {q} PROVE ~Rivals(p, q)'
      BY <2>1 DEF ClaimInv, RivalsExclude, Rivals, DecideSteps, FinalizeSteps
    <3> QED BY <3>1, <3>2
  <2>6. RowOK'
    BY <1>1, <2>2, <2>3 DEF RowOK, ProcessingHasClaim, Pending, Paused
  <2> QED BY <2>1, <2>2, <2>4, <2>5, <2>6, RequestCommits
<1>5. CASE DecideCommit(q)
  <2> DEFINE call == request[q].call
  <2>1. /\ request[q].step = "decide_commit" /\ UNCHANGED worker
        /\ approvals' = [approvals EXCEPT ![call] = request[q].decision]
        /\ rowLock = q /\ call \in Calls
        /\ run.status = "pending_tool_approval"
        /\ request[q].last <=> NoneLeft(q)
    BY <1>1, <1>5 DEF DecideCommit, RequestOK, DecideSteps, FlushedSteps
  <2>2. request[q].decision \in Decisions
    BY <1>1 DEF RequestStates
  <2>3. /\ approvals'[call] \in {"approved", "rejected"}
        /\ \A c \in Calls \ {call} : approvals'[c] = approvals[c]
    BY <2>1, <2>2 DEF TypeOK, Decisions
  <2> HIDE DEF call
  <2>4. /\ request'[q].call = NoCall /\ request'[q].step \in {"idle", "enqueue"}
        /\ \A p \in Requests \ {q} : request'[p] = request[p]
    BY <1>1, <1>5 DEF DecideCommit, Respond, RunToEnqueue, IdleRequest
  <2>5. \/ NoneLeft(q) /\ run'.status = "queued" /\ run'.stage = run.stage
              /\ run'.calls = run.calls
        \/ ~NoneLeft(q) /\ run' = run
    BY <1>1, <1>5, <2>1 DEF DecideCommit, RunRows
  <2>6. ASSUME NEW p \in Requests \ {q} PROVE RequestOK(p)'
    <3>1. RequestOK(p) /\ request'[p] = request[p]
      BY <2>4 DEF ClaimInv
    <3>2. request[p].step \notin {"approve_commit"}
                                   \cup (FinalizeSteps \ {"finalize_discard"})
      BY <2>1, <3>1 DEF RequestOK
    <3>3. request[p].step \notin FlushedSteps
      BY <2>1, <3>1 DEF RequestOK
    <3>4. request[p].step \in DecideSteps =>
              /\ request[p].call \in Calls \ {call}
              /\ approvals[request[p].call] = "pending"
      BY <2>1, <3>1 DEF ClaimInv, RivalsExclude, Rivals, RequestOK, call, DecideSteps
    <3>5. CASE request[p].step \in DecideSteps
      <4>1. request[p].call \in Pending(approvals) \ {call}
        BY <3>4, <3>5 DEF Pending
      <4>2. run' = run
        BY <2>5, <4>1 DEF NoneLeft, call
      <4> QED BY <2>3, <3>1, <3>2, <3>3, <3>4, <3>5, <4>2
              DEF RequestOK, FlushedSteps, FinalizeSteps, DecideSteps
    <3>6. CASE request[p].step \notin DecideSteps
      BY <3>1, <3>2, <3>6, ReliesOnNothing
    <3> QED BY <3>5, <3>6
  <2>7. RowOK'
    <3>1. NoneLeft(q) => Pending(approvals)' = {}
      BY <2>3 DEF NoneLeft, Pending, call
    <3>2. \A c \in Calls : approvals[c] # "none" => approvals'[c] # "none"
      BY <2>3
    <3>3. run.calls \subseteq Calls
      BY <1>1 DEF RunRows
    <3> QED BY <1>1, <2>1, <2>5, <3>1, <3>2, <3>3
            DEF RowOK, ProcessingHasClaim, Paused
  <2> QED BY <2>1, <2>4, <2>6, <2>7, RequestRests, RequestCommits
<1> QED BY <1>2, <1>3, <1>4, <1>5

-----------------------------------------------------------------------------
(* The rest: messages, recovery, crashes and time *)

LEMMA ClaimUndisturbed == ClaimInv /\ UNCHANGED <<rows, worker, request>> => ClaimInv'
<1> SUFFICES ASSUME ClaimInv, UNCHANGED <<rows, worker, request>> PROVE ClaimInv'
  OBVIOUS
<1> USE DEF rows
<1>1. OneTaskAdvances' /\ \A w \in Workers : WorkerOK(w)'
  BY DEF ClaimInv, OneTaskAdvances, WorkerOK, Advancing, LoadedRow
<1>2. RivalsExclude' /\ \A q \in Requests : RequestOK(q)'
  BY DEF ClaimInv, RequestOK, NoneLeft, Pending, RivalsExclude, Rivals
<1>3. RowOK'
  BY DEF ClaimInv, RowOK, ProcessingHasClaim, Pending
<1> QED BY <1>1, <1>2, <1>3 DEF ClaimInv

\* The claim that recovery takes back belongs to nobody: a live task is younger.
LEMMA ClaimRequeued ==
    ASSUME TypeOK, ClaimInv, ClaimOutlivesTask, RequeueStaleWorkflows
    PROVE  ClaimInv'
<1>1. /\ run.status = "processing" /\ run.claimAge = StaleAfter
      /\ UNCHANGED <<approvals, rowLock, worker, request>>
      /\ run \in RunRows
  BY DEF RequeueStaleWorkflows, StaleClaim, TypeOK
<1>2. ASSUME NEW w \in Workers PROVE ~Advancing(w)
  <2>1. worker[w].age \in 0..MaxRunTime /\ WorkerOK(w)
    BY DEF TypeOK, WorkerStates, ClaimInv
  <2>2. worker[w].age # StaleAfter
    BY <2>1, TimeAssumption DEF ClaimOutlivesTask
  <2> QED BY <1>1, <2>1, <2>2 DEF WorkerOK
<1>3. /\ run'.status = "queued" /\ run'.plan = run.plan
      /\ run'.stage = run.stage /\ run'.calls = run.calls
  BY <1>1 DEF RequeueStaleWorkflows, RunRows
<1>4. \A w \in Workers : ~Advancing(w)' /\ worker'[w].age = 0
  BY <1>1, <1>2 DEF ClaimInv, WorkerOK, Advancing
<1>5. OneTaskAdvances' /\ \A w \in Workers : WorkerOK(w)'
  BY <1>4 DEF OneTaskAdvances, WorkerOK, Advancing, LoadedSteps,
              AdvancingSteps, WorkerSteps
<1>6. \A q \in Requests : RequestOK(q)'
  BY <1>1, ReliesOnStatus, ReliesOnNothing
<1>7. RivalsExclude'
  BY <1>1 DEF ClaimInv, RivalsExclude, Rivals
<1>8. RowOK'
  BY <1>1, <1>3 DEF ClaimInv, RowOK, ProcessingHasClaim, Pending, Paused
<1> QED BY <1>5, <1>6, <1>7, <1>8 DEF ClaimInv

\* The claim and the task that holds it grow older together.
LEMMA ClaimTick ==
    ASSUME TypeOK, ClaimInv, ClaimOutlivesTask, Tick
    PROVE  ClaimInv'
<1>1. /\ run'.status = run.status /\ run'.plan = run.plan
      /\ run'.stage = run.stage /\ run'.calls = run.calls
      /\ run'.claimAge = IF run.claimAge \in 0..(StaleAfter - 1)
                           THEN run.claimAge + 1 ELSE run.claimAge
      /\ UNCHANGED <<approvals, rowLock, request>>
  BY DEF Tick, TypeOK, RunRows
<1>2. ASSUME NEW w \in Workers
      PROVE  /\ worker'[w].step = worker[w].step
             /\ worker'[w].loaded = worker[w].loaded
             /\ worker'[w].resolutions = worker[w].resolutions
             /\ worker'[w].age = IF Advancing(w) THEN worker[w].age + 1
                                                 ELSE worker[w].age
  <2>1. worker[w] \in WorkerStates
    BY DEF TypeOK
  <2>2. worker'[w] = IF Advancing(w)
                       THEN [worker[w] EXCEPT !.age = worker[w].age + 1]
                       ELSE worker[w]
    BY DEF Tick, Advancing
  <2> DEFINE older == worker[w].age + 1
  <2> HIDE DEF older
  <2>3. /\ worker'[w].step = worker[w].step
        /\ worker'[w].loaded = worker[w].loaded
        /\ worker'[w].resolutions = worker[w].resolutions
        /\ worker'[w].age = IF Advancing(w) THEN older ELSE worker[w].age
    BY <2>1, <2>2 DEF WorkerStates, older
  <2> QED BY <2>3 DEF older
<1>3. \A w \in Workers : Advancing(w)' <=> Advancing(w)
  BY <1>2 DEF Advancing
<1>4. ASSUME NEW w \in Workers, Advancing(w)
      PROVE  run'.claimAge = worker'[w].age
  <2>1. worker[w].age < MaxRunTime /\ worker[w].age \in 0..MaxRunTime
    BY <1>4 DEF Tick, Advancing, TypeOK, WorkerStates
  <2>2. run.claimAge = worker[w].age
    BY <1>4 DEF ClaimInv, WorkerOK
  <2>3. run.claimAge \in 0..(StaleAfter - 1)
    BY <2>1, <2>2, TimeAssumption DEF ClaimOutlivesTask
  <2> QED BY <1>1, <1>2, <1>4, <2>2, <2>3
<1>5. ASSUME NEW w \in Workers PROVE WorkerOK(w)'
  <2>1. WorkerOK(w) /\ UNCHANGED LoadedRow
    BY <1>1 DEF ClaimInv, LoadedRow
  <2>2. Advancing(w)' => run'.status = "processing" /\ run'.claimAge = worker'[w].age
    BY <1>1, <1>3, <1>4, <2>1 DEF WorkerOK
  <2>3. ~Advancing(w)' => worker'[w].age = 0
    BY <1>2, <1>3, <2>1 DEF WorkerOK
  <2> HIDE DEF LoadedRow
  <2> QED BY <1>1, <1>2, <2>1, <2>2, <2>3 DEF WorkerOK
<1>6. OneTaskAdvances'
  BY <1>3 DEF ClaimInv, OneTaskAdvances
<1>7. (\A q \in Requests : RequestOK(q)') /\ RivalsExclude'
  BY <1>1 DEF ClaimInv, RequestOK, NoneLeft, Pending, RivalsExclude, Rivals
<1>8. RowOK'
  <2>1. ProcessingHasClaim'
    <3>1. run.claimAge # NoClaim => run'.claimAge # NoClaim
      BY <1>1 DEF NoClaim
    <3> QED BY <1>1, <3>1 DEF ClaimInv, RowOK, ProcessingHasClaim
  <2> QED BY <1>1, <2>1 DEF ClaimInv, RowOK, Pending, Paused
<1> QED BY <1>5, <1>6, <1>7, <1>8 DEF ClaimInv

LEMMA ClaimApiCrash == ClaimInv /\ ApiCrash => ClaimInv'
<1> SUFFICES ASSUME ClaimInv, ApiCrash PROVE ClaimInv'
  OBVIOUS
<1>1. \A q \in Requests : request'[q].step = "idle" /\ request'[q].call = NoCall
  BY DEF ApiCrash, IdleRequest
<1>2. UNCHANGED <<run, approvals, worker>>
  BY DEF ApiCrash
<1>3. OneTaskAdvances' /\ (\A w \in Workers : WorkerOK(w)') /\ RowOK'
  BY <1>2 DEF ClaimInv, OneTaskAdvances, Advancing, WorkerOK, LoadedRow, RowOK,
              ProcessingHasClaim, Pending
<1>4. RivalsExclude' /\ \A q \in Requests : RequestOK(q)'
  BY <1>1 DEF RivalsExclude, Rivals, RequestOK, DecideSteps, FinalizeSteps,
              FlushedSteps
<1> QED BY <1>3, <1>4 DEF ClaimInv

LEMMA ClaimStep ==
    ASSUME ~DoubleSubmit, ClaimOutlivesTask, TypeOK, ClaimInv, [Next]_vars
    PROVE  ClaimInv'
<1>1. CASE \/ DuplicateMessage \/ EnqueueRequeued \/ RecoveryCrash
           \/ UNCHANGED vars
  BY <1>1, ClaimUndisturbed
     DEF DuplicateMessage, EnqueueRequeued, RecoveryCrash, vars, rows
<1>2. ASSUME NEW q \in Requests, Submit(q) \/ RequestStep(q) \/ RequestFault(q)
      PROVE  ClaimInv'
  BY <1>2, ClaimSubmit, ClaimRequestMoves, ClaimRequestCommits
     DEF Submit, RequestStep
<1> QED BY <1>1, <1>2, ClaimWorkerStep, ClaimRequeued, ClaimApiCrash, ClaimTick
        DEF Next

-----------------------------------------------------------------------------
(* Theorems *)

\* The claim, the row and every session's copy of it agree in each reachable
\* state, when no request is submitted twice and a task ends before its claim is
\* stale: what the theorems below follow from.
THEOREM ClaimInvariant ==
    ASSUME ~DoubleSubmit, ClaimOutlivesTask
    PROVE  Spec => [](TypeOK /\ ClaimInv)
<1>1. Init => TypeOK /\ ClaimInv
  BY InitTyped, ClaimInit
<1>2. TypeOK /\ ClaimInv /\ [Next]_vars => TypeOK' /\ ClaimInv'
  BY NextTyped, ClaimStep
<1> QED BY <1>1, <1>2, PTL DEF Spec

\* Two tasks never advance the same run at once, with any number of workers,
\* crashes and copies of the message: the conditional UPDATE of
\* _claim_queued_workflow lets one task in, and requeue_stale_workflows lets in
\* another only after the first has run out of time.
THEOREM OneTaskPerRun ==
    ASSUME ~DoubleSubmit, ClaimOutlivesTask
    PROVE  Spec => []OneTaskAdvances
<1>1. ClaimInv => OneTaskAdvances
  BY DEF ClaimInv
<1> QED BY <1>1, ClaimInvariant, PTL

\* While a task works, nobody requeues, decides or fails its run.
THEOREM TaskHoldsClaim ==
    ASSUME ~DoubleSubmit, ClaimOutlivesTask
    PROVE  Spec => []AdvancingTaskHoldsClaim
<1>1. ClaimInv => AdvancingTaskHoldsClaim
  BY DEF ClaimInv, WorkerOK, AdvancingTaskHoldsClaim
<1> QED BY <1>1, ClaimInvariant, PTL

\* A run that goes on after a pause for tools finds every decision it asked for
\* in the table: the last decide_approval, and no earlier one, has queued it.
THEOREM ResumesDecided ==
    ASSUME ~DoubleSubmit, ClaimOutlivesTask
    PROVE  Spec => []ResumedRunIsDecided
<1>1. TypeOK /\ ClaimInv => ResumedRunIsDecided
  <2> SUFFICES ASSUME TypeOK, ClaimInv, run.status \in {"queued", "processing"},
                      run.stage = "awaiting_tools"
               PROVE  run.calls # {} /\ \A c \in run.calls : approvals[c] \in Decisions
    BY DEF ResumedRunIsDecided
  <2>1. Pending(approvals) = {}
    BY DEF ClaimInv, RowOK
  <2>2. run.calls # {} /\ \A c \in run.calls : approvals[c] # "none"
    BY DEF ClaimInv, RowOK
  <2>3. \A c \in run.calls : c \in Calls /\ approvals[c] \in ApprovalStates
    BY DEF TypeOK, RunRows
  <2> QED BY <2>1, <2>2, <2>3 DEF Pending, ApprovalStates
<1> QED BY <1>1, ClaimInvariant, PTL

\* The worker acts on the decisions the approval rows show, although it read
\* them in one transaction and resumes the agents after it.
THEOREM ActsOnRecordedDecisions ==
    ASSUME ~DoubleSubmit, ClaimOutlivesTask
    PROVE  Spec => []AgentsActOnRecordedDecisions
<1>1. ClaimInv => AgentsActOnRecordedDecisions
  BY DEF ClaimInv, WorkerOK, AgentsActOnRecordedDecisions
<1> QED BY <1>1, ClaimInvariant, PTL
=============================================================================
