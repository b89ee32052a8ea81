------------------------- MODULE CoordinatorLifecycle -------------------------
(* Coordinator implements Lifecycle from the approval of the plan on: the    *)
(* refinement mapping.                                                       *)
EXTENDS Coordinator

Phase ==
    CASE task \in {"approved", "decided"} -> "queued"
      [] task \in {"preparing", "working", "advancing"} -> "working"
      [] task = "waiting" /\ saved.stage \in ToolPauses -> "tools"
      [] task = "waiting" /\ saved.stage \notin ToolPauses -> "final"
      [] task \in Finalizing -> "final"
      [] task = "completed" -> "completed"
      [] task = "rejected" -> "cancelled"
      [] task = "failed" -> "failed"

\* pending_approval_requests: the trees whose agents wait, as saved, those of
\* the execution that caused the pause only.
PendingRequests ==
    CASE saved.stage = "awaiting_approvals" ->
            {w \in Works : saved.execution[w] = "pending_approval"}
      [] saved.stage = "merge_repair_awaiting_approvals" ->
            {t \in {Integration} : saved.repair = "pending_approval"}
      [] saved.stage = "review_fix_awaiting_approvals" ->
            {t \in {Integration} : saved.fix = "pending_approval"}
      [] OTHER -> {}

\* ToolsDecided decides all calls of a pause in one step, so one abstract call
\* stands for them.
ToolCalls == {"calls"}

Life == INSTANCE Lifecycle WITH
    Calls     <- ToolCalls,
    phase     <- Phase,
    planned   <- TRUE,
    open      <- {c \in ToolCalls : task = "waiting" /\ PendingRequests # {}},
    issue     <- FALSE,
    published <- FALSE

\* Whatever the coordinator does between two pauses, and wherever its process
\* dies, what a person sees is the promised life: a pause for tools has
\* something to decide and a pause for the final decision has not, the run
\* goes on only when all tools are decided, and it ends well only by the final
\* decision.
ImplementsLifecycle == Life!SpecAfterPlan
=============================================================================
