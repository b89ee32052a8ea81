-------------------------- MODULE WorkflowLifecycle --------------------------
(* Workflow implements Lifecycle: the refinement mapping.                   *)
EXTENDS Workflow

PhaseOfStatus(status) ==
    CASE status = "absent"                 -> "none"
      [] status = "processing"             -> "working"
      [] status = "pending_plan_approval"  -> "plan"
      [] status = "pending_tool_approval"  -> "tools"
      [] status = "pending_final_approval" -> "final"
      [] OTHER                             -> status

Life == INSTANCE Lifecycle WITH
    phase     <- PhaseOfStatus(run.status),
    planned   <- run.plan /\ run.status # "pending_plan_approval",
    open      <- Pending(approvals),
    issue     <- run.issue,
    published <- pullRequest

\* Through crashes, redelivered messages and requests in progress, each
\* transaction is one step of the promised life or invisible in it: no agent
\* that changes files runs before a person has approved a plan, the last
\* decision and no other gives the run back to the machines, only a person's
\* decision ends it well, and a rejected one has published nothing.  Claimed
\* without rival submissions of one request.
ImplementsLifecycle == Life!Spec
=============================================================================
