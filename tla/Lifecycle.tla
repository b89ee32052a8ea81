------------------------------ MODULE Lifecycle ------------------------------
(***************************************************************************)
(* What one workflow run promises to the person who started it, with no    *)
(* word of rows, messages, tasks, stages or Git: whose turn it is, what is *)
(* asked, what was agreed to, and whether anything has been published.     *)
(*                                                                         *)
(* Workflow implements it with transactions and messages                   *)
(* (WorkflowLifecycle), Coordinator with stages and worktrees              *)
(* (CoordinatorLifecycle).  What the two modules leave to each other, the  *)
(* pause a task ends in and the decisions the next one starts from, is     *)
(* what this module says of it.                                            *)
(***************************************************************************)

CONSTANT
    Calls    \* call ids of the tool approvals the agents can ask for

VARIABLES
    phase,      \* whose turn it is, or how the run has ended
    planned,    \* a person has approved a plan
    open,       \* the calls a person is asked to decide
    issue,      \* the result is to become a pull request
    published   \* it has become one

life == <<phase, planned, open, issue, published>>

Automatic == {"queued", "working"}
Asking == {"plan", "tools", "final"}
Ended == {"completed", "cancelled", "failed"}
Phases == {"none"} \cup Automatic \cup Asking \cup Ended

LifeOK ==
    /\ phase \in Phases
    /\ planned \in BOOLEAN
    /\ open \in SUBSET Calls
    /\ issue \in BOOLEAN
    /\ published \in BOOLEAN

Init ==
    /\ phase = "none"
    /\ planned = FALSE
    /\ open = {}
    /\ issue = FALSE
    /\ published = FALSE

Create ==
    /\ phase = "none"
    /\ phase' = "queued"
    /\ issue' \in BOOLEAN
    /\ UNCHANGED <<planned, open, published>>

Start ==
    /\ phase = "queued"
    /\ phase' = "working"
    /\ UNCHANGED <<planned, open, issue, published>>

\* The machine that worked on the run is gone; another one will start over.
StartOver ==
    /\ phase = "working"
    /\ phase' = "queued"
    /\ UNCHANGED <<planned, open, issue, published>>

\* Without an approved plan the only thing that work can lead to is a plan.
AskForPlan ==
    /\ phase = "working"
    /\ ~planned
    /\ phase' = "plan"
    /\ UNCHANGED <<planned, open, issue, published>>

ApprovePlan ==
    /\ phase = "plan"
    /\ phase' = "queued"
    /\ planned' = TRUE
    /\ UNCHANGED <<open, issue, published>>

AskForTools(calls) ==
    /\ phase = "working"
    /\ planned
    /\ open = {}
    /\ calls # {}
    /\ phase' = "tools"
    /\ open' = calls
    /\ UNCHANGED <<planned, issue, published>>

\* The decision that leaves nothing open, and only that one, gives the run
\* back to the machines.
DecideTool(call) ==
    /\ phase = "tools"
    /\ call \in open
    /\ open' = open \ {call}
    /\ phase' = IF open' = {} THEN "queued" ELSE "tools"
    /\ UNCHANGED <<planned, issue, published>>

AskForFinal ==
    /\ phase = "working"
    /\ planned
    /\ open = {}
    /\ phase' = "final"
    /\ UNCHANGED <<planned, open, issue, published>>

Publish ==
    /\ phase = "final"
    /\ issue
    /\ ~published
    /\ published' = TRUE
    /\ UNCHANGED <<phase, planned, open, issue>>

Complete ==
    /\ phase = "final"
    /\ issue => published
    /\ phase' = "completed"
    /\ UNCHANGED <<planned, open, issue, published>>

Cancel ==
    /\ phase = "final"
    /\ ~published
    /\ phase' = "cancelled"
    /\ UNCHANGED <<planned, open, issue, published>>

Fail ==
    /\ phase \in {"working", "final"}
    /\ phase' = "failed"
    /\ UNCHANGED <<planned, open, issue, published>>

Next ==
    \/ Create \/ Start \/ StartOver
    \/ AskForPlan \/ ApprovePlan
    \/ \E calls \in SUBSET Calls : AskForTools(calls)
    \/ \E call \in Calls : DecideTool(call)
    \/ AskForFinal \/ Publish \/ Complete \/ Cancel \/ Fail

Spec == Init /\ [][Next]_life

\* The part of a life that begins when its plan has been approved.
InitAfterPlan ==
    /\ phase = "queued"
    /\ planned = TRUE
    /\ open = {}
    /\ issue \in BOOLEAN
    /\ published = FALSE

SpecAfterPlan == InitAfterPlan /\ [][Next]_life
=============================================================================
