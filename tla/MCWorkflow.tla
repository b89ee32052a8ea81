----------------------------- MODULE MCWorkflow -----------------------------
(* Symmetry for the runs of Workflow that check safety only. *)
EXTENDS WorkflowLifecycle, TLC

Symmetry == Permutations(Workers) \cup Permutations(Requests)
                \cup Permutations(Calls)
=============================================================================
