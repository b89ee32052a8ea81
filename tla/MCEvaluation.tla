---------------------------- MODULE MCEvaluation ----------------------------
(* The evaluation for TLC; its constants are numbers given in the cfg.       *)
EXTENDS Evaluation

=============================================================================
