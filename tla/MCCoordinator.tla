--------------------------- MODULE MCCoordinator ---------------------------
(* The coordinator for TLC; its constants are numbers given in the cfg.     *)
EXTENDS CoordinatorLifecycle

=============================================================================
