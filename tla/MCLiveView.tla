----------------------------- MODULE MCLiveView -----------------------------
(* The dashboard for TLC; runs are model values given in the cfg.           *)
EXTENDS LiveView

=============================================================================
