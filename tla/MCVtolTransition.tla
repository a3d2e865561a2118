-------------------------- MODULE MCVtolTransition --------------------------
(* VtolTransition with the altitude error watched and ticks one or two     *)
(* units apart, so that a delay is met exactly and overshot.               *)
EXTENDS VtolTransition
=============================================================================
