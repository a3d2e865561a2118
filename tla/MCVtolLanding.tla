--------------------------- MODULE MCVtolLanding ---------------------------
(* VtolLanding with two heights, further apart than any reading may be     *)
(* from the one it is compared with, and delays of one or two units.       *)
EXTENDS VtolLanding
=============================================================================
