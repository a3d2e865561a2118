--------------------------- MODULE MCMotorsSpool ---------------------------
(* MotorsSpool with ramps of four and two loops, a ground idle at the      *)
(* first step of the ramp, and delays of two loops.                        *)
EXTENDS MotorsSpool
=============================================================================
