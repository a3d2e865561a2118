----------------------------- MODULE MCPlaneNav -----------------------------
(* PlaneControl with the navigation leg in focus: one failsafe setting,    *)
(* missions that take off, fly and land, the modes that move the leg, and  *)
(* a ground station that loads missions and arms.                          *)
EXTENDS PlaneControl

MCFlightModes == <<"CRUISE", "RTL">>
MCAuxFunctions == {"ArmDisarm"}
MCGcsModes == {"AUTO", "TAKEOFF"}
MCMissions == {<<"Land">>, <<"Takeoff", "Waypoint">>}
=============================================================================
