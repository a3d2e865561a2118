--------------------------- MODULE MCPlaneFailsafe ---------------------------
(* PlaneControl with the failsafe in focus: every failsafe tunable, no     *)
(* mission, and the pilot, the aux switches and the ground station each    *)
(* selecting some modes.  streak counts the ticks in a row in which the    *)
(* detector found the link bad, or good.                                   *)
EXTENDS PlaneControl

VARIABLE streak

MCFlightModes == <<"RTL", "LOITER">>
MCAuxFunctions == {"TAKEOFF", "EmergencyLandingEn"}
MCGcsModes == {"AUTO"}
MCMissions == {}

StreakCap == FsLatch
StartsTick == pc = "read_rc" /\ pc' = "short_failsafe"

MCInit == Init /\ streak = [bad |-> 0, good |-> 0]
MCNext ==
    /\ Next
    /\ streak' = IF ~StartsTick THEN streak
                 ELSE IF rc_failsafe_active(rc', failsafe'.age)
                 THEN [bad |-> Lesser(streak.bad + 1, StreakCap), good |-> 0]
                 ELSE [bad |-> 0, good |-> Lesser(streak.good + 1, StreakCap)]
MCSpec == MCInit /\ [][MCNext]_<<vars, streak>>

\* The failsafe latches only after a run of bad ticks as long as the counter
\* climbs from its recovery cap, and clears only after two good ticks in a
\* row: no alternation of single good and bad frames moves it.
LatchFollowsStreaks ==
    [][failsafe'.rc_failsafe # failsafe.rc_failsafe
         => IF failsafe'.rc_failsafe THEN streak'.bad >= FsLatch - FsRecover
            ELSE streak'.good >= 2]_<<vars, streak>>
=============================================================================
