---------------------------- MODULE MotorsSpool ----------------------------
(***************************************************************************)
(* The spool state machine of the multirotor motors, output_logic(), with  *)
(* the takeoff check of Copter that lifts the block the machine asks for.  *)
(* The vehicle arms and disarms, and asks for a spool state, at any time   *)
(* between two loops.                                                      *)
(*                                                                         *)
(* Ratios are integers out of Full and a loop moves them by UpStep or      *)
(* DownStep; times are numbers of loops.  Thrust boost is left out: only   *)
(* tests set thrust_boost_, so it and its ratio stay 0.                    *)
(***************************************************************************)
EXTENDS Integers

CONSTANTS
    Full,           \* the ratio 1.0
    UpStep,         \* dt_s / spool_up_time
    DownStep,       \* dt_s / the spool-down time, or the spool-up time
    IdleRatio,      \* spin_arm / spin_min
    SafeTime,       \* safe_time; 0 where disarm_disable_pwm is off
    IdleDelay,      \* idle_time_delay_s
    Limits          \* the values of current_limit_max_throttle

ASSUME SpoolAssumption ==
    /\ {Full, UpStep, DownStep} \subseteq Nat \ {0}
    /\ {IdleRatio, SafeTime, IdleDelay} \subseteq Nat
    /\ Limits \subseteq 1 .. Full

VARIABLES
    motors,         \* the MotorsMatrix
    block,          \* spoolup_block, which the vehicle keeps
    armed,
    turn,           \* which call of the loop comes next
    throttle,       \* the filtered throttle of the last loop
    coop,           \* whether the last call was given what a takeoff needs
    checked         \* history: what became of the block since the last shut-down

vars == <<motors, block, armed, turn, throttle, coop, checked>>

States  == {"shut_down", "ground_idle", "spooling_up", "throttle_unlimited",
            "spooling_down"}
Desired == {"shut_down", "ground_idle", "throttle_unlimited"}

Lesser(a, b)  == IF a <= b THEN a ELSE b
Greater(a, b) == IF a <= b THEN b ELSE a

-----------------------------------------------------------------------------
(* output_logic(): the timer and the safety rule, then the state.          *)

SafeWindow(m) == IF armed THEN Lesser(m.safe + 1, SafeTime) ELSE 0

Guarded(m, interlock) ==
    LET s == [m EXCEPT !.safe = SafeWindow(m)]
    IN  IF armed /\ interlock THEN s
        ELSE [s EXCEPT !.desired = "shut_down", !.state = "shut_down"]

ShutDown(m) ==
    [m EXCEPT !.spin = 0, !.ceiling = 0, !.idle = 0,
              !.state = IF m.desired # "shut_down" /\ m.safe >= SafeTime
                        THEN "ground_idle" ELSE @]

\* Mutant of Idled: the speed of the ground idle itself does not count.
Idled_Above(m) ==
    [m EXCEPT !.ceiling = 0,
              !.idle = IF m.spin > IdleRatio THEN Lesser(IdleDelay, @ + 1) ELSE @]

\* The delay counts the time at the speed of the ground idle or above it.
Idled(m) ==
    [m EXCEPT !.ceiling = 0,
              !.idle = IF m.spin >= IdleRatio THEN Lesser(IdleDelay, @ + 1) ELSE @]

\* Mutant of SpinDown: the last step overshoots.
SpinDown_NoFloor(m) ==
    LET spin == m.spin - DownStep
    IN  [m EXCEPT !.spin = spin, !.state = IF spin <= 0 THEN "shut_down" ELSE @]

SpinDown(m) ==
    LET spin == m.spin - DownStep
    IN  [m EXCEPT !.spin = Greater(spin, 0),
                  !.state = IF spin <= 0 THEN "shut_down" ELSE @]

SpinToIdle(m) ==
    [m EXCEPT !.spin = IF @ <= IdleRatio THEN Lesser(@ + UpStep, IdleRatio)
                       ELSE Greater(@ - DownStep, IdleRatio)]

\* Mutant of SpinUp: the block is read as it was when the loop began.
SpinUp_ReadsBlockFirst(m) ==
    LET spin == m.spin + UpStep
    IN  IF m.idle < IdleDelay THEN [m EXCEPT !.spin = Lesser(spin, IdleRatio)]
        ELSE IF spin < Full   THEN [m EXCEPT !.spin = spin, !.complete = FALSE]
        ELSE [m EXCEPT !.spin = Full, !.complete = TRUE,
                       !.state = IF ~block THEN "spooling_up" ELSE @]

\* The loop that completes the spin-up asks for the block, and sees it.
SpinUp(m) ==
    LET spin == m.spin + UpStep
    IN  IF m.idle < IdleDelay THEN [m EXCEPT !.spin = Lesser(spin, IdleRatio)]
        ELSE IF spin < Full   THEN [m EXCEPT !.spin = spin, !.complete = FALSE]
        ELSE [m EXCEPT !.spin = Full, !.complete = TRUE,
                       !.state = IF m.complete /\ ~block THEN "spooling_up" ELSE @]

GroundIdle(m) ==
    CASE m.desired = "shut_down"          -> SpinDown(Idled(m))
      [] m.desired = "ground_idle"        -> SpinToIdle(Idled(m))
      [] m.desired = "throttle_unlimited" -> SpinUp(Idled(m))

\* Mutant of SpoolingUp: the ceiling is lifted without a ramp.
SpoolingUp_NoRamp(m, filtered, limit) ==
    IF m.desired # "throttle_unlimited" THEN [m EXCEPT !.state = "spooling_down"]
    ELSE [m EXCEPT !.spin = Full, !.ceiling = limit, !.state = "throttle_unlimited"]

SpoolingUp(m, filtered, limit) ==
    LET ceiling == m.ceiling + UpStep
        reached == ceiling >= Lesser(filtered, limit)
    IN  IF m.desired # "throttle_unlimited" THEN [m EXCEPT !.state = "spooling_down"]
        ELSE [m EXCEPT !.spin = Full, !.ceiling = IF reached THEN limit ELSE ceiling,
                       !.state = IF reached THEN "throttle_unlimited" ELSE @]

\* Mutant of ThrottleUnlimited: only a disarm ends it.
ThrottleUnlimited_Held(m, limit) == [m EXCEPT !.spin = Full, !.ceiling = limit]

ThrottleUnlimited(m, limit) ==
    IF m.desired # "throttle_unlimited" THEN [m EXCEPT !.state = "spooling_down"]
    ELSE [m EXCEPT !.spin = Full, !.ceiling = limit]

\* Mutant of SpoolingDown: the ground idle is entered before the ramp ends.
SpoolingDown_NoRamp(m, limit) ==
    IF m.desired = "throttle_unlimited" THEN [m EXCEPT !.state = "spooling_up"]
    ELSE [m EXCEPT !.spin = 0, !.state = "ground_idle"]

\* A ceiling at or above the limit snaps to it, and only one below it ends
\* the ramp.
SpoolingDown(m, limit) ==
    LET ceiling == Greater(m.ceiling - DownStep, 0)
    IN  IF m.desired = "throttle_unlimited" THEN [m EXCEPT !.state = "spooling_up"]
        ELSE [m EXCEPT !.spin = Full, !.ceiling = Lesser(ceiling, limit),
                       !.state = IF ceiling < limit /\ ceiling = 0 THEN "ground_idle" ELSE @]

Logic(m, filtered, limit) ==
    CASE m.state = "shut_down"          -> ShutDown(m)
      [] m.state = "ground_idle"        -> GroundIdle(m)
      [] m.state = "spooling_up"        -> SpoolingUp(m, filtered, limit)
      [] m.state = "throttle_unlimited" -> ThrottleUnlimited(m, limit)
      [] m.state = "spooling_down"      -> SpoolingDown(m, limit)

-----------------------------------------------------------------------------
Init ==
    /\ motors = [state |-> "shut_down", desired |-> "shut_down", spin |-> 0,
                 ceiling |-> 0, idle |-> 0, safe |-> 0, complete |-> FALSE]
    /\ block = FALSE
    /\ armed = FALSE
    /\ turn = "output"
    /\ throttle = 0
    /\ coop = FALSE
    /\ checked = "no"

\* should_set_spoolup_block: the vehicle raises its block when asked to.
output_logic(filtered, limit, interlock, next) ==
    LET m      == Guarded(motors, interlock)
        raised == m.state = "ground_idle" /\ motors'.complete /\ ~motors.complete
    IN  /\ turn = "output" /\ turn' = next
        /\ motors' = Logic(m, filtered, limit)
        /\ block' = (block \/ raised)
        /\ throttle' = filtered
        /\ coop' = interlock
        /\ checked' = IF motors'.state = "shut_down" THEN "no"
                      ELSE IF raised THEN "raised" ELSE checked
        /\ UNCHANGED armed

\* passed: the rotors turn as they should and the load is adequate.
takeoff_check(land_complete, passed) ==
    /\ turn = "check" /\ turn' = "output"
    /\ block' = (block /\ land_complete /\ ~passed)
    /\ coop' = passed
    /\ checked' = IF block /\ ~block' /\ checked = "raised" THEN "lifted" ELSE checked
    /\ UNCHANGED <<motors, armed, throttle>>

arm == /\ ~armed /\ armed' = TRUE
       /\ UNCHANGED <<motors, block, turn, throttle, coop, checked>>
disarm == /\ armed /\ armed' = FALSE
          /\ UNCHANGED <<motors, block, turn, throttle, coop, checked>>

set_spool_desired(to) ==
    /\ motors.desired # to
    /\ motors' = [motors EXCEPT !.desired = to]
    /\ UNCHANGED <<block, armed, turn, throttle, coop, checked>>

Output == \E filtered \in 0 .. Full, limit \in Limits, interlock \in BOOLEAN,
             next \in {"output", "check"} : output_logic(filtered, limit, interlock, next)
Check  == \E land_complete, passed \in BOOLEAN : takeoff_check(land_complete, passed)

Next == \/ Output
        \/ Check
        \/ arm
        \/ disarm
        \/ \E to \in Desired : set_spool_desired(to)

\* The main loop goes on, and the takeoff check runs again and again: only
\* these two change turn.
OtherTurn == IF turn = "output" THEN "check" ELSE "output"
Spec == Init /\ [][Next]_vars /\ WF_turn(turn' = OtherTurn)

-----------------------------------------------------------------------------
TypeOK ==
    /\ motors \in [state : States, desired : Desired, spin : 0 .. Greater(Full, IdleRatio),
                   ceiling : 0 .. Full, idle : 0 .. IdleDelay, safe : 0 .. SafeTime,
                   complete : BOOLEAN]
    /\ block \in BOOLEAN
    /\ armed \in BOOLEAN
    /\ turn \in {"output", "check"}
    /\ throttle \in 0 .. Full
    /\ coop \in BOOLEAN
    /\ checked \in {"no", "raised", "lifted"}

\* Rotors that are not spun up are never asked for thrust, whichever way
\* the ramps were reversed on.
CeilingNeedsSpin == motors.ceiling > 0 => motors.spin = Full

\* Until the throttle is unlimited, the thrust the motors give to whatever
\* is asked of them grows by no more than a step in a loop.
NoThrustJump ==
    [][motors.state # "throttle_unlimited"
         => Lesser(throttle', motors'.ceiling) <= motors.ceiling + UpStep]_vars

\* Thrust is given only after the takeoff check has run for this spin-up:
\* the flag that remembers an older one is cleared on the way, where the
\* way from ground idle to Full takes more than a loop.
TakeoffChecked ==
    IdleRatio + UpStep < Full /\ motors.state \in {"spooling_up", "throttle_unlimited"}
        => checked = "lifted"

\* Motors that are asked to spool up, and pass their check, do so.
SpoolsUp ==
    <>[](coop /\ armed /\ motors.desired = "throttle_unlimited")
        => <>[](motors.state = "throttle_unlimited")

\* Motors that are asked to shut down do so, from wherever they are.
SpoolsDown == <>[](motors.desired = "shut_down") => <>[](motors.state = "shut_down")
=============================================================================
