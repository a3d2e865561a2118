---------------------------- MODULE PlaneControl ----------------------------
(***************************************************************************)
(* One control loop of the fixed-wing vehicle: fwcpp::vehicle::tick(),     *)
(* with the RC failsafe, the flight-mode machine and the navigation target *)
(* it drives.  Each action is one numbered step of tick(), in the order    *)
(* the function runs them; pc names the step that runs next.  The Mode&    *)
(* that tick() binds on entry is the variable mode: it does not follow a   *)
(* set_mode() made later in the same tick.                                 *)
(*                                                                         *)
(* Time is counted in ticks and only as ages: how long ago the last valid  *)
(* RC frame arrived, how long ago the CRUISE lock timer was started.       *)
(***************************************************************************)
EXTENDS Integers, Sequences

CONSTANTS
    ThrFailsafeValues,  \* values of THR_FAILSAFE explored
    FsShortValues,      \* values of FS_SHORT_ACTN explored
    FsLongValues,       \* values of FS_LONG_ACTN explored
    FsLatch,            \* bad ticks that latch rc_failsafe (10 in the code)
    FsRecover,          \* what the counter is cut to when recovering (3)
    FreshAge,           \* oldest RC frame the mode switch may use (100 ms)
    RcFsTimeout,        \* rc_fs_timeout_ms
    LongTimeout,        \* fs_timeout_long_ms
    LockTicks,          \* CRUISE heading-lock delay (500 ms)
    FlightModes,        \* the modes of the mode switch's positions
    AuxFunctions,       \* the functions assigned to aux switches
    GcsModes,           \* the modes a ground station asks for
    Missions            \* the missions a ground station may load

ThrFailsafe   == {"Disabled", "Enabled", "EnabledNoFS"}
FsActionShort == {"BestGuess", "Circle", "Fbwa", "Disabled", "Fbwb"}
FsActionLong  == {"Continue", "Rtl", "Glide", "Parachute", "Auto", "Autoland"}
Modes         == {"MANUAL", "FBWA", "FBWB", "CRUISE", "AUTO", "RTL",
                  "LOITER", "TAKEOFF"}
Commands      == {"Takeoff", "Waypoint", "Land"}
AuxModes      == Modes \ {"FBWB"}          \* no aux function selects FBWB
NoMode        == "none"

ASSUME ValuesAssumption ==
    /\ ThrFailsafeValues \subseteq ThrFailsafe
    /\ FsShortValues \subseteq FsActionShort
    /\ FsLongValues \subseteq FsActionLong
    /\ FlightModes \in Seq(Modes)
    /\ AuxFunctions \subseteq AuxModes \cup {"ArmDisarm", "EmergencyLandingEn"}
    /\ GcsModes \subseteq Modes
    /\ Missions \subseteq Seq(Commands)

ASSUME TimesAssumption ==
    /\ FsLatch \in Nat /\ FsRecover \in Nat /\ 0 < FsRecover /\ FsRecover < FsLatch
    /\ FreshAge \in Nat /\ RcFsTimeout \in Nat /\ LongTimeout \in Nat
    /\ FreshAge <= RcFsTimeout /\ RcFsTimeout <= LongTimeout
    /\ LockTicks \in Nat

VARIABLES
    pc,                     \* the step of tick() that runs next
    mode,                   \* the Mode& bound on entry; NoMode between ticks
    aparm,                  \* the failsafe tunables, fixed for a flight
    rc,                     \* what the receiver channels hold
    failsafe,               \* Plane::failsafe
    control_mode,
    mode_set_by_failsafe,
    failsafe_saved_mode,
    long_failsafe_pending,
    emergency_landing,
    armed,
    mission,                \* the loaded items and current_index_ (from 1)
    nav,                    \* the leg flown and the mode state that sets it
    cruise                  \* ModeCRUISE's heading lock

modeVars == <<control_mode, mode_set_by_failsafe, long_failsafe_pending>>
vars == <<pc, mode, aparm, rc, failsafe, modeVars, failsafe_saved_mode,
          emergency_landing, armed, mission, nav, cruise>>

Steps   == {"read_rc", "short_failsafe", "long_failsafe", "mode_switch",
            "aux", "navigate", "update"}
Levels  == {"None", "Short", "Long"}
Targets == {"none", "here", "home", "cruise_leg", "takeoff_leg", "item"}
Stages  == {"Normal", "Approach", "Final", "Rollout"}
AgeCap  == LongTimeout + 1      \* ages above it are alike to every test
TimerCap == LockTicks + 2       \* 0: not running; n: started n-1 ticks ago

Lesser(a, b) == IF a < b THEN a ELSE b

-----------------------------------------------------------------------------
(* The initial state: the constructor's values, before any RC frame.  The  *)
(* throttle channel then reads 0, below THR_FS_VALUE, and sticks read      *)
(* centred.                                                                *)

Init ==
    /\ pc = "read_rc" /\ mode = NoMode
    /\ aparm \in [throttle_fs : ThrFailsafeValues, fs_short : FsShortValues,
                  fs_long : FsLongValues]
    /\ rc = [seen |-> FALSE, thr_ok |-> FALSE, centred |-> TRUE]
    /\ failsafe = [rc_failsafe |-> FALSE, state |-> "None",
                   throttle_counter |-> 0, age |-> 0]
    /\ control_mode = "MANUAL"
    /\ mode_set_by_failsafe = FALSE
    /\ failsafe_saved_mode = NoMode
    /\ long_failsafe_pending = FALSE
    /\ emergency_landing = FALSE
    /\ armed = FALSE
    /\ mission = [items |-> << >>, index |-> 1]
    /\ nav = [next_WP |-> "none", landing_stage |-> "Normal",
              hold_course |-> FALSE, setup |-> FALSE, climbed |-> FALSE]
    /\ cruise = [locked |-> FALSE, timer |-> 0]

-----------------------------------------------------------------------------
(* Entering a mode.                                                        *)

HasItem(m) == m.index <= Len(m.items)
Item(m)    == m.items[m.index]

\* do_takeoff(), do_land() and do_nav_wp(): the leg of a mission command.
StartItem(cmd, n) ==
    CASE cmd = "Takeoff" -> [n EXCEPT !.next_WP = "item", !.hold_course = FALSE]
      [] cmd = "Land"    -> [n EXCEPT !.next_WP = "item", !.landing_stage = "Normal"]
      [] OTHER           -> [n EXCEPT !.next_WP = "item"]

\* Mode::enter() of each mode, as far as it moves the leg.
Enter(m, n) ==
    CASE m = "AUTO" /\ HasItem(mission) -> StartItem(Item(mission), n)
      [] m = "AUTO" /\ ~HasItem(mission) -> [n EXCEPT !.next_WP = "here"]
      [] m = "RTL"     -> [n EXCEPT !.next_WP = "home"]
      [] m = "LOITER"  -> [n EXCEPT !.next_WP = "here"]
      [] m = "TAKEOFF" -> [n EXCEPT !.next_WP = "takeoff_leg", !.setup = FALSE,
                                    !.climbed = FALSE, !.hold_course = FALSE]
      [] OTHER         -> n

\* Mutants of SetMode: a postponed failsafe survives the change of mode; the
\* failsafe keeps owning a mode chosen after it; the current mode is entered
\* again when it is asked for.
SetMode_KeepsPending(m, from_failsafe, n, pending) ==
    /\ control_mode' = m
    /\ mode_set_by_failsafe' = IF m = control_mode THEN mode_set_by_failsafe ELSE from_failsafe
    /\ long_failsafe_pending' = pending
    /\ nav' = IF m = control_mode THEN n ELSE [Enter(m, n) EXCEPT !.landing_stage = "Normal"]
SetMode_KeepsOwner(m, from_failsafe, n, pending) ==
    /\ control_mode' = m
    /\ mode_set_by_failsafe' = (mode_set_by_failsafe \/ (from_failsafe /\ m # control_mode))
    /\ long_failsafe_pending' = (m = control_mode /\ pending)
    /\ nav' = IF m = control_mode THEN n ELSE [Enter(m, n) EXCEPT !.landing_stage = "Normal"]
SetMode_Reenters(m, from_failsafe, n, pending) ==
    /\ control_mode' = m
    /\ mode_set_by_failsafe' = from_failsafe
    /\ long_failsafe_pending' = FALSE
    /\ nav' = [Enter(m, n) EXCEPT !.landing_stage = "Normal"]

\* Plane::set_mode(), from the leg n and the postponed failsafe pending that
\* the caller has so far.  Asking for the current mode changes nothing, not
\* even who owns it.  No mode's enter() fails, so there is no roll-back.
SetMode(m, from_failsafe, n, pending) ==
    IF m = control_mode
    THEN /\ long_failsafe_pending' = pending
         /\ nav' = n
         /\ UNCHANGED <<control_mode, mode_set_by_failsafe>>
    ELSE /\ control_mode' = m
         /\ mode_set_by_failsafe' = from_failsafe
         /\ long_failsafe_pending' = FALSE
         /\ nav' = [Enter(m, n) EXCEPT !.landing_stage = "Normal"]

KeepMode == UNCHANGED <<modeVars, nav>>

-----------------------------------------------------------------------------
(* Step read_rc: bind the mode, read the receiver, debounce the failsafe.  *)

rc_throttle_value_ok(r) == aparm.throttle_fs = "Disabled" \/ r.thr_ok

rc_failsafe_active(r, age) == ~rc_throttle_value_ok(r) \/ age > RcFsTimeout

\* Mutant of CountBad: the counter runs on.
CountBad_Uncapped(f) ==
    [f EXCEPT !.throttle_counter = @ + 1,
              !.rc_failsafe = @ \/ f.throttle_counter + 1 = FsLatch]

CountBad(f) ==
    LET c == f.throttle_counter + 1
    IN  [f EXCEPT !.throttle_counter = Lesser(c, FsLatch),
                  !.rc_failsafe = @ \/ c = FsLatch]

\* Mutant of CountGood: the latch is opened at once.
CountGood_AtOnce(f) ==
    [f EXCEPT !.throttle_counter = 0, !.rc_failsafe = FALSE]

CountGood(f) ==
    LET c == Lesser(f.throttle_counter - 1, FsRecover)
    IN  [f EXCEPT !.throttle_counter = c, !.rc_failsafe = @ /\ c # 0]

\* The detector runs only with THR_FAILSAFE at Enabled, or to clear a
\* failsafe already latched, and never before the first frame.
update_throttle_failsafe(r, f) ==
    IF (aparm.throttle_fs # "Enabled" /\ ~f.rc_failsafe) \/ ~r.seen THEN f
    ELSE IF rc_failsafe_active(r, f.age) THEN CountBad(f)
    ELSE IF f.throttle_counter > 0 THEN CountGood(f)
    ELSE f

Older(age) == Lesser(age + 1, AgeCap)

\* The tick begins with the channels at r; new says a frame brought them.
StartTick(r, new) ==
    /\ pc = "read_rc" /\ pc' = "short_failsafe"
    /\ mode' = control_mode
    /\ rc' = r
    /\ failsafe' = update_throttle_failsafe(r, [failsafe EXCEPT
            !.age = IF new /\ rc_throttle_value_ok(r) THEN 0 ELSE Older(@)])
    /\ cruise' = [cruise EXCEPT !.timer = IF @ = 0 THEN 0 ELSE Lesser(@ + 1, TimerCap)]
    /\ UNCHANGED <<aparm, modeVars, failsafe_saved_mode, emergency_landing,
                   armed, mission, nav>>

ReceiveFrame ==
    \E ok, centred \in BOOLEAN :
        StartTick([seen |-> TRUE, thr_ok |-> ok, centred |-> centred], TRUE)

NoFrame == StartTick(rc, FALSE)

-----------------------------------------------------------------------------
(* Step short_failsafe.                                                    *)

apply_fs_action_short ==
    CASE aparm.fs_short = "Fbwa" -> "FBWA"
      [] aparm.fs_short = "Fbwb" -> "FBWB"
      [] OTHER                   -> "RTL"

\* The mode rc_failsafe_short_on_event() asks for; the current one if none.
ShortTarget ==
    CASE control_mode \in {"MANUAL", "FBWA", "FBWB", "CRUISE"} ->
            IF emergency_landing THEN "FBWA" ELSE apply_fs_action_short
      [] control_mode \in {"AUTO", "LOITER"} /\ aparm.fs_short # "BestGuess" ->
            apply_fs_action_short
      [] OTHER -> control_mode

rc_failsafe_short_on_event ==
    /\ failsafe' = [failsafe EXCEPT !.state = "Short"]
    /\ failsafe_saved_mode' = control_mode
    /\ SetMode(ShortTarget, TRUE, nav, long_failsafe_pending)

\* Mutant of rc_failsafe_short_off_event: it restores whoever set the mode.
rc_failsafe_short_off_event_Always ==
    /\ failsafe' = [failsafe EXCEPT !.state = "None"]
    /\ SetMode(failsafe_saved_mode, FALSE, nav, long_failsafe_pending)
    /\ UNCHANGED failsafe_saved_mode

\* Back to the interrupted mode, unless the mode was chosen since.
rc_failsafe_short_off_event ==
    /\ failsafe' = [failsafe EXCEPT !.state = "None"]
    /\ IF mode_set_by_failsafe /\ failsafe_saved_mode # NoMode
       THEN SetMode(failsafe_saved_mode, FALSE, nav, long_failsafe_pending)
       ELSE KeepMode
    /\ UNCHANGED failsafe_saved_mode

\* Mutant: a Short level is cleared only while the failsafe owns the mode.
ShortOff_Owned == /\ failsafe.state = "Short"
                  /\ mode_set_by_failsafe
                  /\ ~failsafe.rc_failsafe \/ aparm.fs_short = "Disabled"

ShortOn  == /\ aparm.fs_short # "Disabled"
            /\ failsafe.state = "None"
            /\ failsafe.rc_failsafe
ShortOff == /\ failsafe.state = "Short"
            /\ ~failsafe.rc_failsafe \/ aparm.fs_short = "Disabled"

check_short_rc_failsafe ==
    /\ pc = "short_failsafe" /\ pc' = "long_failsafe"
    /\ \/ ShortOn /\ rc_failsafe_short_on_event
       \/ ShortOff /\ rc_failsafe_short_off_event
       \/ ~ShortOn /\ ~ShortOff /\ KeepMode /\ UNCHANGED <<failsafe, failsafe_saved_mode>>
    /\ UNCHANGED <<mode, aparm, rc, emergency_landing, armed, mission, cruise>>

-----------------------------------------------------------------------------
(* Step long_failsafe.                                                     *)

apply_fs_action_long ==
    CASE aparm.fs_long = "Parachute" -> control_mode    \* no parachute here
      [] aparm.fs_long = "Glide"     -> "FBWA"
      [] aparm.fs_long = "Auto"      -> "AUTO"
      [] OTHER                       -> "RTL"

\* The mode failsafe_long_on_event() asks for; the current one if none.
LongTarget ==
    CASE control_mode = "AUTO" ->
            IF aparm.fs_long = "Glide" THEN "FBWA"
            ELSE IF aparm.fs_long = "Rtl" THEN "RTL" ELSE "AUTO"
      [] control_mode = "RTL" -> IF aparm.fs_long = "Auto" THEN "AUTO" ELSE "RTL"
      [] OTHER -> IF emergency_landing THEN "FBWA" ELSE apply_fs_action_long

\* A take-off still climbing out is not interrupted, except to come down.
LongDefers(n) == /\ control_mode = "TAKEOFF" /\ ~n.climbed
                 /\ aparm.fs_long \notin {"Glide", "Parachute"}

failsafe_long_on_event(n, pending) ==
    /\ failsafe' = [failsafe EXCEPT !.state = "Long"]
    /\ IF LongDefers(n)
       THEN /\ long_failsafe_pending' = TRUE
            /\ nav' = n
            /\ UNCHANGED <<control_mode, mode_set_by_failsafe>>
       ELSE SetMode(LongTarget, TRUE, n, pending)

failsafe_long_off_event ==
    /\ long_failsafe_pending' = FALSE
    /\ failsafe' = [failsafe EXCEPT !.state = "None"]
    /\ UNCHANGED <<control_mode, mode_set_by_failsafe, nav>>

\* Mutants: only a Short level escalates; the long event is run again in every
\* tick; a Long level is cleared only while the failsafe owns the mode.
LongOn_Repeats == failsafe.rc_failsafe /\ failsafe.age > LongTimeout
LongOn_FromShort == failsafe.state = "Short" /\ failsafe.rc_failsafe /\ failsafe.age > LongTimeout
LongOff_Owned == failsafe.state = "Long" /\ ~failsafe.rc_failsafe /\ mode_set_by_failsafe

LongOn  == failsafe.state # "Long" /\ failsafe.rc_failsafe /\ failsafe.age > LongTimeout
LongOff == failsafe.state = "Long" /\ ~failsafe.rc_failsafe

check_long_failsafe ==
    /\ pc = "long_failsafe" /\ pc' = "mode_switch"
    /\ \/ LongOn /\ failsafe_long_on_event(nav, long_failsafe_pending)
       \/ LongOff /\ failsafe_long_off_event
       \/ ~LongOn /\ ~LongOff /\ KeepMode /\ UNCHANGED failsafe
    /\ UNCHANGED <<mode, aparm, rc, failsafe_saved_mode, emergency_landing,
                   armed, mission, cruise>>

-----------------------------------------------------------------------------
(* Steps mode_switch and aux.  Which debounced position a switch reports,  *)
(* and when, is RcSwitch's business: here any of them may report.          *)

mode_switch_changed ==
    /\ failsafe.age <= FreshAge /\ rc.seen
    /\ \E pos \in DOMAIN FlightModes :
          SetMode(FlightModes[pos], FALSE, nav, long_failsafe_pending)

ModeSwitch ==
    /\ pc = "mode_switch" /\ pc' = "aux"
    /\ mode_switch_changed \/ KeepMode
    /\ UNCHANGED <<mode, aparm, rc, failsafe, failsafe_saved_mode,
                   emergency_landing, armed, mission, cruise>>

arm ==
    /\ ~armed
    /\ aparm.throttle_fs # "Enabled" \/ rc.seen
    /\ armed' = TRUE
    /\ UNCHANGED mission

disarm ==
    /\ armed
    /\ armed' = FALSE
    /\ mission' = IF control_mode = "AUTO" THEN mission
                                           ELSE [mission EXCEPT !.index = 1]

\* One report of an aux switch; several may come in one tick.  A mode switch
\* released, and a middle position, change nothing of this state.
dispatch_aux_function(func) ==
    \/ /\ func = "ArmDisarm"
       /\ arm \/ disarm
       /\ UNCHANGED <<emergency_landing, modeVars, nav>>
    \/ /\ func = "EmergencyLandingEn"
       /\ emergency_landing' \in BOOLEAN
       /\ UNCHANGED <<armed, mission, modeVars, nav>>
    \/ /\ func \in AuxModes
       /\ SetMode(func, FALSE, nav, long_failsafe_pending)
       /\ UNCHANGED <<emergency_landing, armed, mission>>

ReadAux ==
    /\ pc = "aux" /\ rc.seen
    /\ \E func \in AuxFunctions : dispatch_aux_function(func)
    /\ UNCHANGED <<pc, mode, aparm, rc, failsafe, failsafe_saved_mode, cruise>>

AuxDone ==
    /\ pc = "aux" /\ pc' = "navigate"
    /\ UNCHANGED <<mode, aparm, rc, failsafe, modeVars, failsafe_saved_mode,
                   emergency_landing, armed, mission, nav, cruise>>

-----------------------------------------------------------------------------
(* Step navigate: of the mode bound at the start of the tick.              *)

\* After 500 ms of centred sticks the ground course is locked, and while it
\* is locked each call projects the leg 1 km ahead along it.
NavigateCruise ==
    \E moving \in BOOLEAN :
        LET timer  == IF ~cruise.locked /\ rc.centred /\ moving /\ cruise.timer = 0
                      THEN 1 ELSE cruise.timer
            lock   == timer > LockTicks + 1
            locked == cruise.locked \/ lock
        IN  /\ cruise' = [locked |-> locked, timer |-> IF lock THEN 0 ELSE timer]
            /\ nav' = IF locked THEN [nav EXCEPT !.next_WP = "cruise_leg"] ELSE nav
            /\ UNCHANGED <<mission, modeVars>>

\* Mutant of verify_land: the test for the approach is not limited to the
\* stages before it.
verify_land_Unguarded(stage) ==
    IF stage = "Normal" THEN {"Normal", "Approach", "Final"} ELSE {"Approach", "Final"}

\* The stages one verify_land() may leave, from its two tests in order.
verify_land(stage) ==
    CASE stage = "Normal"   -> {"Normal", "Approach", "Final"}
      [] stage = "Approach" -> {"Approach", "Final"}
      [] OTHER              -> {stage}

\* The command is complete: start the next one, or return home at the end.
CompleteItem(n) ==
    IF mission.index < Len(mission.items)
    THEN /\ mission' = [mission EXCEPT !.index = @ + 1]
         /\ nav' = StartItem(mission.items[mission.index + 1], n)
         /\ UNCHANGED modeVars
    ELSE /\ SetMode("RTL", FALSE, n, long_failsafe_pending)
         /\ UNCHANGED mission

ContinueItem(n) == nav' = n /\ UNCHANGED <<mission, modeVars>>

NavigateAuto ==
    /\ HasItem(mission)
    /\ \/ /\ Item(mission) = "Takeoff"
          /\ \E gps, high \in BOOLEAN :
                LET held == nav.hold_course \/ (gps /\ armed)
                IN  IF high THEN CompleteItem([nav EXCEPT !.next_WP = "here",
                                                          !.hold_course = FALSE])
                            ELSE ContinueItem([nav EXCEPT !.hold_course = held])
       \/ /\ Item(mission) = "Land"
          /\ \E stage \in verify_land(nav.landing_stage) :
                ContinueItem([nav EXCEPT !.landing_stage = stage])
       \/ /\ Item(mission) = "Waypoint"
          /\ CompleteItem(nav) \/ ContinueItem(nav)
    /\ UNCHANGED cruise

NavigateNothing ==
    /\ mode \notin {"CRUISE", "AUTO"} \/ (mode = "AUTO" /\ ~HasItem(mission))
    /\ UNCHANGED <<mission, modeVars, nav, cruise>>

Navigate ==
    /\ pc = "navigate" /\ pc' = "update"
    /\ \/ mode = "CRUISE" /\ NavigateCruise
       \/ mode = "AUTO" /\ NavigateAuto
       \/ NavigateNothing
    /\ UNCHANGED <<mode, aparm, rc, failsafe, failsafe_saved_mode,
                   emergency_landing, armed>>

-----------------------------------------------------------------------------
(* Step update: of the mode bound at the start of the tick.                *)

\* A stick moved unlocks the heading.
UpdateCruise ==
    /\ cruise' = IF rc.centred THEN cruise ELSE [locked |-> FALSE, timer |-> 0]
    /\ UNCHANGED <<failsafe, modeVars, nav>>

\* update_landing_rollout(): weight on wheels in the final stage.
UpdateAuto ==
    /\ \/ /\ HasItem(mission) /\ Item(mission) = "Land"
          /\ nav.landing_stage = "Final"
          /\ nav' = [nav EXCEPT !.landing_stage = "Rollout"]
       \/ UNCHANGED nav
    /\ UNCHANGED <<failsafe, modeVars, cruise>>

\* Until the ground speed is there the leg is laid out anew on every call;
\* level and high tell that the levelling and the target height is reached.
TakeoffLeg(n, speed, level, high) ==
    LET n1 == IF n.setup THEN n
              ELSE [n EXCEPT !.next_WP = "takeoff_leg", !.setup = speed,
                             !.hold_course = @ \/ speed]
        n2 == IF ~n1.climbed /\ ~n1.hold_course /\ level
              THEN [n1 EXCEPT !.next_WP = "takeoff_leg", !.hold_course = TRUE]
              ELSE n1
    IN  [n2 EXCEPT !.climbed = @ \/ high]

\* A long failsafe postponed by the climb-out is taken up once it is over.
UpdateTakeoff ==
    /\ \E speed, level, high \in BOOLEAN :
          LET n == TakeoffLeg(nav, speed, level, high)
          IN  IF n.climbed /\ long_failsafe_pending
              THEN failsafe_long_on_event(n, FALSE)
              ELSE nav' = n /\ UNCHANGED <<failsafe, modeVars>>
    /\ UNCHANGED cruise

UpdateNothing ==
    /\ mode \notin {"CRUISE", "AUTO", "TAKEOFF"}
    /\ UNCHANGED <<failsafe, modeVars, nav, cruise>>

Update ==
    /\ pc = "update" /\ pc' = "read_rc"
    /\ mode' = NoMode
    /\ \/ mode = "CRUISE" /\ UpdateCruise
       \/ mode = "AUTO" /\ UpdateAuto
       \/ mode = "TAKEOFF" /\ UpdateTakeoff
       \/ UpdateNothing
    /\ UNCHANGED <<aparm, rc, failsafe_saved_mode, emergency_landing, armed, mission>>

-----------------------------------------------------------------------------
(* The ground station, between two ticks.                                  *)

BetweenTicks == pc = "read_rc" /\ UNCHANGED <<pc, mode, aparm, rc, failsafe,
                    failsafe_saved_mode, emergency_landing, cruise>>

GcsSetMode ==
    /\ BetweenTicks
    /\ \E m \in GcsModes : SetMode(m, FALSE, nav, long_failsafe_pending)
    /\ UNCHANGED <<armed, mission>>

\* The bridge arms without arm()'s check, and disarms through disarm().
GcsArm ==
    /\ BetweenTicks
    /\ (armed' = TRUE /\ UNCHANGED mission) \/ disarm
    /\ UNCHANGED <<modeVars, nav>>

\* Loading restarts the mission, whatever the mode and the leg being flown.
GcsSetMission ==
    /\ BetweenTicks
    /\ \E items \in Missions : mission' = [items |-> items, index |-> 1]
    /\ UNCHANGED <<armed, modeVars, nav>>

-----------------------------------------------------------------------------

Tick == \/ ReceiveFrame \/ NoFrame \/ check_short_rc_failsafe \/ check_long_failsafe
        \/ ModeSwitch \/ ReadAux \/ AuxDone \/ Navigate \/ Update

Next == Tick \/ GcsSetMode \/ GcsArm \/ GcsSetMission

\* The main loop calls tick() periodically and tick() runs to its end.
Fairness == /\ WF_vars(ReceiveFrame \/ NoFrame)
            /\ WF_vars(check_short_rc_failsafe)
            /\ WF_vars(check_long_failsafe)
            /\ WF_vars(ModeSwitch)
            /\ WF_vars(AuxDone)
            /\ WF_vars(Navigate)
            /\ WF_vars(Update)

Spec == Init /\ [][Next]_vars
FairSpec == Spec /\ Fairness
-----------------------------------------------------------------------------
(* Properties.                                                             *)

Tunables     == [throttle_fs : ThrFailsafe, fs_short : FsActionShort, fs_long : FsActionLong]
Channels     == [seen : BOOLEAN, thr_ok : BOOLEAN, centred : BOOLEAN]
FailsafeType == [rc_failsafe : BOOLEAN, state : Levels,
                 throttle_counter : 0..FsLatch, age : 0..AgeCap]
Mission      == [items : Seq(Commands), index : Nat \ {0}]
Nav          == [next_WP : Targets, landing_stage : Stages, hold_course : BOOLEAN,
                 setup : BOOLEAN, climbed : BOOLEAN]
HeadingLock  == [locked : BOOLEAN, timer : 0..TimerCap]

\* Every variable has its type.
TypeOK ==
    /\ pc \in Steps
    /\ mode \in Modes \cup {NoMode}
    /\ aparm \in Tunables
    /\ rc \in Channels
    /\ failsafe \in FailsafeType
    /\ control_mode \in Modes
    /\ mode_set_by_failsafe \in BOOLEAN
    /\ failsafe_saved_mode \in Modes \cup {NoMode}
    /\ long_failsafe_pending \in BOOLEAN
    /\ emergency_landing \in BOOLEAN
    /\ armed \in BOOLEAN
    /\ mission \in Mission
    /\ nav \in Nav
    /\ cruise \in HeadingLock

\* The debounce counter and the latch never disagree: a latched failsafe is
\* still being counted down, an open one has not been counted up to the end.
\* A latch left at a zero counter could never be cleared again.
LatchIsCounted ==
    /\ failsafe.rc_failsafe => failsafe.throttle_counter > 0
    /\ ~failsafe.rc_failsafe => failsafe.throttle_counter < FsLatch

\* With THR_FAILSAFE not Enabled, or before the first frame, nothing latches
\* and no failsafe level is ever raised.
DetectorOffIsSilent ==
    (aparm.throttle_fs # "Enabled" \/ ~rc.seen) =>
        /\ failsafe.throttle_counter = 0
        /\ ~failsafe.rc_failsafe
        /\ failsafe.state = "None"

\* Once both checks of a tick have run, the level is the one the latch and
\* the age of the last valid frame call for: no level outlives the latch, a
\* latch is not left unanswered, and an overdue link is always at Long.
Checked == pc \notin {"short_failsafe", "long_failsafe"}
LevelFollowsLatch ==
    Checked =>
        IF failsafe.rc_failsafe
        THEN /\ failsafe.state = "None" => aparm.fs_short = "Disabled"
             /\ failsafe.age > LongTimeout => failsafe.state = "Long"
        ELSE failsafe.state = "None"

\* How the two checks establish it, one after the other: the short check
\* leaves no Short level without a latch and no latch unanswered.
LevelInv ==
    /\ pc # "short_failsafe" =>
          IF failsafe.rc_failsafe
          THEN failsafe.state = "None" => aparm.fs_short = "Disabled"
          ELSE failsafe.state # "Short"
    /\ LevelFollowsLatch

\* A long failsafe is postponed only while the take-off that postponed it is
\* in control and still climbing out, and the failsafe is still raised: a
\* postponed failsafe neither outlives its reason nor is forgotten.
PendingOnlyInClimbOut ==
    long_failsafe_pending =>
        control_mode = "TAKEOFF" /\ ~nav.climbed /\ failsafe.state = "Long"

\* The failsafe owns only modes one of its configured actions selects.
OwnedModeIsConfigured ==
    mode_set_by_failsafe =>
        \/ control_mode \in {"RTL", "FBWA"}
        \/ control_mode = "FBWB" /\ aparm.fs_short = "Fbwb"
        \/ control_mode = "AUTO" /\ aparm.fs_long = "Auto"

\* What a short failsafe will restore while it owns the mode: nothing new, or
\* the mode it interrupted.
RestoredModes == {"MANUAL", "FBWA", "FBWB", "CRUISE", "AUTO", "LOITER"}
SavedIsRestorable ==
    failsafe.state = "Short" /\ mode_set_by_failsafe =>
        \/ failsafe_saved_mode = control_mode
        \/ failsafe_saved_mode \in RestoredModes /\ control_mode \in {"RTL", "FBWA", "FBWB"}

\* Recovery gives the aircraft back only from a mode a failsafe chose to a
\* mode a short failsafe interrupts: it never restarts a take-off nor sends
\* the aircraft home.
RestoreOnlyInterrupted ==
    [][failsafe.state = "Short" /\ failsafe'.state = "None" /\ control_mode' # control_mode
         => control_mode' \in RestoredModes /\ control_mode \in {"RTL", "FBWA", "FBWB"}]_vars

\* A level once at Long is left only by recovery, and never back to Short.
LongIsLeftByRecovery ==
    [][failsafe.state = "Long" => \/ failsafe'.state = "Long"
                                  \/ failsafe'.state = "None" /\ ~failsafe.rc_failsafe]_vars

\* The leg of RTL and of LOITER is laid at entry: afterwards only the mode
\* left in the same tick, whose navigate() and update() still run, moves it.
LegMovedOnlyByModeLeft ==
    [][(/\ control_mode \in {"RTL", "LOITER"}
        /\ control_mode' = control_mode
        /\ nav'.next_WP # nav.next_WP)
         => mode \in {"CRUISE", "AUTO", "TAKEOFF"}]_vars

\* Within one landing the stage only moves forward: it falls back only with a
\* change of mode or of mission command.
Rank == [Normal |-> 0, Approach |-> 1, Final |-> 2, Rollout |-> 3]
LandingMovesForward ==
    [][control_mode' = control_mode /\ mission' = mission
         => Rank[nav'.landing_stage] >= Rank[nav.landing_stage]]_vars

\* RTL flies to home: what ModeRTL's description promises of it.
RTLTargetsHome == control_mode = "RTL" /\ pc = "read_rc" => nav.next_WP = "home"

\* CRUISE starts with the heading unlocked: what ModeCRUISE's description
\* says its members' initial values provide in place of upstream's _enter().
CruiseStartsUnlocked ==
    [][control_mode # "CRUISE" /\ control_mode' = "CRUISE" => ~cruise'.locked]_vars

\* A link that stays lost reaches the long failsafe.
LostLinkEscalates ==
    <>[](aparm.throttle_fs = "Enabled" /\ rc.seen /\ failsafe.age > LongTimeout)
        => <>[](failsafe.state = "Long")

\* A link that stays good ends every failsafe.
GoodLinkClears == <>[](failsafe.age = 0) => <>[](failsafe.state = "None")

\* The failsafe as its users see it: Failsafe, with the two checks of a tick
\* folded into the reading of the receiver.  The level is the one those checks
\* are about to leave, the duty is the change of mode they are about to make.
LinkSensed == IF ~failsafe.rc_failsafe THEN "Good"
              ELSE IF failsafe.age > LongTimeout THEN "Overdue" ELSE "Lost"
LevelCalled ==
    CASE LinkSensed = "Good"    -> "None"
      [] LinkSensed = "Overdue" -> "Long"
      [] OTHER -> IF failsafe.state = "None" /\ aparm.fs_short # "Disabled"
                  THEN "Short" ELSE failsafe.state
Duty ==
    IF ShortOn \/ LongOn THEN "take"
    ELSE IF ShortOff /\ mode_set_by_failsafe /\ failsafe_saved_mode # control_mode
         THEN "release"
    ELSE IF long_failsafe_pending /\ failsafe.rc_failsafe THEN "postponed" ELSE "none"
FailsafeModes ==
    {"RTL", "FBWA"} \cup {m \in {"FBWB"} : aparm.fs_short = "Fbwb"}
                    \cup {m \in {"AUTO"} : aparm.fs_long = "Auto"}

Promise == INSTANCE Failsafe WITH
    Start <- "MANUAL", Deferring <- {"TAKEOFF"},
    selects <- FailsafeModes, answers_short <- aparm.fs_short # "Disabled",
    link <- LinkSensed, level <- LevelCalled, duty <- Duty,
    mode <- control_mode, owned <- mode_set_by_failsafe,
    saved <- IF ShortOn THEN control_mode ELSE failsafe_saved_mode

\* The failsafe changes the mode once for each level it raises, never against
\* a mode chosen since, and gives back only what it took.
ImplementsFailsafe == Promise!Spec
=============================================================================
