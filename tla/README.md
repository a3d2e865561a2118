# Verification of ardumaster-cpp

TLA+ models of the state machines of ardumaster-cpp, a C++20 port of the
ArduPilot fixed-wing, quadplane and copter code, with TLC runs on small
instances and TLAPS proofs for all values of the constants. The models are
translated from the code under `src/`; `PROJECT.json` says, for each definition,
which lines it stands for.

## 1. The system

Most of the repository is numeric: control laws, estimation, mixing, a simulated
plant. The state machines around that code are what is modelled here. Paths are
relative to `src/modules/` unless they begin with `src/`.

| part | state it keeps | operations | interacts with | what is hard |
|---|---|---|---|---|
| `ap-vehicle` (`plane.hpp`, `mode.hpp`) | failsafe detector and level, flight mode and its owner, saved mode, mission index, navigation leg, landing stage, CRUISE lock, armed | `tick()`: read RC, throttle failsafe, short and long checks, mode switch, aux functions, `navigate()`, `update()`; `set_mode`, `arm`, `disarm` | reads `ap-rc-channel`; its tunables live in `ap-param`; driven by the bridge | one tick changes the mode up to five times, for different reasons, while the `Mode&` bound at its start is the one whose `navigate()` and `update()` run; recovery long after the cause |
| `ap-rc-channel` | per switch: established and debounced position, time of the last edge, whether it was read | `read_input`, `read_mode_switch`, `read_aux_all`, `reset_mode_switch` | called by `tick()`; reports to `Plane::dispatch_aux_function`, which may reset the mode switch in turn | debounce under lost frames, invalid pulses and resets in the middle of a reading |
| `ap-param` | a log of (header, value) entries ended by a sentinel, in four separate storage areas | `scan`, `load_raw`, `save_raw`, default-skip, table load and save | `load_aparm_parameters`, `save_aparm_parameters` of the vehicle | power loss between raw writes, entries across an area boundary, full storage |
| WOPR bridge (`src/sitl/wopr_bridge.cpp`) | one vehicle, VTOL pilot, the noted Land item, the upload session and its cache | `init`, `step` (one `tick`), `set_mode`, `set_mission`, `arm`; `handle_frame` of the ground station | host and ground station both load the mission, over UDP | commands at any moment; refused requests half applied; lost, abandoned and restarted uploads |
| `ap-quadplane-transition`, `ap-vtol-assist` | transition state, its two stamps, the hysteresis of each error | `update_forward_timing`, `apply_transition_fail`, `should_assist` | called by `QuadPlane::update()` | stamps with 0 as "not running" that outlive what they were set for; assistance that returns while the timer runs |
| `ap-quadplane` | position-control state and its age, land detector, motor test | `vtol_position_controller`, `verify_vtol_land`, `do_vtol_land_mission`, `abort_landing` | the mission calls it between loops | one detector shared by two states; aborts; a payload floor tested in the call that may complete |
| `ap-motors` (`motors_matrix.hpp`), the takeoff check of `ap-copter` | spool state, ramps, delays, the block | `output_logic`, `takeoff_check`, `set_desired_spool_state` | the vehicle arms, asks and lifts the block between two loops | ramps reversed half-way; a flag of the last spin-up |
| `ap-scheduler` | last run of each task, tick counter | `tick`, `run` | task tables; by its own header not used by `Plane::tick()` | 16-bit wrap, starvation under a time budget |
| `ap-logger` | log slots, last log, erase in progress, page buffer | write, rotate, `EraseAll`, `erase_next` | file or flash | stepwise erase against new logs; armed gate |
| `ap-gcs` | none: codecs and a dispatch that returns what a message says | parse, pack | the bridge | its handshake is the bridge's |
| `ap-qrtl`, `ap-q-loiter`, `ap-q-modes`, `ap-qautotune` | few members of their own | mode runs | the position controller | - |
| rest of `ap-copter` | armed, mode, land flags, failsafe | per-rate loops over injected inputs | harness | order of the loops |
| `ap-ekf` | ring buffers of samples, the filter | `push`, `recall`, fusion | sensors at different rates | late and out-of-order samples |
| `ap-hal`, `ap-ahrs`, `ap-gps`, `ap-baro`, `ap-compass`, `ap-airspeed` | semaphores, watchdog, health times | - | - | timeouts |
| `ap-math`, `ap-common`, `ap-filter`, `ap-pid`, `ap-control`, `ap-fw-control`, `ap-tecs`, `ap-nav`, `ap-wpnav`, `ap-poscontrol`, `ap-steer-control`, `ap-srv-channel`, `ap-tailsitter`, `ap-tiltrotor`, `ap-internal-error`, `fwcpp-result`, `ap-sim`, `ap-hal-sitl` | floating-point state | - | - | numeric, not for a finite model |

What makes each part correct:

* **vehicle**: the failsafe level is always the one the link calls for; a failsafe
  is neither lost nor outlives its cause; recovery never undoes a choice of the
  pilot; a landing does not go backwards; a mode flies the leg it laid.
* **switches**: only a position held for the debounce time is reported; arming
  takes a gesture; releasing a switch leaves no mode of it behind, unless a failsafe
  gives back a mode it interrupted although its switch was released meanwhile.
* **parameters**: what was saved is loaded; a power loss costs at most the entry
  being written; the log never loses its end.
* **transition**: the lift motors are given up only after the whole transition time
  without a request for assistance; a failure is reported only after its timeout;
  in steady flight the transition ends.
* **VTOL landing**: motors stop only on a touchdown that lasted; an abort climbs back
  to where this descent began; a payload is not put down below its floor.
* **motors**: no thrust on rotors that are not spun up or not checked; no jump of
  thrust; every ramp ends.
* **bridge**: one mission is flown, downloaded and landed on; an upload is whole, and
  answered.

## 2. Modules

| module | models | 
|---|---|
| `Failsafe` | what the RC failsafe promises about the mode, without the tick that carries it out |
| `PlaneControl` | `tick()` and the commands of the bridge, which implement `Failsafe` |
| `PlaneControl_proofs`, `PlaneStreak_proofs` | theorems about `PlaneControl`, and about its debounce |
| `MCPlaneFailsafe`, `MCPlaneNav` | instances for TLC, one for the failsafe, one for the leg |
| `RcSwitch`, `MCRcSwitch` | the debounced switches, among the other things that change the mode |
| `ParamMap` | what the parameter store promises: a map that survives restarts |
| `ParamStore`, `MCParamStore` | the log of entries, which implements `ParamMap` |
| `VtolTransition`, `MCVtolTransition` | the forward transition with the assistance that drives it |
| `VtolLanding`, `MCVtolLanding` | a VTOL landing in AUTO, from its approach to the ground |
| `MotorsSpool`, `MCMotorsSpool` | the spool states of the motors and the takeoff check |
| `WoprBridge`, `MCWoprBridge` | the bridge between the host, the ground station and the vehicle |
| `RcSwitch_proofs`, `ParamStore_proofs`, `VtolTransition_proofs`, `VtolLanding_proofs`, `MotorsSpool_proofs`, `WoprBridge_proofs` | theorems about each |

### PlaneControl

`pc` names the step of `tick()` that runs next; each step is one action, in the
order of the function: `ReceiveFrame`/`NoFrame` (bind the mode, read RC,
`update_throttle_failsafe`), `check_short_rc_failsafe`, `check_long_failsafe`,
`ModeSwitch`, `ReadAux` (once per report of an aux switch) and `AuxDone`,
`Navigate`, `Update`. `mode` is the `Mode&` of `mode.hpp:851`: it keeps the mode
of the tick's start, while `control_mode` follows every `set_mode()`. Between two
ticks the bridge may set the mode, arm, disarm and load a mission
(`GcsSetMode`, `GcsArm`, `GcsSetMission`).

* `failsafe` is `Plane::failsafe` with `age`, the ticks since the last valid
  frame, in place of `last_valid_rc_ms`. Ages above `LongTimeout` are equal to
  every test the code makes and are merged (`AgeCap`).
* `SetMode` is the whole of `Plane::set_mode`: the early return for the current
  mode, the owner (`mode_set_by_failsafe`), the cleared postponement, the new
  mode's `enter()` on the leg, the landing stage. No `enter()` of the repository
  fails, so the roll-back is left out.
* `nav.next_WP` abstracts `next_WP_loc` to who laid it: the position at the
  time (`here`), home, the CRUISE projection, the take-off leg, a mission item.
  Positions, speeds and attitudes are not kept: each test on them (a waypoint
  passed, a height reached, ground speed there) may come out either way.
* Assumed: RC channels are calibrated so that the throttle test and the stick
  test are each a Boolean of a frame; tunables do not change in flight; `home`
  is set; the optional landing roll-out stage is enabled.

`Failsafe` knows no tick: a link that is good, lost or overdue, a level, and what the
failsafe still has to do about the mode (`duty`). Each level raised gives it one duty,
to take the mode over (twice when Short and Long are raised together); a Short level that
ends while the failsafe still owns the mode, the duty to give it back. Without a duty the failsafe
never touches the mode. `PlaneControl!ImplementsFailsafe` is the refinement: `Duty` says
what the checks of the tick will still do, from the conditions that guard them.

`RcSwitch` takes over where `ModeSwitch` and `ReadAux` are nondeterministic: it
says which reports the switches can make and when. Where it is nondeterministic,
about the failsafe and the mode flown, `PlaneControl` says what happens.

### RcSwitch

Each action is one step of `tick()`: a frame (or none), the failsafe checks, the mode
switch, one aux channel after the other, the end of the pass, the mode's own
`navigate()` and `update()`. Pulse widths are abstracted to
the position they decode to, or `Invalid` outside the limits. `switch_state` is
the code's structure with `edge` as an age. `dispatch_aux_function` includes the
whole chain a report starts, down to `reset_mode_switch()`, which reads the mode
switch again from the same frame.

The mode is not the switches' alone. `check_failsafe` is the two checks of
`mode.hpp:869-883`: they may take the mode over or give it back (`FailsafeModes`) in
any tick once a frame was seen. `FlyMode` is the rest of the tick, in which AUTO may
end in RTL or TAKEOFF take up a postponed failsafe, and what the ground station asks
for before the next tick (`ChosenModes`). Both allow more than the code does, which
asks for a latched link, an owner or a finished mission first: what holds here holds
whatever those conditions are. Two behaviours of the code are among them and bound what can
be said of the switches: a short failsafe gives back LOITER although its aux switch
was released while RTL was flown (`plane.hpp:7927-7935`), and after a long one the
vehicle stays where the failsafe took it, the mode switch not being reported again
(`plane.hpp:8087-8095`). The history `elsewhere` of `MCRcSwitch` marks
them: it is set when other than a switch changes the mode and cleared when a switch next
asks for one.

### ParamStore

Storage is a sequence of two-byte words; headers are two words. `SaveRow` decides
what a row of `save_aparm_parameters()` writes (skip, overwrite in place, append,
fail) and leaves it in `todo`; each `RawWrite` is one write to one area, so that
`Reboot` may strike between any two. `Walk` is the loop of `scan`, a recursive
function of the words, so that it can be proved about. `ParamMap` knows nothing of logs: a parameter
becomes visible whole, stays, and is only changed by its own save; overwriting
in place may be torn. `ImplementsMap` is the refinement, with `stored` the
values `load_raw()` finds.

### VtolTransition

One action, `update`, is a tick of `QuadPlane::update()`: the reset of the failure
timer of a disarmed vehicle, the forward timing, the failure and its fallback, in
this order, and `should_assist` before them. `slt` is `SltTransition`, `hysteresis`
the two delays of each watched error. A motor test suspends the machine;
`start_motor_test` and `stop_motor_test` come between two ticks. As in the code the
machine also runs in a VTOL mode while a transition is under way.

Stamps are ages, as in the next module: `Off` where the code has 0, otherwise the
time since, up to the first value that decides every comparison. That is exact
while the clock is neither 0 nor wraps. Airspeeds, errors and tilts are the answers
of the comparisons made with them, but `should_assist` keeps the gates, the order of
the triggers and the reset of the hysteresis where a trigger is not watched. `calm`
and `since` are histories: when assistance was last asked for, and when the vehicle
was last disarmed or its transition complete.

### VtolLanding

A loop calls `vtol_position_controller` and now and then `verify_vtol_land` after it
(`turn`); the mission, another caller of the approach, a mode change and the pilot's
abort come in between. `pc` is the position-control state with its age, `land` the
land detector (two stamps, a height) with the heights of the descent. `Controlled`
gives the states one call of the controller may move to: POSITION1 needs no hover,
AIRBRAKE is left at once in several ways. `verify_vtol_land` is one action made of
the calls of the code in their order: `Descended`, `Finalled`, the abort, `TooLow`,
`check_land_complete`. `set_state` keeps what the code keeps: the stamps of the
detector are cleared on entering the final descent only. Heights are integers, in
the rangefinder and the estimator apart, so that either may jump.

### MotorsSpool

`output_logic` is one loop: the timer of the safety rule, the state, the ramps, the
delays, and the block it asks the vehicle to raise (`block`, `takeoff_check`). Ratios
are integers out of `Full`. Thrust boost is left out: nothing but a test sets it.
`checked` is the history of the block since the last shut-down. Arming, disarming
and the desired state change between any two loops.

### WoprBridge

The bridge is one process: each request of the host (`init`, `set_mode`,
`set_mission`, `disarm`, `step`) and each datagram of the ground station
(`handle_frame`) is one action. `vehicle` is what those two move of the `Plane`: its
mode, mission and index. `Ticked` is what one tick of `PlaneControl` makes of them: a
failsafe or its end, AUTO on its way through the mission. `noted` is
`vtol_land_index_` with its coordinates, `link` the upload session and the cache that
downloads are answered from. `up` and `down` are the two directions of the UDP
socket, lossy and in order, since both ends are on one host.

The ground station is external: it sends a count, answers each request, and starts
again when nothing is on the way; it may leave an upload for another. Arming reaches
only `PlaneControl`. A waypoint in the first row of an upload is the home
position and not flown (`Flyable`).

## 3. Runs

| run | module, cfg | expects | distinct states |
|---|---|---|---|
| `plane_failsafe` | `MCPlaneFailsafe` | pass | 5.4 million |
| `plane_nav` | `MCPlaneNav` | pass | 0.4 million |
| `plane_rtl_home` | `MCPlaneNav`, `MCPlaneRTLHome.cfg` | violation of `RTLTargetsHome` | - |
| `plane_cruise_lock` | `MCPlaneNav`, `MCPlaneCruise.cfg` | violation of `CruiseStartsUnlocked` | - |
| `param_store` | `MCParamStore` | pass | 0.1 million |
| `param_saved` | `MCParamStore`, `MCParamSaved.cfg` | violation of `SavedIsLoaded` | - |
| `rc_switch` | `MCRcSwitch` | pass | 0.5 million |
| `vtol_transition` | `MCVtolTransition` | pass | 24,730 |
| `vtol_landing` | `MCVtolLanding` | pass | 65,110 |
| `motors_spool` | `MCMotorsSpool` | pass | 6,120 |
| `wopr_bridge` | `MCWoprBridge` | pass | 0.7 million |
| `wopr_land` | `MCWoprBridge`, `MCWoprLand.cfg` | violation of `LandsOnItem` | - |

**plane_failsafe.** All combinations of two settings of the detector, three short
and three long actions; the pilot's switch (RTL, LOITER), an aux switch (TAKEOFF) and the ground
station (AUTO) select modes, and the actions of the failsafe others: seven of the eight are
flown. `ImplementsFailsafe` checks every step of it against `Failsafe`. `FsLatch` is 4 and `FsRecover` 1 (10 and 3 in the
code): enough for the counter to be cut, to climb again from the cut, and to
reach both ends. `RcFsTimeout` is 0 ticks and `LongTimeout` 4, as long as a silent
link takes to latch: the Short level comes before the link is overdue and lasts
a tick or more, or is reached with a live link and a low throttle and never becomes
overdue. `streak` counts bad and good ticks
in a row: `LatchFollowsStreaks` says that seven bad ticks in a row (10 - 3), not
ten, are what the code needs to latch once it has been up before; this is the
debounce's real strength, and the test that says "EXACTLY 10 consecutive"
(`src/tests/vehicle_test.cpp:2991`) starts from a counter of zero.

**plane_nav.** One failsafe setting, missions that land, or take off and fly on;
CRUISE, RTL, AUTO and TAKEOFF. `LegMovedOnlyByModeLeft` confines the effect of the
stale `Mode&` to the rest of the tick that leaves the mode; the run
`plane_rtl_home` shows that within it the leg of RTL is really lost.
`LostLinkEscalates` and `GoodLinkClears` are checked under `FairSpec`.

**param_store.** Three parameters, one of one byte (a word here), two words of
values, three areas whose two boundaries fall inside a header or inside a value
depending on the order of the first saves. The three entries fit,
and no longer do once one has been torn, so that the log also fills up with a
parameter still missing.

**rc_switch.** A two-position mode switch (FBWB, RTL) with an arming switch, with a reset
switch, with a TAKEOFF switch, and with a pair that select RTL and LOITER; arming and
TAKEOFF switches have three positions, the others two (`AuxPositions`); debounce of one
tick. The failsafe takes over with, or gives back, RTL and LOITER; AUTO's end and the ground
station choose RTL. `held` and `away` record what the channels were really read
as, `elsewhere` whether the mode was changed by other than a switch since one asked for a
mode. `AuxModeIsHeld` and `ModeSwitchPrevails` speak of the modes that the switches
chose: without `elsewhere` both are false of the code, for the two reasons given in
section 2. `ModeSwitchPrevails` asks that the switches come to
rest, each in one position: one that goes on between LOW and MIDDLE at every reading never
settles, is never reported released, and its mode stays.

**vtol_transition.** Delays of one and two units and ticks one or two units apart: a
delay is met exactly and overshot, and two ticks may pass within it. One watched
error is enough, each having a hysteresis of its own; the forced request, the speed and the gates
are all there. `FailMeansTimedOut` and `DoneNeedsCalm` compare the stamps with
histories kept apart from them. `Completes` assumes a vehicle that stays in
fixed-wing flight with its airspeed up, and nothing of the pilot before.

**vtol_landing.** Two heights, further apart than any change the detector tolerates,
so that a reading either repeats or jumps; a payload floor between them.
`CompleteTime` and `RelaxTime` are 1 and `FinalTime` 2, so that a stamp carried from
the descent to the final descent would show. `TouchesDown` assumes a vehicle
over its target, steady in height, uncorrected, with its throttle at the lower
limit; its rangefinder may jump for ever.

**motors_spool.** Ramps of four and two loops, delays of two, a limit below and one at
the full throttle. A limit of 0 would hold the spool-down for ever; the callers'
current limiter does not produce it, and `SpoolAssumption` excludes it.
`TakeoffChecked` needs a climb from ground idle that takes more than one loop
(`IdleRatio + UpStep < Full`): in a single loop the flag of the last spin-up would
be taken for this one's.

**wopr_bridge.** The host sends two missions that are accepted and one that is refused
after its Land item was noted; the ground station three that differ in length, one
of them refused for its item, and one that is too long. One datagram may be lost.
`UploadIsWhole` speaks of uploads of which nothing was lost, and cannot be had for
others: with two datagrams lost (`MaxLosses = 2`) a station that has left one upload for another loses
the new count, its answer to a request of the old session carries a row
of the new mission, and the bridge accepts a mission mixed of the two, rows being checked for their
number only. `UploadAnswered` excepts a station that leaves its uploads for ever.

**Fairness.** `PlaneControl!Fairness` is weak fairness of each step of the tick:
the main loop calls `tick()` periodically and the function runs to its end. None
is assumed of the receiver, the pilot or the ground station: the liveness
properties assume of the link only what they state. Weak fairness of `Next` is
all `RcSwitch` needs, since one step at a time is enabled. In `VtolTransition`,
`VtolLanding` and `MotorsSpool` only the loop is fair: it is recognised by the variable
(`odd`, `turn`) that it alone changes, so that no motor test, mode change or arming
is owed by anybody. In `WoprBridge` the sockets are read and the station's timeout
expires; requests of the host and losses have no fairness.

### Findings

1. `RTLTargetsHome`. The failsafe, or a switch, enters RTL in a tick that is bound
   to TAKEOFF; TAKEOFF's `update()` at the end of the tick lays its own leg over
   home, and RTL, whose leg is set at entry only, flies to it.
2. `CruiseStartsUnlocked`. `ModeCRUISE` has no `enter()`; left while locked, it is
   locked on the old course when it is entered again, where the class comment
   says that the members' initial values make up for upstream's `_enter()`.
3. `SavedIsLoaded`. A parameter saved with another value and then set back to its
   default is skipped by the save; the old value is back after the next boot.
4. `LandsOnItem`. `set_mission()` notes the VTOL Land item before the mission is known
   to be accepted, and an upload of the ground station never touches the note: the
   bridge then compares the index of the mission flown with the Land item of another,
   and lands at its coordinates, or not at all. `HostLandIsFlown` says that a
   mission of the host that is in force is landed on as noted.

Every property of a passing run is paired with a mutant: an operator defined next
to the one it stands in for (`SetMode_KeepsPending`, `HasRoom_NoSentinel`, ...)
that a plausible slip in the code would give, and under which TLC finds the
property violated.

## 4. Proofs

`PlaneControl_proofs` proves, for every latch and recovery threshold, timeout,
set of tunables, switch assignment, mission and set of modes that satisfy
`ValuesAssumption` and `TimesAssumption`:

* `TypeCorrect`: `TypeOK`. One lemma per action; a mission of any length.
* `Invariance`: `IInv`, the inductive invariant, from which follow `LatchCounted`,
  `DetectorSilent`, `LevelFollows`, `PendingInClimbOut` and `OwnedConfigured`.
* `LongLeft` and `RestoreInterrupted`: two action properties, from `IInv` and a
  lemma (`LevelMoves`) that says which events lower the level.
* `FailsafeKeepsPromise`: the refinement, `Spec => ImplementsFailsafe`. The first state
  maps to a first state; `ReceiveFrame` and `NoFrame` are `Sense`, the checks `Act`, `Postpone`
  or `GiveBack`, the end of a climb-out `TakeUp`, every other change of the mode `Choose`, and the
  rest stutters. It needs `AnswerInv` besides `IInv`: a Short level is one the settings answer, and only a
  long action that changes the mode is postponed; and `ChecksQuiet`, by which
  nothing is left to do between the checks of two ticks, so that each duty is done within its tick.
* `LegMoved` and `LandingForward`: the leg and the landing stage. Both follow the
  writes of `next_WP` and `stage` through `navigate()` and `update()` of the mode bound
  to the tick, for missions of any length; `LegMoved` shows that nothing but
  that stale binding can move the leg of RTL or LOITER.

`IInv` is `TypeOK` with two halves. `FailsafeInv` is the detector and the level:
`LevelFollowsLatch` speaks of the states after both checks only and is not
inductive; `LevelInv` adds what holds between them (the short check leaves no
Short level without a latch and no latch unanswered). `ModeInv` is the mode and
its owner: `PendingOnlyInClimbOut` carries "the level is Long", without which the
failsafe taken up at the end of a climb-out could raise a level that is not due;
`SavedIsRestorable` carries what was saved from the moment a short failsafe is
raised to the moment it is cleared. `DetectorStep` is the lemma about the debounce
counter: it needs only `0 < FsRecover < FsLatch`.

`LatchCounted` and `DetectorSilent` have no run: the debounce is checked by
`LatchFollowsStreaks`, which says more of it. `PlaneStreak_proofs` proves it for all
thresholds (`LatchStreaks`): `Bounded` keeps the unlatched counter at most `FsRecover`
above the bad ticks of late, and lets a latched one be down to 1 only after a good
tick. That the counter stands still while the detector is off, or before the first
frame, is where `DetectorSilent` is needed.

`VtolTransition_proofs`, for all delays, timeouts and tick lengths: `TypeOKHolds`,
`TimersMatchStateHolds`, `FailMeansTimedOutHolds`, `DoneNeedsCalmHolds`. `IInv` adds
`StampsMatchHistory` (no stamp is older than the history it is compared with) and
`TimersMatchState` (a forced transition is in its timer, a completed one keeps no
stamp), which carry "not running" from tick to tick.

`VtolLanding_proofs`, for all times, heights and limits: `TypeOKHolds`,
`TouchdownIsRealHolds`, `AbortClimbsBackHolds`, `PayloadFloorHolds`. `IInv` is `TypeOK`
with `TimersInv` (in the final descent the stamps of the detector lie within
it: the reason why they need not be cleared anywhere else), `DescentInv` (the height
latched is that of this descent), `AbortClimbsBack` and `PayloadFloor`.

`MotorsSpool_proofs`, for all ramps, delays and limits above 0: `TypeOKHolds`,
`CeilingNeedsSpinHolds`, `TakeoffCheckedHolds`, `NoThrustJumpHolds`. `Sound` ties ceiling
and spin to the state; `CheckInv` follows the block from the spin-up that raised it
to the check that lifts it.

`WoprBridge_proofs`, for all missions, of any length, and any number of losses:
`TypeOKHolds`, `CacheIsFlownHolds`, `HostLandIsFlownHolds`. `IInv` adds `LandNoted`: with the
host's mission in force, what is noted is its last Land item. That `LastLand` is an
index of the sequence rests on `LeastOf`, the least element of a set of naturals, from
the library's well-founded induction. `UploadIsWholeHolds` has an invariant of its own:
`Marked` assigns every datagram on the way to the mission it belongs to, from the
mission of the open session to the one the station uploads last; a count begins
the next one, and what comes behind it is of it, since datagrams keep their order.

`RcSwitch_proofs`, for all debounce times, assignments of functions to channels and
flight modes: `TypeOKHolds`, `AuxModeIsHeldHolds`, `ReportWasHeldHolds`,
`ArmNeedsGestureHolds`; they hold for whatever modes failsafe, mission and ground
station may choose (`FailsafeModes`, `ChosenModes`), in any tick. It is about
`MCRcSwitch`, whose histories `held`, `away` and `elsewhere` the properties speak of.
`Quiet` says that a report is consumed before the next tick, so that no old one is
taken for a switch that asks for a mode. `HeldInv` is the debounce itself: what is being debounced is
the position last read, and its edge is no older than the channel was held; `AwayInv`
says that an arming switch not established at HIGH has been away from it. A reset in
the middle of a reading is why the first must hold of the mode switch between any two
readings, not only at the end of a tick.

`ParamStore_proofs`, for all tables, widths, words and lengths of the areas:
`TypeOKHolds`, `LogEndsInSentinelHolds`, `WrittenIsLoadedHolds`, and the refinement
`ImplementsMapHolds`. `Log` says what the words are: a set of offsets, each
that of an entry which ends where the next begins (`Chain`), the last a
sentinel, and no parameter twice (`Unique`). `Doing` says what the writes in `todo` still
have to do, in one of three ways: overwrite a value, write what follows a new header
and then the header, complete a header that has its first word. `WriteStep` is the lemma
about power loss: any one write leaves a log, changes nothing of another parameter,
and of its own makes a whole value appear or replaces some words. It covers every
boundary of the areas, since a write is split wherever one falls. That the
recursive function `Walk` exists follows from its turns on each shorter rest of
the words (`WalkExists`); what it finds, from the last offset of the chain at which it would be
wrong (`WalkInChain`). Both use the least element of a set of naturals only.
The length of the whole is the recursive function `AreaEnd`; the lemma that it is a number, and no
smaller than the first area (`SizeIsWhole`), again goes by the least area at which it would be wrong.

Each proof module has one lemma per action and rests on the named assumptions of its
module only.

**Progress.** The liveness properties themselves are beyond the prover: they need weak fairness,
that is `ENABLED`, and the conclusion that a number cannot go down for ever inside a behaviour. What can
be proved, and carries them, is the step: a natural number computed from the state that every
step the fairness guarantees lowers, and that no other step raises while the condition of
the liveness property lasts. Each count also bounds the ticks, calls, loops or datagrams needed.

| liveness property | theorem | counts |
|---|---|---|
| `LostLinkEscalates` | `LostLinkProgressHolds` | ticks to the Long level, `LostLeft`: at most `FsLatch + 1` once the link is overdue |
| `GoodLinkClears` | `GoodLinkProgressHolds` | ticks to the end of the failsafe, `GoodLeft`: at most `FsLatch + 1` |
| `ModeSwitchPrevails` | `RestProgressHolds`, `SettledOnSwitchHolds` | readings until each switch is settled, `Left`; only an aux switch that settles, once, sets the flight-mode switch back; then its mode is flown unless `elsewhere` |
| `Completes` | `SettledProgressHolds` (with `SeenRecentlyHolds`) | ticks each error still asks for assistance, `Lingers`, then ticks of the transition, `Remaining` |
| `TouchesDown` | `LandingProgressHolds` (with `DetectorInvHolds`) | calls to the touchdown, `LandRank`; of the two calls of a loop it says which one the landing waits for |
| `SpoolsDown`, `SpoolsUp` | `SpoolDownProgressHolds`, `SpoolUpProgressHolds` | loops to the state asked for, `DownRank`, `UpRank`, or the takeoff check that is waited for |
| `UploadAnswered` | `ExchangeProgressHolds` | datagrams to the answer, `Left`, from the count a timeout sends on |

Two of these rest on invariants of their own. `SeenRecently`: an error that asks for assistance was
seen within twice the delay. `DetectorInv`: the second timer of the land detector runs only when the first has
run for `RelaxTime`. `ExchangeProgress` also says what the answer means: whatever was lost,
or left half uploaded, before the timeout, the mission accepted is the one in the cache (a count of 0 is accepted and clears nothing).
It does not say how datagrams still on the way before the timeout drain; that is in the run only.

Model-checked only: the eight liveness properties as such. Every other property of a passing run is a theorem.

## 5. Not modelled, and the plan

Left out for good: floating-point control and estimation, mixing, the simulated
plant, byte-level framing, generated or vendored code.

Left out of the modelled parts:

* `VtolTransition`: `vtol_update()`, `set_state()`, `restart()` and
  `force_transition_complete()` and `run_slt_update()`, which only tests call. Spin recovery of the assistance is
  numeric. That a transition may complete while hovering in a VTOL mode, with no
  speed held, is in the model; no text of the repository says what should happen,
  so no property speaks of it.
* `VtolLanding`: loiter and guided use of the controller, tailsitters and tiltrotors.
  `do_vtol_land_mission` is given the default view, never hovering, as the code gives
  it. The readings and the pilot's corrections are inputs of
  `verify_vtol_land_mission()` (`quadplane.hpp:300-303`), any of which may come.
* `MotorsSpool`: the mixing, the helicopter, thrust boost. `takeoff_check.hpp:47-48`
  says that motors can only be blocked immediately after arming; a later spin-up
  raises the block as well, but the comment speaks of the vehicle's use, and no
  property is made of it.
* `WoprBridge`: the host's datagrams themselves. "any lost datagram is recovered by the host
  simply re-sending" (`wopr_bridge.cpp:23-24`), but a STEP whose reply was lost is executed
  twice, the sequence number being echoed and not compared. The download, the
  telemetry and the collective law are left out too. A count of 0 is acknowledged as
  accepted and clears nothing; a failsafe may leave the vertical pilot in charge
  while the vehicle's own mode is no longer FBWA: both are in the model, and
  contradicted by no text.
* `ParamStore`: name lookup, groups, conversions and the file image of the storage. The
  default-skip compares values exactly: the tolerance of 0.01% for floating-point values
  (`persistence.hpp:211`) is dropped, and no property depends on it. A save that fails is in
  the model, but its result is discarded (`plane.hpp:3482`), so that nothing can be
  asked of it.
* `PlaneControl`: tunables do not change in flight, so a failsafe disabled while it is
  latched is not covered.
* `RcSwitch`: when the failsafe, a mission or the ground station changes the mode (section 2).

Left out altogether, for now: the scheduler (`Plane::tick()` does not use it), the
logger, the semaphores and watchdog of `ap-hal`, the EKF's ring buffers, the arming
and failsafe decisions of `ap-copter`, most of which are single functions of their
inputs. Most of the lines of the repository are numeric and stay so.

Next, in this order:

1. **LogStore** (`ap-logger`): `LogDirectory`, the erase gate of `FileBackend` and new
   logs during an erase; abstract: a bounded set of logs.
2. **EkfBuffers** (`ap-ekf`): `push` and `recall` against a reference definition on
   sequences, samples late and out of order.
3. **TaskScheduler** (`ap-scheduler`): each task at most once per loop in priority
   order, with the 16-bit wrap and the time budget; which tasks may starve.
4. **CopterLoop** (`ap-copter`): arming, land detector and failsafe where the port
   keeps state.
5. The composition of `WoprBridge` with `VtolLanding`: a take-over by `qland` and the
   descent it starts.
