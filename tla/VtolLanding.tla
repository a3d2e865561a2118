---------------------------- MODULE VtolLanding ----------------------------
(***************************************************************************)
(* A VTOL landing of a quadplane: the states of PosControlState from the   *)
(* approach to touchdown, as vtol_position_controller() and                *)
(* verify_vtol_land() move them, with the land detector they share.  One   *)
(* loop of the vehicle runs the position controller, and now and then      *)
(* verify_vtol_land() after it.                                            *)
(*                                                                         *)
(* Stamps are kept as ages, as in VtolTransition.  Distances, speeds and   *)
(* attitudes are the answers of the comparisons made with them; heights    *)
(* are integers.                                                           *)
(***************************************************************************)
EXTENDS Integers

CONSTANTS
    RelaxTime,      \* kShouldRelaxLowerLimitMs
    CompleteTime,   \* kCheckLandCompleteTimeoutMs
    FinalTime,      \* kCheckLandFinalTimeoutMs
    MinAirbrake,    \* kVtolMinAirbrakeMs
    ThrustLoss,     \* kVtolThrustLossMs
    Alts,           \* the heights; the vehicle starts at one, GroundAlt
    GroundAlt,
    AltChange,      \* detect_alt_change_m
    FinalAlt,       \* Q_LAND_FINAL_ALT
    MaxChange,      \* kLandFinalMaxChangeM
    Drop,           \* p1 of a payload place: how far it may descend; 0 any
    Steps           \* the times from one loop to the next

ASSUME LandingAssumption ==
    /\ {RelaxTime, CompleteTime, FinalTime, MinAirbrake, ThrustLoss} \subseteq Nat
    /\ {AltChange, FinalAlt, MaxChange, Drop} \subseteq Nat
    /\ Alts \subseteq Nat /\ GroundAlt \in Alts
    /\ Steps \subseteq Nat \ {0}

VARIABLES
    pc,         \* poscontrol_
    land,       \* poscontrol_land_
    alt,        \* the height verify_vtol_land() was last given
    payload,    \* whether the mission item is a payload place
    turn,       \* which call of the loop comes next
    told,       \* what the last verify_vtol_land() returned
    coop,       \* whether the last call was given what a landing needs
    rest,       \* history: how long the throttle was at its lower limit
    still,      \* history: how long nothing else spoke against a touchdown
    began       \* history: the height at which this landing's descent began

vars == <<pc, land, alt, payload, turn, told, coop, rest, still, began>>

Off == -1
Lesser(a, b) == IF a <= b THEN a ELSE b
Distance(a, b) == IF a <= b THEN b - a ELSE a - b
Aged(age, limit, dt) == IF age = Off THEN Off ELSE Lesser(age + dt, limit)

\* The first ages at which every comparison has been decided.
LongStart == IF CompleteTime <= FinalTime THEN FinalTime ELSE CompleteTime
LongLower == LongStart + RelaxTime + 1

-----------------------------------------------------------------------------
(* set_state().  The caller's sink carries nothing over from other calls:  *)
(* the persistent ones never see a descent or a final state.               *)

set_state(p, to) ==
    [p EXCEPT !.state = to, !.changed = 0, !.done = @ /\ p.state = to]

\* Mutant of set_land: a final descent inherits the timers of the descent.
set_land_KeepsTimers(l, p, to, height) ==
    IF to = "land_descend" /\ p.state # to THEN [l EXCEPT !.descend = height] ELSE l

set_land(l, p, to, height) ==
    CASE p.state # to /\ to = "land_descend" -> [l EXCEPT !.descend = height]
      [] p.state # to /\ to = "land_final"   -> [l EXCEPT !.start = Off, !.lower = Off]
      [] OTHER -> l

\* where: Q_OPTIONS or the distance skip the approach ("direct"), or the
\* vehicle is inside its transition threshold or outside of it.
poscontrol_init_approach_prep(p, where, hovers) ==
    LET to == CASE where = "direct" \/ (where = "near" /\ hovers) -> "position1"
                [] where = "near" -> "airbrake"
                [] where = "far"  -> "approach"
        q  == IF where = "direct" THEN set_state(p, to)
              ELSE IF p.state = "approach" THEN p
              ELSE [set_state(p, to) EXCEPT !.loss = Off]
    IN  [q EXCEPT !.done = FALSE]

-----------------------------------------------------------------------------
(* The land detector.  A reading tells whether the throttle is at its      *)
(* lower limit, whether the pilot corrects, and the height.                *)

should_relax(l, at_limit) ==
    IF at_limit THEN [l EXCEPT !.lower = IF @ = Off THEN 0 ELSE @]
    ELSE [l EXCEPT !.lower = Off, !.start = Off]
Relaxed(l) == l.lower > RelaxTime

land_detector(l, r) ==
    LET relaxed == should_relax(l, r.at_limit)
        begun   == IF relaxed.start = Off
                   THEN [relaxed EXCEPT !.start = 0, !.vpos = r.height]
                   ELSE relaxed
    IN  IF ~Relaxed(relaxed) \/ r.correcting THEN [relaxed EXCEPT !.start = Off]
        ELSE IF Distance(r.height, begun.vpos) > AltChange
             THEN [begun EXCEPT !.start = Off]
        ELSE begun

Landed(l, timeout) ==
    l.start # Off /\ l.start >= timeout /\ l.lower >= timeout + RelaxTime

\* Mutant of check_land_final: only the rangefinder decides.
check_land_final_NoDetector(l, agl, r) ==
    [final |-> agl < FinalAlt /\ Distance(agl, l.last_agl) < MaxChange,
     land  |-> [l EXCEPT !.last_agl = agl]]

check_land_final(l, agl, r) ==
    LET near  == agl < FinalAlt /\ Distance(agl, l.last_agl) < MaxChange
        other == land_detector([l EXCEPT !.last_agl = agl], r)
    IN  [final |-> near \/ Landed(other, FinalTime), land |-> IF near THEN l ELSE other]

-----------------------------------------------------------------------------
(* vtol_position_controller(), of a vehicle that neither tilts nor sits on *)
(* its tail.  i.hovers: the lift motors are spooled up; i.brake: one of    *)
(* the six reasons to end the airbrake; i.sinking: full throttle does not  *)
(* hold the height.                                                        *)

ApproachInputs ==
    [nvtol : BOOLEAN, near : BOOLEAN, hovers : BOOLEAN, brake : BOOLEAN,
     sinking : BOOLEAN, slow : BOOLEAN, where : {"direct", "near", "far"}]

approach_airbrake(p, i) ==
    LET a == IF p.state = "approach" /\ i.near
             THEN set_state(p, IF i.hovers THEN "position1" ELSE "airbrake") ELSE p
        b == IF a.state = "airbrake" /\ a.changed > MinAirbrake /\ i.brake
             THEN set_state(a, "position1") ELSE a
        t == [b EXCEPT !.loss = IF i.sinking /\ ~i.hovers
                                THEN IF @ = Off THEN 0 ELSE @
                                ELSE Off]
        c == IF t.loss > ThrustLoss THEN set_state(t, "position1") ELSE t
        d == IF c.state = "approach" /\ i.slow /\ ~i.hovers
             THEN set_state(c, "position1") ELSE c
    IN  IF d.state = "approach"
        THEN poscontrol_init_approach_prep(d, i.where, i.hovers) ELSE d

update_land_positioning(p, stick) ==
    [p EXCEPT !.active = stick, !.done = @ \/ stick]

\* What the controller may make of p, and whether a landing needs it so.
Controlled(p) ==
    CASE p.state = "none" -> {[pc |-> set_state(p, "position1"), coop |-> TRUE]}
      [] p.state \in {"approach", "airbrake"} ->
            {[pc |-> approach_airbrake(IF p.state = "approach" /\ i.nvtol
                                       THEN set_state(p, "position1") ELSE p, i),
              coop |-> i.near /\ i.brake] : i \in ApproachInputs}
      [] p.state = "position1" ->
            {[pc |-> IF arrived THEN [set_state(p, "position2") EXCEPT !.done = FALSE]
                     ELSE p,
              coop |-> arrived] : arrived \in BOOLEAN}
      [] p.state \in {"position2", "land_abort", "land_descend", "land_final"} ->
            {[pc |-> update_land_positioning(p, stick), coop |-> ~stick] : stick \in BOOLEAN}
      [] p.state = "land_complete" -> {[pc |-> p, coop |-> TRUE]}

-----------------------------------------------------------------------------
States == {"none", "approach", "airbrake", "position1", "position2",
           "land_descend", "land_abort", "land_final", "land_complete"}

Init ==
    /\ pc = [state |-> "none", done |-> FALSE, active |-> FALSE,
             changed |-> MinAirbrake + 1, loss |-> Off]
    /\ land = [start |-> Off, lower |-> Off, vpos |-> GroundAlt,
               last_agl |-> GroundAlt, descend |-> GroundAlt]
    /\ alt = GroundAlt
    /\ payload = FALSE
    /\ turn = "control"
    /\ told = "none"
    /\ coop = FALSE
    /\ rest = 0
    /\ still = 0
    /\ began = Off

\* A loop dt after the last, whose throttle is at its lower limit or not.
vtol_position_controller(dt, at_limit, next) ==
    LET p == [pc EXCEPT !.changed = Aged(@, MinAirbrake + 1, dt),
                        !.loss    = Aged(@, ThrustLoss + 1, dt)]
        l == [land EXCEPT !.start = Aged(@, LongStart, dt),
                          !.lower = Aged(@, LongLower, dt)]
        final == p.state = "land_final"
    IN  /\ turn = "control" /\ turn' = next
        /\ \E r \in Controlled(p) : pc' = r.pc /\ coop' = (r.coop /\ at_limit)
        /\ land' = IF final THEN should_relax(l, at_limit) ELSE l
        /\ rest' = IF final /\ at_limit THEN Lesser(rest + dt, CompleteTime + RelaxTime) ELSE 0
        /\ still' = IF final /\ at_limit THEN Lesser(still + dt, CompleteTime) ELSE 0
        /\ told' = "none"
        /\ UNCHANGED <<alt, payload, began>>

\* verify_vtol_land() for a reading r, a height above ground agl that the
\* rangefinder gives, and whether the vehicle is there: slow, and, unless the
\* pilot has moved the landing, above its target.
Descended(agl, height, there) ==
    IF pc.state = "position2" /\ there /\ (pc.done => ~pc.active)
    THEN [pc   |-> [set_state(pc, "land_descend") EXCEPT !.done = FALSE],
          land |-> [set_land(land, pc, "land_descend", height) EXCEPT !.last_agl = agl]]
    ELSE [pc |-> pc, land |-> land]

Finalled(d, agl, r) ==
    LET check == check_land_final(d.land, agl, r)
    IN  IF d.pc.state # "land_descend" THEN d
        ELSE IF check.final
        THEN [pc   |-> set_state(d.pc, "land_final"),
              land |-> set_land(check.land, d.pc, "land_final", r.height)]
        ELSE [pc |-> d.pc, land |-> check.land]

\* Mutant of TooLow: the final descent is no longer watched.
TooLow_OnlyDescending(d, height) ==
    /\ payload /\ d.pc.state = "land_descend"
    /\ Drop > 0 /\ height < d.land.descend - Drop

TooLow(d, height) ==
    /\ payload /\ d.pc.state \in {"land_descend", "land_final"}
    /\ Drop > 0 /\ height < d.land.descend - Drop

check_land_complete(d, r) ==
    LET l == land_detector(d.land, r)
    IN  IF d.pc.state # "land_final" THEN d
        ELSE IF Landed(l, CompleteTime)
        THEN [pc |-> set_state(d.pc, "land_complete"), land |-> l]
        ELSE [pc |-> d.pc, land |-> l]

\* "landed" disarms, or, where the mission continues after it, is done.
verify_vtol_land(agl, r, there) ==
    LET f == Finalled(Descended(agl, r.height, there), agl, r)
        aborted  == f.pc.state = "land_abort" /\ r.height >= f.land.descend
        left     == IF TooLow(f, r.height)
                    THEN [f EXCEPT !.pc = set_state(@, "land_abort")] ELSE f
        after    == IF aborted THEN f ELSE check_land_complete(left, r)
        complete == after.pc.state = "land_complete" /\ pc.state # "land_complete"
    IN  /\ turn = "verify" /\ turn' = "control"
        /\ pc' = after.pc /\ land' = after.land /\ alt' = r.height
        /\ told' = CASE aborted -> "aborted"
                     [] complete /\ payload -> "shutdown"
                     [] complete /\ ~payload -> "landed"
                     [] OTHER -> "none"
        /\ coop' = (r.at_limit /\ ~r.correcting /\ r.height = alt /\ there)
        /\ rest' = IF pc.state = "land_final" /\ r.at_limit THEN rest ELSE 0
        /\ still' = IF /\ pc.state = "land_final" /\ r.at_limit /\ ~r.correcting
                       /\ Distance(r.height, alt) <= 2 * AltChange
                    THEN still ELSE 0
        /\ began' = IF pc.state = "position2" /\ pc'.state # "position2" THEN r.height
                    ELSE began
        /\ UNCHANGED payload

do_vtol_land_mission(item) ==
    /\ payload' = item
    \* The view is the default one: always inside the threshold, never
    \* hovering; the stamp is 0, which is long ago.
    /\ \E where \in {"direct", "near"} :
         LET q == poscontrol_init_approach_prep(pc, where, FALSE)
         IN  pc' = IF pc.state = "approach" /\ where # "direct" THEN q
                   ELSE [q EXCEPT !.changed = MinAirbrake + 1]
    /\ told' = "none" /\ coop' = FALSE /\ began' = Off
    /\ UNCHANGED <<land, alt, turn, rest, still>>

\* The approach of another caller, which gives the view and the clock.
poscontrol_init_approach ==
    /\ \E where \in {"direct", "near", "far"}, hovers \in BOOLEAN :
         pc' = poscontrol_init_approach_prep(pc, where, hovers)
    /\ told' = "none" /\ coop' = FALSE /\ began' = Off
    /\ UNCHANGED <<land, alt, payload, turn, rest, still>>

\* Mutant of mode_enter: the age of the state is cleared as a timer is.
mode_enter_ClearsAge ==
    /\ pc' = [state |-> "none", done |-> FALSE, active |-> FALSE,
              changed |-> Off, loss |-> Off]
    /\ told' = "none" /\ coop' = FALSE /\ began' = Off
    /\ UNCHANGED <<land, alt, payload, turn, rest, still>>

mode_enter ==
    /\ pc' = [state |-> "none", done |-> FALSE, active |-> FALSE,
              changed |-> MinAirbrake + 1, loss |-> Off]
    /\ told' = "none" /\ coop' = FALSE /\ began' = Off
    /\ UNCHANGED <<land, alt, payload, turn, rest, still>>

\* Mutant of abort_landing: any approach may be aborted, not only a descent.
abort_landing_FromApproach ==
    /\ pc.state \notin {"none", "land_abort", "land_complete"}
    /\ pc' = set_state(pc, "land_abort")
    /\ told' = "none" /\ coop' = FALSE
    /\ UNCHANGED <<land, alt, payload, turn, rest, still, began>>

abort_landing ==
    /\ \/ pc.state \in {"land_descend", "land_final"}
       \/ pc.state = "land_complete" /\ payload
    /\ pc' = set_state(pc, "land_abort")
    /\ told' = "none" /\ coop' = FALSE
    /\ UNCHANGED <<land, alt, payload, turn, rest, still, began>>

Control == \E dt \in Steps, at_limit \in BOOLEAN, next \in {"control", "verify"} :
                vtol_position_controller(dt, at_limit, next)
Verify  == \E agl, height \in Alts, at_limit, correcting, there \in BOOLEAN :
                verify_vtol_land(agl, [at_limit |-> at_limit, correcting |-> correcting,
                                       height |-> height], there)

Next == \/ Control
        \/ Verify
        \/ \E item \in BOOLEAN : do_vtol_land_mission(item)
        \/ poscontrol_init_approach
        \/ mode_enter
        \/ abort_landing

\* The loop goes on, and the mission is verified again and again: only the
\* two calls change turn.
OtherTurn == IF turn = "control" THEN "verify" ELSE "control"
Spec == Init /\ [][Next]_vars /\ WF_turn(turn' = OtherTurn)

-----------------------------------------------------------------------------
TypeOK ==
    /\ pc \in [state : States, done : BOOLEAN, active : BOOLEAN,
               changed : 0 .. MinAirbrake + 1, loss : -1 .. ThrustLoss + 1]
    /\ land \in [start : -1 .. LongStart, lower : -1 .. LongLower, vpos : Alts,
                 last_agl : Alts, descend : Alts]
    /\ alt \in Alts
    /\ payload \in BOOLEAN
    /\ turn \in {"control", "verify"}
    /\ told \in {"none", "aborted", "shutdown", "landed"}
    /\ coop \in BOOLEAN
    /\ rest \in 0 .. CompleteTime + RelaxTime
    /\ still \in 0 .. CompleteTime
    /\ began \in Alts \cup {Off}

\* A landing is complete, and the motors may stop, only when in the final
\* descent the throttle has been at its lower limit for CompleteTime and
\* RelaxTime on end, and for CompleteTime the pilot has not corrected and
\* the height has not jumped: whatever stamps earlier descents have left.
TouchdownIsReal ==
    [][pc.state # "land_complete" /\ pc'.state = "land_complete"
         => rest' >= CompleteTime + RelaxTime /\ still' >= CompleteTime]_vars

\* An aborted landing is reported done, and the mission goes on, only at or
\* above the height this landing began its descent at.
AbortClimbsBack == told = "aborted" => began # Off /\ alt >= began

\* A payload is never put down, nor its motors stopped, further below the
\* start of the descent than the mission item allows.
PayloadFloor == told = "shutdown" /\ Drop > 0 => alt >= began - Drop

\* A landing that is given what it needs touches down, whatever the
\* rangefinder reads, or is aborted for good.
TouchesDown == <>[]coop => <>[](pc.state \in {"land_complete", "land_abort"})
=============================================================================
