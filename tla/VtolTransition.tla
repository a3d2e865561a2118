--------------------------- MODULE VtolTransition ---------------------------
(***************************************************************************)
(* The forward transition of a quadplane: SltTransition as                 *)
(* QuadPlane::update() drives it, with the assistance request of           *)
(* should_assist() as its input.                                           *)
(*                                                                         *)
(* The code stamps the clock and compares differences.  The model keeps    *)
(* each stamp as its age: Off where the code keeps 0, and otherwise the    *)
(* time since, up to the first value above the limit it is compared with.  *)
(* That is exact while the clock is neither 0 nor wraps.                   *)
(***************************************************************************)
EXTENDS Integers

CONSTANTS
    TransTime,      \* Q_TRANSITION_MS, constrained
    FailTimeout,    \* Q_TRANS_FAIL; 0 disables the transition failure
    Delay,          \* Q_ASSIST_DELAY
    Errors,         \* the errors assistance watches: of altitude, of angle
    Steps           \* the times from one tick to the next

ASSUME TimingAssumption ==
    /\ TransTime \in Nat \ {0}
    /\ FailTimeout \in Nat
    /\ Delay \in Nat
    /\ Steps \subseteq Nat \ {0}
    /\ Errors \subseteq {"alt", "angle"}

VARIABLES
    slt,            \* slt_transition_
    hysteresis,     \* the ShouldAssistHysteresis
    motor_test,     \* motor_test_.running
    trans_fail,     \* the outcome the last tick returned
    in,             \* what that tick was given that the properties speak of
    odd,            \* whether the number of ticks is odd
    calm,           \* history: the age of the last request for assistance
    since           \* history: the age of the last disarmed tick, or completion

vars == <<slt, hysteresis, motor_test, trans_fail, in, odd, calm, since>>

Off == -1
ClearDelay == 2 * Delay
Lesser(a, b) == IF a <= b THEN a ELSE b
Aged(age, limit, dt) == IF age = Off THEN Off ELSE Lesser(age + dt, limit + 1)
Ages(limit) == 0 .. limit + 1

-----------------------------------------------------------------------------
(* should_assist(): an error asks for assistance once it has lasted for    *)
(* Delay, and goes on asking until it has been gone for ClearDelay.        *)

Reset == [start |-> Off, last |-> Off, active |-> FALSE]

\* Mutant of AssistHysteresis: the clearing side forgets its delay test.
AssistHysteresis_NeverClears(h, trigger) ==
    IF trigger
    THEN LET start == IF h.start = Off THEN 0 ELSE h.start
         IN  [start |-> start, last |-> 0, active |-> h.active \/ start > Delay]
    ELSE IF h.active THEN h ELSE Reset

AssistHysteresis(h, trigger) ==
    IF trigger
    THEN LET start == IF h.start = Off THEN 0 ELSE h.start
         IN  [start |-> start, last |-> 0, active |-> h.active \/ start > Delay]
    ELSE IF h.active /\ h.last # Off /\ h.last <= ClearDelay THEN h ELSE Reset

AgedHysteresis(dt) ==
    [e \in Errors |-> [hysteresis[e] EXCEPT !.start = Aged(@, Delay, dt),
                                            !.last  = Aged(@, ClearDelay, dt)]]

\* What should_assist() is asked with: whether its gates are open, Q_ASSIST
\* forced by the switch or by Q_OPTIONS, Q_ASSIST_SPEED ("off") or how the
\* airspeed compares with it, and the errors beyond their limit.
Requests == [open : BOOLEAN, force : BOOLEAN, speed : {"off", "low", "ok"},
             errors : SUBSET Errors, inverted : BOOLEAN]

Watched(r, e) == r.open /\ r.speed # "off" /\ ~(e = "angle" /\ r.inverted)
HysteresisAfter(r, dt) ==
    [e \in Errors |-> IF Watched(r, e)
                      THEN AssistHysteresis(AgedHysteresis(dt)[e], e \in r.errors)
                      ELSE Reset]

should_assist(r, h) ==
    /\ r.open
    /\ \/ r.force
       \/ r.speed = "low"
       \/ r.speed # "off" /\ \E e \in Errors : h[e].active

-----------------------------------------------------------------------------
(* SltTransition.                                                          *)

in_transition(s) == s.state \in {"airspeed_wait", "timer"}

\* Mutant of mark_transition_done: the start of the transition is kept.
mark_transition_done_KeepsStart(s) ==
    [s EXCEPT !.state = "done", !.forced = FALSE, !.low = Off]

mark_transition_done(s) ==
    [s EXCEPT !.state = "done", !.forced = FALSE, !.start = Off, !.low = Off]

reset_fail_timer_if_disarmed(s, armed) == IF armed THEN s ELSE [s EXCEPT !.start = 0]

\* Mutant of Started: the stamp is the time the transition will fail at.
Started_Deadline(s) == [s EXCEPT !.start = IF @ = Off THEN 0 - FailTimeout ELSE @]

Started(s) == [s EXCEPT !.start = IF @ = Off THEN 0 ELSE @]

\* Mutant of apply_assist_back: assistance does not restart the transition.
apply_assist_back_OnlyWhenDone(s, assist) ==
    IF assist /\ s.state = "done" THEN [Started(s) EXCEPT !.state = "airspeed_wait"] ELSE s

apply_assist_back(s, assist) ==
    IF assist /\ ~s.forced THEN [Started(s) EXCEPT !.state = "airspeed_wait"] ELSE s

update_airspeed_wait(s, above_min, assist) ==
    [Started(s) EXCEPT !.low = 0,
                       !.state = IF above_min /\ ~assist THEN "timer" ELSE @]

update_timer(s, tilt_fwd) ==
    IF s.low > TransTime /\ tilt_fwd THEN mark_transition_done(s) ELSE s

\* QuadPlane::update() leaves rotors_fully_fwd at its default, false.
update_forward_timing(s, above_min, assist, tilt_fwd) ==
    LET back == apply_assist_back(s, assist)
    IN  CASE back.state = "airspeed_wait" -> update_airspeed_wait(back, above_min, assist)
          [] back.state = "timer"         -> update_timer(back, tilt_fwd)
          [] OTHER                        -> back

\* to_fw: TRANS_FAIL_TO_FW is set, on a tilt rotor with ground speed.  The
\* fallback is QLAND, QRTL or a warning, by Q_TRANS_FAIL_ACT.
TimedOut(s) == s.state = "airspeed_wait" /\ FailTimeout > 0 /\ s.start > FailTimeout
apply_transition_fail(s, to_fw) ==
    CASE s.state # "airspeed_wait" -> [slt |-> s, outcome |-> "continue"]
      [] s.state = "airspeed_wait" /\ ~TimedOut(s) ->
            [slt |-> [s EXCEPT !.warned = FALSE], outcome |-> "continue"]
      [] TimedOut(s) /\ to_fw ->
            [slt |-> [s EXCEPT !.warned = TRUE, !.state = "timer", !.forced = TRUE],
             outcome |-> "complete_to_fw"]
      [] OTHER -> [slt |-> [s EXCEPT !.warned = TRUE], outcome |-> "fallback"]

-----------------------------------------------------------------------------
SltStates ==
    [state : {"airspeed_wait", "timer", "done"}, forced : BOOLEAN,
     start : Ages(FailTimeout) \cup {Off}, low : Ages(TransTime) \cup {Off},
     warned : BOOLEAN]
HysteresisStates ==
    [start : Ages(Delay) \cup {Off}, last : Ages(ClearDelay) \cup {Off}, active : BOOLEAN]

Init ==
    /\ slt = [state |-> "airspeed_wait", forced |-> FALSE, start |-> Off, low |-> Off,
              warned |-> FALSE]
    /\ hysteresis = [e \in Errors |-> Reset]
    /\ motor_test = FALSE
    /\ trans_fail = "continue"
    /\ in = [vtol |-> FALSE, armed |-> FALSE, above_min |-> FALSE, tilt_fwd |-> FALSE,
             asked |-> FALSE]
    /\ odd = FALSE
    /\ calm = TransTime + 1
    /\ since = 0

\* The answers should_assist() may give to a tick dt after the last.
Assistance(dt) ==
    {LET h == HysteresisAfter(r, dt)
     IN  [hysteresis |-> h, assist |-> should_assist(r, h), open |-> r.open,
          asked |-> r.open /\ (r.force \/ r.speed = "low" \/ r.errors # {})] : r \in Requests}

\* QuadPlane::update() for a tick dt after the last.  assisted_flight_ is
\* never set, and should_assist() opens its gates only to an armed vehicle.
update(dt, a, vtol, armed, above_min, tilt_fwd, to_fw) ==
    LET aged  == [slt EXCEPT !.start = Aged(@, FailTimeout, dt),
                             !.low   = Aged(@, TransTime, dt)]
        ready == reset_fail_timer_if_disarmed(aged, armed)
        run   == ~motor_test /\ (~vtol \/ in_transition(ready))
        done  == slt'.state = "done" /\ slt.state # "done"
    IN  /\ in' = [vtol |-> vtol, armed |-> armed, above_min |-> above_min,
                  tilt_fwd |-> tilt_fwd, asked |-> a.asked]
        /\ a.open => armed
        /\ hysteresis' = a.hysteresis
        /\ IF run
           THEN LET timed == update_forward_timing(ready, above_min, a.assist, tilt_fwd)
                    after == apply_transition_fail(timed, to_fw)
                IN  slt' = after.slt /\ trans_fail' = after.outcome
           ELSE /\ slt' = IF motor_test THEN aged ELSE ready
                /\ trans_fail' = "continue"
        /\ odd' = ~odd
        /\ calm' = IF run /\ a.assist THEN 0 ELSE Aged(calm, TransTime, dt)
        /\ since' = IF ~motor_test /\ (~armed \/ done) THEN 0
                    ELSE Aged(since, FailTimeout, dt)
        /\ UNCHANGED motor_test

Tick == \E dt \in Steps : \E a \in Assistance(dt) :
            \E vtol, armed, above_min, tilt_fwd, to_fw \in BOOLEAN :
                update(dt, a, vtol, armed, above_min, tilt_fwd, to_fw)

start_motor_test == /\ ~motor_test /\ motor_test' = TRUE
                    /\ UNCHANGED <<slt, hysteresis, trans_fail, in, odd, calm, since>>
stop_motor_test  == /\ motor_test /\ motor_test' = FALSE
                    /\ UNCHANGED <<slt, hysteresis, trans_fail, in, odd, calm, since>>

Next == Tick \/ start_motor_test \/ stop_motor_test

\* The main loop keeps calling update(), whatever it is given: only a tick
\* changes odd, and every tick does.  Nobody owes a motor test.
Spec == Init /\ [][Next]_vars /\ WF_odd(odd' = ~odd)

-----------------------------------------------------------------------------
TypeOK ==
    /\ slt \in SltStates
    /\ hysteresis \in [Errors -> HysteresisStates]
    /\ motor_test \in BOOLEAN
    /\ trans_fail \in {"continue", "complete_to_fw", "fallback"}
    /\ in \in [vtol : BOOLEAN, armed : BOOLEAN, above_min : BOOLEAN, tilt_fwd : BOOLEAN,
               asked : BOOLEAN]
    /\ odd \in BOOLEAN
    /\ calm \in Ages(TransTime)
    /\ since \in Ages(FailTimeout)

\* The stamps and the state go together: a transition is forced only while
\* its timer runs, the timer counts from a real stamp, and a completed
\* transition keeps none.
TimersMatchState ==
    /\ slt.forced => slt.state = "timer"
    /\ slt.state = "timer" => slt.low # Off
    /\ slt.state = "done" => slt.low = Off

\* The pilot is not told that a transition failed, and QLAND or QRTL is not
\* asked for, within FailTimeout of arming or of the last completed
\* transition, whatever stamps older transitions have left.
FailMeansTimedOut ==
    trans_fail # "continue" => FailTimeout > 0 /\ since > FailTimeout

\* What makes the two inductive: no stamp is older than the history it is
\* compared with.
StampsMatchHistory ==
    /\ slt.start # Off => slt.start <= since
    /\ slt.state = "timer" /\ ~slt.forced => slt.low <= calm

\* The lift motors are given up only by a transition that was forced, or
\* after the whole transition time without one request for assistance.
DoneNeedsCalm ==
    [][slt.state # "done" /\ slt'.state = "done"
         => slt.forced \/ calm' > TransTime]_vars

\* In fixed-wing flight with the airspeed up, the rotors forward and no
\* error left, the transition completes and stays complete.
Settled == /\ ~in.vtol /\ in.armed /\ in.above_min /\ in.tilt_fwd /\ ~in.asked
           /\ ~motor_test
Completes == <>[]Settled => <>[](slt.state = "done")
=============================================================================
