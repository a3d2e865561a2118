----------------------- MODULE VtolTransition_proofs -----------------------
(***************************************************************************)
(* Proofs that the safety properties of VtolTransition hold for every      *)
(* choice of the times and of the errors watched.                          *)
(***************************************************************************)
EXTENDS VtolTransition, TLAPS

-----------------------------------------------------------------------------
(* Ages.                                                                   *)

\* An age stays in its range, and only Off stays Off.
LEMMA AgedInRange ==
    ASSUME NEW limit \in Nat, NEW age \in Ages(limit) \cup {Off}, NEW dt \in Nat \ {0}
    PROVE  /\ Aged(age, limit, dt) \in Ages(limit) \cup {Off}
           /\ age = Off <=> Aged(age, limit, dt) = Off
           /\ age # Off => Aged(age, limit, dt) \in Ages(limit)
  BY DEF Aged, Ages, Off, Lesser

\* Time passes for all ages alike.
LEMMA AgedIsMonotone ==
    ASSUME NEW limit \in Nat, NEW a \in Ages(limit), NEW b \in Ages(limit),
           NEW dt \in Nat \ {0}, a <= b
    PROVE  Aged(a, limit, dt) <= Aged(b, limit, dt)
  BY DEF Aged, Ages, Off, Lesser

-----------------------------------------------------------------------------
(* The hysteresis keeps its type.                                          *)

LEMMA HysteresisInRange ==
    ASSUME NEW h \in HysteresisStates, NEW trigger \in BOOLEAN
    PROVE  AssistHysteresis(h, trigger) \in HysteresisStates
  BY TimingAssumption
  DEF AssistHysteresis, HysteresisStates, Reset, Ages, Off, ClearDelay

LEMMA AgedHysteresisInRange ==
    ASSUME TypeOK, NEW dt \in Steps
    PROVE  AgedHysteresis(dt) \in [Errors -> HysteresisStates]
<1> SUFFICES ASSUME NEW e \in Errors
             PROVE  [hysteresis[e] EXCEPT !.start = Aged(@, Delay, dt),
                                          !.last  = Aged(@, ClearDelay, dt)]
                       \in HysteresisStates
  BY DEF AgedHysteresis
<1>1. hysteresis[e] \in HysteresisStates
  BY DEF TypeOK
<1>2. dt \in Nat \ {0} /\ Delay \in Nat /\ ClearDelay \in Nat
  BY TimingAssumption DEF ClearDelay
<1>3. /\ Aged(hysteresis[e].start, Delay, dt) \in Ages(Delay) \cup {Off}
      /\ Aged(hysteresis[e].last, ClearDelay, dt) \in Ages(ClearDelay) \cup {Off}
  BY <1>1, <1>2, AgedInRange DEF HysteresisStates
<1> QED
  BY <1>1, <1>3 DEF HysteresisStates

LEMMA AssistanceInRange ==
    ASSUME TypeOK, NEW dt \in Steps, NEW a \in Assistance(dt)
    PROVE  /\ a.hysteresis \in [Errors -> HysteresisStates]
           /\ a.assist \in BOOLEAN
           /\ a.asked \in BOOLEAN
<1>1. PICK r \in Requests :
          a = [hysteresis |-> HysteresisAfter(r, dt),
               assist |-> should_assist(r, HysteresisAfter(r, dt)), open |-> r.open,
               asked |-> r.open /\ (r.force \/ r.speed = "low" \/ r.errors # {})]
  BY DEF Assistance
<1>2. HysteresisAfter(r, dt) \in [Errors -> HysteresisStates]
  <2> SUFFICES ASSUME NEW e \in Errors
               PROVE  (IF Watched(r, e)
                       THEN AssistHysteresis(AgedHysteresis(dt)[e], e \in r.errors)
                       ELSE Reset) \in HysteresisStates
    BY DEF HysteresisAfter
  <2>1. AgedHysteresis(dt)[e] \in HysteresisStates
    BY AgedHysteresisInRange
  <2>2. AssistHysteresis(AgedHysteresis(dt)[e], e \in r.errors) \in HysteresisStates
    <3>1. (e \in r.errors) \in BOOLEAN
      OBVIOUS
    <3> QED BY <2>1, <3>1, HysteresisInRange
  <2>3. Reset \in HysteresisStates
    BY DEF Reset, HysteresisStates
  <2> QED BY <2>2, <2>3
<1>3. /\ should_assist(r, HysteresisAfter(r, dt)) \in BOOLEAN
      /\ (r.open /\ (r.force \/ r.speed = "low" \/ r.errors # {})) \in BOOLEAN
  BY DEF should_assist
<1> QED
  BY <1>1, <1>2, <1>3

-----------------------------------------------------------------------------
(* What one update() does to the transition.                               *)

\* The stamps and the state of s go together.
Matched(s) ==
    /\ s.forced => s.state = "timer"
    /\ s.state = "timer" => s.low # Off
    /\ s.state = "done" => s.low = Off

\* Where each result t of the timing stage comes from.
Timed(s, t, assist) ==
    /\ t \in SltStates
    /\ Matched(t)
    /\ t.start \in {Off, 0, s.start}
    /\ t.state = "timer" /\ ~t.forced =>
           \/ t.low = 0
           \/ ~assist /\ s.state = "timer" /\ ~s.forced /\ t.low = s.low
    /\ t.state = "done" /\ s.state # "done" =>
           s.state = "timer" /\ s.low > TransTime /\ (s.forced \/ ~assist)
    /\ t.state = "done" /\ s.state # "done" => t.start = Off
    /\ t.state = "airspeed_wait" => t.low = 0

LEMMA TimingStage ==
    ASSUME NEW s \in SltStates, Matched(s),
           NEW above_min \in BOOLEAN, NEW assist \in BOOLEAN, NEW tilt_fwd \in BOOLEAN
    PROVE  Timed(s, update_forward_timing(s, above_min, assist, tilt_fwd), assist)
<1> DEFINE t == update_forward_timing(s, above_min, assist, tilt_fwd)
<1> USE DEF Timed
<1> DEFINE back == apply_assist_back(s, assist)
<1> USE DEF Matched
<1>0. 0 \in Ages(FailTimeout) /\ 0 \in Ages(TransTime)
  BY TimingAssumption DEF Ages
<1>1. /\ back \in SltStates
      /\ back.start \in {0, s.start}
      /\ assist /\ ~s.forced => back.state = "airspeed_wait" /\ ~back.forced
      /\ ~(assist /\ ~s.forced) => back = s
  BY <1>0 DEF apply_assist_back, Started, SltStates
<1>2. CASE back.state = "airspeed_wait"
  <2>1. t = update_airspeed_wait(back, above_min, assist)
    BY <1>2 DEF update_forward_timing
  <2>2. ~back.forced
    BY <1>1, <1>2
  <2>3. /\ t \in SltStates /\ t.low = 0 /\ t.start \in {0, back.start}
        /\ t.state \in {"airspeed_wait", "timer"} /\ t.forced = back.forced
    BY <1>0, <1>1, <1>2, <2>1 DEF update_airspeed_wait, Started, SltStates
  <2> QED
    BY <1>1, <2>2, <2>3 DEF Off
<1>3. CASE back.state = "timer"
  <2>1. back = s /\ (s.forced \/ ~assist)
    BY <1>1, <1>3 DEF SltStates
  <2>2. t = IF s.low > TransTime /\ tilt_fwd THEN mark_transition_done(s) ELSE s
    BY <1>3, <2>1 DEF update_forward_timing, update_timer
  <2>3. CASE s.low > TransTime /\ tilt_fwd
    <3>1. /\ t \in SltStates /\ t.low = Off /\ t.start = Off
          /\ t.state = "done" /\ t.forced = FALSE
      BY <2>2, <2>3 DEF mark_transition_done, SltStates
    <3> QED BY <1>3, <2>1, <2>3, <3>1
  <2>4. CASE ~(s.low > TransTime /\ tilt_fwd)
    <3>1. t = s
      BY <2>2, <2>4
    <3> QED BY <1>3, <2>1, <3>1 DEF SltStates
  <2> QED BY <2>3, <2>4
<1>4. CASE back.state = "done"
  <2>1. t = back
    BY <1>4 DEF update_forward_timing
  <2>2. back = s
    BY <1>1, <1>4
  <2> QED BY <1>4, <2>1, <2>2
<1> QED BY <1>1, <1>2, <1>3, <1>4 DEF SltStates

\* The failure stage: it only ever times out a transition that waits.
LEMMA FailStage ==
    ASSUME NEW t \in SltStates, Matched(t), t.state = "airspeed_wait" => t.low = 0,
           NEW to_fw \in BOOLEAN,
           NEW a, a = apply_transition_fail(t, to_fw)
    PROVE  /\ a.slt \in SltStates
           /\ a.outcome \in {"continue", "complete_to_fw", "fallback"}
           /\ Matched(a.slt)
           /\ a.slt.start = t.start
           /\ a.slt.state = "timer" /\ ~a.slt.forced => t.state = "timer" /\ ~t.forced
           /\ a.slt.low = t.low
           /\ a.slt.state = "done" <=> t.state = "done"
           /\ a.outcome # "continue" =>
                  /\ t.state = "airspeed_wait" /\ a.slt.state # "done"
                  /\ FailTimeout > 0 /\ t.start > FailTimeout
<1>1. CASE t.state # "airspeed_wait"
  <2>1. a = [slt |-> t, outcome |-> "continue"]
    BY <1>1 DEF apply_transition_fail, TimedOut
  <2> QED BY <2>1
<1>2. CASE t.state = "airspeed_wait" /\ ~TimedOut(t)
  <2> DEFINE e == [t EXCEPT !.warned = FALSE]
  <2>1. e \in SltStates /\ e.start = t.start /\ e.low = t.low /\ e.state = t.state
        /\ e.forced = t.forced
    BY DEF SltStates
  <2>2. a.slt = e /\ a.outcome = "continue"
    BY <1>2 DEF apply_transition_fail
  <2> HIDE DEF e
  <2> QED BY <1>2, <2>1, <2>2 DEF Matched
<1>3. CASE TimedOut(t) /\ to_fw
  <2> DEFINE e == [t EXCEPT !.warned = TRUE, !.state = "timer", !.forced = TRUE]
  <2>1. e \in SltStates /\ e.start = t.start /\ e.low = t.low /\ e.state = "timer"
        /\ e.forced
    BY DEF SltStates
  <2>2. a.slt = e /\ a.outcome = "complete_to_fw"
    BY <1>3 DEF apply_transition_fail, TimedOut
  <2>3. t.low = 0 /\ t.state = "airspeed_wait" /\ FailTimeout > 0 /\ t.start > FailTimeout
    BY <1>3 DEF TimedOut
  <2>4. Matched(e)
    BY <2>1, <2>3 DEF Matched, Off
  <2> HIDE DEF e
  <2> QED BY <2>1, <2>2, <2>3, <2>4
<1>4. CASE TimedOut(t) /\ ~to_fw
  <2> DEFINE e == [t EXCEPT !.warned = TRUE]
  <2>1. e \in SltStates /\ e.start = t.start /\ e.low = t.low /\ e.state = t.state
        /\ e.forced = t.forced
    BY DEF SltStates
  <2>2. a.slt = e /\ a.outcome = "fallback"
    BY <1>4 DEF apply_transition_fail, TimedOut
  <2> HIDE DEF e
  <2> QED BY <1>4, <2>1, <2>2 DEF Matched, TimedOut
<1> QED BY <1>1, <1>2, <1>3, <1>4

-----------------------------------------------------------------------------
(* The invariant.                                                          *)

\* What every state satisfies: the properties and what they rest on.
IInv == TypeOK /\ TimersMatchState /\ FailMeansTimedOut /\ StampsMatchHistory

LEMMA InitIInv == Init => IInv
<1> SUFFICES ASSUME Init PROVE IInv
  OBVIOUS
<1>1. /\ slt \in SltStates
      /\ calm \in Ages(TransTime) /\ since \in Ages(FailTimeout)
  BY TimingAssumption DEF Init, SltStates, Ages
<1>2. Reset \in HysteresisStates
  BY DEF Reset, HysteresisStates
<1>3. TypeOK
  BY <1>1, <1>2 DEF Init, TypeOK
<1> QED
  BY <1>3 DEF Init, IInv, TimersMatchState, FailMeansTimedOut, StampsMatchHistory

\* One tick, with what it does to the transition named.
LEMMA UpdateIInv ==
    ASSUME IInv,
           NEW dt \in Steps, NEW a \in Assistance(dt),
           NEW vtol \in BOOLEAN, NEW armed \in BOOLEAN, NEW above_min \in BOOLEAN,
           NEW tilt_fwd \in BOOLEAN, NEW to_fw \in BOOLEAN,
           update(dt, a, vtol, armed, above_min, tilt_fwd, to_fw)
    PROVE  /\ IInv'
           /\ slt.state # "done" /\ slt'.state = "done" => slt.forced \/ calm' > TransTime
<1> DEFINE aged  == [slt EXCEPT !.start = Aged(@, FailTimeout, dt),
                                !.low   = Aged(@, TransTime, dt)]
           ready == reset_fail_timer_if_disarmed(aged, armed)
           run   == ~motor_test /\ (~vtol \/ in_transition(ready))
           timed == update_forward_timing(ready, above_min, a.assist, tilt_fwd)
           after == apply_transition_fail(timed, to_fw)
<1>0. /\ dt \in Nat \ {0} /\ FailTimeout \in Nat /\ TransTime \in Nat
      /\ 0 \in Ages(FailTimeout) /\ 0 \in Ages(TransTime)
      /\ calm \in Ages(TransTime) /\ since \in Ages(FailTimeout)
  BY TimingAssumption DEF IInv, TypeOK, Ages
<1>1. /\ a.hysteresis \in [Errors -> HysteresisStates]
      /\ a.assist \in BOOLEAN /\ a.asked \in BOOLEAN
  BY AssistanceInRange DEF IInv
<1>2. slt \in SltStates /\ Matched(slt)
  BY DEF IInv, TypeOK, TimersMatchState, Matched
<1>3. /\ aged \in SltStates
      /\ aged.state = slt.state /\ aged.forced = slt.forced
      /\ aged.start = Aged(slt.start, FailTimeout, dt)
      /\ aged.low = Aged(slt.low, TransTime, dt)
      /\ Matched(aged)
  <2>1. /\ slt.start \in Ages(FailTimeout) \cup {Off}
        /\ slt.low \in Ages(TransTime) \cup {Off}
    BY <1>2 DEF SltStates
  <2>2. /\ Aged(slt.start, FailTimeout, dt) \in Ages(FailTimeout) \cup {Off}
        /\ Aged(slt.low, TransTime, dt) \in Ages(TransTime) \cup {Off}
        /\ slt.low = Off <=> Aged(slt.low, TransTime, dt) = Off
    BY <1>0, <2>1, AgedInRange
  <2>3. /\ aged \in SltStates
        /\ aged.state = slt.state /\ aged.forced = slt.forced
        /\ aged.start = Aged(slt.start, FailTimeout, dt)
        /\ aged.low = Aged(slt.low, TransTime, dt)
    BY <1>2, <2>2 DEF SltStates
  <2> QED BY <1>2, <2>2, <2>3 DEF Matched
<1>4. /\ ready \in SltStates /\ Matched(ready)
      /\ ready.state = aged.state /\ ready.forced = aged.forced /\ ready.low = aged.low
      /\ ready.start = IF armed THEN aged.start ELSE 0
  BY <1>0, <1>3 DEF reset_fail_timer_if_disarmed, SltStates, Matched
<1>5. /\ timed \in SltStates /\ Matched(timed)
      /\ timed.start \in {Off, 0, ready.start}
      /\ timed.state = "timer" /\ ~timed.forced =>
             \/ timed.low = 0
             \/ ~a.assist /\ ready.state = "timer" /\ ~ready.forced /\ timed.low = ready.low
      /\ timed.state = "done" /\ ready.state # "done" =>
             ready.state = "timer" /\ ready.low > TransTime /\ (ready.forced \/ ~a.assist)
      /\ timed.state = "done" /\ ready.state # "done" => timed.start = Off
      /\ timed.state = "airspeed_wait" => timed.low = 0
  <2> HIDE DEF ready
  <2>1. Timed(ready, timed, a.assist)
    BY <1>1, <1>4, TimingStage
  <2> HIDE DEF timed
  <2> QED BY <2>1 DEF Timed
<1>6. /\ after.slt \in SltStates
      /\ after.outcome \in {"continue", "complete_to_fw", "fallback"}
      /\ Matched(after.slt)
      /\ after.slt.start = timed.start /\ after.slt.low = timed.low
      /\ after.slt.state = "timer" /\ ~after.slt.forced => timed.state = "timer" /\ ~timed.forced
      /\ after.slt.state = "done" <=> timed.state = "done"
      /\ after.outcome # "continue" =>
             /\ timed.state = "airspeed_wait" /\ after.slt.state # "done"
             /\ FailTimeout > 0 /\ timed.start > FailTimeout
  <2>1. after = apply_transition_fail(timed, to_fw)
    OBVIOUS
  <2> HIDE DEF timed, after
  <2> QED BY <1>5, <2>1, FailStage
<1> DEFINE done == slt'.state = "done" /\ slt.state # "done"
<1>7. /\ hysteresis' = a.hysteresis
      /\ run => slt' = after.slt /\ trans_fail' = after.outcome
      /\ ~run => /\ slt' = IF motor_test THEN aged ELSE ready
                 /\ trans_fail' = "continue"
      /\ in' = [vtol |-> vtol, armed |-> armed, above_min |-> above_min,
                tilt_fwd |-> tilt_fwd, asked |-> a.asked]
      /\ odd' = ~odd
      /\ calm' = IF run /\ a.assist THEN 0 ELSE Aged(calm, TransTime, dt)
      /\ since' = IF ~motor_test /\ (~armed \/ done) THEN 0 ELSE Aged(since, FailTimeout, dt)
      /\ motor_test' = motor_test
  BY DEF update
<1> HIDE DEF aged, ready, timed, after, run
<1>8. slt' \in SltStates /\ Matched(slt')
  BY <1>3, <1>4, <1>6, <1>7
<1>9. /\ Aged(calm, TransTime, dt) \in Ages(TransTime)
      /\ Aged(since, FailTimeout, dt) \in Ages(FailTimeout)
  BY <1>0, AgedInRange DEF Ages, Off
<1>10. TypeOK'
  <2>1. calm' \in Ages(TransTime) /\ since' \in Ages(FailTimeout)
    BY <1>0, <1>7, <1>9
  <2>2. trans_fail' \in {"continue", "complete_to_fw", "fallback"}
    BY <1>6, <1>7
  <2>3. odd' \in BOOLEAN /\ motor_test' \in BOOLEAN
    BY <1>7 DEF IInv, TypeOK
  <2>4. in' \in [vtol : BOOLEAN, armed : BOOLEAN, above_min : BOOLEAN,
                 tilt_fwd : BOOLEAN, asked : BOOLEAN]
    BY <1>1, <1>7
  <2> QED BY <1>1, <1>7, <1>8, <2>1, <2>2, <2>3, <2>4 DEF TypeOK
<1>11. TimersMatchState'
  BY <1>8 DEF TimersMatchState, Matched
\* The start of the transition against the last arming or completion.
<1>12. /\ slt.start # Off => Aged(slt.start, FailTimeout, dt) <= Aged(since, FailTimeout, dt)
       /\ slt.state = "timer" /\ ~slt.forced =>
              Aged(slt.low, TransTime, dt) <= Aged(calm, TransTime, dt)
  <2>1. slt.start # Off => slt.start \in Ages(FailTimeout)
    BY <1>2 DEF SltStates
  <2>2. slt.state = "timer" => slt.low \in Ages(TransTime)
    BY <1>2 DEF SltStates, Matched
  <2> QED BY <1>0, <2>1, <2>2, AgedIsMonotone DEF IInv, StampsMatchHistory
<1>13. ready.start # Off => ready.start <= IF armed THEN Aged(since, FailTimeout, dt) ELSE 0
  <2>1. aged.start # Off => slt.start # Off
    BY <1>0, <1>2, <1>3, AgedInRange DEF SltStates
  <2> QED BY <1>3, <1>4, <1>12, <2>1
<1>14. slt'.start # Off => slt'.start <= since'
  <2>1. CASE motor_test
    <3>1. slt' = aged /\ since' = Aged(since, FailTimeout, dt)
      BY <1>7, <2>1 DEF run
    <3>2. aged.start # Off => slt.start # Off
      BY <1>0, <1>2, <1>3, AgedInRange DEF SltStates
    <3> QED BY <1>3, <1>12, <3>1, <3>2
  <2>2. CASE ~motor_test /\ ~run
    <3>1. slt' = ready /\ ~done
      BY <1>3, <1>4, <1>7, <2>2
    <3>2. since' = IF armed THEN Aged(since, FailTimeout, dt) ELSE 0
      BY <1>7, <2>2, <3>1
    <3> QED BY <1>13, <3>1, <3>2
  <2>3. CASE run
    <3>1. slt'.start = timed.start /\ ~motor_test
      BY <1>6, <1>7, <2>3 DEF run
    <3>2. CASE done
      <4>1. timed.state = "done" /\ ready.state # "done"
        BY <1>3, <1>4, <1>6, <1>7, <2>3, <3>2
      <4> QED BY <1>5, <3>1, <4>1
    <3>3. CASE ~done
      <4>1. since' = IF armed THEN Aged(since, FailTimeout, dt) ELSE 0
        BY <1>7, <3>1, <3>3
      <4>2. since' >= 0
        BY <1>9, <4>1 DEF Ages
      <4> QED BY <1>5, <1>13, <3>1, <4>1, <4>2
    <3> QED BY <3>2, <3>3
  <2> QED BY <2>1, <2>2, <2>3
\* The airspeed's stamp against the last request for assistance.
<1>15. slt'.state = "timer" /\ ~slt'.forced => slt'.low <= calm'
  <2> SUFFICES ASSUME slt'.state = "timer", ~slt'.forced
               PROVE  slt'.low <= calm'
    OBVIOUS
  <2>1. CASE ~run
    <3>1. slt'.low = aged.low /\ aged.state = "timer" /\ ~aged.forced
      BY <1>4, <1>7, <2>1
    <3> QED BY <1>3, <1>7, <1>12, <2>1, <3>1
  <2>2. CASE run
    <3>1. /\ slt'.low = timed.low
          /\ \/ timed.low = 0
             \/ ~a.assist /\ ready.state = "timer" /\ ~ready.forced /\ timed.low = ready.low
      BY <1>5, <1>6, <1>7, <2>2
    <3>2. CASE timed.low = 0
      BY <1>0, <1>7, <1>9, <3>1, <3>2 DEF Ages
    <3>3. CASE ~a.assist /\ ready.state = "timer" /\ ~ready.forced /\ timed.low = ready.low
      BY <1>3, <1>4, <1>7, <1>12, <3>1, <3>3
    <3> QED BY <3>1, <3>2, <3>3
  <2> QED BY <2>1, <2>2
<1>16. FailMeansTimedOut'
  <2> SUFFICES ASSUME trans_fail' # "continue"
               PROVE  FailTimeout > 0 /\ since' > FailTimeout
    BY DEF FailMeansTimedOut
  <2>1. run /\ after.outcome # "continue"
    BY <1>7
  <2>2. FailTimeout > 0 /\ timed.start > FailTimeout /\ slt'.start = timed.start
    BY <1>6, <1>7, <2>1
  <2>3. slt'.start # Off /\ slt'.start \in Int /\ since' \in Int
    BY <1>0, <1>8, <1>10, <2>2 DEF SltStates, TypeOK, Ages, Off
  <2> QED BY <1>0, <1>14, <2>2, <2>3
<1>17. slt.state # "done" /\ slt'.state = "done" => slt.forced \/ calm' > TransTime
  <2> SUFFICES ASSUME slt.state # "done", slt'.state = "done", ~slt.forced
               PROVE  calm' > TransTime
    OBVIOUS
  <2>1. run
    BY <1>3, <1>4, <1>7
  <2>2. /\ ready.state = "timer" /\ ready.low > TransTime /\ ~a.assist
    BY <1>3, <1>4, <1>5, <1>6, <1>7, <2>1
  <2>3. Aged(slt.low, TransTime, dt) <= Aged(calm, TransTime, dt)
    BY <1>3, <1>4, <1>12, <2>2
  <2>4. Aged(slt.low, TransTime, dt) > TransTime /\ Aged(slt.low, TransTime, dt) \in Int
    BY <1>3, <1>4, <2>2 DEF SltStates, Ages, Off
  <2> QED BY <1>0, <1>7, <1>9, <2>2, <2>3, <2>4 DEF Ages
<1> QED
  BY <1>10, <1>11, <1>14, <1>15, <1>16, <1>17 DEF IInv, StampsMatchHistory

\* A motor test changes nothing the invariant speaks of, but the flag.
LEMMA NextIInv ==
    ASSUME IInv, [Next]_vars
    PROVE  /\ IInv'
           /\ slt.state # "done" /\ slt'.state = "done" => slt.forced \/ calm' > TransTime
<1>1. CASE Tick
  BY <1>1, UpdateIInv DEF Tick
<1>2. CASE start_motor_test
  BY <1>2 DEF start_motor_test, IInv, TypeOK, TimersMatchState, FailMeansTimedOut,
              StampsMatchHistory
<1>3. CASE stop_motor_test
  BY <1>3 DEF stop_motor_test, IInv, TypeOK, TimersMatchState, FailMeansTimedOut,
              StampsMatchHistory
<1>4. CASE UNCHANGED vars
  BY <1>4 DEF vars, IInv, TypeOK, TimersMatchState, FailMeansTimedOut, StampsMatchHistory
<1> QED BY <1>1, <1>2, <1>3, <1>4 DEF Next

-----------------------------------------------------------------------------
\* Every state of the transition has the declared type, and agrees with its
\* stamps and with the history, whatever the times are set to.
THEOREM Invariance == Spec => []IInv
<1>1. Init => IInv
  BY InitIInv
<1>2. IInv /\ [Next]_vars => IInv'
  BY NextIInv
<1> QED BY <1>1, <1>2, PTL DEF Spec

\* The transition, the hysteresis and the history keep their types.
THEOREM TypeOKHolds == Spec => []TypeOK
<1>1. IInv => TypeOK
  BY DEF IInv
<1> QED BY <1>1, Invariance, PTL

\* The stamps and the state of the transition go together.
THEOREM TimersMatchStateHolds == Spec => []TimersMatchState
<1>1. IInv => TimersMatchState
  BY DEF IInv
<1> QED BY <1>1, Invariance, PTL

\* No transition is reported failed before its time.
THEOREM FailMeansTimedOutHolds == Spec => []FailMeansTimedOut
<1>1. IInv => FailMeansTimedOut
  BY DEF IInv
<1> QED BY <1>1, Invariance, PTL

\* The lift motors are given up only in calm, or by force.
THEOREM DoneNeedsCalmHolds == Spec => DoneNeedsCalm
<1>1. IInv /\ [Next]_vars =>
          [slt.state # "done" /\ slt'.state = "done" => slt.forced \/ calm' > TransTime]_vars
  BY NextIInv
<1> QED BY <1>1, Invariance, PTL DEF Spec, DoneNeedsCalm

-----------------------------------------------------------------------------
(* Progress.  That the transition completes is a temporal property, which  *)
(* the provers cannot reach; what they can is that each settled tick takes *)
(* it nearer, by counts that bound the ticks it needs.                     *)

\* An error that still asks for assistance has been seen recently enough.
SeenRecently == \A e \in Errors : hysteresis[e].active => hysteresis[e].last \in 0 .. ClearDelay

\* The ticks an error that is gone goes on asking for assistance, at most.
Lingers(h) == IF h.active THEN 1 + ClearDelay - h.last ELSE 0

\* The ticks a transition that nothing sets back still takes, at most.
Remaining(s) ==
    IF s.state = "done" THEN 0
    ELSE IF s.state = "timer" THEN 2 + TransTime - s.low
    ELSE 3 + TransTime

\* In settled flight every error's request runs out, and once none is left
\* each tick either completes the transition or takes it a tick nearer;
\* and what is complete stays so.
SettledProgress ==
    [][Tick /\ Settled'
         => /\ \A e \in Errors : \/ Lingers(hysteresis'[e]) = 0
                                 \/ Lingers(hysteresis'[e]) < Lingers(hysteresis[e])
            /\ \/ \E e \in Errors : hysteresis'[e].active
               \/ slt'.state = "done"
               \/ Remaining(slt') < Remaining(slt)]_vars

LEMMA CountsAreNat ==
    ASSUME IInv, SeenRecently
    PROVE  Remaining(slt) \in Nat /\ \A e \in Errors : Lingers(hysteresis[e]) \in Nat
<1>1. slt.state = "timer" => slt.low \in Ages(TransTime)
  BY DEF IInv, TypeOK, SltStates, TimersMatchState
<1>2. Remaining(slt) \in Nat
  BY <1>1, TimingAssumption DEF Remaining, Ages
<1>3. ASSUME NEW e \in Errors PROVE Lingers(hysteresis[e]) \in Nat
  <2>1. hysteresis[e].active => hysteresis[e].last \in 0 .. ClearDelay
    BY DEF SeenRecently
  <2> QED BY <2>1, TimingAssumption DEF Lingers, ClearDelay
<1> QED BY <1>2, <1>3

\* The hysteresis of one error, when its error is not there.
LEMMA Unasked ==
    ASSUME NEW h \in HysteresisStates, NEW dt \in Nat \ {0},
           h.active => h.last \in 0 .. ClearDelay,
           NEW g, g = [h EXCEPT !.start = Aged(@, Delay, dt), !.last = Aged(@, ClearDelay, dt)]
    PROVE  LET n == AssistHysteresis(g, FALSE)
           IN  /\ n.active => n.last \in 0 .. ClearDelay
               /\ Lingers(n) = 0 \/ Lingers(n) < Lingers(h)
<1> DEFINE n == AssistHysteresis(g, FALSE)
<1> SUFFICES /\ n.active => n.last \in 0 .. ClearDelay
             /\ Lingers(n) = 0 \/ Lingers(n) < Lingers(h)
  OBVIOUS
<1>0. ClearDelay \in Nat /\ h.active \in BOOLEAN
  BY TimingAssumption DEF ClearDelay, HysteresisStates
<1>1. g.active = h.active /\ g.last = Aged(h.last, ClearDelay, dt)
  BY DEF HysteresisStates
<1>2. n = IF g.active /\ g.last # Off /\ g.last <= ClearDelay THEN g ELSE Reset
  BY DEF AssistHysteresis
<1> HIDE DEF n
<1>3. CASE g.active /\ g.last # Off /\ g.last <= ClearDelay
  <2>1. n = g /\ h.active
    BY <1>1, <1>2, <1>3
  <2>2. g.last > h.last /\ g.last \in 0 .. ClearDelay /\ h.last \in 0 .. ClearDelay
    BY <1>0, <1>1, <1>3, <2>1 DEF Aged, Lesser, Off
  <2> QED BY <1>0, <1>1, <2>1, <2>2 DEF Lingers
<1>4. CASE ~(g.active /\ g.last # Off /\ g.last <= ClearDelay)
  <2>1. n.active = FALSE
    BY <1>2, <1>4 DEF Reset
  <2> QED BY <2>1 DEF Lingers
<1> QED BY <1>3, <1>4

\* And of one whose error is there.
LEMMA Asked ==
    ASSUME NEW g PROVE AssistHysteresis(g, TRUE).last \in 0 .. ClearDelay
  BY TimingAssumption DEF AssistHysteresis, ClearDelay

\* What the answer a of should_assist() says of the errors.
LEMMA AnswersSettle ==
    ASSUME TypeOK, SeenRecently, NEW dt \in Steps, NEW a \in Assistance(dt)
    PROVE  /\ \A e \in Errors : a.hysteresis[e].active => a.hysteresis[e].last \in 0 .. ClearDelay
           /\ ~a.asked => \A e \in Errors : \/ Lingers(a.hysteresis[e]) = 0
                                            \/ Lingers(a.hysteresis[e]) < Lingers(hysteresis[e])
           /\ ~a.asked /\ a.assist => \E e \in Errors : a.hysteresis[e].active
<1>1. PICK r \in Requests :
          a = [hysteresis |-> HysteresisAfter(r, dt),
               assist |-> should_assist(r, HysteresisAfter(r, dt)), open |-> r.open,
               asked |-> r.open /\ (r.force \/ r.speed = "low" \/ r.errors # {})]
  BY DEF Assistance
<1> DEFINE H == HysteresisAfter(r, dt)
           Quiet == ~(r.open /\ (r.force \/ r.speed = "low" \/ r.errors # {}))
<1>2. a.hysteresis = H /\ a.assist = should_assist(r, H) /\ (~a.asked => Quiet)
  BY <1>1
<1>3. ASSUME NEW e \in Errors
      PROVE  /\ H[e].active => H[e].last \in 0 .. ClearDelay
             /\ Quiet => Lingers(H[e]) = 0 \/ Lingers(H[e]) < Lingers(hysteresis[e])
  <2> DEFINE g == AgedHysteresis(dt)[e]
  <2>1. H[e] = IF Watched(r, e) THEN AssistHysteresis(g, e \in r.errors) ELSE Reset
    BY DEF HysteresisAfter
  <2>2. /\ g = [hysteresis[e] EXCEPT !.start = Aged(@, Delay, dt),
                                     !.last  = Aged(@, ClearDelay, dt)]
        /\ hysteresis[e] \in HysteresisStates /\ dt \in Nat \ {0}
        /\ hysteresis[e].active => hysteresis[e].last \in 0 .. ClearDelay
    BY TimingAssumption DEF AgedHysteresis, SeenRecently, TypeOK
  <2> HIDE DEF g, H
  <2>3. CASE ~Watched(r, e)
    <3>1. H[e].active = FALSE
      BY <2>1, <2>3 DEF Reset
    <3> QED BY <3>1 DEF Lingers
  <2>4. CASE Watched(r, e) /\ e \in r.errors
    <3>1. (e \in r.errors) = TRUE /\ r.open /\ r.errors # {}
      BY <2>4 DEF Watched
    <3>2. H[e] = AssistHysteresis(g, TRUE)
      BY <2>1, <2>4, <3>1
    <3> QED BY <3>1, <3>2, Asked
  <2>5. CASE Watched(r, e) /\ e \notin r.errors
    <3>1. H[e] = AssistHysteresis(g, FALSE)
      <4>1. (e \in r.errors) = FALSE
        BY <2>5
      <4> QED BY <2>1, <2>5, <4>1
    <3> QED BY <2>2, <3>1, Unasked
  <2> QED BY <2>3, <2>4, <2>5
<1>4. Quiet /\ should_assist(r, H) => \E e \in Errors : H[e].active
  BY DEF should_assist
<1> HIDE DEF H
<1> QED BY <1>2, <1>3, <1>4

\* The requests that linger were made recently, in every state.
THEOREM SeenRecentlyHolds == Spec => []SeenRecently
<1>1. Init => SeenRecently
  BY DEF Init, SeenRecently, Reset
<1>2. IInv /\ SeenRecently /\ [Next]_vars => SeenRecently'
  <2> SUFFICES ASSUME IInv, SeenRecently, [Next]_vars PROVE SeenRecently'
    OBVIOUS
  <2>1. ASSUME NEW dt \in Steps, NEW a \in Assistance(dt), hysteresis' = a.hysteresis
        PROVE  SeenRecently'
    BY <2>1, AnswersSettle DEF IInv, SeenRecently
  <2>2. CASE Tick
    BY <2>1, <2>2 DEF Tick, update
  <2>3. CASE UNCHANGED hysteresis
    BY <2>3 DEF SeenRecently
  <2> QED BY <2>2, <2>3 DEF Next, start_motor_test, stop_motor_test, vars
<1> QED BY <1>1, <1>2, Invariance, PTL DEF Spec

\* One settled tick of a transition s with no request left.
LEMMA SettledTick ==
    ASSUME NEW s \in SltStates, Matched(s), NEW dt \in Nat \ {0},
           NEW g, g = [s EXCEPT !.start = Aged(@, FailTimeout, dt),
                                !.low   = Aged(@, TransTime, dt)],
           NEW to_fw \in BOOLEAN
    PROVE  LET n == apply_transition_fail(update_forward_timing(g, TRUE, FALSE, TRUE), to_fw).slt
           IN  n.state = "done" \/ Remaining(n) < Remaining(s)
<1> DEFINE t == update_forward_timing(g, TRUE, FALSE, TRUE)
           n == apply_transition_fail(t, to_fw).slt
<1> SUFFICES n.state = "done" \/ Remaining(n) < Remaining(s)
  OBVIOUS
<1>0. /\ TransTime \in Nat \ {0} /\ FailTimeout \in Nat
      /\ s.low \in Ages(TransTime) \cup {Off} /\ s.start \in Ages(FailTimeout) \cup {Off}
      /\ s.state = "timer" => s.low \in Ages(TransTime)
  BY TimingAssumption DEF SltStates, Matched
<1>1. /\ g.state = s.state /\ g.low = Aged(s.low, TransTime, dt)
      /\ g \in SltStates
  <2>1. /\ Aged(s.start, FailTimeout, dt) \in Ages(FailTimeout) \cup {Off}
        /\ Aged(s.low, TransTime, dt) \in Ages(TransTime) \cup {Off}
    BY <1>0, AgedInRange
  <2> QED BY <2>1 DEF SltStates
<1>2. apply_assist_back(g, FALSE) = g
  BY DEF apply_assist_back
<1>3. CASE s.state = "airspeed_wait"
  <2>1. t = update_airspeed_wait(g, TRUE, FALSE)
    BY <1>1, <1>2, <1>3 DEF update_forward_timing
  <2>2. t.state = "timer" /\ t.low = 0
    BY <1>1, <1>3, <2>1 DEF update_airspeed_wait, Started, SltStates
  <2> HIDE DEF t
  <2>3. n = t
    BY <2>2 DEF apply_transition_fail, TimedOut
  <2> HIDE DEF n
  <2> QED BY <1>0, <1>3, <2>2, <2>3 DEF Remaining
<1>4. CASE s.state = "timer"
  <2>1. t = update_timer(g, TRUE)
    BY <1>1, <1>2, <1>4 DEF update_forward_timing
  <2>2. CASE g.low > TransTime
    <3>1. t.state = "done"
      BY <1>1, <2>1, <2>2 DEF update_timer, mark_transition_done, SltStates
    <3> HIDE DEF t
    <3>2. n = t
      BY <3>1 DEF apply_transition_fail, TimedOut
    <3> HIDE DEF n
    <3> QED BY <3>1, <3>2
  <2>3. CASE ~(g.low > TransTime)
    <3>1. t = g
      BY <2>1, <2>3 DEF update_timer
    <3> HIDE DEF t
    <3>2. n = t
      BY <1>1, <1>4, <3>1 DEF apply_transition_fail, TimedOut
    <3> HIDE DEF n
    <3>3. g.low > s.low /\ g.low \in Ages(TransTime)
      BY <1>0, <1>1, <1>4, <2>3 DEF Aged, Lesser, Ages, Off
    <3> QED BY <1>0, <1>1, <1>4, <3>1, <3>2, <3>3 DEF Remaining, Ages
  <2> QED BY <2>2, <2>3
<1>5. CASE s.state = "done"
  <2>1. t = g
    BY <1>1, <1>2, <1>5 DEF update_forward_timing
  <2> HIDE DEF t
  <2>2. n = t
    BY <1>1, <1>5, <2>1 DEF apply_transition_fail, TimedOut
  <2> HIDE DEF n
  <2> QED BY <1>1, <1>5, <2>1, <2>2
<1> QED BY <1>3, <1>4, <1>5 DEF SltStates

\* Settled flight takes the transition nearer to its end, tick by tick,
\* whatever the times are set to.
THEOREM SettledProgressHolds == Spec => SettledProgress
<1>1. IInv /\ SeenRecently /\ [Next]_vars =>
        [Tick /\ Settled'
           => /\ \A e \in Errors : \/ Lingers(hysteresis'[e]) = 0
                                   \/ Lingers(hysteresis'[e]) < Lingers(hysteresis[e])
              /\ \/ \E e \in Errors : hysteresis'[e].active
                 \/ slt'.state = "done"
                 \/ Remaining(slt') < Remaining(slt)]_vars
  <2> SUFFICES ASSUME IInv, SeenRecently, Settled',
                      NEW dt \in Steps, NEW a \in Assistance(dt),
                      NEW vtol \in BOOLEAN, NEW armed \in BOOLEAN,
                      NEW above_min \in BOOLEAN, NEW tilt_fwd \in BOOLEAN,
                      NEW to_fw \in BOOLEAN,
                      update(dt, a, vtol, armed, above_min, tilt_fwd, to_fw)
               PROVE  /\ \A e \in Errors : \/ Lingers(hysteresis'[e]) = 0
                                           \/ Lingers(hysteresis'[e]) < Lingers(hysteresis[e])
                      /\ \/ \E e \in Errors : hysteresis'[e].active
                         \/ slt'.state = "done"
                         \/ Remaining(slt') < Remaining(slt)
    BY DEF Tick
  <2> DEFINE g == [slt EXCEPT !.start = Aged(@, FailTimeout, dt),
                              !.low   = Aged(@, TransTime, dt)]
             t == update_forward_timing(g, TRUE, FALSE, TRUE)
  <2>1. /\ hysteresis' = a.hysteresis /\ motor_test' = motor_test
        /\ in' = [vtol |-> vtol, armed |-> armed, above_min |-> above_min,
                  tilt_fwd |-> tilt_fwd, asked |-> a.asked]
    BY DEF update
  <2>2. /\ vtol = FALSE /\ armed = TRUE /\ above_min = TRUE /\ tilt_fwd = TRUE
        /\ a.asked = FALSE /\ motor_test = FALSE /\ a.assist \in BOOLEAN
    BY <2>1, AssistanceInRange DEF Settled, IInv, TypeOK
  <2>3. /\ \A e \in Errors : \/ Lingers(hysteresis'[e]) = 0
                             \/ Lingers(hysteresis'[e]) < Lingers(hysteresis[e])
        /\ a.assist => \E e \in Errors : hysteresis'[e].active
    BY <2>1, <2>2, AnswersSettle DEF IInv
  <2>4. a.assist = FALSE => slt' = apply_transition_fail(t, to_fw).slt
    BY <2>2 DEF update, reset_fail_timer_if_disarmed
  <2>5. slt \in SltStates /\ Matched(slt) /\ dt \in Nat \ {0}
    BY TimingAssumption DEF IInv, TypeOK, TimersMatchState, Matched
  <2>6. LET n == apply_transition_fail(t, to_fw).slt
        IN  n.state = "done" \/ Remaining(n) < Remaining(slt)
    <3> HIDE DEF g
    <3> QED BY <2>5, SettledTick DEF g
  <2> HIDE DEF t
  <2> QED BY <2>2, <2>3, <2>4, <2>6
<1> QED BY <1>1, Invariance, SeenRecentlyHolds, PTL DEF Spec, SettledProgress
=============================================================================
