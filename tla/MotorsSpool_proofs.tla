------------------------- MODULE MotorsSpool_proofs -------------------------
(***************************************************************************)
(* Proofs that the safety properties of MotorsSpool hold for ramps, delays *)
(* and current limits of any size.                                         *)
(***************************************************************************)
EXTENDS MotorsSpool, TLAPS

Resting == {"shut_down", "ground_idle"}
Ramps   == {"spooling_up", "throttle_unlimited", "spooling_down"}

MotorStates ==
    [state : States, desired : Desired, spin : 0 .. Greater(Full, IdleRatio),
     ceiling : 0 .. Full, idle : 0 .. IdleDelay, safe : 0 .. SafeTime,
     complete : BOOLEAN]

\* Motors at rest have no thrust to give; motors that may have turn fully.
Sound(m) ==
    /\ m.state \in Resting => m.ceiling = 0
    /\ m.state \in Ramps   => m.spin = Full

\* The ground idle is too slow for the next step to complete the spin-up.
SlowIdle == IdleRatio + UpStep < Full

\* What a loop makes of the motors m, as far as thrust is concerned.
Steady(m, r, filtered) ==
    /\ r \in MotorStates
    /\ Sound(r)
    /\ m.state # "throttle_unlimited" => Lesser(filtered, r.ceiling) <= m.ceiling + UpStep

\* Where motors that give thrust, or whose spin-up is complete, come from.
Traced(m, r) ==
    /\ r.complete /\ ~m.complete => m.state = "ground_idle" /\ r.state # "shut_down"
    /\ r.state \in Ramps =>
           \/ m.state \in Ramps
           \/ m.state = "ground_idle" /\ m.complete /\ ~block
              /\ (SlowIdle => m.spin > IdleRatio)
    /\ SlowIdle /\ r.state = "ground_idle" /\ r.complete /\ r.spin > IdleRatio =>
           \/ m.state \in Ramps
           \/ m.state = "ground_idle" /\ (m.complete => m.spin > IdleRatio)

-----------------------------------------------------------------------------
(* One lemma for each state of the machine.                                *)

LEMMA GuardedMotors ==
    ASSUME NEW m \in MotorStates, Sound(m), armed \in BOOLEAN,
           NEW interlock \in BOOLEAN
    PROVE  LET g == Guarded(m, interlock)
           IN  /\ g \in MotorStates
               /\ g.state # "shut_down" => Sound(g) /\ g.state = m.state
               /\ g.spin = m.spin /\ g.ceiling = m.ceiling /\ g.complete = m.complete
<1>1. SafeWindow(m) \in 0 .. SafeTime
  BY SpoolAssumption DEF SafeWindow, Lesser, MotorStates
<1>2. "shut_down" \in States /\ "shut_down" \in Desired
  BY DEF States, Desired
<1> QED
  BY <1>1, <1>2 DEF Guarded, MotorStates, Sound

LEMMA ShutDownMotors ==
    ASSUME NEW m \in MotorStates, m.state = "shut_down", NEW filtered \in 0 .. Full
    PROVE  Steady(m, ShutDown(m), filtered) /\ Traced(m, ShutDown(m))
<1>1. /\ 0 \in 0 .. Greater(Full, IdleRatio) /\ 0 \in 0 .. Full /\ 0 \in 0 .. IdleDelay
      /\ {"shut_down", "ground_idle"} \subseteq States
  BY SpoolAssumption DEF Greater, States
<1>2. /\ ShutDown(m) \in MotorStates
      /\ ShutDown(m).spin = 0 /\ ShutDown(m).ceiling = 0
      /\ ShutDown(m).complete = m.complete
      /\ ShutDown(m).state \in Resting
  BY <1>1 DEF ShutDown, MotorStates, Resting
<1> QED
  BY <1>2, SpoolAssumption
  DEF Steady, Traced, Sound, Resting, Ramps, Lesser, SlowIdle, MotorStates

\* The delay of the ground idle, which comes first there.
LEMMA IdledMotors ==
    ASSUME NEW m \in MotorStates
    PROVE  /\ Idled(m) \in MotorStates
           /\ Idled(m).ceiling = 0
           /\ Idled(m).state = m.state /\ Idled(m).desired = m.desired
           /\ Idled(m).spin = m.spin /\ Idled(m).complete = m.complete
<1>1. Lesser(IdleDelay, m.idle + 1) \in 0 .. IdleDelay /\ 0 \in 0 .. Full
  BY SpoolAssumption DEF Lesser, MotorStates
<1> QED
  BY <1>1 DEF Idled, MotorStates

LEMMA SpinDownMotors ==
    ASSUME NEW m \in MotorStates, m.state = "ground_idle", m.ceiling = 0
    PROVE  LET r == SpinDown(m)
           IN  /\ r \in MotorStates /\ r.state \in Resting /\ r.ceiling = 0
               /\ r.complete = m.complete /\ (r.spin > IdleRatio => m.spin > IdleRatio)
<1>1. /\ Greater(m.spin - DownStep, 0) \in 0 .. Greater(Full, IdleRatio)
      /\ Greater(m.spin - DownStep, 0) > IdleRatio => m.spin > IdleRatio
  BY SpoolAssumption DEF Greater, MotorStates
<1>2. {"shut_down", "ground_idle"} \subseteq States
  BY DEF States
<1> QED
  BY <1>1, <1>2 DEF SpinDown, MotorStates, Resting

LEMMA SpinToIdleMotors ==
    ASSUME NEW m \in MotorStates, m.state = "ground_idle", m.ceiling = 0
    PROVE  LET r == SpinToIdle(m)
           IN  /\ r \in MotorStates /\ r.state \in Resting /\ r.ceiling = 0
               /\ r.complete = m.complete /\ (r.spin > IdleRatio => m.spin > IdleRatio)
<1> DEFINE spin == IF m.spin <= IdleRatio THEN Lesser(m.spin + UpStep, IdleRatio)
                   ELSE Greater(m.spin - DownStep, IdleRatio)
<1>1. spin \in 0 .. Greater(Full, IdleRatio) /\ (spin > IdleRatio => m.spin > IdleRatio)
  BY SpoolAssumption DEF Greater, Lesser, MotorStates
<1>2. SpinToIdle(m) = [m EXCEPT !.spin = spin]
  BY DEF SpinToIdle
<1> HIDE DEF spin
<1> QED
  BY <1>1, <1>2 DEF MotorStates, Resting

\* The spin-up: held at idle, under way, or complete.
LEMMA SpinUpMotors ==
    ASSUME NEW m \in MotorStates, m.state = "ground_idle", m.ceiling = 0,
           block \in BOOLEAN
    PROVE  LET r == SpinUp(m)
           IN  /\ r \in MotorStates /\ r.ceiling = 0
               /\ \/ r.state = "ground_idle" /\ r.complete = m.complete
                     /\ r.spin <= IdleRatio
                  \/ r.state = "ground_idle" /\ ~r.complete
                  \/ r.state = "ground_idle" /\ r.complete
                     /\ (SlowIdle /\ m.complete => m.spin > IdleRatio)
                  \/ r.state = "spooling_up" /\ r.spin = Full /\ m.complete /\ ~block
                     /\ (SlowIdle => m.spin > IdleRatio)
<1> DEFINE spin == m.spin + UpStep
<1>0. m.spin \in Nat /\ m.spin <= Greater(Full, IdleRatio)
  BY SpoolAssumption DEF MotorStates, Greater
<1>1. CASE m.idle < IdleDelay
  <2>1. Lesser(spin, IdleRatio) \in 0 .. Greater(Full, IdleRatio)
        /\ Lesser(spin, IdleRatio) <= IdleRatio
    BY <1>0, SpoolAssumption DEF Lesser, Greater
  <2>2. SpinUp(m) = [m EXCEPT !.spin = Lesser(spin, IdleRatio)]
    BY <1>1 DEF SpinUp
  <2> HIDE DEF spin
  <2> QED BY <2>1, <2>2 DEF MotorStates
<1>2. CASE ~(m.idle < IdleDelay) /\ spin < Full
  <2>1. spin \in 0 .. Greater(Full, IdleRatio)
    BY <1>0, <1>2, SpoolAssumption DEF Greater
  <2>2. SpinUp(m) = [m EXCEPT !.spin = spin, !.complete = FALSE]
    BY <1>2 DEF SpinUp
  <2> HIDE DEF spin
  <2> QED BY <2>1, <2>2 DEF MotorStates
<1>3. CASE ~(m.idle < IdleDelay) /\ ~(spin < Full)
  <2>1. Full \in 0 .. Greater(Full, IdleRatio) /\ (SlowIdle => m.spin > IdleRatio)
    BY <1>0, <1>3, SpoolAssumption DEF Greater, SlowIdle
  <2>2. SpinUp(m) = [m EXCEPT !.spin = Full, !.complete = TRUE,
                       !.state = IF m.complete /\ ~block THEN "spooling_up" ELSE @]
    BY <1>3 DEF SpinUp
  <2>3. {"spooling_up", "ground_idle"} \subseteq States
    BY DEF States
  <2> HIDE DEF spin
  <2> QED BY <2>1, <2>2, <2>3 DEF MotorStates
<1> QED BY <1>1, <1>2, <1>3

LEMMA GroundIdleMotors ==
    ASSUME NEW m \in MotorStates, Sound(m), m.state = "ground_idle",
           block \in BOOLEAN, NEW filtered \in 0 .. Full
    PROVE  Steady(m, GroundIdle(m), filtered) /\ Traced(m, GroundIdle(m))
<1> DEFINE n == Idled(m)
           r == GroundIdle(m)
<1>1. /\ n \in MotorStates /\ n.ceiling = 0 /\ n.state = "ground_idle"
      /\ n.spin = m.spin /\ n.complete = m.complete /\ n.desired = m.desired
  BY IdledMotors
<1>2. \/ m.desired = "shut_down" /\ r = SpinDown(n)
      \/ m.desired = "ground_idle" /\ r = SpinToIdle(n)
      \/ m.desired = "throttle_unlimited" /\ r = SpinUp(n)
  BY DEF GroundIdle, MotorStates, Desired
<1>3. m.ceiling = 0 /\ filtered \in Nat /\ UpStep \in Nat
  BY SpoolAssumption DEF Sound, Resting
<1> HIDE DEF n, r
<1>4. /\ r \in MotorStates /\ r.ceiling = 0
      /\ \/ r.state \in Resting /\ r.complete = m.complete
            /\ (r.spin > IdleRatio => m.spin > IdleRatio)
         \/ r.state = "ground_idle" /\ r.complete = m.complete /\ r.spin <= IdleRatio
         \/ r.state = "ground_idle" /\ ~r.complete
         \/ r.state = "ground_idle" /\ r.complete
            /\ (SlowIdle /\ m.complete => m.spin > IdleRatio)
         \/ r.state = "spooling_up" /\ r.spin = Full /\ m.complete /\ ~block
            /\ (SlowIdle => m.spin > IdleRatio)
  BY <1>1, <1>2, SpinDownMotors, SpinToIdleMotors, SpinUpMotors
<1>5. Steady(m, r, filtered)
  BY <1>3, <1>4 DEF Steady, Sound, Resting, Ramps, Lesser
<1>6. r.spin \in Int /\ IdleRatio \in Int
  BY <1>4, SpoolAssumption DEF MotorStates, Greater
<1>7. Traced(m, r)
  BY <1>4, <1>6 DEF Traced, Resting, Ramps, SlowIdle
<1> QED BY <1>5, <1>7 DEF r

-----------------------------------------------------------------------------
(* The ramps of the throttle ceiling.                                      *)

LEMMA SpoolingUpMotors ==
    ASSUME NEW m \in MotorStates, Sound(m), m.state = "spooling_up",
           NEW filtered \in 0 .. Full, NEW limit \in Limits
    PROVE  /\ Steady(m, SpoolingUp(m, filtered, limit), filtered)
           /\ Traced(m, SpoolingUp(m, filtered, limit))
<1> DEFINE ceiling == m.ceiling + UpStep
           reached == ceiling >= Lesser(filtered, limit)
           given   == IF reached THEN limit ELSE ceiling
           r == SpoolingUp(m, filtered, limit)
<1>0. /\ m.ceiling \in 0 .. Full /\ m.spin = Full
      /\ limit \in 1 .. Full /\ filtered \in 0 .. Full
      /\ UpStep \in Nat \ {0} /\ Full \in Nat \ {0}
      /\ Full \in 0 .. Greater(Full, IdleRatio)
      /\ Ramps \subseteq States
  BY SpoolAssumption DEF MotorStates, Sound, Ramps, Greater, States
<1>1. /\ given \in 0 .. Full
      /\ Lesser(filtered, given) <= m.ceiling + UpStep
      /\ Lesser(filtered, m.ceiling) <= m.ceiling + UpStep
  BY <1>0 DEF Lesser
<1>2. \/ r = [m EXCEPT !.state = "spooling_down"]
      \/ r = [m EXCEPT !.spin = Full, !.ceiling = given,
                       !.state = IF reached THEN "throttle_unlimited" ELSE @]
  BY DEF SpoolingUp
<1> HIDE DEF r, given, reached
<1>3. /\ r \in MotorStates /\ r.state \in Ramps /\ r.spin = Full
      /\ r.ceiling \in {given, m.ceiling} /\ r.complete = m.complete
  BY <1>0, <1>1, <1>2 DEF MotorStates, Ramps
<1>4. Steady(m, r, filtered)
  BY <1>1, <1>3 DEF Steady, Sound, Resting, Ramps
<1>5. Traced(m, r)
  BY <1>3 DEF Traced, Ramps
<1> QED BY <1>4, <1>5 DEF r

LEMMA ThrottleUnlimitedMotors ==
    ASSUME NEW m \in MotorStates, Sound(m), m.state = "throttle_unlimited",
           NEW filtered \in 0 .. Full, NEW limit \in Limits
    PROVE  /\ Steady(m, ThrottleUnlimited(m, limit), filtered)
           /\ Traced(m, ThrottleUnlimited(m, limit))
<1> DEFINE r == ThrottleUnlimited(m, limit)
<1>0. /\ m.spin = Full /\ limit \in 0 .. Full
      /\ Full \in 0 .. Greater(Full, IdleRatio)
      /\ Ramps \subseteq States
  BY SpoolAssumption DEF MotorStates, Sound, Ramps, Greater, States
<1>1. /\ r \in MotorStates /\ r.state \in Ramps /\ r.spin = Full
      /\ r.complete = m.complete
  BY <1>0 DEF ThrottleUnlimited, MotorStates, Ramps
<1> HIDE DEF r
<1>2. Steady(m, r, filtered)
  BY <1>1 DEF Steady, Sound, Resting, Ramps
<1>3. Traced(m, r)
  BY <1>1 DEF Traced, Ramps
<1> QED BY <1>2, <1>3 DEF r

LEMMA SpoolingDownMotors ==
    ASSUME NEW m \in MotorStates, Sound(m), m.state = "spooling_down",
           NEW filtered \in 0 .. Full, NEW limit \in Limits
    PROVE  /\ Steady(m, SpoolingDown(m, limit), filtered)
           /\ Traced(m, SpoolingDown(m, limit))
<1> DEFINE ceiling == Greater(m.ceiling - DownStep, 0)
           given   == Lesser(ceiling, limit)
           ended   == ceiling < limit /\ ceiling = 0
           r == SpoolingDown(m, limit)
<1>0. /\ m.ceiling \in 0 .. Full /\ m.spin = Full
      /\ limit \in 1 .. Full /\ filtered \in 0 .. Full
      /\ {UpStep, DownStep} \subseteq Nat \ {0} /\ Full \in Nat \ {0}
      /\ Full \in 0 .. Greater(Full, IdleRatio)
      /\ Ramps \cup {"ground_idle"} \subseteq States
  BY SpoolAssumption DEF MotorStates, Sound, Ramps, Greater, States
<1>1. /\ given \in 0 .. Full
      /\ Lesser(filtered, given) <= m.ceiling + UpStep
      /\ Lesser(filtered, m.ceiling) <= m.ceiling + UpStep
      /\ ended => given = 0
  BY <1>0 DEF Lesser, Greater
<1>2. \/ r = [m EXCEPT !.state = "spooling_up"]
      \/ r = [m EXCEPT !.spin = Full, !.ceiling = given,
                       !.state = IF ended THEN "ground_idle" ELSE @]
  BY DEF SpoolingDown
<1> HIDE DEF r, given, ended
<1>3. /\ r \in MotorStates /\ r.state \in Ramps \cup {"ground_idle"} /\ r.spin = Full
      /\ r.state = "ground_idle" => r.ceiling = 0
      /\ r.ceiling \in {given, m.ceiling} /\ r.complete = m.complete
  BY <1>0, <1>1, <1>2 DEF MotorStates, Ramps
<1>4. Steady(m, r, filtered)
  BY <1>1, <1>3 DEF Steady, Sound, Resting, Ramps
<1>5. Traced(m, r)
  BY <1>3 DEF Traced, Ramps
<1> QED BY <1>4, <1>5 DEF r

-----------------------------------------------------------------------------
(* The inductive invariant.                                                *)

\* What the history of the block says of the motors: a block asked for is
\* still there, and a spin-up that is complete has asked for one.
CheckInv ==
    /\ checked = "raised" => block
    /\ SlowIdle /\ motors.state \in Ramps => checked = "lifted"
    /\ SlowIdle /\ motors.state = "ground_idle" /\ motors.complete
            /\ motors.spin > IdleRatio => checked \in {"raised", "lifted"}

IInv == TypeOK /\ Sound(motors) /\ CheckInv

LEMMA TypeOKIsMotors == TypeOK => motors \in MotorStates
  BY DEF TypeOK, MotorStates

THEOREM InitIsSound == Init => IInv
<1> SUFFICES ASSUME Init PROVE IInv
  OBVIOUS
<1>1. 0 \in 0 .. Greater(Full, IdleRatio) /\ 0 \in 0 .. Full
      /\ 0 \in 0 .. IdleDelay /\ 0 \in 0 .. SafeTime
  BY SpoolAssumption DEF Greater
<1>2. TypeOK
  BY <1>1 DEF Init, TypeOK, States, Desired
<1>3. Sound(motors) /\ CheckInv
  BY DEF Init, Sound, CheckInv, Resting, Ramps
<1> QED BY <1>2, <1>3 DEF IInv

\* What one call of output_logic() makes of the motors.
LEMMA LogicStep ==
    ASSUME IInv, NEW filtered \in 0 .. Full, NEW limit \in Limits,
           NEW interlock \in BOOLEAN
    PROVE  LET m == Guarded(motors, interlock)
           IN  /\ Steady(m, Logic(m, filtered, limit), filtered)
               /\ Traced(m, Logic(m, filtered, limit))
<1> DEFINE m == Guarded(motors, interlock)
<1> SUFFICES /\ Steady(m, Logic(m, filtered, limit), filtered)
             /\ Traced(m, Logic(m, filtered, limit))
  OBVIOUS
<1>1. /\ m \in MotorStates
      /\ m.state # "shut_down" => Sound(m)
      /\ block \in BOOLEAN
  BY GuardedMotors, TypeOKIsMotors DEF IInv, TypeOK
<1> HIDE DEF m
<1>2. m.state \in States
  BY <1>1 DEF MotorStates
<1>3. CASE m.state = "shut_down"
  BY <1>1, <1>3, ShutDownMotors DEF Logic
<1>4. CASE m.state = "ground_idle"
  BY <1>1, <1>4, GroundIdleMotors DEF Logic
<1>5. CASE m.state = "spooling_up"
  BY <1>1, <1>5, SpoolingUpMotors DEF Logic
<1>6. CASE m.state = "throttle_unlimited"
  BY <1>1, <1>6, ThrottleUnlimitedMotors DEF Logic
<1>7. CASE m.state = "spooling_down"
  BY <1>1, <1>7, SpoolingDownMotors DEF Logic
<1> QED
  BY <1>2, <1>3, <1>4, <1>5, <1>6, <1>7 DEF States

LEMMA OutputKeepsIInv ==
    ASSUME IInv, NEW filtered \in 0 .. Full, NEW limit \in Limits,
           NEW interlock \in BOOLEAN, NEW next \in {"output", "check"},
           output_logic(filtered, limit, interlock, next)
    PROVE  /\ IInv'
           /\ motors.state # "throttle_unlimited"
                => Lesser(throttle', motors'.ceiling) <= motors.ceiling + UpStep
<1> DEFINE m == Guarded(motors, interlock)
           raised == m.state = "ground_idle" /\ motors'.complete /\ ~motors.complete
<1>1. Steady(m, motors', filtered) /\ Traced(m, motors')
  BY LogicStep DEF output_logic
<1>2. /\ motors \in MotorStates /\ m.state \in {"shut_down", motors.state}
      /\ m.spin = motors.spin /\ m.ceiling = motors.ceiling
      /\ m.complete = motors.complete
  BY GuardedMotors, TypeOKIsMotors DEF IInv, TypeOK
<1>3. /\ turn' = next /\ armed' = armed /\ throttle' = filtered /\ coop' = interlock
      /\ block' = (block \/ raised)
      /\ checked' = IF motors'.state = "shut_down" THEN "no"
                    ELSE IF raised THEN "raised" ELSE checked
  BY DEF output_logic
<1>4. /\ checked \in {"no", "raised", "lifted"} /\ block \in BOOLEAN
      /\ armed \in BOOLEAN
  BY DEF IInv, TypeOK
<1> HIDE DEF m
<1>5. /\ raised \in BOOLEAN
      /\ (motors'.state = "throttle_unlimited") \in BOOLEAN
      /\ motors'.complete \in BOOLEAN /\ motors.complete \in BOOLEAN
  BY <1>1, <1>2 DEF Steady, MotorStates
<1>6. TypeOK'
  BY <1>1, <1>3, <1>4, <1>5 DEF TypeOK, Steady, MotorStates
<1>7. CheckInv'
  <2>1. checked' = "raised" => block'
    BY <1>3, <1>4, <1>5 DEF IInv, CheckInv
  <2>2. ASSUME SlowIdle, motors'.state \in Ramps PROVE checked' = "lifted"
    <3>1. motors'.state # "shut_down"
      BY <2>2 DEF Ramps
    <3>2. CASE m.state \in Ramps
      <4>1. ~raised /\ motors.state \in Ramps
        BY <1>2, <3>2 DEF Ramps
      <4> QED BY <1>3, <2>2, <3>1, <4>1 DEF IInv, CheckInv
    <3>3. CASE /\ m.state = "ground_idle" /\ m.complete /\ ~block
               /\ m.spin > IdleRatio
      <4>1. motors.state = "ground_idle" /\ motors.complete /\ motors.spin > IdleRatio
        BY <1>2, <3>3
      <4>2. checked \in {"raised", "lifted"} /\ checked # "raised"
        BY <2>2, <3>3, <4>1 DEF IInv, CheckInv
      <4> QED BY <1>3, <3>1, <4>1, <4>2
    <3> QED BY <1>1, <2>2, <3>2, <3>3 DEF Traced
  <2>3. ASSUME SlowIdle, motors'.state = "ground_idle", motors'.complete,
               motors'.spin > IdleRatio
        PROVE  checked' \in {"raised", "lifted"}
    <3>1. CASE m.state \in Ramps
      <4>1. motors.state \in Ramps
        BY <1>2, <3>1 DEF Ramps
      <4> QED BY <1>3, <2>3, <4>1 DEF IInv, CheckInv
    <3>2. CASE m.state = "ground_idle" /\ m.complete /\ m.spin > IdleRatio
      <4>1. checked \in {"raised", "lifted"}
        BY <1>2, <2>3, <3>2 DEF IInv, CheckInv
      <4> QED BY <1>3, <2>3, <4>1
    <3>3. CASE m.state = "ground_idle" /\ ~m.complete
      BY <1>2, <1>3, <2>3, <3>3
    <3> QED BY <1>1, <2>3, <3>1, <3>2, <3>3 DEF Traced
  <2> QED BY <2>1, <2>2, <2>3 DEF CheckInv, SlowIdle
<1>8. Sound(motors)'
  BY <1>1 DEF Steady, Sound
<1>9. motors.state # "throttle_unlimited"
         => Lesser(throttle', motors'.ceiling) <= motors.ceiling + UpStep
  BY <1>1, <1>2, <1>3 DEF Steady
<1> QED BY <1>6, <1>7, <1>8, <1>9 DEF IInv

LEMMA CheckKeepsIInv ==
    ASSUME IInv, NEW land_complete \in BOOLEAN, NEW passed \in BOOLEAN,
           takeoff_check(land_complete, passed)
    PROVE  IInv'
<1>1. (block /\ land_complete /\ ~passed) \in BOOLEAN
  BY DEF IInv, TypeOK
<1>2. TypeOK'
  BY <1>1 DEF IInv, TypeOK, takeoff_check
<1>3. checked' \in {checked, "lifted"} /\ (checked' = "raised" => block')
  BY DEF IInv, TypeOK, CheckInv, takeoff_check
<1>4. CheckInv'
  BY <1>3 DEF IInv, CheckInv, takeoff_check, SlowIdle
<1>5. Sound(motors)'
  BY DEF IInv, Sound, takeoff_check
<1> QED BY <1>2, <1>4, <1>5 DEF IInv

LEMMA OthersKeepIInv ==
    ASSUME IInv,
           arm \/ disarm \/ (\E to \in Desired : set_spool_desired(to)) \/ UNCHANGED vars
    PROVE  IInv'
<1>1. CASE arm \/ disarm \/ UNCHANGED vars
  <2>1. UNCHANGED <<motors, block, turn, throttle, coop, checked>>
    BY <1>1 DEF arm, disarm, vars
  <2>2. armed' \in BOOLEAN
    BY <1>1 DEF IInv, TypeOK, arm, disarm, vars
  <2>3. TypeOK'
    BY <2>1, <2>2 DEF IInv, TypeOK
  <2> QED BY <2>1, <2>3 DEF IInv, Sound, CheckInv, SlowIdle
<1>2. ASSUME NEW to \in Desired, set_spool_desired(to) PROVE IInv'
  <2>1. /\ motors \in MotorStates
        /\ motors' = [motors EXCEPT !.desired = to]
        /\ UNCHANGED <<block, armed, turn, throttle, coop, checked>>
    BY <1>2, TypeOKIsMotors DEF IInv, set_spool_desired
  <2>2. /\ motors' \in MotorStates /\ motors'.state = motors.state
        /\ motors'.ceiling = motors.ceiling /\ motors'.spin = motors.spin
        /\ motors'.complete = motors.complete
    BY <2>1 DEF MotorStates
  <2>3. TypeOK'
    BY <2>1, <2>2 DEF IInv, TypeOK, MotorStates
  <2> QED BY <2>1, <2>2, <2>3 DEF IInv, Sound, CheckInv, SlowIdle
<1> QED BY <1>1, <1>2

THEOREM StepKeepsIInv == IInv /\ [Next]_vars => IInv'
<1> SUFFICES ASSUME IInv, [Next]_vars PROVE IInv'
  OBVIOUS
<1>1. CASE Output
  BY <1>1, OutputKeepsIInv DEF Output
<1>2. CASE Check
  BY <1>2, CheckKeepsIInv DEF Check
<1>3. CASE arm \/ disarm \/ (\E to \in Desired : set_spool_desired(to)) \/ UNCHANGED vars
  BY <1>3, OthersKeepIInv
<1> QED BY <1>1, <1>2, <1>3 DEF Next

THEOREM Invariance == Spec => []IInv
<1>1. Init => IInv
  BY InitIsSound
<1>2. IInv /\ [Next]_vars => IInv'
  BY StepKeepsIInv
<1> QED BY <1>1, <1>2, PTL DEF Spec

-----------------------------------------------------------------------------
(* The properties.                                                         *)

\* output_logic() and its callers keep every variable in its range.
THEOREM TypeOKHolds == Spec => []TypeOK
<1>1. IInv => TypeOK
  BY DEF IInv
<1> QED BY <1>1, Invariance, PTL

\* Rotors that are not spun up are never asked for thrust.
THEOREM CeilingNeedsSpinHolds == Spec => []CeilingNeedsSpin
<1>1. IInv => CeilingNeedsSpin
  <2> SUFFICES ASSUME IInv PROVE CeilingNeedsSpin
    OBVIOUS
  <2>1. motors.state \in Resting \cup Ramps
    BY TypeOKIsMotors DEF IInv, MotorStates, States, Resting, Ramps
  <2> QED BY <2>1 DEF IInv, Sound, CeilingNeedsSpin
<1> QED BY <1>1, Invariance, PTL

\* No thrust without a takeoff check since the motors last shut down, for
\* every idle speed that leaves the spin-up a step of its own.
THEOREM TakeoffCheckedHolds == Spec => []TakeoffChecked
<1>1. IInv => TakeoffChecked
  BY DEF IInv, CheckInv, SlowIdle, Ramps, TakeoffChecked
<1> QED BY <1>1, Invariance, PTL

\* The thrust given grows by at most a step in a loop.
THEOREM NoThrustJumpHolds == Spec => NoThrustJump
<1>1. IInv /\ [Next]_vars =>
        [motors.state # "throttle_unlimited"
           => Lesser(throttle', motors'.ceiling) <= motors.ceiling + UpStep]_vars
  <2> SUFFICES ASSUME IInv, Next, motors.state # "throttle_unlimited"
               PROVE  Lesser(throttle', motors'.ceiling) <= motors.ceiling + UpStep
    OBVIOUS
  <2>1. CASE Output
    BY <2>1, OutputKeepsIInv DEF Output
  <2>2. CASE Check \/ arm \/ disarm \/ (\E to \in Desired : set_spool_desired(to))
    <3>1. motors'.ceiling = motors.ceiling /\ throttle' = throttle
      <4>1. motors \in MotorStates
        BY TypeOKIsMotors DEF IInv
      <4> QED BY <2>2, <4>1
          DEF Check, takeoff_check, arm, disarm, set_spool_desired, MotorStates
    <3>2. motors.ceiling \in Nat /\ throttle \in Nat /\ UpStep \in Nat
      BY TypeOKIsMotors, SpoolAssumption DEF IInv, MotorStates, TypeOK
    <3> QED BY <3>1, <3>2 DEF Lesser
  <2> QED BY <2>1, <2>2 DEF Next
<1> QED BY <1>1, Invariance, PTL DEF Spec, NoThrustJump

-----------------------------------------------------------------------------
(* Progress.  That the motors spool up and down is a temporal property,    *)
(* which the provers cannot reach; what they can is that each loop brings  *)
(* the motors nearer to what is asked of them, by a count that no other    *)
(* call raises, and that bounds the loops it takes.                        *)

\* The loops a shut-down still takes, at most: one to leave the ramp up or
\* the unlimited throttle, one for each unit of the ceiling, then one for
\* each unit of the spin.
Fastest == Greater(Full, IdleRatio)
DownRank(m) ==
    IF m.state = "shut_down" THEN 0
    ELSE IF m.state = "ground_idle" THEN 1 + m.spin
    ELSE IF m.state = "spooling_down" THEN 2 + Fastest + m.ceiling
    ELSE 3 + Fastest + Full

\* Motors asked to shut down are a loop nearer to it after each loop, and
\* no other call takes them further from it while they still are.
SpoolDownProgress ==
    [][/\ motors.desired = "shut_down" /\ Output
             => motors'.state = "shut_down" \/ DownRank(motors') < DownRank(motors)
       /\ motors.desired = "shut_down" /\ motors'.desired = "shut_down"
             => DownRank(motors') <= DownRank(motors)]_vars

\* The calls a spin-up still takes, at most: the safe time, the way to the
\* speed of the ground idle and the delay there, the climb to Full with its
\* takeoff check, and the ramp of the ceiling.
IdleRank(m) ==
    IF m.idle < IdleDelay
    THEN 5 + Full + (IdleDelay - m.idle) + (IdleRatio - Lesser(m.spin, IdleRatio))
    ELSE IF m.spin + UpStep < Full THEN 4 + Full - m.spin
    ELSE IF m.complete THEN 0 ELSE 2
UpRank(m, blocked) ==
    IF m.state = "throttle_unlimited" THEN 0
    ELSE IF m.state = "spooling_up" THEN 1 + Full - m.ceiling
    ELSE IF m.state = "spooling_down" THEN 2 + Full - m.ceiling
    ELSE IF m.state = "ground_idle"
    THEN 3 + Full + IdleRank(m) + IF blocked THEN 1 ELSE 0
    ELSE 9 + 2 * Full + IdleDelay + IdleRatio + (SafeTime - m.safe) + IF blocked THEN 1 ELSE 0

\* The rotors m turn fully and wait for the takeoff check to lift the block.
Awaits(m, blocked) ==
    /\ m.state = "ground_idle" /\ m.complete /\ blocked
    /\ m.idle = IdleDelay /\ m.spin + UpStep >= Full

\* Armed motors that are asked to spool up, with the interlock as a takeoff
\* needs it, are nearer to it after each loop or wait for the takeoff check,
\* which brings them nearer when it passes; and unlimited, they stay so.
SpoolUpProgress ==
    [][/\ armed /\ motors.desired = "throttle_unlimited" /\ Output /\ coop'
             => \/ motors'.state = "throttle_unlimited"
                \/ UpRank(motors', block') < UpRank(motors, block)
                \/ /\ Awaits(motors, block) /\ Awaits(motors', block')
                   /\ UpRank(motors', block') = UpRank(motors, block)
       /\ Check /\ coop'
             => /\ ~Awaits(motors', block')
                /\ UpRank(motors', block') <= UpRank(motors, block)
                /\ Awaits(motors, block) => UpRank(motors', block') < UpRank(motors, block)]_vars

\* The counts are numbers, so they cannot go down for ever.
LEMMA RanksAreNat ==
    ASSUME NEW m \in MotorStates, NEW b \in BOOLEAN
    PROVE  DownRank(m) \in Nat /\ UpRank(m, b) \in Nat /\ IdleRank(m) \in Nat
<1>1. /\ m.spin \in Nat /\ m.ceiling \in 0 .. Full /\ m.idle \in 0 .. IdleDelay
      /\ m.safe \in 0 .. SafeTime
      /\ {Full, UpStep, IdleRatio, SafeTime, IdleDelay, Fastest} \subseteq Nat
  BY SpoolAssumption DEF MotorStates, Greater, Fastest
<1>2. IdleRank(m) \in Nat
  BY <1>1 DEF IdleRank, Lesser
<1>3. DownRank(m) \in Nat
  BY <1>1 DEF DownRank
<1>4. UpRank(m, b) \in Nat
  BY <1>1, <1>2 DEF UpRank
<1> QED BY <1>2, <1>3, <1>4

\* One loop of motors that were guarded, and asked to shut down.
LEMMA DownLoop ==
    ASSUME NEW m \in MotorStates, m.desired = "shut_down",
           m.state # "shut_down" => Sound(m),
           NEW filtered \in 0 .. Full, NEW limit \in Limits
    PROVE  LET r == Logic(m, filtered, limit)
           IN  r.state = "shut_down" \/ DownRank(r) < DownRank(m)
<1>0. /\ m.spin \in Nat /\ m.ceiling \in 0 .. Full /\ limit \in 1 .. Full
      /\ {Full, UpStep, DownStep} \subseteq Nat \ {0} /\ IdleRatio \in Nat
      /\ Fastest \in Nat /\ Full <= Fastest
  BY SpoolAssumption DEF MotorStates, Greater, Fastest
<1>1. CASE m.state = "shut_down"
  BY <1>1 DEF Logic, ShutDown, MotorStates
<1>2. CASE m.state = "ground_idle"
  <2> DEFINE n == Idled(m)
  <2>1. n \in MotorStates /\ n.state = "ground_idle" /\ n.spin = m.spin
    BY <1>2, IdledMotors
  <2>2. Logic(m, filtered, limit) = SpinDown(n)
    BY <1>2 DEF Logic, GroundIdle
  <2> HIDE DEF n
  <2>3. CASE m.spin - DownStep <= 0
    BY <2>1, <2>2, <2>3 DEF SpinDown, MotorStates
  <2>4. CASE ~(m.spin - DownStep <= 0)
    <3>1. SpinDown(n).state = "ground_idle" /\ SpinDown(n).spin = m.spin - DownStep
      BY <1>0, <2>1, <2>4 DEF SpinDown, MotorStates, Greater
    <3> QED BY <1>0, <1>2, <2>2, <3>1 DEF DownRank
  <2> QED BY <2>3, <2>4
<1>3. CASE m.state \in {"spooling_up", "throttle_unlimited"}
  <2>1. Logic(m, filtered, limit) = [m EXCEPT !.state = "spooling_down"]
    BY <1>3 DEF Logic, SpoolingUp, ThrottleUnlimited
  <2>2. /\ Logic(m, filtered, limit).state = "spooling_down"
        /\ Logic(m, filtered, limit).ceiling = m.ceiling
    BY <2>1 DEF MotorStates
  <2> QED BY <1>0, <1>3, <2>2 DEF DownRank
<1>4. CASE m.state = "spooling_down"
  <2> DEFINE ceiling == Greater(m.ceiling - DownStep, 0)
             r == SpoolingDown(m, limit)
  <2>1. ceiling \in Nat /\ (m.ceiling > 0 => ceiling < m.ceiling)
        /\ (m.ceiling = 0 => ceiling = 0)
    BY <1>0 DEF Greater
  <2>2. Logic(m, filtered, limit) = r
    BY <1>4 DEF Logic
  <2>3. /\ r.spin = Full /\ r.ceiling = Lesser(ceiling, limit)
        /\ r.state = IF ceiling < limit /\ ceiling = 0 THEN "ground_idle" ELSE "spooling_down"
    BY <1>4 DEF SpoolingDown, MotorStates
  <2> HIDE DEF r, ceiling
  <2>4. CASE ceiling < limit /\ ceiling = 0
    BY <1>0, <1>4, <2>2, <2>3, <2>4 DEF DownRank
  <2>5. CASE ~(ceiling < limit /\ ceiling = 0)
    <3>1. m.ceiling > 0 /\ Lesser(ceiling, limit) < m.ceiling
      BY <1>0, <2>1, <2>5 DEF Lesser
    <3>2. r.state = "spooling_down" /\ r.ceiling < m.ceiling /\ r.ceiling \in Nat
      BY <1>0, <2>1, <2>3, <2>5, <3>1 DEF Lesser
    <3> QED BY <1>0, <1>4, <2>2, <3>2 DEF DownRank
  <2> QED BY <2>4, <2>5
<1> QED BY <1>1, <1>2, <1>3, <1>4 DEF MotorStates, States

LEMMA DownOutput ==
    ASSUME IInv, NEW filtered \in 0 .. Full, NEW limit \in Limits,
           NEW interlock \in BOOLEAN, NEW next \in {"output", "check"},
           output_logic(filtered, limit, interlock, next), motors.desired = "shut_down"
    PROVE  /\ motors'.state = "shut_down" \/ DownRank(motors') < DownRank(motors)
           /\ DownRank(motors') <= DownRank(motors)
<1> DEFINE m == Guarded(motors, interlock)
<1>1. /\ motors \in MotorStates /\ m \in MotorStates /\ m.desired = "shut_down"
      /\ m.state # "shut_down" => Sound(m) /\ m.state = motors.state
      /\ m.spin = motors.spin /\ m.ceiling = motors.ceiling
  <2>1. motors \in MotorStates /\ Sound(motors) /\ armed \in BOOLEAN
    BY TypeOKIsMotors DEF IInv, TypeOK
  <2>2. m.desired = "shut_down"
    BY <2>1 DEF Guarded, MotorStates
  <2> QED BY <2>1, <2>2, GuardedMotors
<1>2. motors' = Logic(m, filtered, limit)
  BY DEF output_logic
<1> HIDE DEF m
<1>3. motors'.state = "shut_down" \/ DownRank(motors') < DownRank(m)
  BY <1>1, <1>2, DownLoop
<1>4. m.state = "shut_down" => motors'.state = "shut_down"
  BY <1>1, <1>2 DEF Logic, ShutDown, MotorStates
<1>5. motors'.state = "shut_down" \/ DownRank(m) = DownRank(motors)
  BY <1>1, <1>4 DEF DownRank
<1>6. motors'.state = "shut_down" => DownRank(motors') = 0
  BY DEF DownRank
<1>7. motors' \in MotorStates
  BY OutputKeepsIInv, TypeOKIsMotors DEF IInv, TypeOK, MotorStates
<1>8. DownRank(motors) \in Nat /\ DownRank(motors') \in Nat
  BY <1>1, <1>7, RanksAreNat
<1> QED BY <1>3, <1>5, <1>6, <1>8

\* Motors that are asked to shut down come nearer to it loop by loop, from
\* whichever state and however the interlock and the limit change.
THEOREM SpoolDownProgressHolds == Spec => SpoolDownProgress
<1>1. IInv /\ [Next]_vars =>
        [/\ motors.desired = "shut_down" /\ Output
               => motors'.state = "shut_down" \/ DownRank(motors') < DownRank(motors)
         /\ motors.desired = "shut_down" /\ motors'.desired = "shut_down"
               => DownRank(motors') <= DownRank(motors)]_vars
  <2> SUFFICES ASSUME IInv, Next, motors.desired = "shut_down"
               PROVE  /\ Output => \/ motors'.state = "shut_down"
                                   \/ DownRank(motors') < DownRank(motors)
                      /\ motors'.desired = "shut_down"
                            => DownRank(motors') <= DownRank(motors)
    OBVIOUS
  <2>1. CASE Output
    BY <2>1, DownOutput DEF Output
  <2>2. CASE ~Output
    <3>1. Check \/ arm \/ disarm \/ (\E to \in Desired : set_spool_desired(to))
      BY <2>2 DEF Next
    <3>2. motors \in MotorStates
      BY TypeOKIsMotors DEF IInv
    <3>3. /\ motors'.state = motors.state /\ motors'.spin = motors.spin
          /\ motors'.ceiling = motors.ceiling
      BY <3>1, <3>2 DEF Check, takeoff_check, arm, disarm, set_spool_desired, MotorStates
    <3>4. DownRank(motors') = DownRank(motors) /\ DownRank(motors) \in Nat
      BY <3>2, <3>3, RanksAreNat DEF DownRank
    <3> QED BY <2>2, <3>4
  <2> QED BY <2>1, <2>2
<1> QED BY <1>1, Invariance, PTL DEF Spec, SpoolDownProgress

\* One loop of motors that idle on the ground, and asked to spool up: they
\* leave the ground idle, are nearer to leaving it, or wait for the check.
LEMMA IdleLoop ==
    ASSUME NEW m \in MotorStates, m.state = "ground_idle", NEW b \in BOOLEAN,
           block = b
    PROVE  LET r == SpinUp(Idled(m))
               c == b \/ (r.complete /\ ~m.complete)
           IN  \/ r.state = "spooling_up"
               \/ /\ r.state = "ground_idle"
                  /\ IdleRank(r) + (IF c THEN 1 ELSE 0) < IdleRank(m) + (IF b THEN 1 ELSE 0)
               \/ /\ r.state = "ground_idle" /\ IdleRank(r) = IdleRank(m) /\ c
                  /\ Awaits(m, b) /\ Awaits(r, c)
<1> DEFINE n == Idled(m)
           r == SpinUp(n)
           c == b \/ (r.complete /\ ~m.complete)
           spin == m.spin + UpStep
           Nearer == /\ r.state = "ground_idle"
                     /\ IdleRank(r) + (IF c THEN 1 ELSE 0) < IdleRank(m) + (IF b THEN 1 ELSE 0)
           Waits == /\ r.state = "ground_idle" /\ IdleRank(r) = IdleRank(m) /\ c
                    /\ Awaits(m, b) /\ Awaits(r, c)
<1> SUFFICES r.state = "spooling_up" \/ Nearer \/ Waits
  OBVIOUS
<1>0. /\ m.spin \in Nat /\ m.idle \in Nat /\ m.idle <= IdleDelay
      /\ m.complete \in BOOLEAN
      /\ {Full, UpStep} \subseteq Nat \ {0} /\ {IdleRatio, IdleDelay} \subseteq Nat
  BY SpoolAssumption DEF MotorStates, Greater
<1>1. /\ n \in MotorStates /\ n.state = "ground_idle" /\ n.spin = m.spin
      /\ n.complete = m.complete
  BY IdledMotors
<1>2. n.idle = IF m.spin >= IdleRatio THEN Lesser(IdleDelay, m.idle + 1) ELSE m.idle
  BY DEF Idled, MotorStates
<1> HIDE DEF n
<1>3. CASE n.idle < IdleDelay
  <2>1. /\ r.state = "ground_idle" /\ r.complete = m.complete /\ r.idle = n.idle
        /\ r.spin = Lesser(spin, IdleRatio)
    BY <1>1, <1>3 DEF SpinUp, MotorStates
  <2> HIDE DEF r
  <2>2. n.idle \in Nat /\ m.idle < IdleDelay
    BY <1>0, <1>2, <1>3 DEF Lesser
  <2>3. IdleRank(r) < IdleRank(m)
    <3>1. CASE m.spin >= IdleRatio
      <4>1. n.idle = m.idle + 1 /\ r.spin = IdleRatio
        BY <1>0, <1>2, <1>3, <2>1, <2>2, <3>1 DEF Lesser
      <4> QED BY <1>0, <1>3, <2>1, <2>2, <3>1, <4>1 DEF IdleRank, Lesser
    <3>2. CASE m.spin < IdleRatio
      <4>1. n.idle = m.idle /\ r.spin > m.spin /\ r.spin <= IdleRatio /\ r.spin \in Nat
        BY <1>0, <1>2, <2>1, <3>2 DEF Lesser
      <4> QED BY <1>0, <1>3, <2>1, <2>2, <3>2, <4>1 DEF IdleRank, Lesser
    <3> QED BY <1>0, <3>1, <3>2
  <2>4. c = b
    BY <1>0, <2>1
  <2> HIDE DEF c
  <2>5. IdleRank(r) \in Int /\ IdleRank(m) \in Int
    BY <1>0, <1>3, <2>1, <2>2 DEF IdleRank, Lesser
  <2> QED BY <2>1, <2>3, <2>4, <2>5
<1>4. CASE ~(n.idle < IdleDelay) /\ spin < Full
  <2>1. r.state = "ground_idle" /\ r.complete = FALSE /\ r.idle = n.idle /\ r.spin = spin
    BY <1>1, <1>4 DEF SpinUp, MotorStates
  <2> HIDE DEF r
  <2>2. n.idle = IdleDelay
    BY <1>0, <1>2, <1>4 DEF Lesser
  <2>3. /\ IdleRank(r) \in Int /\ IdleRank(m) \in Int
        /\ IdleRank(r) < IdleRank(m)
    BY <1>0, <1>4, <2>1, <2>2 DEF IdleRank, Lesser
  <2>4. c = b
    BY <1>0, <2>1
  <2> HIDE DEF c
  <2> QED BY <2>1, <2>3, <2>4
<1>5. CASE ~(n.idle < IdleDelay) /\ ~(spin < Full)
  <2>1. /\ r.complete = TRUE /\ r.idle = n.idle /\ r.spin = Full
        /\ r.state = IF m.complete /\ ~b THEN "spooling_up" ELSE "ground_idle"
    BY <1>1, <1>5 DEF SpinUp, MotorStates
  <2> HIDE DEF r
  <2>2. n.idle = IdleDelay
    BY <1>0, <1>2, <1>5 DEF Lesser
  <2>3. IdleRank(r) = 0
    BY <1>0, <2>1, <2>2 DEF IdleRank
  <2>4. CASE m.idle < IdleDelay
    <3>1. IdleRank(m) \in Int /\ IdleRank(m) > 5
      BY <1>0, <2>4 DEF IdleRank, Lesser
    <3> HIDE DEF c
    <3> QED BY <2>1, <2>3, <3>1
  <2>5. CASE m.idle = IdleDelay /\ m.complete
    <3>1. IdleRank(m) = 0
      BY <1>0, <1>5, <2>5 DEF IdleRank
    <3>2. CASE b
      <4>1. Awaits(m, b) /\ Awaits(r, TRUE)
        BY <1>0, <1>5, <2>1, <2>2, <2>5, <3>2 DEF Awaits
      <4>2. c = TRUE
        BY <3>2
      <4> HIDE DEF c
      <4> QED BY <2>1, <2>3, <3>1, <3>2, <4>1, <4>2
    <3>3. CASE ~b
      BY <2>1, <2>5, <3>3
    <3> QED BY <3>2, <3>3
  <2>6. CASE m.idle = IdleDelay /\ ~m.complete
    <3>1. IdleRank(m) = 2
      BY <1>0, <1>5, <2>6 DEF IdleRank
    <3>2. c = TRUE
      BY <2>1, <2>6
    <3> HIDE DEF c
    <3> QED BY <2>1, <2>3, <2>6, <3>1, <3>2
  <2> QED BY <1>0, <2>4, <2>5, <2>6
<1> QED BY <1>3, <1>4, <1>5

\* One loop of motors that are armed, and asked to spool up.
LEMMA UpLoop ==
    ASSUME NEW k \in MotorStates, Sound(k), k.desired = "throttle_unlimited",
           NEW b \in BOOLEAN, block = b, armed = TRUE,
           NEW filtered \in 0 .. Full, NEW limit \in Limits
    PROVE  LET m == Guarded(k, TRUE)
               r == Logic(m, filtered, limit)
               c == b \/ (m.state = "ground_idle" /\ r.complete /\ ~k.complete)
           IN  \/ r.state = "throttle_unlimited"
               \/ UpRank(r, c) < UpRank(k, b)
               \/ Awaits(k, b) /\ Awaits(r, c) /\ UpRank(r, c) = UpRank(k, b)
<1> DEFINE m == Guarded(k, TRUE)
           r == Logic(m, filtered, limit)
           c == b \/ (m.state = "ground_idle" /\ r.complete /\ ~k.complete)
<1> SUFFICES \/ r.state = "throttle_unlimited"
             \/ UpRank(r, c) < UpRank(k, b)
             \/ Awaits(k, b) /\ Awaits(r, c) /\ UpRank(r, c) = UpRank(k, b)
  OBVIOUS
<1>0. /\ k.spin \in Nat /\ k.ceiling \in 0 .. Full /\ k.safe \in 0 .. SafeTime
      /\ limit \in 1 .. Full /\ k.idle \in 0 .. IdleDelay
      /\ {Full, UpStep, DownStep} \subseteq Nat \ {0}
      /\ {IdleRatio, SafeTime, IdleDelay} \subseteq Nat
  BY SpoolAssumption DEF MotorStates, Greater
<1>1. m = [k EXCEPT !.safe = Lesser(k.safe + 1, SafeTime)]
  BY DEF Guarded, SafeWindow
<1>2. /\ m \in MotorStates /\ m.desired = "throttle_unlimited" /\ m.state = k.state
      /\ m.spin = k.spin /\ m.ceiling = k.ceiling /\ m.idle = k.idle
      /\ m.complete = k.complete /\ m.safe = Lesser(k.safe + 1, SafeTime)
  <2>1. Lesser(k.safe + 1, SafeTime) \in 0 .. SafeTime
    BY <1>0 DEF Lesser
  <2> QED BY <1>1, <2>1 DEF MotorStates
<1> HIDE DEF m
<1>3. CASE k.state = "shut_down"
  <2>1. /\ r.spin = 0 /\ r.idle = 0 /\ r.safe = m.safe
        /\ r.state = IF m.safe >= SafeTime THEN "ground_idle" ELSE "shut_down"
    BY <1>2, <1>3 DEF Logic, ShutDown, MotorStates
  <2> HIDE DEF r
  <2>2. c = b
    BY <1>2, <1>3
  <2> HIDE DEF c
  <2>3. CASE m.safe >= SafeTime
    <3>1. IdleRank(r) \in Int /\ IdleRank(r) <= 5 + Full + IdleDelay + IdleRatio
      BY <1>0, <2>1 DEF IdleRank, Lesser
    <3>2. r.state = "ground_idle"
      BY <2>1, <2>3
    <3>3. UpRank(r, b) < UpRank(k, b)
      BY <1>0, <1>3, <3>1, <3>2 DEF UpRank
    <3> QED BY <2>2, <3>3
  <2>4. CASE ~(m.safe >= SafeTime)
    <3>1. r.state = "shut_down" /\ r.safe = k.safe + 1 /\ r.safe \in 0 .. SafeTime
      BY <1>0, <1>2, <2>1, <2>4 DEF Lesser
    <3>2. UpRank(r, b) < UpRank(k, b)
      BY <1>0, <1>3, <3>1 DEF UpRank
    <3> QED BY <2>2, <3>2
  <2> QED BY <2>3, <2>4
<1>4. CASE k.state = "ground_idle"
  <2> DEFINE s == SpinUp(Idled(m))
  <2>1. r = s
    BY <1>2, <1>4 DEF Logic, GroundIdle
  <2>2. IdleRank(m) = IdleRank(k) /\ Awaits(m, b) = Awaits(k, b)
    BY <1>2 DEF IdleRank, Awaits
  <2>3. c = (b \/ (r.complete /\ ~m.complete))
    BY <1>2, <1>4
  <2>4. \/ r.state = "spooling_up"
        \/ /\ r.state = "ground_idle"
           /\ IdleRank(r) + (IF c THEN 1 ELSE 0) < IdleRank(k) + (IF b THEN 1 ELSE 0)
        \/ /\ r.state = "ground_idle" /\ IdleRank(r) = IdleRank(k) /\ c
           /\ Awaits(k, b) /\ Awaits(r, c)
    <3> HIDE DEF r, c
    <3> QED BY <1>2, <1>4, <2>1, <2>2, <2>3, IdleLoop
  <2>5. r \in MotorStates /\ r.ceiling = 0
    <3>1. Idled(m) \in MotorStates /\ Idled(m).state = "ground_idle" /\ Idled(m).ceiling = 0
      BY <1>2, <1>4, IdledMotors
    <3>2. s \in MotorStates /\ s.ceiling = 0
      BY <3>1, SpinUpMotors
    <3> QED BY <2>1, <3>2
  <2>6. c \in BOOLEAN /\ (Awaits(k, b) => b)
    BY DEF Awaits
  <2> HIDE DEF r, c
  <2>7. IdleRank(r) \in Nat /\ IdleRank(k) \in Nat
    BY <2>5, RanksAreNat
  <2>8. CASE r.state = "spooling_up"
    <3>1. UpRank(r, c) < UpRank(k, b)
      BY <1>0, <1>4, <2>5, <2>7, <2>8 DEF UpRank
    <3> QED BY <3>1
  <2>9. CASE /\ r.state = "ground_idle"
             /\ IdleRank(r) + (IF c THEN 1 ELSE 0) < IdleRank(k) + (IF b THEN 1 ELSE 0)
    <3>1. UpRank(r, c) < UpRank(k, b)
      BY <1>0, <1>4, <2>6, <2>7, <2>9 DEF UpRank
    <3> QED BY <3>1
  <2>10. CASE /\ r.state = "ground_idle" /\ IdleRank(r) = IdleRank(k) /\ c
              /\ Awaits(k, b) /\ Awaits(r, c)
    <3>1. UpRank(r, c) = UpRank(k, b)
      BY <1>4, <2>6, <2>10 DEF UpRank
    <3> QED BY <2>10, <3>1
  <2> QED BY <2>4, <2>8, <2>9, <2>10
<1>5. CASE k.state = "spooling_up"
  <2> DEFINE ceiling == k.ceiling + UpStep
             reached == ceiling >= Lesser(filtered, limit)
  <2>1. /\ r.ceiling = IF reached THEN limit ELSE ceiling
        /\ r.state = IF reached THEN "throttle_unlimited" ELSE "spooling_up"
    BY <1>2, <1>5 DEF Logic, SpoolingUp, MotorStates
  <2> HIDE DEF r, c
  <2>2. CASE ~reached
    <3>1. r.state = "spooling_up" /\ r.ceiling > k.ceiling /\ r.ceiling \in 0 .. Full
      BY <1>0, <2>1, <2>2 DEF Lesser
    <3>2. UpRank(r, c) < UpRank(k, b)
      BY <1>0, <1>5, <3>1 DEF UpRank
    <3> QED BY <3>2
  <2> QED BY <2>1, <2>2
<1>6. CASE k.state = "throttle_unlimited"
  <2>1. r.state = "throttle_unlimited"
    BY <1>2, <1>6 DEF Logic, ThrottleUnlimited, MotorStates
  <2> QED BY <2>1
<1>7. CASE k.state = "spooling_down"
  <2>1. r.state = "spooling_up" /\ r.ceiling = k.ceiling
    BY <1>2, <1>7 DEF Logic, SpoolingDown, MotorStates
  <2> HIDE DEF r, c
  <2>2. UpRank(r, c) < UpRank(k, b)
    BY <1>0, <1>7, <2>1 DEF UpRank
  <2> QED BY <2>2
<1> HIDE DEF r, c
<1> QED BY <1>3, <1>4, <1>5, <1>6, <1>7 DEF MotorStates, States

\* Armed motors that are asked to spool up come nearer to it loop by loop,
\* or wait for the takeoff check of the vehicle, and nothing else.
THEOREM SpoolUpProgressHolds == Spec => SpoolUpProgress
<1> DEFINE
      Loop == armed /\ motors.desired = "throttle_unlimited" /\ Output /\ coop'
                => \/ motors'.state = "throttle_unlimited"
                   \/ UpRank(motors', block') < UpRank(motors, block)
                   \/ /\ Awaits(motors, block) /\ Awaits(motors', block')
                      /\ UpRank(motors', block') = UpRank(motors, block)
      Passed == Check /\ coop'
                => /\ ~Awaits(motors', block')
                   /\ UpRank(motors', block') <= UpRank(motors, block)
                   /\ Awaits(motors, block)
                         => UpRank(motors', block') < UpRank(motors, block)
<1>1. IInv /\ Next => Loop
  <2> SUFFICES ASSUME IInv, armed, motors.desired = "throttle_unlimited", coop',
                      NEW filtered \in 0 .. Full, NEW limit \in Limits,
                      NEW interlock \in BOOLEAN, NEW next \in {"output", "check"},
                      output_logic(filtered, limit, interlock, next)
               PROVE  \/ motors'.state = "throttle_unlimited"
                      \/ UpRank(motors', block') < UpRank(motors, block)
                      \/ /\ Awaits(motors, block) /\ Awaits(motors', block')
                         /\ UpRank(motors', block') = UpRank(motors, block)
    BY DEF Output
  <2> DEFINE m == Guarded(motors, TRUE)
             r == Logic(m, filtered, limit)
             raised == m.state = "ground_idle" /\ r.complete /\ ~motors.complete
  <2>1. interlock = TRUE /\ armed = TRUE
    BY DEF IInv, TypeOK, output_logic
  <2>2. motors' = r
    BY <2>1 DEF output_logic
  <2>3. block' = (block \/ raised)
    BY <2>1, <2>2 DEF output_logic
  <2>4. motors \in MotorStates /\ Sound(motors) /\ block \in BOOLEAN
    BY TypeOKIsMotors DEF IInv, TypeOK
  <2>5. \/ r.state = "throttle_unlimited"
        \/ UpRank(r, block \/ raised) < UpRank(motors, block)
        \/ /\ Awaits(motors, block) /\ Awaits(r, block \/ raised)
           /\ UpRank(r, block \/ raised) = UpRank(motors, block)
    BY <2>1, <2>4, UpLoop
  <2> HIDE DEF r, raised
  <2> QED BY <2>2, <2>3, <2>5
<1>2. IInv /\ Next => Passed
  <2> SUFFICES ASSUME IInv, coop', NEW land_complete \in BOOLEAN, NEW passed \in BOOLEAN,
                      takeoff_check(land_complete, passed)
               PROVE  /\ ~Awaits(motors', block')
                      /\ UpRank(motors', block') <= UpRank(motors, block)
                      /\ Awaits(motors, block)
                            => UpRank(motors', block') < UpRank(motors, block)
    BY DEF Check
  <2>1. motors' = motors /\ block' = FALSE /\ block \in BOOLEAN
    BY DEF takeoff_check, IInv, TypeOK
  <2>2. /\ motors \in MotorStates
        /\ UpRank(motors, TRUE) \in Nat /\ UpRank(motors, FALSE) \in Nat
        /\ IdleRank(motors) \in Nat
    BY TypeOKIsMotors, RanksAreNat DEF IInv
  <2>3. motors.safe \in Int /\ {Full, IdleDelay, IdleRatio, SafeTime} \subseteq Nat
    BY <2>2, SpoolAssumption DEF MotorStates
  <2>4. /\ UpRank(motors, FALSE) <= UpRank(motors, TRUE)
        /\ motors.state = "ground_idle" => UpRank(motors, FALSE) < UpRank(motors, TRUE)
    BY <2>2, <2>3 DEF UpRank
  <2>5. ~Awaits(motors, FALSE)
        /\ (Awaits(motors, block) => motors.state = "ground_idle" /\ block = TRUE)
    BY <2>1 DEF Awaits
  <2>6. CASE block = TRUE
    BY <2>1, <2>4, <2>5, <2>6
  <2>7. CASE block = FALSE
    <3>1. ~Awaits(motors, block) /\ ~Awaits(motors', block')
      BY <2>1, <2>5, <2>7
    <3>2. UpRank(motors', block') = UpRank(motors, block)
      BY <2>1, <2>7
    <3>3. UpRank(motors, block) \in Nat
      BY <2>2, <2>7
    <3> QED BY <3>1, <3>2, <3>3
  <2> QED BY <2>1, <2>6, <2>7
<1>3. IInv /\ [Next]_vars => [Loop /\ Passed]_vars
  BY <1>1, <1>2
<1> QED BY <1>3, Invariance, PTL DEF Spec, SpoolUpProgress
=============================================================================
