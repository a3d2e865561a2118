------------------------ MODULE PlaneControl_proofs ------------------------
(***************************************************************************)
(* Proofs about PlaneControl, for every value of its constants.            *)
(***************************************************************************)
EXTENDS PlaneControl, TLAPS

-----------------------------------------------------------------------------
(* Types.                                                                  *)

LEMMA StartItemType ==
    ASSUME NEW cmd \in Commands, NEW n \in Nav
    PROVE  StartItem(cmd, n) \in Nav
  BY DEF StartItem, Nav, Targets, Stages, Commands

LEMMA EnterType ==
    ASSUME TypeOK, NEW m \in Modes, NEW n \in Nav
    PROVE  Enter(m, n) \in Nav
<1>1. HasItem(mission) => Item(mission) \in Commands
  BY DEF HasItem, Item, TypeOK, Mission
<1>2. QED
  BY <1>1, StartItemType DEF Enter, Nav, Targets

LEMMA SetModeType ==
    ASSUME TypeOK, NEW m \in Modes, NEW b \in BOOLEAN, NEW n \in Nav,
           NEW p \in BOOLEAN, SetMode(m, b, n, p)
    PROVE  /\ control_mode' \in Modes
           /\ mode_set_by_failsafe' \in BOOLEAN
           /\ long_failsafe_pending' \in BOOLEAN
           /\ nav' \in Nav
<1>1. Enter(m, n) \in Nav
  BY EnterType
<1>2. [Enter(m, n) EXCEPT !.landing_stage = "Normal"] \in Nav
  BY <1>1 DEF Nav, Stages
<1>3. QED
  BY <1>2 DEF SetMode, TypeOK

\* The detector keeps the counter within its bounds.
LEMMA DetectorType ==
    ASSUME TypeOK, NEW r \in Channels, NEW f \in FailsafeType
    PROVE  update_throttle_failsafe(r, f) \in FailsafeType
<1>1. f.throttle_counter \in 0..FsLatch
  BY DEF FailsafeType
<1>2. ASSUME NEW c \in 0..FsLatch, NEW l \in BOOLEAN
      PROVE  [f EXCEPT !.throttle_counter = c, !.rc_failsafe = l] \in FailsafeType
  BY <1>2 DEF FailsafeType
<1>3. CountBad(f) \in FailsafeType
  <2>1. Lesser(f.throttle_counter + 1, FsLatch) \in 0..FsLatch
    BY <1>1, TimesAssumption DEF Lesser
  <2>2. QED
    BY <1>2, <2>1 DEF CountBad
<1>4. f.throttle_counter > 0 => CountGood(f) \in FailsafeType
  <2>1. f.throttle_counter > 0 => Lesser(f.throttle_counter - 1, FsRecover) \in 0..FsLatch
    BY <1>1, TimesAssumption DEF Lesser
  <2>2. QED
    BY <1>2, <2>1 DEF CountGood
<1>5. QED
  BY <1>3, <1>4 DEF update_throttle_failsafe

LEMMA TypeInit == Init => TypeOK
<1> SUFFICES ASSUME Init PROVE TypeOK
  OBVIOUS
<1>1. aparm \in Tunables
  BY ValuesAssumption DEF Init, Tunables
<1>2. failsafe \in FailsafeType
  BY TimesAssumption DEF Init, FailsafeType, Levels, AgeCap
<1>3. mission \in Mission
  BY DEF Init, Mission
<1>4. nav \in Nav /\ rc \in Channels
  BY DEF Init, Nav, Targets, Stages, Channels
<1>5. cruise \in HeadingLock
  BY TimesAssumption DEF Init, HeadingLock, TimerCap
<1>6. QED
  BY <1>1, <1>2, <1>3, <1>4, <1>5 DEF Init, TypeOK, Steps, Modes, NoMode

LEMMA StartTickType ==
    ASSUME TypeOK, NEW r \in Channels, NEW new \in BOOLEAN, StartTick(r, new)
    PROVE  TypeOK'
<1>1. failsafe.age \in 0..AgeCap /\ cruise.timer \in 0..TimerCap
  BY DEF TypeOK, FailsafeType, HeadingLock
<1>2. Older(failsafe.age) \in 0..AgeCap /\ 0 \in 0..AgeCap
  BY <1>1, TimesAssumption DEF Older, Lesser, AgeCap
<1>3. ASSUME NEW age \in 0..AgeCap
      PROVE  [failsafe EXCEPT !.age = age] \in FailsafeType
  BY DEF TypeOK, FailsafeType
<1>4. failsafe' \in FailsafeType
  BY <1>2, <1>3, DetectorType DEF StartTick
<1>5. cruise' \in HeadingLock
  <2>1. Lesser(cruise.timer + 1, TimerCap) \in 0..TimerCap
    BY <1>1, TimesAssumption DEF Lesser, TimerCap
  <2>2. QED
    BY <1>1, <2>1 DEF StartTick, TypeOK, HeadingLock
<1>6. QED
  BY <1>4, <1>5 DEF StartTick, TypeOK, modeVars, Steps

LEMMA TargetsAreModes ==
    ASSUME TypeOK
    PROVE  ShortTarget \in Modes /\ LongTarget \in Modes
  BY DEF TypeOK, ShortTarget, LongTarget, apply_fs_action_short, apply_fs_action_long, Modes

LEMMA LongEventType ==
    ASSUME TypeOK, NEW n \in Nav, NEW p \in BOOLEAN, failsafe_long_on_event(n, p)
    PROVE  /\ control_mode' \in Modes
           /\ mode_set_by_failsafe' \in BOOLEAN
           /\ long_failsafe_pending' \in BOOLEAN
           /\ nav' \in Nav
           /\ failsafe' \in FailsafeType
<1>1. failsafe' \in FailsafeType
  BY DEF failsafe_long_on_event, TypeOK, FailsafeType, Levels
<1>2. CASE LongDefers(n)
  BY <1>1, <1>2 DEF failsafe_long_on_event, TypeOK
<1>3. CASE ~LongDefers(n)
  BY <1>1, <1>3, SetModeType, TargetsAreModes DEF failsafe_long_on_event
<1>4. QED
  BY <1>2, <1>3

LEMMA ShortCheckType == TypeOK /\ check_short_rc_failsafe => TypeOK'
<1> SUFFICES ASSUME TypeOK, check_short_rc_failsafe PROVE TypeOK'
  OBVIOUS
<1> USE DEF check_short_rc_failsafe
<1>1. /\ nav \in Nav /\ long_failsafe_pending \in BOOLEAN
      /\ control_mode \in Modes /\ failsafe_saved_mode \in Modes \cup {NoMode}
  BY DEF TypeOK
<1>2. CASE ShortOn /\ rc_failsafe_short_on_event
  <2>1. failsafe' \in FailsafeType
    BY <1>2 DEF rc_failsafe_short_on_event, TypeOK, FailsafeType, Levels
  <2>2. SetMode(ShortTarget, TRUE, nav, long_failsafe_pending)
    BY <1>2 DEF rc_failsafe_short_on_event
  <2>3. QED
    BY <1>1, <1>2, <2>1, <2>2, SetModeType, TargetsAreModes
    DEF rc_failsafe_short_on_event, TypeOK, Steps
<1>3. CASE ShortOff /\ rc_failsafe_short_off_event
  <2>1. failsafe' \in FailsafeType
    BY <1>3 DEF rc_failsafe_short_off_event, TypeOK, FailsafeType, Levels
  <2>2. CASE mode_set_by_failsafe /\ failsafe_saved_mode # NoMode
    <3>1. SetMode(failsafe_saved_mode, FALSE, nav, long_failsafe_pending)
      BY <1>3, <2>2 DEF rc_failsafe_short_off_event
    <3>2. QED
      BY <1>1, <1>3, <2>1, <2>2, <3>1, SetModeType
      DEF rc_failsafe_short_off_event, TypeOK, Steps
  <2>3. CASE ~(mode_set_by_failsafe /\ failsafe_saved_mode # NoMode)
    BY <1>3, <2>1, <2>3 DEF rc_failsafe_short_off_event, KeepMode, modeVars, TypeOK, Steps
  <2>4. QED
    BY <2>2, <2>3
<1>4. CASE KeepMode /\ UNCHANGED <<failsafe, failsafe_saved_mode>>
  BY <1>4 DEF KeepMode, modeVars, TypeOK, Steps
<1>5. QED
  BY <1>2, <1>3, <1>4

LEMMA LongCheckType == TypeOK /\ check_long_failsafe => TypeOK'
<1> SUFFICES ASSUME TypeOK, check_long_failsafe PROVE TypeOK'
  OBVIOUS
<1> USE DEF check_long_failsafe
<1>1. CASE LongOn /\ failsafe_long_on_event(nav, long_failsafe_pending)
  <2>1. nav \in Nav /\ long_failsafe_pending \in BOOLEAN
    BY DEF TypeOK
  <2>2. QED
    BY <1>1, <2>1, LongEventType DEF TypeOK, Steps
<1>2. CASE LongOff /\ failsafe_long_off_event
  BY <1>2 DEF failsafe_long_off_event, TypeOK, FailsafeType, Levels, Steps
<1>3. CASE KeepMode /\ UNCHANGED failsafe
  BY <1>3 DEF KeepMode, modeVars, TypeOK, Steps
<1>4. QED
  BY <1>1, <1>2, <1>3

LEMMA ModeSwitchType == TypeOK /\ ModeSwitch => TypeOK'
<1> SUFFICES ASSUME TypeOK, ModeSwitch PROVE TypeOK'
  OBVIOUS
<1> USE DEF ModeSwitch
<1>1. CASE mode_switch_changed
  <2>1. PICK pos \in DOMAIN FlightModes :
            SetMode(FlightModes[pos], FALSE, nav, long_failsafe_pending)
    BY <1>1 DEF mode_switch_changed
  <2>2. FlightModes[pos] \in Modes
    BY ValuesAssumption
  <2>3. nav \in Nav /\ long_failsafe_pending \in BOOLEAN
    BY DEF TypeOK
  <2>4. QED
    BY <2>1, <2>2, <2>3, SetModeType DEF TypeOK, Steps
<1>2. CASE KeepMode
  BY <1>2 DEF KeepMode, modeVars, TypeOK, Steps
<1>3. QED
  BY <1>1, <1>2

LEMMA DisarmType == TypeOK /\ disarm => armed' \in BOOLEAN /\ mission' \in Mission
<1> SUFFICES ASSUME TypeOK, disarm PROVE armed' \in BOOLEAN /\ mission' \in Mission
  OBVIOUS
<1>1. [mission EXCEPT !.index = 1] \in Mission
  BY DEF TypeOK, Mission
<1>2. QED
  BY <1>1 DEF disarm, TypeOK

LEMMA ReadAuxType == TypeOK /\ ReadAux => TypeOK'
<1> SUFFICES ASSUME TypeOK, ReadAux PROVE TypeOK'
  OBVIOUS
<1>1. PICK func \in AuxFunctions : dispatch_aux_function(func)
  BY DEF ReadAux
<1> USE DEF ReadAux
<1>2. CASE func = "ArmDisarm" /\ (arm \/ disarm) /\ UNCHANGED <<emergency_landing, modeVars, nav>>
  <2>1. armed' \in BOOLEAN /\ mission' \in Mission
    BY <1>2, DisarmType DEF arm, TypeOK
  <2>2. QED
    BY <1>2, <2>1 DEF TypeOK, modeVars
<1>3. CASE /\ emergency_landing' \in BOOLEAN
           /\ UNCHANGED <<armed, mission, modeVars, nav>>
  BY <1>3 DEF TypeOK, modeVars
<1>4. CASE /\ func \in AuxModes
           /\ SetMode(func, FALSE, nav, long_failsafe_pending)
           /\ UNCHANGED <<emergency_landing, armed, mission>>
  <2>1. func \in Modes /\ nav \in Nav /\ long_failsafe_pending \in BOOLEAN
    BY <1>4 DEF AuxModes, TypeOK
  <2>2. QED
    BY <1>4, <2>1, SetModeType DEF TypeOK
<1>5. QED
  BY <1>1, <1>2, <1>3, <1>4 DEF dispatch_aux_function

LEMMA CompleteItemType ==
    ASSUME TypeOK, NEW n \in Nav, CompleteItem(n)
    PROVE  /\ control_mode' \in Modes
           /\ mode_set_by_failsafe' \in BOOLEAN
           /\ long_failsafe_pending' \in BOOLEAN
           /\ nav' \in Nav
           /\ mission' \in Mission
<1>1. CASE mission.index < Len(mission.items)
  <2>1. mission.items[mission.index + 1] \in Commands
    BY <1>1 DEF TypeOK, Mission
  <2>2. mission' \in Mission
    BY <1>1 DEF CompleteItem, TypeOK, Mission
  <2>3. QED
    BY <1>1, <2>1, <2>2, StartItemType DEF CompleteItem, TypeOK, modeVars
<1>2. CASE ~(mission.index < Len(mission.items))
  <2>1. long_failsafe_pending \in BOOLEAN /\ "RTL" \in Modes
    BY DEF TypeOK, Modes
  <2>2. QED
    BY <1>2, <2>1, SetModeType DEF CompleteItem, TypeOK
<1>3. QED
  BY <1>1, <1>2

LEMMA NavigateType == TypeOK /\ Navigate => TypeOK'
<1> SUFFICES ASSUME TypeOK, Navigate PROVE TypeOK'
  OBVIOUS
<1> USE DEF Navigate
<1>1. CASE NavigateCruise
  <2>1. cruise' \in HeadingLock
    BY <1>1, TimesAssumption DEF NavigateCruise, TypeOK, HeadingLock, TimerCap
  <2>2. nav' \in Nav
    BY <1>1 DEF NavigateCruise, TypeOK, Nav, Targets
  <2>3. QED
    BY <1>1, <2>1, <2>2 DEF NavigateCruise, TypeOK, Steps, modeVars
<1>2. CASE NavigateAuto
  <2>1. ASSUME NEW n \in Nav, CompleteItem(n) \/ ContinueItem(n)
        PROVE  /\ control_mode' \in Modes
               /\ mode_set_by_failsafe' \in BOOLEAN
               /\ long_failsafe_pending' \in BOOLEAN
               /\ nav' \in Nav
               /\ mission' \in Mission
    BY <2>1, CompleteItemType DEF ContinueItem, TypeOK, modeVars
  <2>2. PICK n \in Nav : CompleteItem(n) \/ ContinueItem(n)
    <3>1. nav \in Nav /\ armed \in BOOLEAN /\ nav.hold_course \in BOOLEAN
      BY DEF TypeOK, Nav
    <3>2. [nav EXCEPT !.next_WP = "here", !.hold_course = FALSE] \in Nav
      BY <3>1 DEF Nav, Targets
    <3>3. ASSUME NEW b \in BOOLEAN PROVE [nav EXCEPT !.hold_course = b] \in Nav
      BY <3>1 DEF Nav
    <3>4. ASSUME NEW stage \in verify_land(nav.landing_stage)
          PROVE [nav EXCEPT !.landing_stage = stage] \in Nav
      BY <3>1 DEF Nav, verify_land, Stages
    <3>5. QED
      BY <1>2, <3>1, <3>2, <3>3, <3>4 DEF NavigateAuto
  <2>3. QED
    BY <1>2, <2>1, <2>2 DEF NavigateAuto, TypeOK, Steps
<1>3. CASE NavigateNothing
  BY <1>3 DEF NavigateNothing, TypeOK, Steps, modeVars
<1>4. QED
  BY <1>1, <1>2, <1>3

LEMMA TakeoffLegType ==
    ASSUME NEW n \in Nav, NEW speed \in BOOLEAN, NEW level \in BOOLEAN, NEW high \in BOOLEAN
    PROVE  TakeoffLeg(n, speed, level, high) \in Nav
<1> DEFINE n1 == IF n.setup THEN n
                 ELSE [n EXCEPT !.next_WP = "takeoff_leg", !.setup = speed,
                                !.hold_course = @ \/ speed]
           n2 == IF ~n1.climbed /\ ~n1.hold_course /\ level
                 THEN [n1 EXCEPT !.next_WP = "takeoff_leg", !.hold_course = TRUE]
                 ELSE n1
<1>1. ASSUME NEW m \in Nav, NEW a \in BOOLEAN, NEW b \in BOOLEAN
      PROVE  [m EXCEPT !.next_WP = "takeoff_leg", !.setup = a, !.hold_course = b] \in Nav
  BY <1>1 DEF Nav, Targets
<1>2. ASSUME NEW m \in Nav, NEW a \in BOOLEAN
      PROVE  /\ [m EXCEPT !.next_WP = "takeoff_leg", !.hold_course = a] \in Nav
             /\ [m EXCEPT !.climbed = a] \in Nav
  BY <1>2 DEF Nav, Targets
<1>3. n1 \in Nav
  <2>1. n.hold_course \/ speed \in BOOLEAN
    BY DEF Nav
  <2>2. QED
    BY <1>1, <2>1
<1>4. n2 \in Nav
  BY <1>2, <1>3
<1>5. n2.climbed \/ high \in BOOLEAN
  BY <1>4 DEF Nav
<1>6. QED
  BY <1>2, <1>4, <1>5 DEF TakeoffLeg

LEMMA UpdateType == TypeOK /\ Update => TypeOK'
<1> SUFFICES ASSUME TypeOK, Update PROVE TypeOK'
  OBVIOUS
<1> USE DEF Update
<1>1. CASE UpdateCruise
  BY <1>1, TimesAssumption DEF UpdateCruise, TypeOK, HeadingLock, TimerCap, Steps, modeVars
<1>2. CASE UpdateAuto
  <2>1. nav' \in Nav
    BY <1>2 DEF UpdateAuto, TypeOK, Nav, Stages
  <2>2. QED
    BY <1>2, <2>1 DEF UpdateAuto, TypeOK, Steps, modeVars
<1>3. CASE UpdateTakeoff
  <2>1. PICK speed \in BOOLEAN, level \in BOOLEAN, high \in BOOLEAN :
            LET n == TakeoffLeg(nav, speed, level, high)
            IN  IF n.climbed /\ long_failsafe_pending
                THEN failsafe_long_on_event(n, FALSE)
                ELSE nav' = n /\ UNCHANGED <<failsafe, modeVars>>
    BY <1>3 DEF UpdateTakeoff
  <2> DEFINE n == TakeoffLeg(nav, speed, level, high)
  <2>2. n \in Nav
    BY TakeoffLegType DEF TypeOK
  <2> HIDE DEF n
  <2>3. CASE n.climbed /\ long_failsafe_pending
    BY <1>3, <2>1, <2>2, <2>3, LongEventType DEF UpdateTakeoff, TypeOK, Steps, n
  <2>4. CASE ~(n.climbed /\ long_failsafe_pending)
    BY <1>3, <2>1, <2>2, <2>4 DEF UpdateTakeoff, TypeOK, Steps, modeVars, n
  <2>5. QED
    BY <2>3, <2>4
<1>4. CASE UpdateNothing
  BY <1>4 DEF UpdateNothing, TypeOK, Steps, modeVars
<1>5. QED
  BY <1>1, <1>2, <1>3, <1>4

LEMMA GcsType == TypeOK /\ (GcsSetMode \/ GcsArm \/ GcsSetMission) => TypeOK'
<1> SUFFICES ASSUME TypeOK, GcsSetMode \/ GcsArm \/ GcsSetMission PROVE TypeOK'
  OBVIOUS
<1> USE DEF BetweenTicks
<1>1. CASE GcsSetMode
  <2>1. PICK m \in GcsModes : SetMode(m, FALSE, nav, long_failsafe_pending)
    BY <1>1 DEF GcsSetMode
  <2>2. m \in Modes /\ nav \in Nav /\ long_failsafe_pending \in BOOLEAN
    BY ValuesAssumption DEF TypeOK
  <2>3. QED
    BY <1>1, <2>1, <2>2, SetModeType DEF GcsSetMode, TypeOK
<1>2. CASE GcsArm
  BY <1>2, DisarmType DEF GcsArm, TypeOK, modeVars
<1>3. CASE GcsSetMission
  <2>1. mission' \in Mission
    BY <1>3, ValuesAssumption DEF GcsSetMission, Mission
  <2>2. QED
    BY <1>3, <2>1 DEF GcsSetMission, TypeOK, modeVars
<1>4. QED
  BY <1>1, <1>2, <1>3

LEMMA TypeStep == TypeOK /\ [Next]_vars => TypeOK'
<1> SUFFICES ASSUME TypeOK, [Next]_vars PROVE TypeOK'
  OBVIOUS
<1>1. CASE ReceiveFrame
  <2>1. PICK ok \in BOOLEAN, centred \in BOOLEAN :
            StartTick([seen |-> TRUE, thr_ok |-> ok, centred |-> centred], TRUE)
    BY <1>1 DEF ReceiveFrame
  <2>2. QED
    BY <2>1, StartTickType DEF Channels
<1>2. CASE NoFrame
  BY <1>2, StartTickType DEF NoFrame, TypeOK
<1>3. CASE AuxDone
  BY <1>3 DEF AuxDone, TypeOK, Steps, modeVars
<1>4. CASE UNCHANGED vars
  BY <1>4 DEF vars, modeVars, TypeOK
<1>5. QED
  BY <1>1, <1>2, <1>3, <1>4, ShortCheckType, LongCheckType, ModeSwitchType, ReadAuxType,
     NavigateType, UpdateType, GcsType DEF Next, Tick

\* Every variable keeps its type (TypeOK), whatever the constants.
THEOREM TypeCorrect == Spec => []TypeOK
<1>1. Init => TypeOK
  BY TypeInit
<1>2. TypeOK /\ [Next]_vars => TypeOK'
  BY TypeStep
<1>3. QED
  BY <1>1, <1>2, PTL DEF Spec

-----------------------------------------------------------------------------
(* The inductive invariant: the detector and the level on one side, the    *)
(* mode and its owner on the other.  LevelInv adds to LevelFollowsLatch    *)
(* what holds between the two checks of a tick, SavedIsRestorable what a   *)
(* short failsafe has saved: neither property is inductive without.        *)

FailsafeInv == LatchIsCounted /\ DetectorOffIsSilent /\ LevelInv
ModeInv     == PendingOnlyInClimbOut /\ OwnedModeIsConfigured /\ SavedIsRestorable
IInv        == TypeOK /\ FailsafeInv /\ ModeInv

LEMMA SafetyInit == Init => IInv
<1> SUFFICES ASSUME Init PROVE FailsafeInv /\ ModeInv
  BY TypeInit DEF IInv
<1>1. LatchIsCounted /\ DetectorOffIsSilent
  BY TimesAssumption DEF Init, LatchIsCounted, DetectorOffIsSilent
<1>2. LevelInv
  BY DEF Init, LevelInv, LevelFollowsLatch, Checked
<1>3. ModeInv
  BY DEF Init, ModeInv, PendingOnlyInClimbOut, OwnedModeIsConfigured, SavedIsRestorable
<1>4. QED
  BY <1>1, <1>2, <1>3 DEF FailsafeInv

-----------------------------------------------------------------------------
(* The detector and the level.                                             *)

\* The detector touches the counter and the latch only, keeps them in step,
\* and does nothing while it is off or has not seen a frame.
LEMMA DetectorStep ==
    ASSUME TypeOK, NEW r \in Channels, NEW f \in FailsafeType, NEW g,
           g = update_throttle_failsafe(r, f),
           f.rc_failsafe => f.throttle_counter > 0,
           ~f.rc_failsafe => f.throttle_counter < FsLatch
    PROVE  /\ g.state = f.state /\ g.age = f.age
           /\ g.rc_failsafe => g.throttle_counter > 0
           /\ ~g.rc_failsafe => g.throttle_counter < FsLatch
           /\ (aparm.throttle_fs # "Enabled" /\ ~f.rc_failsafe) \/ ~r.seen => g = f
<1>1. f.throttle_counter \in 0..FsLatch /\ f.rc_failsafe \in BOOLEAN
  BY DEF FailsafeType
<1> DEFINE up   == Lesser(f.throttle_counter + 1, FsLatch)
           down == Lesser(f.throttle_counter - 1, FsRecover)
<1>2. CASE g = f
  BY <1>2
<1>3. CASE g = CountBad(f)
  <2>1. /\ g.throttle_counter = up /\ g.state = f.state /\ g.age = f.age
        /\ g.rc_failsafe <=> f.rc_failsafe \/ f.throttle_counter + 1 = FsLatch
    BY <1>3 DEF CountBad, FailsafeType
  <2>2. up > 0 /\ (f.throttle_counter + 1 < FsLatch => up < FsLatch)
    BY <1>1, TimesAssumption DEF Lesser
  <2>3. ~g.rc_failsafe => f.throttle_counter + 1 < FsLatch
    <3>1. ~g.rc_failsafe => ~f.rc_failsafe /\ f.throttle_counter + 1 # FsLatch
      BY <2>1
    <3>2. ~f.rc_failsafe => f.throttle_counter < FsLatch
      OBVIOUS
    <3>3. QED
      BY <1>1, <3>1, <3>2, TimesAssumption
  <2>4. (aparm.throttle_fs # "Enabled" /\ ~f.rc_failsafe) \/ ~r.seen => g = f
    BY DEF update_throttle_failsafe
  <2>5. g.throttle_counter > 0
    BY <2>1, <2>2
  <2>6. ~g.rc_failsafe => g.throttle_counter < FsLatch
    BY <2>1, <2>2, <2>3
  <2>7. QED
    BY <2>1, <2>4, <2>5, <2>6, Zenon
<1>4. CASE f.throttle_counter > 0 /\ g = CountGood(f)
  <2>1. /\ g.throttle_counter = down /\ g.state = f.state /\ g.age = f.age
        /\ g.rc_failsafe => down # 0
    BY <1>4 DEF CountGood, FailsafeType
  <2>2. down \in Nat /\ down < FsLatch
    BY <1>1, <1>4, TimesAssumption DEF Lesser
  <2>3. g.rc_failsafe => g.throttle_counter > 0
    BY <2>1, <2>2
  <2>4. g.throttle_counter < FsLatch
    BY <2>1, <2>2
  <2>5. (aparm.throttle_fs # "Enabled" /\ ~f.rc_failsafe) \/ ~r.seen => g = f
    BY DEF update_throttle_failsafe
  <2>6. QED
    BY <2>1, <2>3, <2>4, <2>5, Zenon
<1>5. QED
  BY <1>2, <1>3, <1>4 DEF update_throttle_failsafe

LEMMA StartTickSafe ==
    ASSUME IInv, NEW r \in Channels, NEW new \in BOOLEAN, StartTick(r, new), rc.seen => r.seen
    PROVE  FailsafeInv' /\ ModeInv'
<1> DEFINE f == [failsafe EXCEPT !.age = IF new /\ rc_throttle_value_ok(r) THEN 0 ELSE Older(@)]
<1>1. failsafe.age \in 0..AgeCap
  BY DEF IInv, TypeOK, FailsafeType
<1>2. (IF new /\ rc_throttle_value_ok(r) THEN 0 ELSE Older(failsafe.age)) \in 0..AgeCap
  BY <1>1, TimesAssumption DEF Older, Lesser, AgeCap
<1>3. /\ f \in FailsafeType /\ f.state = failsafe.state
      /\ f.rc_failsafe = failsafe.rc_failsafe
      /\ f.throttle_counter = failsafe.throttle_counter
  BY <1>2 DEF IInv, TypeOK, FailsafeType
<1>4. failsafe' = update_throttle_failsafe(r, f)
  BY DEF StartTick
<1> HIDE DEF f
<1>5. /\ failsafe'.state = failsafe.state
      /\ failsafe'.rc_failsafe => failsafe'.throttle_counter > 0
      /\ ~failsafe'.rc_failsafe => failsafe'.throttle_counter < FsLatch
      /\ (aparm.throttle_fs # "Enabled" /\ ~failsafe.rc_failsafe) \/ ~r.seen => failsafe' = f
  BY <1>3, <1>4, DetectorStep DEF IInv, FailsafeInv, LatchIsCounted
<1>6. LatchIsCounted'
  BY <1>5 DEF LatchIsCounted
<1>7. DetectorOffIsSilent'
  <2>1. rc' = r /\ aparm' = aparm
    BY DEF StartTick
  <2> SUFFICES ASSUME aparm.throttle_fs # "Enabled" \/ ~r.seen
               PROVE  /\ failsafe'.throttle_counter = 0
                      /\ ~failsafe'.rc_failsafe /\ failsafe'.state = "None"
    BY <2>1 DEF DetectorOffIsSilent
  <2>2. failsafe.throttle_counter = 0 /\ ~failsafe.rc_failsafe /\ failsafe.state = "None"
    BY DEF IInv, FailsafeInv, DetectorOffIsSilent
  <2>3. QED
    BY <1>3, <1>5, <2>2
<1>8. LevelInv'
  BY DEF StartTick, LevelInv, LevelFollowsLatch, Checked
<1>9. ModeInv'
  BY <1>5 DEF StartTick, modeVars, IInv, ModeInv, PendingOnlyInClimbOut,
              OwnedModeIsConfigured, SavedIsRestorable
<1>10. QED
  BY <1>6, <1>7, <1>8, <1>9 DEF FailsafeInv

\* After the checks of a tick nothing moves the latch or the level.
LEMMA FailsafeKept ==
    ASSUME FailsafeInv, UNCHANGED <<aparm, rc, failsafe>>,
           Checked, pc' # "short_failsafe", pc' # "long_failsafe"
    PROVE  FailsafeInv'
  BY DEF FailsafeInv, LatchIsCounted, DetectorOffIsSilent, LevelInv, LevelFollowsLatch, Checked

-----------------------------------------------------------------------------
(* The mode and its owner.                                                 *)

\* A deliberate change of mode, by whomever.
LEMMA DeliberateMode ==
    ASSUME IInv, NEW m \in Modes, NEW n \in Nav, n.climbed = nav.climbed,
           SetMode(m, FALSE, n, long_failsafe_pending),
           UNCHANGED <<aparm, failsafe, failsafe_saved_mode>>
    PROVE  ModeInv'
<1>1. CASE m = control_mode
  BY <1>1 DEF SetMode, IInv, ModeInv, PendingOnlyInClimbOut, OwnedModeIsConfigured,
              SavedIsRestorable
<1>2. CASE m # control_mode
  BY <1>2 DEF SetMode, ModeInv, PendingOnlyInClimbOut, OwnedModeIsConfigured,
              SavedIsRestorable
<1>3. QED
  BY <1>1, <1>2

LEMMA ModeKept ==
    ASSUME ModeInv, nav'.climbed = nav.climbed,
           UNCHANGED <<aparm, failsafe, failsafe_saved_mode, modeVars>>
    PROVE  ModeInv'
  BY DEF ModeInv, PendingOnlyInClimbOut, OwnedModeIsConfigured, SavedIsRestorable, modeVars

\* A long failsafe raised, with nothing postponed before.
LEMMA LongEventMode ==
    ASSUME IInv, NEW n \in Nav, failsafe_long_on_event(n, FALSE), UNCHANGED aparm
    PROVE  ModeInv'
<1>1. failsafe'.state = "Long"
  BY DEF failsafe_long_on_event, IInv, TypeOK, FailsafeType
<1>2. CASE LongDefers(n)
  BY <1>1, <1>2 DEF failsafe_long_on_event, LongDefers, IInv, ModeInv, PendingOnlyInClimbOut,
                    OwnedModeIsConfigured, SavedIsRestorable
<1>3. CASE ~LongDefers(n)
  <2>1. SetMode(LongTarget, TRUE, n, FALSE)
    BY <1>3 DEF failsafe_long_on_event
  <2>2. ~long_failsafe_pending'
    BY <2>1 DEF SetMode
  <2>3. OwnedModeIsConfigured'
    <3>1. CASE LongTarget = control_mode
      BY <2>1, <3>1 DEF SetMode, IInv, ModeInv, OwnedModeIsConfigured
    <3>2. CASE LongTarget # control_mode
      <4>1. control_mode' = LongTarget
        BY <2>1, <3>2 DEF SetMode
      <4>2. LongTarget \in {"RTL", "FBWA"} \/ (LongTarget = "AUTO" /\ aparm.fs_long = "Auto")
        BY <3>2 DEF LongTarget, apply_fs_action_long
      <4>3. QED
        BY <4>1, <4>2 DEF OwnedModeIsConfigured
    <3>3. QED
      BY <3>1, <3>2
  <2>4. QED
    BY <1>1, <2>2, <2>3 DEF ModeInv, PendingOnlyInClimbOut, SavedIsRestorable
<1>4. QED
  BY <1>2, <1>3

-----------------------------------------------------------------------------
(* The invariant across the steps of a tick.                               *)

\* A leg laid by a command does not touch the climb-out flag.
LEMMA StartItemClimb ==
    ASSUME NEW cmd, NEW n \in Nav
    PROVE  StartItem(cmd, n).climbed = n.climbed
BY DEF StartItem, Nav

\* A short failsafe raised.
LEMMA ShortOnSafe ==
    ASSUME IInv, pc = "short_failsafe", pc' = "long_failsafe",
           ShortOn, rc_failsafe_short_on_event, UNCHANGED <<aparm, rc>>
    PROVE  FailsafeInv' /\ ModeInv'
<1>1. /\ failsafe'.state = "Short"
      /\ failsafe'.rc_failsafe = failsafe.rc_failsafe
      /\ failsafe'.throttle_counter = failsafe.throttle_counter
      /\ failsafe.rc_failsafe
  BY DEF ShortOn, rc_failsafe_short_on_event, IInv, TypeOK, FailsafeType
<1>2. FailsafeInv'
  BY <1>1 DEF IInv, FailsafeInv, LatchIsCounted, DetectorOffIsSilent, LevelInv,
              LevelFollowsLatch, Checked
<1>3. ~long_failsafe_pending
  BY DEF ShortOn, IInv, ModeInv, PendingOnlyInClimbOut
<1>4. SetMode(ShortTarget, TRUE, nav, long_failsafe_pending)
      /\ failsafe_saved_mode' = control_mode
  BY DEF rc_failsafe_short_on_event
<1>5. PendingOnlyInClimbOut'
  BY <1>3, <1>4 DEF SetMode, PendingOnlyInClimbOut
<1>6. CASE ShortTarget = control_mode
  BY <1>1, <1>2, <1>4, <1>5, <1>6 DEF SetMode, IInv, ModeInv, OwnedModeIsConfigured, SavedIsRestorable
<1>7. CASE ShortTarget # control_mode
  <2>1. /\ ShortTarget \in {"RTL", "FBWA"} \/ (ShortTarget = "FBWB" /\ aparm.fs_short = "Fbwb")
        /\ control_mode \in RestoredModes
    BY <1>7 DEF ShortTarget, apply_fs_action_short, RestoredModes
  <2>2. control_mode' = ShortTarget
    BY <1>4, <1>7 DEF SetMode
  <2>3. QED
    BY <1>2, <1>4, <1>5, <2>1, <2>2 DEF ModeInv, OwnedModeIsConfigured, SavedIsRestorable
<1>8. QED
  BY <1>6, <1>7

\* A short failsafe cleared.
LEMMA ShortOffSafe ==
    ASSUME IInv, pc = "short_failsafe", pc' = "long_failsafe",
           ShortOff, rc_failsafe_short_off_event, UNCHANGED <<aparm, rc>>
    PROVE  FailsafeInv' /\ ModeInv'
<1>1. /\ failsafe'.state = "None"
      /\ failsafe'.rc_failsafe = failsafe.rc_failsafe
      /\ failsafe'.throttle_counter = failsafe.throttle_counter
      /\ failsafe.state = "Short"
      /\ ~failsafe.rc_failsafe \/ aparm.fs_short = "Disabled"
  BY DEF ShortOff, rc_failsafe_short_off_event, IInv, TypeOK, FailsafeType
<1>2. FailsafeInv'
  BY <1>1 DEF IInv, FailsafeInv, LatchIsCounted, DetectorOffIsSilent, LevelInv,
              LevelFollowsLatch, Checked
<1>3. ~long_failsafe_pending
  BY <1>1 DEF IInv, ModeInv, PendingOnlyInClimbOut
<1>4. PendingOnlyInClimbOut' /\ OwnedModeIsConfigured'
  BY <1>3 DEF rc_failsafe_short_off_event, SetMode, KeepMode, modeVars, IInv, ModeInv,
              PendingOnlyInClimbOut, OwnedModeIsConfigured
<1>5. SavedIsRestorable'
  BY <1>1 DEF SavedIsRestorable
<1>6. QED
  BY <1>2, <1>4, <1>5 DEF ModeInv

LEMMA ShortCheckSafe == IInv /\ check_short_rc_failsafe => FailsafeInv' /\ ModeInv'
<1> SUFFICES ASSUME IInv, check_short_rc_failsafe PROVE FailsafeInv' /\ ModeInv'
  OBVIOUS
<1>1. pc = "short_failsafe" /\ pc' = "long_failsafe" /\ UNCHANGED <<aparm, rc>>
  BY DEF check_short_rc_failsafe
<1>2. CASE ShortOn /\ rc_failsafe_short_on_event
  BY <1>1, <1>2, ShortOnSafe
<1>3. CASE ShortOff /\ rc_failsafe_short_off_event
  BY <1>1, <1>3, ShortOffSafe
<1>4. CASE ~ShortOn /\ ~ShortOff /\ KeepMode /\ UNCHANGED <<failsafe, failsafe_saved_mode>>
  <2>1. FailsafeInv'
    BY <1>1, <1>4 DEF ShortOn, ShortOff, IInv, TypeOK, FailsafeType, Levels, FailsafeInv,
       LatchIsCounted, DetectorOffIsSilent, LevelInv, LevelFollowsLatch, Checked
  <2>2. ModeInv'
    BY <1>1, <1>4, ModeKept DEF KeepMode, IInv
  <2>3. QED
    BY <2>1, <2>2
<1>5. QED
  BY <1>2, <1>3, <1>4 DEF check_short_rc_failsafe

LEMMA LongCheckSafe == IInv /\ check_long_failsafe => FailsafeInv' /\ ModeInv'
<1> SUFFICES ASSUME IInv, check_long_failsafe PROVE FailsafeInv' /\ ModeInv'
  OBVIOUS
<1>1. /\ pc = "long_failsafe" /\ pc' = "mode_switch"
      /\ UNCHANGED <<aparm, rc, failsafe_saved_mode>>
  BY DEF check_long_failsafe
<1>2. nav \in Nav /\ failsafe \in FailsafeType /\ long_failsafe_pending \in BOOLEAN
  BY DEF IInv, TypeOK
<1>3. CASE LongOn /\ failsafe_long_on_event(nav, long_failsafe_pending)
  <2>1. /\ failsafe'.state = "Long" /\ failsafe.rc_failsafe
        /\ failsafe'.rc_failsafe = failsafe.rc_failsafe
        /\ failsafe'.throttle_counter = failsafe.throttle_counter
    BY <1>2, <1>3 DEF LongOn, failsafe_long_on_event, FailsafeType
  <2>2. FailsafeInv'
    BY <1>1, <2>1 DEF IInv, FailsafeInv, LatchIsCounted, DetectorOffIsSilent, LevelInv,
                LevelFollowsLatch, Checked
  <2>3. long_failsafe_pending = FALSE
    BY <1>2, <1>3 DEF LongOn, IInv, ModeInv, PendingOnlyInClimbOut
  <2>4. ModeInv'
    BY <1>1, <1>2, <1>3, <2>3, LongEventMode
  <2>5. QED
    BY <2>2, <2>4
<1>4. CASE LongOff /\ failsafe_long_off_event
  <2>1. /\ failsafe'.state = "None" /\ ~failsafe.rc_failsafe
        /\ failsafe'.rc_failsafe = failsafe.rc_failsafe
        /\ failsafe'.throttle_counter = failsafe.throttle_counter
    BY <1>2, <1>4 DEF LongOff, failsafe_long_off_event, FailsafeType
  <2>2. FailsafeInv'
    BY <1>1, <2>1 DEF IInv, FailsafeInv, LatchIsCounted, DetectorOffIsSilent, LevelInv,
                LevelFollowsLatch, Checked
  <2>3. ModeInv'
    BY <1>1, <1>4, <2>1 DEF failsafe_long_off_event, IInv, ModeInv, PendingOnlyInClimbOut,
                OwnedModeIsConfigured, SavedIsRestorable
  <2>4. QED
    BY <2>2, <2>3
<1>5. CASE ~LongOn /\ ~LongOff /\ KeepMode /\ UNCHANGED failsafe
  <2>1. FailsafeInv'
    <3>1. LatchIsCounted' /\ DetectorOffIsSilent'
      BY <1>1, <1>5 DEF IInv, FailsafeInv, LatchIsCounted, DetectorOffIsSilent
    <3>2. failsafe.state \in Levels
      BY <1>2 DEF FailsafeType
    <3>3. LevelInv'
      BY <1>1, <1>5, <3>2 DEF LongOn, LongOff, Levels, IInv, FailsafeInv, LevelInv,
                LevelFollowsLatch, Checked
    <3>4. QED
      BY <3>1, <3>3 DEF FailsafeInv
  <2>2. ModeInv'
    BY <1>1, <1>5, ModeKept DEF KeepMode, IInv
  <2>3. QED
    BY <2>1, <2>2
<1>6. QED
  BY <1>3, <1>4, <1>5 DEF check_long_failsafe

LEMMA ModeSwitchSafe == IInv /\ ModeSwitch => FailsafeInv' /\ ModeInv'
<1> SUFFICES ASSUME IInv, ModeSwitch PROVE FailsafeInv' /\ ModeInv'
  OBVIOUS
<1>1. FailsafeInv'
  BY FailsafeKept DEF ModeSwitch, IInv, Checked
<1>2. CASE mode_switch_changed
  <2>1. PICK pos \in DOMAIN FlightModes :
            SetMode(FlightModes[pos], FALSE, nav, long_failsafe_pending)
    BY <1>2 DEF mode_switch_changed
  <2>2. FlightModes[pos] \in Modes /\ nav \in Nav
    BY ValuesAssumption DEF IInv, TypeOK
  <2>3. QED
    BY <1>1, <2>1, <2>2, DeliberateMode DEF ModeSwitch
<1>3. CASE KeepMode
  BY <1>1, <1>3, ModeKept DEF ModeSwitch, KeepMode, IInv
<1>4. QED
  BY <1>2, <1>3 DEF ModeSwitch

LEMMA ReadAuxSafe == IInv /\ ReadAux => FailsafeInv' /\ ModeInv'
<1> SUFFICES ASSUME IInv, ReadAux PROVE FailsafeInv' /\ ModeInv'
  OBVIOUS
<1>1. FailsafeInv'
  BY FailsafeKept DEF ReadAux, IInv, Checked
<1>2. PICK func \in AuxFunctions : dispatch_aux_function(func)
  BY DEF ReadAux
<1>3. CASE UNCHANGED <<modeVars, nav>>
  BY <1>1, <1>3, ModeKept DEF ReadAux, IInv
<1>4. CASE func \in AuxModes /\ SetMode(func, FALSE, nav, long_failsafe_pending)
  <2>1. func \in Modes /\ nav \in Nav
    BY <1>4 DEF AuxModes, IInv, TypeOK
  <2>2. QED
    BY <1>1, <1>4, <2>1, DeliberateMode DEF ReadAux
<1>5. QED
  BY <1>2, <1>3, <1>4 DEF dispatch_aux_function

LEMMA CompleteItemSafe ==
    ASSUME IInv, NEW n \in Nav, n.climbed = nav.climbed, CompleteItem(n),
           UNCHANGED <<aparm, failsafe, failsafe_saved_mode>>
    PROVE  ModeInv'
<1>1. CASE mission.index < Len(mission.items)
  <2>1. nav'.climbed = nav.climbed /\ UNCHANGED modeVars
    BY <1>1, StartItemClimb DEF CompleteItem
  <2>2. QED
    BY <2>1, ModeKept DEF IInv
<1>2. CASE ~(mission.index < Len(mission.items))
  BY <1>2, DeliberateMode DEF CompleteItem, Modes
<1>3. QED
  BY <1>1, <1>2

LEMMA NavigateSafe == IInv /\ Navigate => FailsafeInv' /\ ModeInv'
<1> SUFFICES ASSUME IInv, Navigate PROVE FailsafeInv' /\ ModeInv'
  OBVIOUS
<1>1. FailsafeInv'
  BY FailsafeKept DEF Navigate, IInv, Checked
<1>2. nav \in Nav /\ UNCHANGED <<aparm, failsafe, failsafe_saved_mode>>
  BY DEF Navigate, IInv, TypeOK
<1>3. ASSUME NEW n \in Nav, n.climbed = nav.climbed, ContinueItem(n)
      PROVE  FailsafeInv' /\ ModeInv'
  BY <1>1, <1>2, <1>3, ModeKept DEF ContinueItem, IInv
<1>4. CASE NavigateCruise
  <2>1. nav'.climbed = nav.climbed /\ UNCHANGED modeVars
    BY <1>2, <1>4 DEF NavigateCruise, Nav
  <2>2. QED
    BY <1>1, <1>2, <2>1, ModeKept DEF IInv
<1>5. CASE NavigateAuto
  <2>1. CASE Item(mission) = "Takeoff"
    <3>1. PICK gps \in BOOLEAN, high \in BOOLEAN :
              LET held == nav.hold_course \/ (gps /\ armed)
              IN  IF high THEN CompleteItem([nav EXCEPT !.next_WP = "here",
                                                        !.hold_course = FALSE])
                          ELSE ContinueItem([nav EXCEPT !.hold_course = held])
      BY <1>5, <2>1 DEF NavigateAuto
    <3> DEFINE held == nav.hold_course \/ (gps /\ armed)
               n1 == [nav EXCEPT !.next_WP = "here", !.hold_course = FALSE]
               n2 == [nav EXCEPT !.hold_course = held]
    <3>2. held \in BOOLEAN
      BY <1>2 DEF IInv, TypeOK, Nav
    <3>3. n1 \in Nav /\ n1.climbed = nav.climbed
      BY <1>2 DEF Nav, Targets
    <3>4. n2 \in Nav /\ n2.climbed = nav.climbed
      BY <1>2, <3>2 DEF Nav
    <3>5. CompleteItem(n1) \/ ContinueItem(n2)
      BY <3>1
    <3> HIDE DEF n1, n2
    <3>6. QED
      BY <1>1, <1>2, <1>3, <3>3, <3>4, <3>5, CompleteItemSafe
  <2>2. CASE Item(mission) = "Land"
    <3>1. PICK stage \in verify_land(nav.landing_stage) :
              ContinueItem([nav EXCEPT !.landing_stage = stage])
      BY <1>5, <2>2 DEF NavigateAuto
    <3>2. nav.landing_stage \in Stages
      BY <1>2 DEF Nav
    <3>3. stage \in Stages
      BY <3>1, <3>2 DEF verify_land, Stages
    <3>4. [nav EXCEPT !.landing_stage = stage] \in Nav
          /\ [nav EXCEPT !.landing_stage = stage].climbed = nav.climbed
      BY <1>2, <3>3 DEF Nav
    <3>5. QED
      BY <1>3, <3>1, <3>4
  <2>3. CASE CompleteItem(nav) \/ ContinueItem(nav)
    BY <1>1, <1>2, <1>3, <2>3, CompleteItemSafe
  <2>4. QED
    BY <1>5, <2>1, <2>2, <2>3 DEF NavigateAuto
<1>6. CASE NavigateNothing
  BY <1>1, <1>2, <1>6, ModeKept DEF NavigateNothing, IInv
<1>7. QED
  BY <1>4, <1>5, <1>6 DEF Navigate

\* One call of TAKEOFF.update() may raise the climb-out flag, and takes up a
\* postponed failsafe when it does.
LEMMA TakeoffSafe ==
    ASSUME IInv, pc = "update", pc' = "read_rc", UpdateTakeoff,
           UNCHANGED <<aparm, rc, failsafe_saved_mode>>
    PROVE  FailsafeInv' /\ ModeInv'
<1>1. PICK speed \in BOOLEAN, level \in BOOLEAN, high \in BOOLEAN :
          LET n == TakeoffLeg(nav, speed, level, high)
          IN  IF n.climbed /\ long_failsafe_pending
              THEN failsafe_long_on_event(n, FALSE)
              ELSE nav' = n /\ UNCHANGED <<failsafe, modeVars>>
  BY DEF UpdateTakeoff
<1> DEFINE n == TakeoffLeg(nav, speed, level, high)
<1>2. n \in Nav
  BY TakeoffLegType DEF IInv, TypeOK
<1>3. failsafe \in FailsafeType
  BY DEF IInv, TypeOK
<1> HIDE DEF n
<1>4. CASE n.climbed /\ long_failsafe_pending
  <2>1. failsafe_long_on_event(n, FALSE)
    BY <1>1, <1>4 DEF n
  <2>2. failsafe.state = "Long"
    BY <1>4 DEF IInv, ModeInv, PendingOnlyInClimbOut
  <2>3. failsafe' = failsafe
    BY <1>3, <2>1, <2>2 DEF failsafe_long_on_event, FailsafeType
  <2>4. FailsafeInv'
    BY <2>3, FailsafeKept DEF IInv, Checked
  <2>5. ModeInv'
    BY <1>2, <2>1, LongEventMode
  <2>6. QED
    BY <2>4, <2>5
<1>5. CASE ~(n.climbed /\ long_failsafe_pending)
  <2>1. nav' = n /\ UNCHANGED <<failsafe, modeVars>>
    BY <1>1, <1>5 DEF n
  <2>2. FailsafeInv'
    BY <2>1, FailsafeKept DEF IInv, Checked
  <2>3. ModeInv'
    BY <1>5, <2>1 DEF modeVars, IInv, ModeInv, PendingOnlyInClimbOut,
                      OwnedModeIsConfigured, SavedIsRestorable
  <2>4. QED
    BY <2>2, <2>3
<1>6. QED
  BY <1>4, <1>5

LEMMA UpdateSafe == IInv /\ Update => FailsafeInv' /\ ModeInv'
<1> SUFFICES ASSUME IInv, Update PROVE FailsafeInv' /\ ModeInv'
  OBVIOUS
<1>1. pc = "update" /\ pc' = "read_rc" /\ UNCHANGED <<aparm, rc, failsafe_saved_mode>>
  BY DEF Update
<1>2. CASE UpdateTakeoff
  BY <1>1, <1>2, TakeoffSafe
<1>3. CASE UpdateCruise \/ UpdateAuto \/ UpdateNothing
  <2>1. UNCHANGED <<failsafe, modeVars>> /\ nav'.climbed = nav.climbed
    BY <1>3 DEF UpdateCruise, UpdateAuto, UpdateNothing, IInv, TypeOK, Nav
  <2>2. QED
    BY <1>1, <2>1, FailsafeKept, ModeKept DEF IInv, Checked
<1>4. QED
  BY <1>2, <1>3 DEF Update

LEMMA GcsSafe == IInv /\ (GcsSetMode \/ GcsArm \/ GcsSetMission) => FailsafeInv' /\ ModeInv'
<1> SUFFICES ASSUME IInv, GcsSetMode \/ GcsArm \/ GcsSetMission PROVE FailsafeInv' /\ ModeInv'
  OBVIOUS
<1>1. BetweenTicks
  BY DEF GcsSetMode, GcsArm, GcsSetMission
<1>2. FailsafeInv'
  BY <1>1, FailsafeKept DEF BetweenTicks, IInv, Checked
<1>3. CASE GcsSetMode
  <2>1. PICK m \in GcsModes : SetMode(m, FALSE, nav, long_failsafe_pending)
    BY <1>3 DEF GcsSetMode
  <2>2. m \in Modes /\ nav \in Nav
    BY ValuesAssumption DEF IInv, TypeOK
  <2>3. QED
    BY <1>1, <1>2, <2>1, <2>2, DeliberateMode DEF BetweenTicks
<1>4. CASE GcsArm \/ GcsSetMission
  BY <1>1, <1>2, <1>4, ModeKept DEF BetweenTicks, GcsArm, GcsSetMission, IInv
<1>5. QED
  BY <1>3, <1>4

LEMMA SafetyStep == IInv /\ [Next]_vars => IInv'
<1> SUFFICES ASSUME IInv, [Next]_vars PROVE FailsafeInv' /\ ModeInv'
  BY TypeStep DEF IInv
<1>1. CASE ReceiveFrame
  <2>1. PICK ok \in BOOLEAN, centred \in BOOLEAN :
            StartTick([seen |-> TRUE, thr_ok |-> ok, centred |-> centred], TRUE)
    BY <1>1 DEF ReceiveFrame
  <2>2. QED
    BY <2>1, StartTickSafe DEF Channels
<1>2. CASE NoFrame
  BY <1>2, StartTickSafe DEF NoFrame, IInv, TypeOK
<1>3. CASE AuxDone
  BY <1>3, FailsafeKept, ModeKept DEF AuxDone, IInv, Checked
<1>4. CASE UNCHANGED vars
  BY <1>4 DEF vars, modeVars, IInv, FailsafeInv, LatchIsCounted, DetectorOffIsSilent, LevelInv,
     LevelFollowsLatch, Checked, ModeInv, PendingOnlyInClimbOut, OwnedModeIsConfigured,
     SavedIsRestorable
<1>5. QED
  BY <1>1, <1>2, <1>3, <1>4, ShortCheckSafe, LongCheckSafe, ModeSwitchSafe, ReadAuxSafe,
     NavigateSafe, UpdateSafe, GcsSafe DEF Next, Tick

LEMMA Invariance == Spec => []IInv
<1>1. QED
  BY SafetyInit, SafetyStep, PTL DEF Spec

\* The debounce counter and the latch never disagree.
THEOREM LatchCounted == Spec => []LatchIsCounted
<1>1. IInv => LatchIsCounted
  BY DEF IInv, FailsafeInv
<1>2. QED
  BY <1>1, Invariance, PTL

\* A disabled detector, or one that never saw a frame, raises nothing.
THEOREM DetectorSilent == Spec => []DetectorOffIsSilent
<1>1. IInv => DetectorOffIsSilent
  BY DEF IInv, FailsafeInv
<1>2. QED
  BY <1>1, Invariance, PTL

\* After both checks of a tick the level is the one the latch and the age of
\* the last valid frame call for.
THEOREM LevelFollows == Spec => []LevelFollowsLatch
<1>1. IInv => LevelFollowsLatch
  BY DEF IInv, FailsafeInv, LevelInv
<1>2. QED
  BY <1>1, Invariance, PTL

\* A postponed long failsafe never outlives the climb-out that postponed it.
THEOREM PendingInClimbOut == Spec => []PendingOnlyInClimbOut
<1>1. IInv => PendingOnlyInClimbOut
  BY DEF IInv, ModeInv
<1>2. QED
  BY <1>1, Invariance, PTL

\* The failsafe owns only modes its configured actions select.
THEOREM OwnedConfigured == Spec => []OwnedModeIsConfigured
<1>1. IInv => OwnedModeIsConfigured
  BY DEF IInv, ModeInv
<1>2. QED
  BY <1>1, Invariance, PTL

-----------------------------------------------------------------------------
(* What a step may do to the level.                                        *)

\* Reading the receiver does not move the level.
LEMMA StartTickLevel ==
    ASSUME TypeOK, NEW r \in Channels, NEW new \in BOOLEAN, StartTick(r, new)
    PROVE  failsafe'.state = failsafe.state
<1> DEFINE f == [failsafe EXCEPT
                    !.age = IF new /\ rc_throttle_value_ok(r) THEN 0 ELSE Older(@)]
<1>1. f.state = failsafe.state /\ failsafe' = update_throttle_failsafe(r, f)
  BY DEF StartTick, TypeOK, FailsafeType
<1>2. f \in [rc_failsafe : BOOLEAN, state : Levels, throttle_counter : 0..FsLatch,
             age : {f.age}]
  BY DEF TypeOK, FailsafeType
<1> HIDE DEF f
<1>3. CountBad(f).state = f.state /\ CountGood(f).state = f.state
  BY <1>2 DEF CountBad, CountGood
<1>4. QED
  BY <1>1, <1>3 DEF update_throttle_failsafe

\* Only the two checks lower the level; the rest leaves it, or raises Long.
LEMMA LevelMoves ==
    ASSUME IInv, [Next]_vars
    PROVE  \/ failsafe'.state = failsafe.state
           \/ failsafe'.state = "Long"
           \/ ShortOn /\ rc_failsafe_short_on_event
           \/ ShortOff /\ rc_failsafe_short_off_event
           \/ LongOff /\ failsafe_long_off_event
<1>1. ASSUME NEW r \in Channels, NEW new \in BOOLEAN, StartTick(r, new)
      PROVE  failsafe'.state = failsafe.state
  BY <1>1, StartTickLevel DEF IInv
<1>2. CASE ReceiveFrame
  BY <1>1, <1>2 DEF ReceiveFrame, Channels
<1>3. CASE NoFrame
  BY <1>1, <1>3 DEF NoFrame, IInv, TypeOK
<1>4. CASE check_short_rc_failsafe
  BY <1>4 DEF check_short_rc_failsafe
<1>5. CASE check_long_failsafe
  BY <1>5 DEF check_long_failsafe, failsafe_long_on_event, IInv, TypeOK, FailsafeType
<1>6. CASE ModeSwitch \/ ReadAux \/ AuxDone \/ Navigate
  BY <1>6 DEF ModeSwitch, ReadAux, AuxDone, Navigate
<1>7. CASE Update
  <2>1. failsafe' = failsafe \/ UpdateTakeoff
    BY <1>7 DEF Update, UpdateCruise, UpdateAuto, UpdateNothing
  <2>2. UpdateTakeoff => failsafe' = failsafe \/ failsafe' = [failsafe EXCEPT !.state = "Long"]
    BY DEF UpdateTakeoff, failsafe_long_on_event
  <2>3. QED
    BY <2>1, <2>2 DEF IInv, TypeOK, FailsafeType
<1>8. CASE GcsSetMode \/ GcsArm \/ GcsSetMission
  BY <1>8 DEF GcsSetMode, GcsArm, GcsSetMission, BetweenTicks
<1>9. CASE UNCHANGED vars
  BY <1>9 DEF vars
<1>10. QED
  BY <1>2, <1>3, <1>4, <1>5, <1>6, <1>7, <1>8, <1>9 DEF Next, Tick

LEMMA LongLeftStep ==
    ASSUME IInv, [Next]_vars, failsafe.state = "Long"
    PROVE  failsafe'.state = "Long" \/ (failsafe'.state = "None" /\ ~failsafe.rc_failsafe)
<1>1. CASE LongOff /\ failsafe_long_off_event
  BY <1>1 DEF LongOff, failsafe_long_off_event, IInv, TypeOK, FailsafeType
<1>2. QED
  BY <1>1, LevelMoves DEF ShortOn, ShortOff

LEMMA RestoreStep ==
    ASSUME IInv, [Next]_vars, failsafe.state = "Short", failsafe'.state = "None",
           control_mode' # control_mode
    PROVE  control_mode' \in RestoredModes /\ control_mode \in {"RTL", "FBWA", "FBWB"}
<1>1. rc_failsafe_short_off_event
  BY LevelMoves DEF ShortOn, LongOff
<1>2. mode_set_by_failsafe /\ SetMode(failsafe_saved_mode, FALSE, nav, long_failsafe_pending)
  BY <1>1 DEF rc_failsafe_short_off_event, KeepMode, modeVars
<1>3. failsafe_saved_mode # control_mode /\ control_mode' = failsafe_saved_mode
  BY <1>2 DEF SetMode
<1>4. QED
  BY <1>2, <1>3 DEF IInv, ModeInv, SavedIsRestorable

\* A level once at Long is left by recovery alone, and never back to Short.
THEOREM LongLeft == Spec => LongIsLeftByRecovery
<1>1. IInv /\ [Next]_vars =>
        [failsafe.state = "Long" => \/ failsafe'.state = "Long"
                                    \/ failsafe'.state = "None" /\ ~failsafe.rc_failsafe]_vars
  BY LongLeftStep
<1>2. QED
  BY <1>1, Invariance, PTL DEF Spec, LongIsLeftByRecovery

\* Recovery from a short failsafe gives back a mode a short failsafe
\* interrupts, and takes it from a mode one chose.
THEOREM RestoreInterrupted == Spec => RestoreOnlyInterrupted
<1>1. IInv /\ [Next]_vars =>
        [failsafe.state = "Short" /\ failsafe'.state = "None" /\ control_mode' # control_mode
           => control_mode' \in RestoredModes /\ control_mode \in {"RTL", "FBWA", "FBWB"}]_vars
  BY RestoreStep
<1>2. QED
  BY <1>1, Invariance, PTL DEF Spec, RestoreOnlyInterrupted

-----------------------------------------------------------------------------
(* What a step may do to the leg and the landing while the mode stays.     *)

\* Asking for the mode already flown leaves the leg to the caller.
LEMMA SameModeLeg ==
    ASSUME NEW m, NEW b, NEW n, NEW p, SetMode(m, b, n, p), control_mode' = control_mode
    PROVE  nav' = n
  BY DEF SetMode

\* Only navigate() and update() touch the leg of a mode that stays.
LEMMA LegKept ==
    ASSUME [Next]_vars, control_mode' = control_mode
    PROVE  nav' = nav \/ Navigate \/ Update
<1>1. CASE ReceiveFrame \/ NoFrame \/ AuxDone \/ GcsArm \/ GcsSetMission
  BY <1>1 DEF ReceiveFrame, NoFrame, StartTick, AuxDone, GcsArm, GcsSetMission
<1>2. CASE check_short_rc_failsafe
  BY <1>2, SameModeLeg DEF check_short_rc_failsafe, rc_failsafe_short_on_event,
     rc_failsafe_short_off_event, KeepMode
<1>3. CASE check_long_failsafe
  BY <1>3, SameModeLeg DEF check_long_failsafe, failsafe_long_on_event,
     failsafe_long_off_event, KeepMode
<1>4. CASE ModeSwitch
  BY <1>4, SameModeLeg DEF ModeSwitch, mode_switch_changed, KeepMode
<1>5. CASE ReadAux
  BY <1>5, SameModeLeg DEF ReadAux, dispatch_aux_function
<1>6. CASE GcsSetMode
  BY <1>6, SameModeLeg DEF GcsSetMode
<1>7. CASE UNCHANGED vars
  BY <1>7 DEF vars
<1>8. QED
  BY <1>1, <1>2, <1>3, <1>4, <1>5, <1>6, <1>7 DEF Next, Tick

LEMMA LegMovedStep ==
    ASSUME [Next]_vars, control_mode' = control_mode, nav'.next_WP # nav.next_WP
    PROVE  mode \in {"CRUISE", "AUTO", "TAKEOFF"}
<1>1. CASE Navigate
  BY <1>1 DEF Navigate, NavigateNothing
<1>2. CASE Update
  BY <1>2 DEF Update, UpdateNothing
<1>3. QED
  BY <1>1, <1>2, LegKept

\* The leg of RTL and of LOITER, laid at entry, is moved only by the mode
\* that was left in the same tick, whatever the pilot and the station ask.
THEOREM LegMoved == Spec => LegMovedOnlyByModeLeft
<1>1. [Next]_vars =>
        [(/\ control_mode \in {"RTL", "LOITER"}
          /\ control_mode' = control_mode
          /\ nav'.next_WP # nav.next_WP)
           => mode \in {"CRUISE", "AUTO", "TAKEOFF"}]_vars
  BY LegMovedStep
<1>2. QED
  BY <1>1, PTL DEF Spec, LegMovedOnlyByModeLeft

\* The take-off leg has no say in the landing stage.
LEMMA TakeoffLegStage ==
    ASSUME NEW n \in Nav, NEW speed \in BOOLEAN, NEW level \in BOOLEAN, NEW high \in BOOLEAN
    PROVE  TakeoffLeg(n, speed, level, high).landing_stage = n.landing_stage
<1> DEFINE n1 == IF n.setup THEN n
                 ELSE [n EXCEPT !.next_WP = "takeoff_leg", !.setup = speed,
                                !.hold_course = @ \/ speed]
           n2 == IF ~n1.climbed /\ ~n1.hold_course /\ level
                 THEN [n1 EXCEPT !.next_WP = "takeoff_leg", !.hold_course = TRUE]
                 ELSE n1
           Fields(m) == m \in [next_WP : {m.next_WP}, landing_stage : {n.landing_stage},
                               hold_course : {m.hold_course}, setup : {m.setup},
                               climbed : {m.climbed}]
<1>1. Fields(n)
  BY DEF Nav
<1>2. Fields(n1)
  BY <1>1
<1> HIDE DEF n1
<1>3. Fields(n2)
  BY <1>2
<1> HIDE DEF n2
<1>4. TakeoffLeg(n, speed, level, high) = [n2 EXCEPT !.climbed = @ \/ high]
  BY DEF TakeoffLeg, n1, n2
<1>5. QED
  BY <1>3, <1>4

\* A command that completes moves the mission on, or finds RTL already flown.
LEMMA CompleteItemStage ==
    ASSUME TypeOK, NEW n \in Nav, CompleteItem(n),
           control_mode' = control_mode, mission' = mission
    PROVE  nav' = n
<1>1. mission.index + 1 # mission.index /\ mission = [items |-> mission.items, index |-> mission.index]
  BY DEF TypeOK, Mission
<1>2. CASE mission.index < Len(mission.items)
  <2>1. mission' = [mission EXCEPT !.index = @ + 1]
    BY <1>2 DEF CompleteItem
  <2>2. mission'.index = mission.index + 1
    BY <1>1, <2>1
  <2>3. QED
    BY <1>1, <2>2
<1>3. CASE ~(mission.index < Len(mission.items))
  BY <1>3, SameModeLeg DEF CompleteItem
<1>4. QED
  BY <1>2, <1>3

LEMMA LandingStep ==
    ASSUME TypeOK, [Next]_vars, control_mode' = control_mode, mission' = mission
    PROVE  Rank[nav'.landing_stage] >= Rank[nav.landing_stage]
<1>1. nav \in Nav /\ nav.landing_stage \in Stages
  BY DEF TypeOK, Nav
<1>2. \A s \in Stages : Rank[s] >= Rank[s]
  BY DEF Rank, Stages
<1>3. nav'.landing_stage = nav.landing_stage =>
        Rank[nav'.landing_stage] >= Rank[nav.landing_stage]
  BY <1>1, <1>2
<1>4. CASE Navigate
  <2>1. CASE NavigateCruise
    <3>1. nav' = nav \/ nav' = [nav EXCEPT !.next_WP = "cruise_leg"]
      BY <2>1 DEF NavigateCruise
    <3>2. QED
      BY <1>1, <1>3, <3>1 DEF Nav
  <2>2. CASE NavigateAuto
    <3>1. [nav EXCEPT !.next_WP = "here", !.hold_course = FALSE] \in Nav
      BY <1>1 DEF Nav, Targets
    <3>2. CASE \E stage \in verify_land(nav.landing_stage) :
                  ContinueItem([nav EXCEPT !.landing_stage = stage])
      <4>1. PICK stage \in verify_land(nav.landing_stage) :
                  nav' = [nav EXCEPT !.landing_stage = stage]
        BY <3>2 DEF ContinueItem
      <4>2. nav'.landing_stage = stage
        BY <1>1, <4>1 DEF Nav
      <4>3. QED
        BY <1>1, <4>2 DEF verify_land, Rank, Stages
    <3>3. CASE nav' = [nav EXCEPT !.next_WP = "here", !.hold_course = FALSE]
      BY <1>1, <1>3, <3>3 DEF Nav
    <3>4. CASE \E held : nav' = [nav EXCEPT !.hold_course = held]
      BY <1>1, <1>3, <3>4 DEF Nav
    <3>5. CASE nav' = nav
      BY <1>3, <3>5
    <3>6. QED
      <4>1. CASE \E gps, high \in BOOLEAN :
                    LET held == nav.hold_course \/ (gps /\ armed)
                    IN  IF high THEN CompleteItem([nav EXCEPT !.next_WP = "here",
                                                              !.hold_course = FALSE])
                                ELSE ContinueItem([nav EXCEPT !.hold_course = held])
        BY <3>1, <3>3, <3>4, <4>1, CompleteItemStage DEF ContinueItem
      <4>2. CASE CompleteItem(nav) \/ ContinueItem(nav)
        BY <1>1, <3>5, <4>2, CompleteItemStage DEF ContinueItem
      <4>3. QED
        BY <2>2, <3>2, <4>1, <4>2 DEF NavigateAuto
  <2>3. CASE NavigateNothing
    BY <1>3, <2>3 DEF NavigateNothing
  <2>4. QED
    BY <1>4, <2>1, <2>2, <2>3 DEF Navigate
<1>5. CASE Update
  <2>1. CASE UpdateAuto
    <3>1. CASE /\ nav.landing_stage = "Final"
               /\ nav' = [nav EXCEPT !.landing_stage = "Rollout"]
      <4>1. nav'.landing_stage = "Rollout"
        BY <1>1, <3>1 DEF Nav
      <4>2. QED
        BY <3>1, <4>1 DEF Rank
    <3>2. QED
      BY <1>3, <2>1, <3>1 DEF UpdateAuto
  <2>2. CASE UpdateTakeoff
    <3>1. PICK speed, level, high \in BOOLEAN :
             nav' = TakeoffLeg(nav, speed, level, high)
      BY <2>2, SameModeLeg DEF UpdateTakeoff, failsafe_long_on_event
    <3>2. QED
      BY <1>1, <1>3, <3>1, TakeoffLegStage
  <2>3. CASE UpdateCruise \/ UpdateNothing
    BY <1>3, <2>3 DEF UpdateCruise, UpdateNothing
  <2>4. QED
    BY <1>5, <2>1, <2>2, <2>3 DEF Update
<1>6. QED
  BY <1>3, <1>4, <1>5, LegKept

\* Within one mission command of one mode the landing never falls back.
THEOREM LandingForward == Spec => LandingMovesForward
<1>1. TypeOK /\ [Next]_vars =>
        [control_mode' = control_mode /\ mission' = mission
           => Rank[nav'.landing_stage] >= Rank[nav.landing_stage]]_vars
  BY LandingStep
<1>2. QED
  BY <1>1, TypeCorrect, PTL DEF Spec, LandingMovesForward

-----------------------------------------------------------------------------
(* The failsafe keeps its promise: PlaneControl implements Failsafe.       *)

\* What the two checks rely on besides IInv: a Short level is one the
\* settings answer, and only a long action that changes the mode is postponed.
AnswerInv ==
    /\ failsafe.state = "Short" => aparm.fs_short # "Disabled"
    /\ long_failsafe_pending => aparm.fs_long \notin {"Glide", "Parachute"}

LEMMA TunablesKept == ASSUME [Next]_vars PROVE aparm' = aparm
  BY DEF Next, Tick, ReceiveFrame, NoFrame, StartTick, check_short_rc_failsafe,
     check_long_failsafe, ModeSwitch, ReadAux, AuxDone, Navigate, Update, GcsSetMode, GcsArm,
     GcsSetMission, BetweenTicks, vars

\* A failsafe is postponed by its own event alone.
LEMMA PendingMoves ==
    ASSUME IInv, [Next]_vars, long_failsafe_pending'
    PROVE  long_failsafe_pending \/ aparm.fs_long \notin {"Glide", "Parachute"}
<1>1. ASSUME NEW m, NEW b, NEW n, SetMode(m, b, n, long_failsafe_pending)
      PROVE  long_failsafe_pending
  BY <1>1 DEF SetMode
<1>2. ASSUME NEW n, NEW p, failsafe_long_on_event(n, p), p = FALSE
      PROVE  aparm.fs_long \notin {"Glide", "Parachute"}
  BY <1>2 DEF failsafe_long_on_event, SetMode, LongDefers
<1>3. CASE check_short_rc_failsafe
  BY <1>1, <1>3 DEF check_short_rc_failsafe, rc_failsafe_short_on_event,
     rc_failsafe_short_off_event, KeepMode, modeVars
<1>4. CASE check_long_failsafe
  <2>1. \/ failsafe_long_on_event(nav, long_failsafe_pending)
        \/ long_failsafe_pending' = FALSE
        \/ long_failsafe_pending' = long_failsafe_pending
    BY <1>4 DEF check_long_failsafe, failsafe_long_off_event, KeepMode, modeVars
  <2>2. long_failsafe_pending \in BOOLEAN
    BY DEF IInv, TypeOK
  <2>3. QED
    BY <1>2, <2>1, <2>2
<1>5. CASE ModeSwitch \/ ReadAux \/ Navigate \/ GcsSetMode
  <2>1. UNCHANGED modeVars \/ \E m, n : SetMode(m, FALSE, n, long_failsafe_pending)
    BY <1>5 DEF ModeSwitch, mode_switch_changed, KeepMode, ReadAux, dispatch_aux_function,
       Navigate, NavigateCruise, NavigateAuto, NavigateNothing, CompleteItem, ContinueItem,
       GcsSetMode
  <2>2. QED
    BY <1>1, <2>1 DEF modeVars
<1>6. CASE Update
  BY <1>2, <1>6 DEF Update, UpdateCruise, UpdateAuto, UpdateTakeoff, UpdateNothing, modeVars
<1>7. CASE ReceiveFrame \/ NoFrame \/ AuxDone \/ GcsArm \/ GcsSetMission \/ UNCHANGED vars
  BY <1>7 DEF ReceiveFrame, NoFrame, StartTick, AuxDone, GcsArm, GcsSetMission, vars, modeVars
<1>8. QED
  BY <1>3, <1>4, <1>5, <1>6, <1>7 DEF Next, Tick

LEMMA AnswerInit == Init => AnswerInv
  BY DEF Init, AnswerInv

LEMMA AnswerStep == IInv /\ AnswerInv /\ [Next]_vars => AnswerInv'
<1> SUFFICES ASSUME IInv, AnswerInv, [Next]_vars PROVE AnswerInv'
  OBVIOUS
<1>1. aparm' = aparm
  BY TunablesKept
<1>2. failsafe'.state = "Short" => aparm.fs_short # "Disabled"
  <2>1. ShortOff /\ rc_failsafe_short_off_event => failsafe'.state = "None"
    BY DEF rc_failsafe_short_off_event, IInv, TypeOK, FailsafeType
  <2>2. LongOff /\ failsafe_long_off_event => failsafe'.state = "None"
    BY DEF failsafe_long_off_event, IInv, TypeOK, FailsafeType
  <2>3. QED
    BY <2>1, <2>2, LevelMoves DEF AnswerInv, ShortOn
<1>3. long_failsafe_pending' => aparm.fs_long \notin {"Glide", "Parachute"}
  BY PendingMoves DEF AnswerInv
<1>4. QED
  BY <1>1, <1>2, <1>3 DEF AnswerInv

\* Outside the two checks there is nothing left for them to do.
LEMMA ChecksQuiet ==
    ASSUME IInv, AnswerInv, Checked
    PROVE  /\ ~ShortOn /\ ~ShortOff /\ ~LongOn
           /\ LevelCalled = failsafe.state
           /\ Duty = IF long_failsafe_pending THEN "postponed" ELSE "none"
<1>1. failsafe.state \in Levels
  BY DEF IInv, TypeOK, FailsafeType
<1>2. ~ShortOn /\ ~ShortOff /\ ~LongOn
  BY DEF IInv, FailsafeInv, LevelInv, LevelFollowsLatch, AnswerInv, ShortOn, ShortOff, LongOn
<1>3. LevelCalled = failsafe.state
  BY <1>1 DEF IInv, FailsafeInv, LevelInv, LevelFollowsLatch, LevelCalled, LinkSensed, Levels
<1>4. long_failsafe_pending => failsafe.rc_failsafe
  BY DEF IInv, FailsafeInv, ModeInv, LevelInv, LevelFollowsLatch, PendingOnlyInClimbOut
<1>5. QED
  BY <1>2, <1>3, <1>4 DEF Duty

\* A step that moves neither the failsafe nor the mode is a stutter.
LEMMA PromiseStutter ==
    ASSUME UNCHANGED <<aparm, failsafe, failsafe_saved_mode, modeVars>>
    PROVE  UNCHANGED Promise!vars
<1>1. UNCHANGED <<LinkSensed, LevelCalled, Duty, FailsafeModes, ShortOn>>
  BY DEF LinkSensed, LevelCalled, Duty, FailsafeModes, ShortOn, ShortOff, LongOn, modeVars
<1>2. QED
  BY <1>1 DEF Promise!vars, modeVars

\* A mode chosen by anyone but the failsafe.
LEMMA PromiseChoose ==
    ASSUME IInv, AnswerInv, Checked, NEW m \in Modes, NEW n,
           SetMode(m, FALSE, n, long_failsafe_pending),
           UNCHANGED <<aparm, failsafe, failsafe_saved_mode>>
    PROVE  Promise!Choose \/ UNCHANGED Promise!vars
<1>1. CASE m = control_mode
  BY <1>1, PromiseStutter DEF SetMode, modeVars
<1>2. CASE m # control_mode
  <2>1. ~ShortOn /\ ~ShortOff /\ ~LongOn /\ Duty \in {"none", "postponed"}
    BY ChecksQuiet
  <2>2. UNCHANGED <<LinkSensed, LevelCalled, FailsafeModes, ShortOn, ShortOff, LongOn>>
    BY DEF LinkSensed, LevelCalled, FailsafeModes, ShortOn, ShortOff, LongOn
  <2>3. control_mode' = m /\ mode_set_by_failsafe' = FALSE /\ long_failsafe_pending' = FALSE
    BY <1>2 DEF SetMode
  <2>4. Duty' = "none"
    BY <2>1, <2>2, <2>3 DEF Duty
  <2>5. QED
    BY <1>2, <2>1, <2>2, <2>3, <2>4 DEF Promise!Choose
<1>3. QED
  BY <1>1, <1>2

\* The first step of a tick senses the link: what the two checks will do to
\* the level follows from the latch and the age it leaves.
LEMMA PromiseSense ==
    ASSUME IInv, AnswerInv, NEW r \in Channels, NEW new \in BOOLEAN, StartTick(r, new)
    PROVE  Promise!Sense
<1>1. /\ pc = "read_rc" /\ Checked
      /\ UNCHANGED <<aparm, control_mode, mode_set_by_failsafe, long_failsafe_pending,
                     failsafe_saved_mode, FailsafeModes>>
  BY DEF StartTick, Checked, modeVars, FailsafeModes
<1>2. failsafe'.state = failsafe.state /\ failsafe.state \in Levels
  BY StartTickLevel DEF IInv, TypeOK, FailsafeType
<1>3. /\ ~ShortOn /\ LevelCalled = failsafe.state
      /\ Duty = IF long_failsafe_pending THEN "postponed" ELSE "none"
  BY <1>1, ChecksQuiet
<1> DEFINE latched  == failsafe'.rc_failsafe
           overdue  == failsafe'.age > LongTimeout
           answered == aparm.fs_short # "Disabled"
<1>4. /\ LinkSensed' = IF ~latched THEN "Good" ELSE IF overdue THEN "Overdue" ELSE "Lost"
      /\ ShortOn' <=> answered /\ failsafe.state = "None" /\ latched
      /\ LongOn' <=> failsafe.state # "Long" /\ latched /\ overdue
      /\ ShortOff' <=> failsafe.state = "Short" /\ ~latched
  BY <1>1, <1>2 DEF LinkSensed, ShortOn, LongOn, ShortOff, AnswerInv
<1>5. LevelCalled' = CASE LinkSensed' = "Good"    -> "None"
                       [] LinkSensed' = "Overdue" -> "Long"
                       [] OTHER -> IF failsafe.state = "None" /\ answered
                                   THEN "Short" ELSE failsafe.state
  BY <1>1, <1>2 DEF LevelCalled
<1>6. Duty' = IF ShortOn' \/ LongOn' THEN "take"
              ELSE IF ShortOff' /\ mode_set_by_failsafe /\ failsafe_saved_mode # control_mode
                   THEN "release"
              ELSE IF long_failsafe_pending /\ latched THEN "postponed" ELSE "none"
  BY <1>1 DEF Duty
<1>7. long_failsafe_pending => failsafe.state = "Long"
  BY DEF IInv, ModeInv, PendingOnlyInClimbOut
<1> HIDE DEF latched, overdue, answered
<1>8. Duty' = CASE LevelCalled' \notin {failsafe.state, "None"} -> "take"
                [] LevelCalled' = "None" /\ failsafe.state = "Short" /\ mode_set_by_failsafe
                     /\ failsafe_saved_mode # control_mode -> "release"
                [] LevelCalled' = "None" /\ ~(failsafe.state = "Short" /\ mode_set_by_failsafe
                     /\ failsafe_saved_mode # control_mode) -> "none"
                [] OTHER -> Duty
  <2>1. CASE ~latched
    BY <1>2, <1>3, <1>4, <1>5, <1>6, <1>7, <2>1 DEF Levels
  <2>2. CASE latched /\ overdue
    BY <1>2, <1>3, <1>4, <1>5, <1>6, <1>7, <2>2 DEF Levels
  <2>3. CASE latched /\ ~overdue
    BY <1>2, <1>3, <1>4, <1>5, <1>6, <1>7, <2>3 DEF Levels
  <2>4. QED
    BY <2>1, <2>2, <2>3
<1>9. ShortOn' <=> failsafe.state = "None" /\ LevelCalled' # "None" /\ answered
  <2>1. CASE latched
    BY <1>2, <1>4, <1>5, <2>1 DEF Levels
  <2>2. CASE ~latched
    BY <1>2, <1>4, <1>5, <2>2 DEF Levels
  <2>3. QED
    BY <2>1, <2>2
<1>10. QED
  <2>1. LinkSensed' \in {"Good", "Lost", "Overdue"} /\ Duty \in {"none", "postponed"}
    BY <1>3, <1>4
  <2>2. QED
    BY <1>1, <1>2, <1>3, <1>5, <1>8, <1>9, <2>1
    DEF Promise!Sense, Promise!Called, Promise!Links, answered

\* The modes the failsafe asks for are those its settings select, or the one
\* already flown.
LEMMA TargetsAreSelected ==
    ASSUME IInv, AnswerInv
    PROVE  /\ ShortTarget \in FailsafeModes \cup {control_mode}
           /\ LongTarget \in FailsafeModes \cup {control_mode}
           /\ long_failsafe_pending => LongTarget \in FailsafeModes \ {control_mode}
<1>1. aparm.fs_short \in FsActionShort /\ aparm.fs_long \in FsActionLong
  BY DEF IInv, TypeOK, Tunables
<1>2. ShortTarget \in FailsafeModes \cup {control_mode}
  BY <1>1 DEF ShortTarget, apply_fs_action_short, FailsafeModes
<1>3. LongTarget \in FailsafeModes \cup {control_mode}
  BY <1>1 DEF LongTarget, apply_fs_action_long, FailsafeModes
<1>4. long_failsafe_pending => LongTarget \in FailsafeModes \ {control_mode}
  BY <1>1 DEF LongTarget, apply_fs_action_long, FailsafeModes, AnswerInv, IInv, ModeInv,
     PendingOnlyInClimbOut
<1>5. QED
  BY <1>2, <1>3, <1>4

\* What SetMode does for the failsafe, in the words of TakeOver.
LEMMA TakesOver ==
    ASSUME IInv, NEW m, NEW n, NEW p, SetMode(m, TRUE, n, p)
    PROVE  Promise!TakeOver(m)
<1>1. mode_set_by_failsafe \in BOOLEAN
  BY DEF IInv, TypeOK
<1>2. CASE m = control_mode
  BY <1>1, <1>2 DEF SetMode, Promise!TakeOver
<1>3. CASE m # control_mode
  <2>1. control_mode' = m /\ mode_set_by_failsafe' = TRUE
    BY <1>3 DEF SetMode
  <2>2. QED
    BY <1>1, <1>3, <2>1 DEF Promise!TakeOver
<1>4. QED
  BY <1>2, <1>3

\* The short check, seen from outside: taking over, giving back, or nothing.
LEMMA PromiseShort ==
    ASSUME IInv, AnswerInv, check_short_rc_failsafe
    PROVE  Promise!Act \/ Promise!GiveBack \/ UNCHANGED Promise!vars
<1>1. aparm' = aparm
  BY DEF check_short_rc_failsafe
<1>2. failsafe \in FailsafeType /\ control_mode \in Modes /\ long_failsafe_pending \in BOOLEAN
  BY DEF IInv, TypeOK
<1>3. CASE ShortOn /\ rc_failsafe_short_on_event
  <2>1. /\ failsafe.state = "None" /\ failsafe.rc_failsafe /\ aparm.fs_short # "Disabled"
        /\ failsafe'.state = "Short" /\ failsafe'.rc_failsafe = failsafe.rc_failsafe
        /\ failsafe'.age = failsafe.age
        /\ failsafe_saved_mode' = control_mode
        /\ SetMode(ShortTarget, TRUE, nav, long_failsafe_pending)
    BY <1>2, <1>3 DEF ShortOn, rc_failsafe_short_on_event, FailsafeType
  <2>2. ~long_failsafe_pending /\ long_failsafe_pending' = FALSE
    BY <1>2, <2>1 DEF IInv, ModeInv, PendingOnlyInClimbOut, SetMode
  <2>3. UNCHANGED <<LinkSensed, LevelCalled, FailsafeModes>>
    BY <1>1, <2>1 DEF LinkSensed, LevelCalled, FailsafeModes
  <2>4. ~ShortOn' /\ ~ShortOff'
    BY <1>1, <2>1 DEF ShortOn, ShortOff
  <2>5. Duty = "take" /\ Duty' \in {"take", "none"}
    BY <1>3, <2>2, <2>4 DEF Duty
  <2>6. ShortTarget \in FailsafeModes \cup {control_mode} /\ Promise!TakeOver(ShortTarget)
    BY <2>1, TargetsAreSelected, TakesOver
  <2>7. QED
    BY <1>1, <1>3, <2>1, <2>3, <2>4, <2>5, <2>6 DEF Promise!Act
<1>4. CASE ShortOff /\ rc_failsafe_short_off_event
  <2>1. /\ failsafe.state = "Short" /\ ~failsafe.rc_failsafe /\ failsafe'.state = "None"
        /\ failsafe'.rc_failsafe = failsafe.rc_failsafe /\ failsafe'.age = failsafe.age
        /\ failsafe_saved_mode' = failsafe_saved_mode
    BY <1>2, <1>4 DEF ShortOff, AnswerInv, rc_failsafe_short_off_event, FailsafeType
  <2>2. UNCHANGED <<LinkSensed, LevelCalled, FailsafeModes>>
    BY <1>1, <2>1 DEF LinkSensed, LevelCalled, FailsafeModes
  <2>3. ~ShortOn /\ ~ShortOn' /\ ~LongOn /\ ~LongOn' /\ ~ShortOff' /\ ~long_failsafe_pending
    BY <2>1 DEF ShortOn, LongOn, ShortOff, IInv, ModeInv, PendingOnlyInClimbOut
  <2>4. Duty' = "none"
    BY <2>1, <2>3 DEF Duty
  <2>5. mode_set_by_failsafe => failsafe_saved_mode # NoMode
    BY <1>2, <2>1 DEF IInv, ModeInv, SavedIsRestorable, RestoredModes, NoMode, Modes
  <2>6. CASE mode_set_by_failsafe /\ failsafe_saved_mode # control_mode
    <3>1. Duty = "release"
      BY <1>4, <2>3, <2>6 DEF Duty
    <3>2. control_mode' = failsafe_saved_mode /\ mode_set_by_failsafe' = FALSE
      BY <1>4, <2>5, <2>6 DEF rc_failsafe_short_off_event, SetMode
    <3>3. QED
      BY <1>1, <2>1, <2>2, <2>3, <2>4, <3>1, <3>2 DEF Promise!GiveBack
  <2>7. CASE ~(mode_set_by_failsafe /\ failsafe_saved_mode # control_mode)
    <3>1. Duty = "none"
      BY <2>3, <2>7 DEF Duty
    <3>2. UNCHANGED <<control_mode, mode_set_by_failsafe>>
      BY <1>4, <2>7 DEF rc_failsafe_short_off_event, SetMode, KeepMode, modeVars
    <3>3. QED
      BY <1>1, <2>1, <2>2, <2>3, <2>4, <3>1, <3>2 DEF Promise!vars
  <2>8. QED
    BY <2>6, <2>7
<1>5. CASE KeepMode /\ UNCHANGED <<failsafe, failsafe_saved_mode>>
  BY <1>1, <1>5, PromiseStutter DEF KeepMode
<1>6. QED
  BY <1>3, <1>4, <1>5 DEF check_short_rc_failsafe

\* The long check, seen from outside: taking over, postponing, or nothing.
LEMMA PromiseLong ==
    ASSUME IInv, AnswerInv, check_long_failsafe
    PROVE  Promise!Act \/ Promise!Postpone \/ UNCHANGED Promise!vars
<1>1. UNCHANGED <<aparm, failsafe_saved_mode>> /\ pc = "long_failsafe"
  BY DEF check_long_failsafe
<1>2. failsafe \in FailsafeType /\ long_failsafe_pending \in BOOLEAN
  BY DEF IInv, TypeOK
<1>3. ~ShortOn
  BY <1>1 DEF IInv, FailsafeInv, LevelInv, ShortOn
<1>4. CASE LongOn /\ failsafe_long_on_event(nav, long_failsafe_pending)
  <2>1. /\ failsafe.state # "Long" /\ failsafe.rc_failsafe /\ failsafe.age > LongTimeout
        /\ failsafe'.state = "Long" /\ failsafe'.rc_failsafe = failsafe.rc_failsafe
        /\ failsafe'.age = failsafe.age
    BY <1>2, <1>4 DEF LongOn, failsafe_long_on_event, FailsafeType
  <2>2. long_failsafe_pending = FALSE
    BY <1>2, <2>1 DEF IInv, ModeInv, PendingOnlyInClimbOut
  <2>3. UNCHANGED <<LinkSensed, LevelCalled, FailsafeModes>> /\ LevelCalled = "Long"
    BY <1>1, <2>1 DEF LinkSensed, LevelCalled, FailsafeModes
  <2>4. ~ShortOn' /\ ~ShortOff' /\ ~LongOn'
    BY <2>1 DEF ShortOn, ShortOff, LongOn
  <2>5. Duty = "take"
    BY <1>4 DEF Duty
  <2>6. CASE LongDefers(nav)
    <3>1. /\ control_mode = "TAKEOFF" /\ long_failsafe_pending' = TRUE
          /\ UNCHANGED <<control_mode, mode_set_by_failsafe>>
      BY <1>4, <2>6 DEF failsafe_long_on_event, LongDefers
    <3>2. Duty' = "postponed"
      BY <2>1, <2>4, <3>1 DEF Duty
    <3>3. QED
      BY <1>1, <1>3, <2>3, <2>4, <2>5, <3>1, <3>2 DEF Promise!Postpone
  <2>7. CASE ~LongDefers(nav)
    <3>1. SetMode(LongTarget, TRUE, nav, FALSE)
      BY <1>4, <2>2, <2>7 DEF failsafe_long_on_event
    <3>2. long_failsafe_pending' = FALSE
      BY <3>1 DEF SetMode
    <3>3. Duty' = "none"
      BY <2>4, <3>2 DEF Duty
    <3>4. LongTarget \in FailsafeModes \cup {control_mode} /\ Promise!TakeOver(LongTarget)
      BY <3>1, TargetsAreSelected, TakesOver
    <3>5. QED
      BY <1>1, <1>3, <2>3, <2>4, <2>5, <3>3, <3>4 DEF Promise!Act
  <2>8. QED
    BY <2>6, <2>7
<1>5. CASE LongOff /\ failsafe_long_off_event
  <2>1. /\ failsafe.state = "Long" /\ ~failsafe.rc_failsafe /\ failsafe'.state = "None"
        /\ failsafe'.rc_failsafe = failsafe.rc_failsafe /\ failsafe'.age = failsafe.age
        /\ UNCHANGED <<control_mode, mode_set_by_failsafe>>
    BY <1>2, <1>5 DEF LongOff, failsafe_long_off_event, FailsafeType
  <2>2. UNCHANGED <<LinkSensed, LevelCalled, FailsafeModes>>
    BY <1>1, <2>1 DEF LinkSensed, LevelCalled, FailsafeModes
  <2>3. /\ ~ShortOn' /\ ~ShortOff /\ ~ShortOff' /\ ~LongOn /\ ~LongOn'
    BY <2>1 DEF ShortOn, ShortOff, LongOn
  <2>4. Duty = "none" /\ Duty' = "none"
    BY <1>3, <2>1, <2>3 DEF Duty
  <2>5. QED
    BY <1>1, <1>3, <2>1, <2>2, <2>3, <2>4 DEF Promise!vars
<1>6. CASE KeepMode /\ UNCHANGED failsafe
  BY <1>1, <1>6, PromiseStutter DEF KeepMode
<1>7. QED
  BY <1>4, <1>5, <1>6 DEF check_long_failsafe

\* The step of a tick that may end a climb-out takes a postponed duty up.
LEMMA PromiseUpdate ==
    ASSUME IInv, AnswerInv, Update
    PROVE  Promise!TakeUp \/ UNCHANGED Promise!vars
<1>1. UNCHANGED <<aparm, failsafe_saved_mode>> /\ Checked
  BY DEF Update, Checked
<1>2. CASE UNCHANGED <<failsafe, modeVars>>
  BY <1>1, <1>2, PromiseStutter
<1>3. CASE \E n : n.climbed /\ long_failsafe_pending /\ failsafe_long_on_event(n, FALSE)
  <2>1. PICK n : n.climbed /\ long_failsafe_pending /\ failsafe_long_on_event(n, FALSE)
    BY <1>3
  <2>2. failsafe.state = "Long"
    BY <2>1 DEF IInv, ModeInv, PendingOnlyInClimbOut
  <2>3. failsafe' = failsafe
    BY <2>1, <2>2 DEF failsafe_long_on_event, IInv, TypeOK, FailsafeType
  <2>4. SetMode(LongTarget, TRUE, n, FALSE)
    BY <2>1 DEF failsafe_long_on_event, LongDefers
  <2>5. LongTarget \in FailsafeModes \ {control_mode} /\ Promise!TakeOver(LongTarget)
    BY <2>1, <2>4, TargetsAreSelected, TakesOver
  <2>6. long_failsafe_pending' = FALSE
    BY <2>4 DEF SetMode
  <2>7. UNCHANGED <<LinkSensed, LevelCalled, FailsafeModes, ShortOn, ShortOff, LongOn>>
    BY <1>1, <2>3 DEF LinkSensed, LevelCalled, FailsafeModes, ShortOn, ShortOff, LongOn
  <2>8. ~ShortOn /\ ~ShortOff /\ ~LongOn /\ Duty = "postponed"
    BY <1>1, <2>1, ChecksQuiet
  <2>9. Duty' = "none"
    BY <2>6, <2>7, <2>8 DEF Duty
  <2>10. QED
    BY <1>1, <2>5, <2>7, <2>8, <2>9 DEF Promise!TakeUp
<1>4. QED
  <2>1. UNCHANGED <<failsafe, modeVars>> \/ UpdateTakeoff
    BY DEF Update, UpdateCruise, UpdateAuto, UpdateNothing
  <2>2. UpdateTakeoff => \/ UNCHANGED <<failsafe, modeVars>>
                         \/ \E n : n.climbed /\ long_failsafe_pending
                                   /\ failsafe_long_on_event(n, FALSE)
    BY DEF UpdateTakeoff
  <2>3. QED
    BY <1>2, <1>3, <2>1, <2>2

\* The steps between the checks and the update leave the failsafe alone.
LEMMA PromiseOther ==
    ASSUME IInv, AnswerInv,
           ModeSwitch \/ ReadAux \/ AuxDone \/ Navigate \/ GcsSetMode \/ GcsArm \/ GcsSetMission
    PROVE  Promise!Choose \/ UNCHANGED Promise!vars
<1>1. UNCHANGED <<aparm, failsafe, failsafe_saved_mode>> /\ Checked
  BY DEF ModeSwitch, ReadAux, AuxDone, Navigate, GcsSetMode, GcsArm, GcsSetMission,
     BetweenTicks, Checked
<1>2. CASE UNCHANGED modeVars
  BY <1>1, <1>2, PromiseStutter
<1>3. CASE \E m \in Modes : \E n : SetMode(m, FALSE, n, long_failsafe_pending)
  BY <1>1, <1>3, PromiseChoose
<1>4. CASE ModeSwitch \/ ReadAux \/ GcsSetMode
  <2>1. ASSUME NEW pos \in DOMAIN FlightModes PROVE FlightModes[pos] \in Modes
    BY <2>1, ValuesAssumption
  <2>2. AuxModes \subseteq Modes /\ GcsModes \subseteq Modes
    BY ValuesAssumption DEF AuxModes
  <2>3. QED
    BY <1>2, <1>3, <1>4, <2>1, <2>2 DEF ModeSwitch, mode_switch_changed, KeepMode, ReadAux,
       dispatch_aux_function, GcsSetMode
<1>5. CASE Navigate
  <2>1. "RTL" \in Modes
    BY DEF Modes
  <2>2. ASSUME NEW n, CompleteItem(n) \/ ContinueItem(n)
        PROVE  Promise!Choose \/ UNCHANGED Promise!vars
    BY <1>2, <1>3, <2>1, <2>2 DEF CompleteItem, ContinueItem
  <2>3. QED
    BY <1>2, <1>5, <2>2 DEF Navigate, NavigateCruise, NavigateAuto, NavigateNothing
<1>6. CASE AuxDone \/ GcsArm \/ GcsSetMission
  BY <1>2, <1>6 DEF AuxDone, GcsArm, GcsSetMission
<1>7. QED
  BY <1>4, <1>5, <1>6

LEMMA PromiseInit == Init => Promise!Init
<1> SUFFICES ASSUME Init PROVE Promise!Init
  OBVIOUS
<1>1. LinkSensed = "Good" /\ LevelCalled = "None"
  BY DEF Init, LinkSensed, LevelCalled
<1>2. ~ShortOn /\ ~ShortOff /\ ~LongOn /\ Duty = "none"
  BY DEF Init, ShortOn, ShortOff, LongOn, Duty
<1>3. FailsafeModes \in SUBSET Modes
  BY DEF FailsafeModes, Modes
<1>4. QED
  BY <1>1, <1>2, <1>3 DEF Init, Promise!Init

LEMMA PromiseNext == IInv /\ AnswerInv /\ [Next]_vars => [Promise!Next]_(Promise!vars)
<1> SUFFICES ASSUME IInv, AnswerInv, [Next]_vars
             PROVE  Promise!Next \/ UNCHANGED Promise!vars
  OBVIOUS
<1>1. CASE ReceiveFrame \/ NoFrame
  <2>1. \E r \in Channels, new \in BOOLEAN : StartTick(r, new)
    BY <1>1 DEF ReceiveFrame, NoFrame, Channels, IInv, TypeOK
  <2>2. QED
    BY <2>1, PromiseSense DEF Promise!Next
<1>2. CASE check_short_rc_failsafe
  BY <1>2, PromiseShort DEF Promise!Next
<1>3. CASE check_long_failsafe
  BY <1>3, PromiseLong DEF Promise!Next
<1>4. CASE Update
  BY <1>4, PromiseUpdate DEF Promise!Next
<1>5. CASE ModeSwitch \/ ReadAux \/ AuxDone \/ Navigate \/ GcsSetMode \/ GcsArm \/ GcsSetMission
  BY <1>5, PromiseOther DEF Promise!Next
<1>6. CASE UNCHANGED vars
  BY <1>6, PromiseStutter DEF vars
<1>7. QED
  BY <1>1, <1>2, <1>3, <1>4, <1>5, <1>6 DEF Next, Tick

\* PlaneControl implements Failsafe: under every setting the failsafe changes
\* the mode once for each level it raises and to a mode its settings select,
\* postpones only in a take-off, gives back only what it took, and never acts
\* against a mode chosen since.
THEOREM FailsafeKeepsPromise == Spec => ImplementsFailsafe
<1>1. Init => IInv /\ AnswerInv /\ Promise!Init
  BY SafetyInit, AnswerInit, PromiseInit
<1>2. IInv /\ AnswerInv /\ [Next]_vars => IInv' /\ AnswerInv'
  BY SafetyStep, AnswerStep
<1>3. IInv /\ AnswerInv /\ [Next]_vars => [Promise!Next]_(Promise!vars)
  BY PromiseNext
<1>4. QED
  BY <1>1, <1>2, <1>3, PTL DEF Spec, ImplementsFailsafe, Promise!Spec
=============================================================================
