------------------------- MODULE PlaneStreak_proofs -------------------------
(***************************************************************************)
(* The strength of the throttle failsafe's debounce, for all latch and     *)
(* recovery thresholds of PlaneControl: how many bad ticks in a row it     *)
(* takes to latch, and how many good ones to clear; and that a link that   *)
(* stays lost, or stays good, brings the level there by a count of ticks.  *)
(***************************************************************************)
EXTENDS MCPlaneFailsafe, PlaneControl_proofs

Streaks == [bad : 0 .. FsLatch, good : 0 .. FsLatch]

\* Unlatched, the counter is at most its recovery cap above the bad ticks of
\* late; latched, it is down to one only after a good tick.
Bounded(f, s) ==
    /\ ~f.rc_failsafe => f.throttle_counter <= s.bad + FsRecover
    /\ f.rc_failsafe /\ f.throttle_counter = 1 => s.good >= 1

StreakInv == IInv /\ streak \in Streaks /\ Bounded(failsafe, streak)

\* What a step may do to the latch.
Follows(f, g, t) ==
    g.rc_failsafe # f.rc_failsafe
        => IF g.rc_failsafe THEN t.bad >= FsLatch - FsRecover ELSE t.good >= 2

\* A bad tick raises the counter by one, and latches when it is full.
LEMMA BadTick ==
    ASSUME NEW f \in FailsafeType, NEW s \in Streaks, Bounded(f, s),
           f.rc_failsafe => f.throttle_counter > 0,
           ~f.rc_failsafe => f.throttle_counter < FsLatch
    PROVE  LET t == [bad |-> Lesser(s.bad + 1, FsLatch), good |-> 0]
           IN  t \in Streaks /\ Bounded(CountBad(f), t) /\ Follows(f, CountBad(f), t)
<1> DEFINE c == f.throttle_counter
           g == CountBad(f)
           t == [bad |-> Lesser(s.bad + 1, FsLatch), good |-> 0]
<1>1. c \in 0 .. FsLatch /\ f.rc_failsafe \in BOOLEAN /\ s.bad \in 0 .. FsLatch
  BY DEF FailsafeType, Streaks
<1>2. /\ g.throttle_counter = Lesser(c + 1, FsLatch)
      /\ g.rc_failsafe \in BOOLEAN /\ (g.rc_failsafe <=> f.rc_failsafe \/ c + 1 = FsLatch)
  BY <1>1 DEF CountBad, FailsafeType
<1>3. t.bad = Lesser(s.bad + 1, FsLatch) /\ t.good = 0
  OBVIOUS
<1>4. t \in Streaks
  BY <1>1, TimesAssumption DEF Streaks, Lesser
<1> HIDE DEF c, g, t
<1>5. ASSUME ~f.rc_failsafe
      PROVE  Lesser(c + 1, FsLatch) <= t.bad + FsRecover /\ c + 1 <= FsLatch
  BY <1>1, <1>3, <1>5, TimesAssumption DEF Bounded, Lesser, c
<1>6. ASSUME f.rc_failsafe \/ c + 1 = FsLatch PROVE Lesser(c + 1, FsLatch) # 1
  BY <1>1, <1>6, TimesAssumption DEF Lesser, c
<1>7. Bounded(g, t)
  <2>1. ~g.rc_failsafe => g.throttle_counter <= t.bad + FsRecover
    BY <1>2, <1>5
  <2>2. ~(g.rc_failsafe /\ g.throttle_counter = 1)
    BY <1>2, <1>6
  <2> QED BY <2>1, <2>2 DEF Bounded
<1>8. Follows(f, g, t)
  <2>1. ASSUME ~f.rc_failsafe, c + 1 = FsLatch PROVE t.bad >= FsLatch - FsRecover
    BY <1>1, <1>3, <1>5, <2>1, TimesAssumption DEF Lesser, Streaks
  <2>2. g.rc_failsafe # f.rc_failsafe => g.rc_failsafe /\ ~f.rc_failsafe /\ c + 1 = FsLatch
    BY <1>1, <1>2, Zenon
  <2> QED BY <2>1, <2>2 DEF Follows
<1> QED BY <1>4, <1>7, <1>8 DEF g, t

\* A good tick takes the counter down to its recovery cap, and opens the
\* latch at zero.
LEMMA GoodTick ==
    ASSUME NEW f \in FailsafeType, NEW s \in Streaks, Bounded(f, s), f.throttle_counter > 0
    PROVE  LET t == [bad |-> 0, good |-> Lesser(s.good + 1, FsLatch)]
           IN  t \in Streaks /\ Bounded(CountGood(f), t) /\ Follows(f, CountGood(f), t)
<1> DEFINE c == f.throttle_counter
           g == CountGood(f)
           t == [bad |-> 0, good |-> Lesser(s.good + 1, FsLatch)]
           down == Lesser(c - 1, FsRecover)
<1>1. c \in 1 .. FsLatch /\ f.rc_failsafe \in BOOLEAN /\ s.good \in 0 .. FsLatch
  BY TimesAssumption DEF FailsafeType, Streaks
<1>2. /\ g.throttle_counter = down
      /\ g.rc_failsafe \in BOOLEAN /\ (g.rc_failsafe <=> f.rc_failsafe /\ down # 0)
  BY <1>1 DEF CountGood, FailsafeType
<1>3. t.bad = 0 /\ t.good = Lesser(s.good + 1, FsLatch)
  OBVIOUS
<1>4. t \in Streaks
  BY <1>1, TimesAssumption DEF Streaks, Lesser
<1>5. down <= FsRecover /\ (down = 0 => c = 1) /\ t.good >= 1
      /\ (s.good >= 1 => t.good >= 2)
  BY <1>1, <1>3, TimesAssumption DEF Lesser
<1> HIDE DEF c, g, t, down
<1>6. Bounded(g, t)
  BY <1>2, <1>3, <1>5, TimesAssumption DEF Bounded
<1>7. Follows(f, g, t)
  <2>1. g.rc_failsafe # f.rc_failsafe => ~g.rc_failsafe /\ f.rc_failsafe /\ down = 0
    BY <1>1, <1>2, Zenon
  <2>2. f.rc_failsafe /\ down = 0 => s.good >= 1
    BY <1>5 DEF Bounded, c
  <2> QED BY <1>5, <2>1, <2>2 DEF Follows
<1> QED BY <1>4, <1>6, <1>7 DEF g, t

\* One tick, whatever the receiver brought.
LEMMA TickKeeps ==
    ASSUME StreakInv, NEW r \in Channels, NEW new \in BOOLEAN, StartTick(r, new),
           rc.seen => r.seen, MCNext
    PROVE  streak' \in Streaks /\ Bounded(failsafe', streak') /\ Follows(failsafe, failsafe', streak')
<1> DEFINE f == [failsafe EXCEPT !.age = IF new /\ rc_throttle_value_ok(r) THEN 0 ELSE Older(@)]
           bad == [bad |-> Lesser(streak.bad + 1, FsLatch), good |-> 0]
           good == [bad |-> 0, good |-> Lesser(streak.good + 1, FsLatch)]
<1>1. (IF new /\ rc_throttle_value_ok(r) THEN 0 ELSE Older(failsafe.age)) \in 0..AgeCap
  BY TimesAssumption DEF Older, Lesser, AgeCap, StreakInv, IInv, TypeOK, FailsafeType
<1>2. /\ f \in FailsafeType
      /\ f.rc_failsafe = failsafe.rc_failsafe
      /\ f.throttle_counter = failsafe.throttle_counter
  BY <1>1 DEF StreakInv, IInv, TypeOK, FailsafeType
<1>3. failsafe' = update_throttle_failsafe(r, f) /\ rc' = r /\ aparm' = aparm
  BY DEF StartTick
<1>4. CountBad(f).age = f.age /\ CountGood(f).age = f.age
  BY <1>2 DEF CountBad, CountGood, FailsafeType
<1> HIDE DEF f
<1>5. failsafe'.age = f.age
  BY <1>3, <1>4 DEF update_throttle_failsafe
<1>6. streak' = IF rc_failsafe_active(r, f.age) THEN bad ELSE good
  BY <1>3, <1>5 DEF MCNext, StartsTick, StartTick, StreakCap, rc_failsafe_active,
     rc_throttle_value_ok
<1>7. /\ f.rc_failsafe => f.throttle_counter > 0
      /\ ~f.rc_failsafe => f.throttle_counter < FsLatch
      /\ Bounded(f, streak) /\ streak \in Streaks
  BY <1>2 DEF StreakInv, IInv, FailsafeInv, LatchIsCounted, Bounded
<1> HIDE DEF bad, good
<1>8. bad \in Streaks /\ Bounded(CountBad(f), bad) /\ Follows(f, CountBad(f), bad)
  BY <1>2, <1>7, BadTick DEF bad
<1>9. f.throttle_counter > 0
         => good \in Streaks /\ Bounded(CountGood(f), good) /\ Follows(f, CountGood(f), good)
  BY <1>2, <1>7, GoodTick DEF good
<1>10. good \in Streaks
  BY <1>7, TimesAssumption DEF good, Streaks, Lesser
<1>11. \/ failsafe' = f /\ f.throttle_counter = 0 /\ ~f.rc_failsafe
       \/ failsafe' = CountBad(f) /\ streak' = bad
       \/ failsafe' = CountGood(f) /\ streak' = good /\ f.throttle_counter > 0
  <2>1. CASE (aparm.throttle_fs # "Enabled" /\ ~f.rc_failsafe) \/ ~r.seen
    <3>1. f.throttle_counter = 0 /\ ~f.rc_failsafe
      BY <1>2, <2>1 DEF StreakInv, IInv, FailsafeInv, DetectorOffIsSilent
    <3> QED BY <1>3, <2>1, <3>1 DEF update_throttle_failsafe
  <2>2. CASE ~((aparm.throttle_fs # "Enabled" /\ ~f.rc_failsafe) \/ ~r.seen)
             /\ rc_failsafe_active(r, f.age)
    BY <1>3, <1>6, <2>2 DEF update_throttle_failsafe
  <2>3. CASE ~((aparm.throttle_fs # "Enabled" /\ ~f.rc_failsafe) \/ ~r.seen)
             /\ ~rc_failsafe_active(r, f.age)
    <3>1. f.throttle_counter > 0 \/ (f.throttle_counter = 0 /\ ~f.rc_failsafe)
      BY <1>2, <1>7 DEF FailsafeType
    <3> QED BY <1>3, <1>6, <2>3, <3>1 DEF update_throttle_failsafe
  <2> QED BY <2>1, <2>2, <2>3
<1>12. streak' \in Streaks
  BY <1>6, <1>8, <1>10
<1>13. Bounded(failsafe', streak') /\ Follows(f, failsafe', streak')
  <2>1. CASE failsafe' = f /\ f.throttle_counter = 0 /\ ~f.rc_failsafe
    BY <1>12, <2>1, TimesAssumption DEF Bounded, Follows, Streaks
  <2> QED BY <1>8, <1>9, <1>11, <2>1
<1> QED BY <1>2, <1>12, <1>13 DEF Follows

\* Outside of its start a tick moves nothing of the failsafe but its level.
LEMMA LevelOnly ==
    ASSUME [Next]_vars, ~ReceiveFrame, ~NoFrame
    PROVE  /\ rc' = rc
           /\ failsafe' = failsafe \/ \E l \in Levels : failsafe' = [failsafe EXCEPT !.state = l]
<1>1. CASE check_short_rc_failsafe
  BY <1>1 DEF check_short_rc_failsafe, rc_failsafe_short_on_event,
     rc_failsafe_short_off_event, Levels
<1>2. CASE check_long_failsafe
  BY <1>2 DEF check_long_failsafe, failsafe_long_on_event, failsafe_long_off_event, Levels
<1>3. CASE ModeSwitch \/ ReadAux \/ AuxDone \/ Navigate
  BY <1>3 DEF ModeSwitch, ReadAux, AuxDone, Navigate
<1>4. CASE Update
  BY <1>4 DEF Update, UpdateCruise, UpdateAuto, UpdateNothing, UpdateTakeoff,
     failsafe_long_on_event, Levels
<1>5. CASE GcsSetMode \/ GcsArm \/ GcsSetMission
  BY <1>5 DEF GcsSetMode, GcsArm, GcsSetMission, BetweenTicks
<1>6. CASE UNCHANGED vars
  BY <1>6 DEF vars
<1> QED BY <1>1, <1>2, <1>3, <1>4, <1>5, <1>6 DEF Next, Tick

\* So the latch, its counter and the age of the link stay.
LEMMA LatchStays ==
    ASSUME IInv, [Next]_vars, ~ReceiveFrame, ~NoFrame
    PROVE  /\ failsafe'.rc_failsafe = failsafe.rc_failsafe
           /\ failsafe'.throttle_counter = failsafe.throttle_counter
           /\ failsafe'.age = failsafe.age
BY LevelOnly DEF IInv, TypeOK, FailsafeType

LEMMA StreakStep ==
    StreakInv /\ [MCNext]_<<vars, streak>> => StreakInv' /\ Follows(failsafe, failsafe', streak')
<1> SUFFICES ASSUME StreakInv, [MCNext]_<<vars, streak>>
             PROVE  StreakInv' /\ Follows(failsafe, failsafe', streak')
  OBVIOUS
<1>1. IInv'
  BY SafetyStep DEF StreakInv, MCNext
<1>2. CASE UNCHANGED <<vars, streak>>
  BY <1>1, <1>2 DEF StreakInv, vars, Follows
<1>3. CASE MCNext /\ ReceiveFrame
  <2>1. PICK ok \in BOOLEAN, centred \in BOOLEAN :
            StartTick([seen |-> TRUE, thr_ok |-> ok, centred |-> centred], TRUE)
    BY <1>3 DEF ReceiveFrame
  <2> QED BY <1>1, <1>3, <2>1, TickKeeps DEF Channels, StreakInv
<1>4. CASE MCNext /\ NoFrame
  BY <1>1, <1>4, TickKeeps DEF NoFrame, StreakInv, IInv, TypeOK
<1>5. CASE MCNext /\ ~ReceiveFrame /\ ~NoFrame
  <2>1. ~StartsTick
    BY <1>5 DEF MCNext, Next, Tick, StartsTick, check_short_rc_failsafe, check_long_failsafe,
       ModeSwitch, ReadAux, AuxDone, Navigate, Update, GcsSetMode, GcsArm, GcsSetMission,
       BetweenTicks
  <2>2. streak' = streak
    BY <1>5, <2>1 DEF MCNext
  <2>3. /\ failsafe'.rc_failsafe = failsafe.rc_failsafe
        /\ failsafe'.throttle_counter = failsafe.throttle_counter
    BY <1>5, LatchStays DEF StreakInv, MCNext
  <2> QED BY <1>1, <2>2, <2>3 DEF StreakInv, Bounded, Follows
<1> QED BY <1>2, <1>3, <1>4, <1>5

\* The failsafe latches only after FsLatch - FsRecover bad ticks in a row,
\* and clears only after two good ones, for all thresholds.
THEOREM LatchStreaks == MCSpec => LatchFollowsStreaks
<1>1. MCInit => StreakInv
  <2> SUFFICES ASSUME MCInit PROVE StreakInv
    OBVIOUS
  <2>1. IInv /\ streak = [bad |-> 0, good |-> 0]
    BY SafetyInit DEF MCInit
  <2>2. failsafe.throttle_counter = 0 /\ ~failsafe.rc_failsafe
    BY DEF MCInit, Init
  <2> QED BY <2>1, <2>2, TimesAssumption DEF StreakInv, Streaks, Bounded
<1>2. StreakInv /\ [MCNext]_<<vars, streak>> => StreakInv'
  BY StreakStep
<1>3. StreakInv /\ [MCNext]_<<vars, streak>>
        => [failsafe'.rc_failsafe # failsafe.rc_failsafe
              => IF failsafe'.rc_failsafe THEN streak'.bad >= FsLatch - FsRecover
                 ELSE streak'.good >= 2]_<<vars, streak>>
  BY StreakStep DEF Follows
<1> QED BY <1>1, <1>2, <1>3, PTL DEF MCSpec, LatchFollowsStreaks

-----------------------------------------------------------------------------
(* Progress.  That a lost link reaches the long failsafe and a good one    *)
(* ends every failsafe are temporal properties, which the provers cannot   *)
(* reach; what they can is that each tick brings the level nearer, that    *)
(* nothing in between takes it back, and that the check of the long        *)
(* failsafe makes the last step.                                           *)

\* The detector runs and the last valid frame is too old for it.
LinkOverdue == aparm.throttle_fs = "Enabled" /\ rc.seen /\ failsafe.age > LongTimeout

\* An overdue link at Long is latched even before the checks of the tick.
OverdueIsLatched == LinkOverdue /\ failsafe.state = "Long" => failsafe.rc_failsafe

\* The ticks an overdue link still takes to the long failsafe, at most, and
\* those a good link takes to the end of every failsafe.
LostLeft == IF failsafe.state = "Long" THEN 0
            ELSE IF failsafe.rc_failsafe THEN 1
            ELSE 1 + FsLatch - failsafe.throttle_counter
GoodLeft == IF failsafe.rc_failsafe THEN 1 + failsafe.throttle_counter
            ELSE IF failsafe.state = "None" THEN 0 ELSE 1

\* While the link stays overdue, whatever modes are chosen meanwhile.
LostLinkProgress ==
    [][LinkOverdue /\ LinkOverdue'
         => /\ LostLeft' <= LostLeft
            /\ (ReceiveFrame \/ NoFrame) /\ LostLeft > 1 => LostLeft' < LostLeft
            /\ check_long_failsafe /\ LostLeft = 1 => LostLeft' = 0]_vars

\* While the link stays good, whatever modes are chosen meanwhile.
GoodLinkProgress ==
    [][failsafe.age = 0 /\ failsafe'.age = 0
         => /\ GoodLeft' <= GoodLeft
            /\ (ReceiveFrame \/ NoFrame) /\ GoodLeft > 1 => GoodLeft' < GoodLeft
            /\ check_long_failsafe /\ GoodLeft = 1 => GoodLeft' = 0]_vars

LEMMA LeftsAreNat ==
    ASSUME IInv
    PROVE  LostLeft \in Nat /\ GoodLeft \in Nat
<1>1. failsafe.throttle_counter \in 0..FsLatch
  BY DEF IInv, TypeOK, FailsafeType
<1>2. ~failsafe.rc_failsafe => failsafe.throttle_counter < FsLatch
  BY DEF IInv, FailsafeInv, LatchIsCounted
<1> QED BY <1>1, <1>2, TimesAssumption DEF LostLeft, GoodLeft

\* What a tick does to the counter of a link that is overdue, and of a good one.
LEMMA TickCounts ==
    ASSUME IInv, NEW r \in Channels, NEW new \in BOOLEAN, StartTick(r, new), rc.seen => r.seen
    PROVE  /\ failsafe'.state = failsafe.state
           /\ LinkOverdue' =>
                 IF failsafe.rc_failsafe THEN failsafe'.rc_failsafe
                 ELSE \/ failsafe'.rc_failsafe
                      \/ failsafe'.throttle_counter = failsafe.throttle_counter + 1
           /\ failsafe'.age = 0 /\ failsafe'.rc_failsafe =>
                 /\ failsafe.rc_failsafe
                 /\ failsafe'.throttle_counter < failsafe.throttle_counter
<1> DEFINE f == [failsafe EXCEPT !.age = IF new /\ rc_throttle_value_ok(r) THEN 0 ELSE Older(@)]
           c == failsafe.throttle_counter
<1>1. c \in 0..FsLatch /\ failsafe.age \in 0..AgeCap /\ failsafe.rc_failsafe \in BOOLEAN
  BY DEF IInv, TypeOK, FailsafeType
<1>2. Older(failsafe.age) \in 1..AgeCap /\ 0 \in 0..AgeCap
  BY <1>1, TimesAssumption DEF Older, Lesser, AgeCap
<1>3. /\ f \in FailsafeType /\ f.rc_failsafe = failsafe.rc_failsafe
      /\ f.throttle_counter = c /\ f.state = failsafe.state
      /\ f.age = IF new /\ rc_throttle_value_ok(r) THEN 0 ELSE Older(failsafe.age)
  BY <1>2 DEF IInv, TypeOK, FailsafeType
<1>4. failsafe' = update_throttle_failsafe(r, f) /\ rc' = r /\ aparm' = aparm
  BY DEF StartTick
<1> HIDE DEF f
<1>5. CountBad(f).age = f.age /\ CountGood(f).age = f.age
  BY <1>3 DEF CountBad, CountGood, FailsafeType
<1>6. failsafe'.age = f.age
  BY <1>4, <1>5 DEF update_throttle_failsafe
<1>7. failsafe'.state = failsafe.state
  BY StartTickLevel DEF IInv
<1>8. ASSUME LinkOverdue'
      PROVE  IF failsafe.rc_failsafe THEN failsafe'.rc_failsafe
             ELSE failsafe'.rc_failsafe \/ failsafe'.throttle_counter = c + 1
  <2>1. aparm.throttle_fs = "Enabled" /\ r.seen /\ f.age > RcFsTimeout
    <3>1. f.age \in 0..AgeCap /\ f.age > LongTimeout
      BY <1>3, <1>4, <1>6, <1>8 DEF LinkOverdue, FailsafeType
    <3> QED BY <1>4, <1>8, <3>1, TimesAssumption DEF LinkOverdue, AgeCap
  <2>2. failsafe' = CountBad(f)
    BY <1>4, <2>1 DEF update_throttle_failsafe, rc_failsafe_active
  <2>3. /\ failsafe'.throttle_counter = Lesser(c + 1, FsLatch)
        /\ failsafe'.rc_failsafe = (failsafe.rc_failsafe \/ c + 1 = FsLatch)
    BY <1>3, <2>2 DEF CountBad, FailsafeType
  <2>4. c + 1 # FsLatch => c = FsLatch \/ Lesser(c + 1, FsLatch) = c + 1
    BY <1>1, TimesAssumption DEF Lesser
  <2>5. ~failsafe.rc_failsafe => c # FsLatch
    BY <1>1, TimesAssumption DEF IInv, FailsafeInv, LatchIsCounted
  <2> QED BY <2>3, <2>4, <2>5
<1>9. ASSUME failsafe'.age = 0, failsafe'.rc_failsafe
      PROVE  failsafe.rc_failsafe /\ failsafe'.throttle_counter < c
  <2>1. ~rc_failsafe_active(r, f.age)
    <3>1. rc_throttle_value_ok(r)
      BY <1>2, <1>3, <1>6, <1>9
    <3> QED BY <1>6, <1>9, <3>1, TimesAssumption DEF rc_failsafe_active
  <2>2. ASSUME failsafe' = CountGood(f), c > 0
        PROVE  failsafe.rc_failsafe /\ failsafe'.throttle_counter < c
    <3>1. /\ failsafe'.throttle_counter = Lesser(c - 1, FsRecover)
          /\ failsafe'.rc_failsafe => failsafe.rc_failsafe
      BY <1>3, <2>2 DEF CountGood, FailsafeType
    <3> QED BY <1>1, <1>9, <2>2, <3>1, TimesAssumption DEF Lesser
  <2>3. CASE failsafe' = f
    <3>1. failsafe.rc_failsafe
      BY <1>3, <1>9, <2>3
    <3>2. c > 0 /\ r.seen
      BY <3>1 DEF IInv, FailsafeInv, LatchIsCounted, DetectorOffIsSilent
    <3>3. failsafe' = CountGood(f)
      BY <1>3, <1>4, <2>1, <3>1, <3>2 DEF update_throttle_failsafe
    <3> QED BY <2>2, <3>2, <3>3
  <2> QED BY <1>3, <1>4, <2>1, <2>2, <2>3 DEF update_throttle_failsafe
<1> QED BY <1>7, <1>8, <1>9

\* A tick begins with an action of the receiver.
LEMMA TickBegins ==
    ASSUME IInv, ReceiveFrame \/ NoFrame
    PROVE  \E r \in Channels, new \in BOOLEAN : StartTick(r, new) /\ (rc.seen => r.seen)
<1>1. CASE ReceiveFrame
  <2>1. PICK ok \in BOOLEAN, centred \in BOOLEAN :
            StartTick([seen |-> TRUE, thr_ok |-> ok, centred |-> centred], TRUE)
    BY <1>1 DEF ReceiveFrame
  <2> DEFINE r == [seen |-> TRUE, thr_ok |-> ok, centred |-> centred]
  <2>2. r \in Channels /\ r.seen
    BY DEF Channels
  <2>3. StartTick(r, TRUE)
    BY <2>1
  <2> HIDE DEF r
  <2> QED BY <2>2, <2>3
<1>2. CASE NoFrame
  BY <1>2 DEF NoFrame, IInv, TypeOK
<1> QED BY <1>1, <1>2

\* Everything else leaves the link, its latch and its counter.
LEMMA LinkStays ==
    ASSUME IInv, [Next]_vars, ~ReceiveFrame, ~NoFrame
    PROVE  LinkOverdue' <=> LinkOverdue
BY LatchStays, LevelOnly, TunablesKept DEF LinkOverdue

LEMMA OverdueInit == Init => OverdueIsLatched
BY DEF Init, OverdueIsLatched, LinkOverdue

\* Before a tick the level is the one that the latch calls for, an overdue
\* link leaves the latch alone, and the short check raises no Long level.
LEMMA OverdueStep == IInv /\ OverdueIsLatched /\ [Next]_vars => OverdueIsLatched'
<1> SUFFICES ASSUME IInv, OverdueIsLatched, [Next]_vars, LinkOverdue', failsafe'.state = "Long"
             PROVE  failsafe'.rc_failsafe
  BY DEF OverdueIsLatched
<1>1. CASE ReceiveFrame \/ NoFrame
  <2>1. PICK r \in Channels, new \in BOOLEAN : StartTick(r, new) /\ (rc.seen => r.seen)
    BY <1>1, TickBegins
  <2>2. failsafe.state = "Long" /\ pc = "read_rc"
    BY <2>1, TickCounts DEF StartTick
  <2>3. failsafe.rc_failsafe
    BY <2>2 DEF IInv, FailsafeInv, LevelInv, LevelFollowsLatch, Checked
  <2> QED BY <2>1, <2>3, TickCounts
<1>2. CASE ~ReceiveFrame /\ ~NoFrame
  <2>1. LinkOverdue /\ failsafe'.rc_failsafe = failsafe.rc_failsafe
    BY <1>2, LinkStays, LatchStays
  <2>2. CASE failsafe.state = "Long"
    BY <2>1, <2>2 DEF OverdueIsLatched
  <2>3. CASE failsafe.state # "Long"
    <3>1. pc' \notin {"short_failsafe", "long_failsafe"}
      <4>1. ~check_short_rc_failsafe
        BY <2>3, LevelOnly DEF check_short_rc_failsafe, rc_failsafe_short_on_event,
           rc_failsafe_short_off_event, IInv, TypeOK, FailsafeType
      <4> QED BY <1>2, <2>3, <4>1 DEF Next, Tick, check_long_failsafe, ModeSwitch, ReadAux,
             AuxDone, Navigate, Update, GcsSetMode, GcsArm, GcsSetMission, BetweenTicks, vars
    <3>2. LevelFollowsLatch'
      BY SafetyStep DEF IInv, FailsafeInv, LevelInv
    <3> QED BY <3>1, <3>2 DEF LevelFollowsLatch, Checked
  <2> QED BY <2>2, <2>3
<1> QED BY <1>1, <1>2

\* Each tick brings an overdue link nearer to the long failsafe, which the
\* check of the long failsafe raises and only recovery ends: for all
\* thresholds, timeouts and settings.
THEOREM LostLinkProgressHolds == Spec => LostLinkProgress
<1>1. IInv /\ OverdueIsLatched /\ [Next]_vars =>
        [LinkOverdue /\ LinkOverdue'
           => /\ LostLeft' <= LostLeft
              /\ (ReceiveFrame \/ NoFrame) /\ LostLeft > 1 => LostLeft' < LostLeft
              /\ check_long_failsafe /\ LostLeft = 1 => LostLeft' = 0]_vars
  <2> SUFFICES ASSUME IInv, OverdueIsLatched, Next, LinkOverdue, LinkOverdue'
               PROVE  /\ LostLeft' <= LostLeft
                      /\ (ReceiveFrame \/ NoFrame) /\ LostLeft > 1 => LostLeft' < LostLeft
                      /\ check_long_failsafe /\ LostLeft = 1 => LostLeft' = 0
    OBVIOUS
  <2>1. /\ failsafe.throttle_counter \in Nat /\ LostLeft \in Nat /\ FsLatch \in Nat
        /\ ~failsafe.rc_failsafe => failsafe.throttle_counter < FsLatch
    BY SafetyStep, LeftsAreNat, TimesAssumption DEF IInv, TypeOK, FailsafeType, FailsafeInv, LatchIsCounted
  <2>2. CASE ReceiveFrame \/ NoFrame
    <3>1. PICK r \in Channels, new \in BOOLEAN : StartTick(r, new) /\ (rc.seen => r.seen)
      BY <2>2, TickBegins
    <3>2. /\ failsafe'.state = failsafe.state
          /\ IF failsafe.rc_failsafe THEN failsafe'.rc_failsafe
             ELSE \/ failsafe'.rc_failsafe
                  \/ failsafe'.throttle_counter = failsafe.throttle_counter + 1
      BY <3>1, TickCounts
    <3>3. ~check_long_failsafe
      BY <3>1 DEF StartTick, check_long_failsafe
    <3>4. LostLeft' <= LostLeft /\ (LostLeft > 1 => LostLeft' < LostLeft)
      BY <2>1, <3>2 DEF LostLeft
    <3> QED BY <3>3, <3>4
  <2>3. CASE ~ReceiveFrame /\ ~NoFrame
    <3>1. /\ failsafe'.rc_failsafe = failsafe.rc_failsafe
          /\ failsafe'.throttle_counter = failsafe.throttle_counter
      BY <2>3, LatchStays
    <3>2. failsafe.state = "Long" => failsafe'.state = "Long"
      BY LongLeftStep DEF OverdueIsLatched
    <3>3. LostLeft' <= LostLeft
      BY <2>1, <3>1, <3>2 DEF LostLeft
    <3>4. ASSUME check_long_failsafe, LostLeft = 1 PROVE LostLeft' = 0
      <4>1. failsafe.state # "Long" /\ failsafe.rc_failsafe
        BY <2>1, <3>4 DEF LostLeft
      <4>2. LongOn
        BY <4>1 DEF LongOn, LinkOverdue
      <4>3. failsafe'.state = "Long"
        <5>1. failsafe_long_on_event(nav, long_failsafe_pending)
          BY <3>4, <4>1, <4>2 DEF check_long_failsafe, LongOff
        <5> QED BY <5>1 DEF failsafe_long_on_event, IInv, TypeOK, FailsafeType
      <4> QED BY <4>3 DEF LostLeft
    <3> QED BY <2>3, <3>3, <3>4
  <2> QED BY <2>2, <2>3
<1> QED BY <1>1, Invariance, OverdueInit, OverdueStep, PTL DEF Spec, LostLinkProgress

\* Each tick brings a good link nearer to the end of every failsafe, which
\* the checks make and nothing takes back: for all thresholds and settings.
THEOREM GoodLinkProgressHolds == Spec => GoodLinkProgress
<1>1. IInv /\ [Next]_vars =>
        [failsafe.age = 0 /\ failsafe'.age = 0
           => /\ GoodLeft' <= GoodLeft
              /\ (ReceiveFrame \/ NoFrame) /\ GoodLeft > 1 => GoodLeft' < GoodLeft
              /\ check_long_failsafe /\ GoodLeft = 1 => GoodLeft' = 0]_vars
  <2> SUFFICES ASSUME IInv, Next, failsafe'.age = 0
               PROVE  /\ GoodLeft' <= GoodLeft
                      /\ (ReceiveFrame \/ NoFrame) /\ GoodLeft > 1 => GoodLeft' < GoodLeft
                      /\ check_long_failsafe /\ GoodLeft = 1 => GoodLeft' = 0
    OBVIOUS
  <2>1. /\ failsafe.throttle_counter \in Nat /\ GoodLeft \in Nat
        /\ failsafe'.throttle_counter \in Nat /\ IInv'
        /\ failsafe.rc_failsafe => failsafe.throttle_counter > 0
    BY SafetyStep, LeftsAreNat DEF IInv, TypeOK, FailsafeType, FailsafeInv, LatchIsCounted
  <2>2. CASE ReceiveFrame \/ NoFrame
    <3>1. PICK r \in Channels, new \in BOOLEAN : StartTick(r, new) /\ (rc.seen => r.seen)
      BY <2>2, TickBegins
    <3>2. /\ failsafe'.state = failsafe.state
          /\ failsafe'.rc_failsafe => /\ failsafe.rc_failsafe
                                      /\ failsafe'.throttle_counter < failsafe.throttle_counter
      BY <3>1, TickCounts
    <3>3. ~check_long_failsafe
      BY <3>1 DEF StartTick, check_long_failsafe
    <3>4. GoodLeft' <= GoodLeft /\ (GoodLeft > 1 => GoodLeft' < GoodLeft)
      BY <2>1, <3>2 DEF GoodLeft
    <3> QED BY <3>3, <3>4
  <2>3. CASE ~ReceiveFrame /\ ~NoFrame
    <3>1. /\ failsafe'.rc_failsafe = failsafe.rc_failsafe
          /\ failsafe'.throttle_counter = failsafe.throttle_counter
      BY <2>3, LatchStays
    <3>2. ASSUME ~failsafe.rc_failsafe, failsafe.state = "None" PROVE failsafe'.state = "None"
      <4>1. CASE check_short_rc_failsafe
        BY <3>2, <4>1 DEF check_short_rc_failsafe, ShortOn, ShortOff
      <4>2. CASE ~check_short_rc_failsafe
        <5>1. pc' \notin {"short_failsafe", "long_failsafe"} \/ failsafe' = failsafe
          BY <2>3, <4>2 DEF Next, Tick, check_long_failsafe, ModeSwitch, ReadAux, AuxDone,
             Navigate, Update, GcsSetMode, GcsArm, GcsSetMission, BetweenTicks
        <5>2. LevelFollowsLatch'
          BY <2>1 DEF IInv, FailsafeInv, LevelInv
        <5> QED BY <3>1, <3>2, <5>1, <5>2 DEF LevelFollowsLatch, Checked
      <4> QED BY <4>1, <4>2
    <3>3. GoodLeft' <= GoodLeft
      BY <2>1, <3>1, <3>2 DEF GoodLeft
    <3>4. ASSUME check_long_failsafe, GoodLeft = 1 PROVE GoodLeft' = 0
      <4>1. ~failsafe.rc_failsafe /\ pc' = "mode_switch"
        BY <2>1, <3>4 DEF GoodLeft, check_long_failsafe
      <4>2. LevelFollowsLatch'
        BY <2>1 DEF IInv, FailsafeInv, LevelInv
      <4>3. failsafe'.state = "None"
        BY <3>1, <4>1, <4>2 DEF LevelFollowsLatch, Checked
      <4> QED BY <3>1, <4>1, <4>3 DEF GoodLeft
    <3> QED BY <2>3, <3>3, <3>4
  <2> QED BY <2>2, <2>3
<1> QED BY <1>1, Invariance, PTL DEF Spec, GoodLinkProgress
=============================================================================
