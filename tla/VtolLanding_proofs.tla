------------------------- MODULE VtolLanding_proofs -------------------------
(***************************************************************************)
(* Proofs that the safety properties of VtolLanding hold for all delays,   *)
(* heights and payload limits.                                             *)
(***************************************************************************)
EXTENDS VtolLanding, TLAPS

PosStates == [state : States, done : BOOLEAN, active : BOOLEAN,
              changed : 0 .. MinAirbrake + 1, loss : -1 .. ThrustLoss + 1]
LandStates == [start : -1 .. LongStart, lower : -1 .. LongLower, vpos : Alts,
               last_agl : Alts, descend : Alts]
Readings == [at_limit : BOOLEAN, correcting : BOOLEAN, height : Alts]

\* The states of the way in, and those that only a descent leads to.
Approaching == {"approach", "airbrake", "position1"}
Descending  == {"land_descend", "land_abort", "land_final", "land_complete"}

-----------------------------------------------------------------------------
(* Ages, heights and the state.                                            *)

LEMMA Limits ==
    /\ LongStart \in Nat /\ LongLower \in Nat
    /\ CompleteTime <= LongStart
    /\ LongLower >= CompleteTime + RelaxTime
  BY LandingAssumption DEF LongStart, LongLower

\* An age stays in its range, and only Off stays Off.
LEMMA AgedInRange ==
    ASSUME NEW limit \in Nat, NEW age \in -1 .. limit, NEW dt \in Nat \ {0}
    PROVE  /\ Aged(age, limit, dt) \in -1 .. limit
           /\ age = Off <=> Aged(age, limit, dt) = Off
           /\ age # Off => Aged(age, limit, dt) \in 0 .. limit
                           /\ Aged(age, limit, dt) <= age + dt
  BY DEF Aged, Off, Lesser

\* Two heights close to a third are not far from each other.
LEMMA DistanceTriangle ==
    ASSUME NEW a \in Int, NEW b \in Int, NEW c \in Int, NEW d \in Nat,
           Distance(a, c) <= d, Distance(b, c) <= d
    PROVE  Distance(a, b) <= 2 * d
  BY DEF Distance

\* Two stretches of time that grow together stay in their order.
LEMMA LesserGrows ==
    ASSUME NEW a \in Nat, NEW b \in Nat, NEW limit \in Nat, NEW sum \in Nat,
           NEW dt \in Nat, Lesser(a, limit) <= sum, b <= a + dt
    PROVE  Lesser(b, limit) <= Lesser(sum + dt, limit)
  BY DEF Lesser

LEMMA SetStateInRange ==
    ASSUME NEW p \in PosStates, NEW to \in States
    PROVE  set_state(p, to) \in PosStates /\ set_state(p, to).state = to
<1>1. 0 \in 0 .. MinAirbrake + 1 /\ (p.done /\ p.state = to) \in BOOLEAN
  BY LandingAssumption DEF PosStates
<1> QED BY <1>1 DEF set_state, PosStates

LEMMA InitApproach ==
    ASSUME NEW p \in PosStates, NEW where \in {"direct", "near", "far"},
           NEW hovers \in BOOLEAN
    PROVE  LET q == poscontrol_init_approach_prep(p, where, hovers)
           IN  q \in PosStates /\ q.state \in Approaching
<1> DEFINE to == CASE where = "direct" \/ (where = "near" /\ hovers) -> "position1"
                   [] where = "near" -> "airbrake"
                   [] where = "far"  -> "approach"
           s == set_state(p, to)
           q == IF where = "direct" THEN s
                ELSE IF p.state = "approach" THEN p
                ELSE [s EXCEPT !.loss = Off]
<1>1. to \in Approaching /\ Approaching \subseteq States
  BY DEF Approaching, States
<1>2. poscontrol_init_approach_prep(p, where, hovers) = [q EXCEPT !.done = FALSE]
  BY DEF poscontrol_init_approach_prep
<1> HIDE DEF to
<1>3. s \in PosStates /\ s.state \in Approaching
  BY <1>1, SetStateInRange
<1>4. Off \in -1 .. ThrustLoss + 1
  BY LandingAssumption DEF Off
<1> HIDE DEF s
<1>5. q \in PosStates /\ q.state \in Approaching
  BY <1>3, <1>4 DEF PosStates, Approaching
<1> HIDE DEF q
<1> QED BY <1>2, <1>5 DEF PosStates

LEMMA ApproachAirbrake ==
    ASSUME NEW p \in PosStates, p.state \in Approaching, NEW i \in ApproachInputs
    PROVE  approach_airbrake(p, i) \in PosStates /\ approach_airbrake(p, i).state \in Approaching
<1> DEFINE OnApproach(s) == s \in PosStates /\ s.state \in Approaching
           a == IF p.state = "approach" /\ i.near
                THEN set_state(p, IF i.hovers THEN "position1" ELSE "airbrake") ELSE p
           b == IF a.state = "airbrake" /\ a.changed > MinAirbrake /\ i.brake
                THEN set_state(a, "position1") ELSE a
           t == [b EXCEPT !.loss = IF i.sinking /\ ~i.hovers
                                   THEN IF @ = Off THEN 0 ELSE @
                                   ELSE Off]
           c == IF t.loss > ThrustLoss THEN set_state(t, "position1") ELSE t
           d == IF c.state = "approach" /\ i.slow /\ ~i.hovers
                THEN set_state(c, "position1") ELSE c
<1>0. Approaching \subseteq States /\ {"position1", "airbrake"} \subseteq Approaching
  BY DEF Approaching, States
<1>1. \A s \in PosStates, to \in Approaching : OnApproach(set_state(s, to))
  BY <1>0, SetStateInRange
<1>2. OnApproach(p)
  OBVIOUS
<1>3. approach_airbrake(p, i) =
          IF d.state = "approach" THEN poscontrol_init_approach_prep(d, i.where, i.hovers)
          ELSE d
  BY DEF approach_airbrake
<1>4. OnApproach(a)
  BY <1>0, <1>1, <1>2
<1> HIDE DEF a
<1>5. OnApproach(b)
  BY <1>0, <1>1, <1>4
<1> HIDE DEF b
<1>6. OnApproach(t)
  <2> DEFINE loss == IF i.sinking /\ ~i.hovers THEN IF b.loss = Off THEN 0 ELSE b.loss
                     ELSE Off
  <2>1. loss \in -1 .. ThrustLoss + 1
    BY <1>5, LandingAssumption DEF PosStates, Off
  <2>2. t = [b EXCEPT !.loss = loss]
    OBVIOUS
  <2> HIDE DEF loss, t
  <2> QED BY <1>5, <2>1, <2>2 DEF PosStates
<1> HIDE DEF t
<1>7. OnApproach(c)
  BY <1>0, <1>1, <1>6
<1> HIDE DEF c
<1>8. OnApproach(d)
  BY <1>0, <1>1, <1>7
<1> HIDE DEF d
<1>9. i.where \in {"direct", "near", "far"} /\ i.hovers \in BOOLEAN
  BY DEF ApproachInputs
<1> QED BY <1>3, <1>8, <1>9, InitApproach

\* The position controller neither begins nor ends a descent.
LEMMA ControllerMoves ==
    ASSUME NEW p \in PosStates, NEW r \in Controlled(p)
    PROVE  /\ r.pc \in PosStates
           /\ r.coop \in BOOLEAN
           /\ r.pc.state \in Descending => r.pc.state = p.state
<1>0. p.state \in States /\ Approaching \cup {"position2"} \subseteq States
  BY DEF PosStates, Approaching, States
<1>1. CASE p.state = "none"
  <2>1. r.pc = set_state(p, "position1") /\ r.coop = TRUE
    BY <1>1 DEF Controlled
  <2> QED BY <1>0, <2>1, SetStateInRange DEF Approaching, Descending
<1>2. CASE p.state \in {"approach", "airbrake"}
  <2>1. PICK i \in ApproachInputs :
           /\ r.pc = approach_airbrake(IF p.state = "approach" /\ i.nvtol
                                       THEN set_state(p, "position1") ELSE p, i)
           /\ r.coop = (i.near /\ i.brake)
    BY <1>2 DEF Controlled
  <2> DEFINE q == IF p.state = "approach" /\ i.nvtol THEN set_state(p, "position1") ELSE p
  <2>2. q \in PosStates /\ q.state \in Approaching
    BY <1>0, <1>2, SetStateInRange DEF Approaching
  <2> HIDE DEF q
  <2>3. (i.near /\ i.brake) \in BOOLEAN
    BY DEF ApproachInputs
  <2>4. r.pc = approach_airbrake(q, i)
    BY <2>1 DEF q
  <2> QED BY <2>1, <2>2, <2>3, <2>4, ApproachAirbrake DEF Approaching, Descending
<1>3. CASE p.state = "position1"
  <2> DEFINE q == set_state(p, "position2")
             n == [q EXCEPT !.done = FALSE]
  <2>1. q \in PosStates /\ q.state = "position2"
    BY <1>0, SetStateInRange
  <2>2. Controlled(p) =
           {[pc |-> IF arrived THEN n ELSE p, coop |-> arrived] : arrived \in BOOLEAN}
    BY <1>3 DEF Controlled
  <2> HIDE DEF q
  <2>3. n \in PosStates /\ n.state = "position2"
    BY <2>1 DEF PosStates
  <2> HIDE DEF n
  <2> QED BY <1>3, <2>2, <2>3 DEF Descending
<1>4. CASE p.state \in {"position2", "land_abort", "land_descend", "land_final"}
  <2>1. PICK stick \in BOOLEAN :
           r.pc = update_land_positioning(p, stick) /\ r.coop = ~stick
    BY <1>4 DEF Controlled
  <2> QED BY <2>1 DEF update_land_positioning, PosStates
<1>5. CASE p.state = "land_complete"
  <2>1. Controlled(p) = {[pc |-> p, coop |-> TRUE]}
    BY <1>5 DEF Controlled
  <2>2. r.pc = p /\ r.coop = TRUE
    BY <2>1
  <2> QED BY <2>2
<1> QED BY <1>0, <1>1, <1>2, <1>3, <1>4, <1>5 DEF States

-----------------------------------------------------------------------------
(* The land detector.                                                      *)

\* What should_relax() leaves of the timers.
LEMMA RelaxStep ==
    ASSUME NEW l \in LandStates, NEW at_limit \in BOOLEAN
    PROVE  LET s == should_relax(l, at_limit)
           IN  /\ s \in LandStates
               /\ s.descend = l.descend /\ s.vpos = l.vpos
               /\ at_limit => /\ s.lower = (IF l.lower = Off THEN 0 ELSE l.lower)
                              /\ s.start = l.start
               /\ ~at_limit => s.lower = Off /\ s.start = Off
<1>1. Off \in -1 .. LongStart /\ Off \in -1 .. LongLower /\ 0 \in -1 .. LongLower
  BY Limits DEF Off
<1> QED BY <1>1 DEF should_relax, LandStates

\* A running timer of the detector: what it says of the reading that left
\* it running, and where it comes from.
Detected(l, d, r) ==
    /\ d \in LandStates
    /\ d.descend = l.descend
    /\ r.at_limit  => d.lower = IF l.lower = Off THEN 0 ELSE l.lower
    /\ ~r.at_limit => d.lower = Off /\ d.start = Off
    /\ d.start # Off =>
          /\ r.at_limit /\ ~r.correcting /\ d.lower > RelaxTime
          /\ Distance(r.height, d.vpos) <= AltChange
          /\ \/ d.start = 0
             \/ l.start # Off /\ d.start = l.start /\ d.vpos = l.vpos

LEMMA DetectorStep ==
    ASSUME NEW l \in LandStates, NEW r \in Readings
    PROVE  Detected(l, land_detector(l, r), r)
<1> DEFINE s == should_relax(l, r.at_limit)
           b == IF s.start = Off THEN [s EXCEPT !.start = 0, !.vpos = r.height] ELSE s
           d == land_detector(l, r)
<1>1. /\ s \in LandStates
      /\ s.descend = l.descend /\ s.vpos = l.vpos
      /\ r.at_limit => s.lower = (IF l.lower = Off THEN 0 ELSE l.lower) /\ s.start = l.start
      /\ ~r.at_limit => s.lower = Off /\ s.start = Off
  BY RelaxStep DEF Readings
<1>2. d = IF ~Relaxed(s) \/ r.correcting THEN [s EXCEPT !.start = Off]
          ELSE IF Distance(r.height, b.vpos) > AltChange THEN [b EXCEPT !.start = Off]
          ELSE b
  BY DEF land_detector
<1> HIDE DEF d, s
<1>3. /\ b \in LandStates /\ b.descend = s.descend /\ b.lower = s.lower
      /\ b.start = 0 \/ (s.start # Off /\ b.start = s.start /\ b.vpos = s.vpos)
  <2>1. 0 \in -1 .. LongStart /\ r.height \in Alts
    BY Limits DEF Readings
  <2> QED BY <1>1, <2>1 DEF LandStates
<1> HIDE DEF b
<1>4. Relaxed(s) => s.lower > RelaxTime /\ s.lower # Off
  BY <1>1, LandingAssumption DEF Relaxed, Off, LandStates
<1>5. Off \in -1 .. LongStart
  BY Limits DEF Off
<1>6. /\ d \in LandStates /\ d.descend = s.descend /\ d.lower = s.lower
      /\ d.start = Off \/ (d = b /\ Relaxed(s) /\ ~r.correcting
                           /\ ~(Distance(r.height, b.vpos) > AltChange))
  BY <1>1, <1>2, <1>3, <1>5 DEF LandStates
<1>7. /\ Distance(r.height, b.vpos) \in Int /\ AltChange \in Int
      /\ r.at_limit \in BOOLEAN
  <2>1. b.vpos \in Nat /\ r.height \in Nat /\ AltChange \in Nat
    BY <1>3, LandingAssumption DEF LandStates, Readings
  <2>2. r.at_limit \in BOOLEAN
    BY DEF Readings
  <2> QED BY <2>1, <2>2 DEF Distance
<1>8. d.start # Off => r.at_limit /\ d.lower > RelaxTime /\ ~r.correcting
                       /\ Distance(r.height, d.vpos) <= AltChange
  BY <1>1, <1>3, <1>4, <1>6, <1>7
<1>9. d.start # Off => \/ d.start = 0
                       \/ l.start # Off /\ d.start = l.start /\ d.vpos = l.vpos
  BY <1>1, <1>3, <1>6, <1>7, <1>8
<1>10. ~r.at_limit => d.lower = Off /\ d.start = Off
  BY <1>1, <1>6, <1>8
<1>11. r.at_limit => d.lower = IF l.lower = Off THEN 0 ELSE l.lower
  BY <1>1, <1>6
<1> QED BY <1>1, <1>6, <1>8, <1>9, <1>10, <1>11 DEF Detected, d

-----------------------------------------------------------------------------
(* The inductive invariant.                                                *)

\* In a final descent the timers of the detector count nothing that the
\* descent itself has not seen, and the height is still near the one the
\* running timer began at.
TimersInv ==
    pc.state = "land_final" =>
        /\ land.lower # Off => Lesser(land.lower, CompleteTime + RelaxTime) <= rest
        /\ land.start # Off => /\ Lesser(land.start, CompleteTime) <= still
                               /\ Distance(alt, land.vpos) <= AltChange

\* Whatever a descent has led to, the height it began at is remembered.
DescentInv == pc.state \in Descending => began = land.descend

IInv == TypeOK /\ TimersInv /\ DescentInv /\ AbortClimbsBack /\ PayloadFloor

\* A step that completes a landing has seen what TouchdownIsReal asks.
Touched == pc.state # "land_complete" /\ pc'.state = "land_complete"
              => rest' >= CompleteTime + RelaxTime /\ still' >= CompleteTime

LEMMA TypeOKParts ==
    TypeOK => /\ pc \in PosStates /\ land \in LandStates
              /\ alt \in Nat /\ rest \in Nat /\ still \in Nat
              /\ rest <= CompleteTime + RelaxTime /\ still <= CompleteTime
  BY LandingAssumption DEF TypeOK, PosStates, LandStates

THEOREM InitIsSound == Init => IInv
<1> SUFFICES ASSUME Init PROVE IInv
  OBVIOUS
<1>0. /\ MinAirbrake + 1 \in 0 .. MinAirbrake + 1 /\ Off \in -1 .. ThrustLoss + 1
      /\ Off \in -1 .. LongStart /\ Off \in -1 .. LongLower
      /\ 0 \in 0 .. CompleteTime + RelaxTime /\ 0 \in 0 .. CompleteTime
      /\ GroundAlt \in Alts
  BY Limits, LandingAssumption DEF Off
<1>1. TypeOK
  BY <1>0 DEF Init, TypeOK, States
<1>2. TimersInv /\ DescentInv /\ AbortClimbsBack /\ PayloadFloor
  BY DEF Init, TimersInv, DescentInv, Descending, AbortClimbsBack, PayloadFloor
<1> QED BY <1>1, <1>2 DEF IInv

-----------------------------------------------------------------------------
(* The position controller.                                                *)

LEMMA ControlKeepsIInv ==
    ASSUME IInv, NEW dt \in Steps, NEW at_limit \in BOOLEAN,
           NEW next \in {"control", "verify"},
           vtol_position_controller(dt, at_limit, next)
    PROVE  IInv' /\ Touched
<1> DEFINE changed == Aged(pc.changed, MinAirbrake + 1, dt)
           loss    == Aged(pc.loss, ThrustLoss + 1, dt)
           start   == Aged(land.start, LongStart, dt)
           lower   == Aged(land.lower, LongLower, dt)
           p == [pc EXCEPT !.changed = changed, !.loss = loss]
           l == [land EXCEPT !.start = start, !.lower = lower]
           final == pc.state = "land_final"
<1>1. /\ pc \in PosStates /\ land \in LandStates /\ alt \in Nat
      /\ rest \in Nat /\ still \in Nat /\ dt \in Nat \ {0}
      /\ rest <= CompleteTime + RelaxTime /\ still <= CompleteTime
      /\ CompleteTime \in Nat /\ RelaxTime \in Nat
  BY TypeOKParts, LandingAssumption DEF IInv
<1>2. /\ changed \in 0 .. MinAirbrake + 1 /\ loss \in -1 .. ThrustLoss + 1
      /\ start \in -1 .. LongStart /\ lower \in -1 .. LongLower
  <2>1. /\ MinAirbrake + 1 \in Nat /\ ThrustLoss + 1 \in Nat
        /\ pc.changed \in -1 .. MinAirbrake + 1 /\ pc.changed # Off
        /\ pc.loss \in -1 .. ThrustLoss + 1
        /\ land.start \in -1 .. LongStart /\ land.lower \in -1 .. LongLower
    BY <1>1, LandingAssumption DEF PosStates, LandStates, Off
  <2> QED BY <1>1, <2>1, Limits, AgedInRange
<1>3. /\ start = Off <=> land.start = Off
      /\ lower = Off <=> land.lower = Off
      /\ land.start # Off => start \in Nat /\ start <= land.start + dt
      /\ land.lower # Off => lower \in Nat /\ lower <= land.lower + dt
  <2>1. land.start \in -1 .. LongStart /\ land.lower \in -1 .. LongLower
    BY <1>1 DEF LandStates
  <2> QED BY <1>1, <2>1, Limits, AgedInRange
<1>4. /\ vtol_position_controller(dt, at_limit, next)
      /\ p.state = pc.state
  BY <1>1 DEF PosStates
<1>5. /\ turn' = next /\ told' = "none"
      /\ \E r \in Controlled(p) : pc' = r.pc /\ coop' = (r.coop /\ at_limit)
      /\ land' = IF final THEN should_relax(l, at_limit) ELSE l
      /\ rest' = IF final /\ at_limit
                 THEN Lesser(rest + dt, CompleteTime + RelaxTime) ELSE 0
      /\ still' = IF final /\ at_limit THEN Lesser(still + dt, CompleteTime) ELSE 0
      /\ UNCHANGED <<alt, payload, began>>
  BY <1>4 DEF vtol_position_controller
<1> HIDE DEF changed, loss, start, lower
<1>6. p \in PosStates /\ p.state = pc.state
  BY <1>1, <1>2 DEF PosStates
<1>7. l \in LandStates /\ l.start = start /\ l.lower = lower
      /\ l.vpos = land.vpos /\ l.descend = land.descend
  BY <1>1, <1>2 DEF LandStates
<1> HIDE DEF p, l
<1>8. /\ pc' \in PosStates /\ coop' \in BOOLEAN
      /\ pc'.state \in Descending => pc'.state = pc.state
  BY <1>5, <1>6, ControllerMoves
<1>9. /\ land' \in LandStates
      /\ land'.descend = land.descend
      /\ final /\ at_limit => /\ land'.lower = (IF lower = Off THEN 0 ELSE lower)
                              /\ land'.start = start /\ land'.vpos = land.vpos
      /\ final /\ ~at_limit => land'.lower = Off /\ land'.start = Off
  BY <1>5, <1>7, RelaxStep
<1>10. TypeOK'
  <2>1. /\ rest' \in 0 .. CompleteTime + RelaxTime
        /\ still' \in 0 .. CompleteTime
    BY <1>1, <1>5 DEF Lesser
  <2> QED BY <1>5, <1>8, <1>9, <2>1 DEF IInv, TypeOK, PosStates, LandStates
<1>11. TimersInv'
  <2> SUFFICES ASSUME pc'.state = "land_final"
               PROVE  /\ land'.lower # Off
                            => Lesser(land'.lower, CompleteTime + RelaxTime) <= rest'
                      /\ land'.start # Off
                            => /\ Lesser(land'.start, CompleteTime) <= still'
                               /\ Distance(alt', land'.vpos) <= AltChange
    BY DEF TimersInv
  <2>1. final
    BY <1>8 DEF Descending
  <2>2. /\ land.lower # Off => Lesser(land.lower, CompleteTime + RelaxTime) <= rest
        /\ land.start # Off => /\ Lesser(land.start, CompleteTime) <= still
                               /\ Distance(alt, land.vpos) <= AltChange
    BY <2>1 DEF IInv, TimersInv
  <2>3. CASE ~at_limit
    BY <1>9, <2>1, <2>3
  <2>4. CASE at_limit
    <3>1. /\ land.lower # Off => land.lower \in Nat
          /\ land.start # Off => land.start \in Nat
      BY <1>1, Limits DEF LandStates, Off
    <3>2. /\ rest' = Lesser(rest + dt, CompleteTime + RelaxTime)
          /\ still' = Lesser(still + dt, CompleteTime)
      BY <1>5, <2>1, <2>4
    <3>3. Lesser(land'.lower, CompleteTime + RelaxTime) <= rest'
      <4>1. CASE land.lower = Off
        <5>1. land'.lower = 0
          BY <1>3, <1>9, <2>1, <2>4, <4>1
        <5> QED BY <1>1, <3>2, <5>1 DEF Lesser
      <4>2. CASE land.lower # Off
        <5>1. land'.lower = lower /\ lower \in Nat /\ lower <= land.lower + dt
          BY <1>3, <1>9, <2>1, <2>4, <4>2
        <5>2. CompleteTime + RelaxTime \in Nat
          BY <1>1
        <5> QED BY <1>1, <2>2, <3>1, <3>2, <4>2, <5>1, <5>2, LesserGrows
      <4> QED BY <4>1, <4>2
    <3>4. ASSUME land'.start # Off PROVE Lesser(land'.start, CompleteTime) <= still'
      <4>1. land'.start = start /\ land.start # Off
        BY <1>3, <1>9, <2>1, <2>4, <3>4
      <4>2. start \in Nat /\ start <= land.start + dt
        BY <1>3, <4>1
      <4> QED BY <1>1, <2>2, <3>1, <3>2, <4>1, <4>2, LesserGrows
    <3>5. land'.start # Off => Distance(alt', land'.vpos) <= AltChange
      BY <1>3, <1>5, <1>9, <2>1, <2>2, <2>4 DEF Distance
    <3> QED BY <3>3, <3>4, <3>5
  <2> QED BY <2>3, <2>4
<1>12. DescentInv' /\ AbortClimbsBack' /\ PayloadFloor'
  BY <1>5, <1>8, <1>9 DEF IInv, DescentInv, AbortClimbsBack, PayloadFloor
<1>13. Touched
  BY <1>8 DEF Touched, Descending
<1> QED BY <1>10, <1>11, <1>12, <1>13 DEF IInv

-----------------------------------------------------------------------------
(* verify_vtol_land().                                                     *)

\* What the two readings of the height may make of the state and timers.
Opened(f, height) ==
    /\ f.pc \in PosStates /\ f.land \in LandStates
    /\ \/ f.pc = pc /\ f.land.descend = land.descend
          /\ (pc.state # "land_descend" => f.land = land)
       \/ /\ pc.state \in {"position2", "land_descend"}
          /\ f.pc.state \in {"land_descend", "land_final"}
          /\ f.land.descend = IF pc.state = "position2" THEN height ELSE land.descend
          /\ f.pc.state = "land_final" => f.land.start = Off /\ f.land.lower = Off

LEMMA DescendedStep ==
    ASSUME TypeOK, NEW agl \in Alts, NEW height \in Alts, NEW there \in BOOLEAN
    PROVE  LET d == Descended(agl, height, there)
           IN  /\ d.pc \in PosStates /\ d.land \in LandStates
               /\ \/ d.pc = pc /\ d.land = land
                  \/ /\ pc.state = "position2"
                     /\ d.pc.state = "land_descend" /\ d.land.descend = height
<1> DEFINE q == set_state(pc, "land_descend")
           l == set_land(land, pc, "land_descend", height)
           d == Descended(agl, height, there)
<1>1. pc \in PosStates /\ land \in LandStates
  BY TypeOKParts
<1>2. q \in PosStates /\ q.state = "land_descend"
  BY <1>1, SetStateInRange DEF States
<1>3. pc.state = "position2" => l \in LandStates /\ l.descend = height
  BY <1>1 DEF set_land, LandStates
<1>4. \/ d = [pc |-> pc, land |-> land]
      \/ /\ pc.state = "position2"
         /\ d = [pc |-> [q EXCEPT !.done = FALSE], land |-> [l EXCEPT !.last_agl = agl]]
  BY DEF Descended
<1> HIDE DEF q, l, d
<1>5. CASE d = [pc |-> pc, land |-> land]
  BY <1>1, <1>5 DEF d
<1>6. CASE /\ pc.state = "position2"
           /\ d = [pc |-> [q EXCEPT !.done = FALSE], land |-> [l EXCEPT !.last_agl = agl]]
  <2>1. d.pc \in PosStates /\ d.pc.state = "land_descend"
    BY <1>2, <1>6 DEF PosStates
  <2>2. d.land \in LandStates /\ d.land.descend = height
    BY <1>3, <1>6 DEF LandStates
  <2> QED BY <1>6, <2>1, <2>2 DEF d
<1> QED BY <1>4, <1>5, <1>6

LEMMA FinalledStep ==
    ASSUME TypeOK, NEW agl \in Alts, NEW r \in Readings, NEW there \in BOOLEAN
    PROVE  Opened(Finalled(Descended(agl, r.height, there), agl, r), r.height)
<1> DEFINE d == Descended(agl, r.height, there)
           noted == [d.land EXCEPT !.last_agl = agl]
           other == land_detector(noted, r)
           check == check_land_final(d.land, agl, r)
           q == set_state(d.pc, "land_final")
           l == set_land(check.land, d.pc, "land_final", r.height)
           f == Finalled(d, agl, r)
<1> SUFFICES Opened(f, r.height)
  OBVIOUS
<1>1. r.height \in Alts
  BY DEF Readings
<1>2. /\ pc \in PosStates /\ land \in LandStates
      /\ d.pc \in PosStates /\ d.land \in LandStates
      /\ \/ d.pc = pc /\ d.land = land
         \/ /\ pc.state = "position2"
            /\ d.pc.state = "land_descend" /\ d.land.descend = r.height
  BY <1>1, DescendedStep, TypeOKParts
<1> HIDE DEF d
<1>3. noted \in LandStates /\ noted.descend = d.land.descend
  BY <1>2 DEF LandStates
<1> HIDE DEF noted
<1>4. other \in LandStates /\ other.descend = d.land.descend
  BY <1>3, DetectorStep DEF Detected
<1> HIDE DEF other
<1>5. check.land \in {d.land, other}
  BY DEF check_land_final, other, noted
<1>6. check.land \in LandStates /\ check.land.descend = d.land.descend
  BY <1>2, <1>4, <1>5
<1> HIDE DEF check
<1>7. q \in PosStates /\ q.state = "land_final"
  BY <1>2, SetStateInRange DEF States
<1>8. d.pc.state = "land_descend" =>
         /\ l \in LandStates /\ l.start = Off /\ l.lower = Off
         /\ l.descend = d.land.descend
  <2>1. Off \in -1 .. LongStart /\ Off \in -1 .. LongLower
    BY Limits DEF Off
  <2> QED BY <1>6, <2>1 DEF set_land, LandStates
<1>9. IF d.pc.state # "land_descend" THEN f = d
      ELSE \/ f = [pc |-> q, land |-> l]
           \/ f = [pc |-> d.pc, land |-> check.land]
  BY DEF Finalled, check
<1> HIDE DEF q, l, f
<1>10. CASE d.pc.state # "land_descend"
  BY <1>2, <1>9, <1>10 DEF Opened
<1>11. CASE d.pc.state = "land_descend" /\ f = [pc |-> q, land |-> l]
  <2>1. f.pc = q /\ f.land = l
    BY <1>11
  <2>2. pc.state \in {"position2", "land_descend"}
        /\ d.land.descend = IF pc.state = "position2" THEN r.height ELSE land.descend
    BY <1>2, <1>11
  <2> QED BY <1>7, <1>8, <1>11, <2>1, <2>2 DEF Opened
<1>12. CASE d.pc.state = "land_descend" /\ f = [pc |-> d.pc, land |-> check.land]
  <2>1. f.pc = d.pc /\ f.land = check.land
    BY <1>12
  <2>2. pc.state \in {"position2", "land_descend"}
        /\ d.land.descend = IF pc.state = "position2" THEN r.height ELSE land.descend
    BY <1>2, <1>12
  <2> QED BY <1>2, <1>6, <1>12, <2>1, <2>2 DEF Opened
<1> QED BY <1>9, <1>10, <1>11, <1>12

\* What becomes of f, the result of the two readings, when the landing is
\* checked: aborted, too low, complete or none of these.
Judged(f, a, r) ==
    /\ a.pc \in PosStates /\ a.land \in LandStates
    /\ a.land.descend = f.land.descend
    /\ \/ a = f /\ f.pc.state # "land_final"
       \/ /\ a.pc.state = "land_abort" /\ f.pc.state \in {"land_descend", "land_final"}
       \/ /\ f.pc.state = "land_final" /\ a.pc.state \in {"land_final", "land_complete"}
          /\ ~TooLow(f, r.height)
          /\ Detected(f.land, a.land, r)
          /\ a.pc.state = "land_complete" => Landed(a.land, CompleteTime)

LEMMA JudgedStep ==
    ASSUME NEW f, f.pc \in PosStates, f.land \in LandStates, NEW r \in Readings,
           f = [pc |-> f.pc, land |-> f.land]
    PROVE  LET left == IF TooLow(f, r.height)
                       THEN [f EXCEPT !.pc = set_state(@, "land_abort")] ELSE f
           IN  Judged(f, check_land_complete(left, r), r)
               /\ (f.pc.state = "land_abort" => Judged(f, f, r))
<1> DEFINE left == IF TooLow(f, r.height)
                   THEN [f EXCEPT !.pc = set_state(@, "land_abort")] ELSE f
           a == check_land_complete(left, r)
<1> SUFFICES Judged(f, a, r) /\ (f.pc.state = "land_abort" => Judged(f, f, r))
  OBVIOUS
<1>1. f.pc.state = "land_abort" => Judged(f, f, r)
  BY DEF Judged
<1>2. CASE TooLow(f, r.height)
  <2> DEFINE q == set_state(f.pc, "land_abort")
  <2>1. q \in PosStates /\ q.state = "land_abort"
    BY SetStateInRange DEF States
  <2>2. f.pc.state \in {"land_descend", "land_final"}
    BY <1>2 DEF TooLow
  <2>3. left = [pc |-> q, land |-> f.land]
    BY <1>2
  <2> HIDE DEF q, left
  <2>4. left.pc = q /\ left.land = f.land
    BY <2>3
  <2>5. a = left
    BY <2>1, <2>4 DEF check_land_complete
  <2> HIDE DEF a
  <2> QED BY <1>1, <2>1, <2>2, <2>4, <2>5 DEF Judged
<1>3. CASE ~TooLow(f, r.height) /\ f.pc.state # "land_final"
  <2>1. a = f
    BY <1>3 DEF check_land_complete
  <2> HIDE DEF a
  <2> QED BY <1>1, <1>3, <2>1 DEF Judged
<1>4. CASE ~TooLow(f, r.height) /\ f.pc.state = "land_final"
  <2> DEFINE q == set_state(f.pc, "land_complete")
             l == land_detector(f.land, r)
  <2>1. q \in PosStates /\ q.state = "land_complete"
    BY SetStateInRange DEF States
  <2>2. Detected(f.land, l, r)
    BY DetectorStep
  <2>3. l \in LandStates /\ l.descend = f.land.descend
    BY <2>2 DEF Detected
  <2>4. a = IF Landed(l, CompleteTime) THEN [pc |-> q, land |-> l]
            ELSE [pc |-> f.pc, land |-> l]
    BY <1>4 DEF check_land_complete
  <2> HIDE DEF q, l, a
  <2>5. a.land = l
    BY <2>4
  <2>6. \/ a.pc = q /\ Landed(l, CompleteTime)
        \/ a.pc = f.pc
    BY <2>4
  <2> QED BY <1>1, <1>4, <2>1, <2>2, <2>3, <2>5, <2>6 DEF Judged
<1> QED BY <1>2, <1>3, <1>4

LEMMA VerifyKeepsIInv ==
    ASSUME IInv, NEW agl \in Alts, NEW r \in Readings, NEW there \in BOOLEAN,
           verify_vtol_land(agl, r, there)
    PROVE  IInv' /\ Touched
<1> DEFINE f == Finalled(Descended(agl, r.height, there), agl, r)
           aborted == f.pc.state = "land_abort" /\ r.height >= f.land.descend
           left    == IF TooLow(f, r.height)
                      THEN [f EXCEPT !.pc = set_state(@, "land_abort")] ELSE f
           after   == IF aborted THEN f ELSE check_land_complete(left, r)
           complete == after.pc.state = "land_complete" /\ pc.state # "land_complete"
           steady == /\ pc.state = "land_final" /\ r.at_limit /\ ~r.correcting
                     /\ Distance(r.height, alt) <= 2 * AltChange
<1>1. /\ pc \in PosStates /\ land \in LandStates /\ alt \in Nat
      /\ rest \in Nat /\ still \in Nat
      /\ rest <= CompleteTime + RelaxTime /\ still <= CompleteTime
      /\ CompleteTime \in Nat /\ RelaxTime \in Nat /\ AltChange \in Nat
      /\ r.height \in Alts /\ r.height \in Nat
      /\ r.at_limit \in BOOLEAN /\ r.correcting \in BOOLEAN
      /\ Alts \subseteq Nat
  BY TypeOKParts, LandingAssumption DEF IInv, Readings
<1>2. Opened(f, r.height)
  BY FinalledStep DEF IInv
<1>3. f = [pc |-> f.pc, land |-> f.land]
  BY DEF Finalled, Descended
<1>4. /\ turn' = "control"
      /\ pc' = after.pc /\ land' = after.land /\ alt' = r.height
      /\ told' = CASE aborted -> "aborted"
                   [] complete /\ payload -> "shutdown"
                   [] complete /\ ~payload -> "landed"
                   [] OTHER -> "none"
      /\ coop' = (r.at_limit /\ ~r.correcting /\ r.height = alt /\ there)
      /\ rest' = IF pc.state = "land_final" /\ r.at_limit THEN rest ELSE 0
      /\ still' = IF steady THEN still ELSE 0
      /\ began' = IF pc.state = "position2" /\ pc'.state # "position2" THEN r.height
                  ELSE began
      /\ UNCHANGED payload
  BY DEF verify_vtol_land
<1> HIDE DEF f
<1>5. f.pc \in PosStates /\ f.land \in LandStates
  BY <1>2 DEF Opened
<1>6. Judged(f, after, r)
  BY <1>3, <1>5, JudgedStep
<1> HIDE DEF left, after
<1>7. /\ pc' \in PosStates /\ land' \in LandStates
      /\ land'.descend = f.land.descend
  BY <1>4, <1>6 DEF Judged
<1>8. pc'.state \in Descending => f.pc.state \in Descending
  BY <1>4, <1>6 DEF Judged, Descending
<1>9. f.pc.state \in Descending =>
         \/ pc.state \in Descending /\ f.land.descend = land.descend
         \/ pc.state = "position2" /\ f.land.descend = r.height
  BY <1>2 DEF Opened, Descending
<1>10. /\ TypeOK'
       /\ told' = "aborted" => aborted
       /\ told' = "shutdown" => complete /\ payload
  <2>1. rest' \in 0 .. CompleteTime + RelaxTime /\ still' \in 0 .. CompleteTime
    BY <1>1, <1>4
  <2>2. /\ (r.at_limit /\ ~r.correcting /\ r.height = alt /\ there) \in BOOLEAN
        /\ aborted \in BOOLEAN /\ complete \in BOOLEAN /\ payload \in BOOLEAN
    BY <1>1 DEF IInv, TypeOK
  <2>3. /\ told' \in {"none", "aborted", "shutdown", "landed"}
        /\ told' = "aborted" => aborted
        /\ told' = "shutdown" => complete /\ payload
    BY <1>4, <2>2
  <2>4. began' \in Alts \cup {Off} /\ payload' \in BOOLEAN
    BY <1>1, <1>4 DEF IInv, TypeOK
  <2> HIDE DEF aborted, complete, steady
  <2> QED BY <1>1, <1>4, <1>7, <2>1, <2>2, <2>3, <2>4
      DEF TypeOK, PosStates, LandStates
<1>11. DescentInv'
  <2> SUFFICES ASSUME pc'.state \in Descending PROVE began' = land'.descend
    BY DEF DescentInv
  <2>1. pc'.state # "position2"
    BY DEF Descending
  <2>2. CASE pc.state \in Descending /\ f.land.descend = land.descend
    <3>1. began = land.descend /\ pc.state # "position2"
      BY <2>2 DEF IInv, DescentInv, Descending
    <3> QED BY <1>4, <1>7, <2>2, <3>1
  <2>3. CASE pc.state = "position2" /\ f.land.descend = r.height
    BY <1>4, <1>7, <2>1, <2>3
  <2> QED BY <1>8, <1>9, <2>2, <2>3
<1>12. AbortClimbsBack'
  <2> SUFFICES ASSUME told' = "aborted" PROVE began' # Off /\ alt' >= began'
    BY DEF AbortClimbsBack
  <2>1. aborted
    BY <1>10
  <2>2. pc'.state \in Descending
    BY <1>4, <2>1 DEF after, Descending
  <2>3. began' = f.land.descend
    BY <1>7, <1>11, <2>2 DEF DescentInv
  <2>4. f.land.descend \in Nat
    BY <1>1, <1>5 DEF LandStates
  <2> QED BY <1>1, <1>4, <2>1, <2>3, <2>4 DEF Off
<1>13. PayloadFloor'
  <2> SUFFICES ASSUME told' = "shutdown", Drop > 0 PROVE alt' >= began' - Drop
    BY DEF PayloadFloor
  <2>1. complete /\ payload
    BY <1>10
  <2>2. pc'.state = "land_complete" /\ after.pc.state = "land_complete"
    BY <1>4, <2>1
  <2>3. f.pc.state = "land_final" /\ ~TooLow(f, r.height)
    BY <1>2, <1>6, <2>1, <2>2 DEF Judged, Opened
  <2>4. ~(r.height < f.land.descend - Drop)
    BY <2>1, <2>3 DEF TooLow
  <2>5. began' = f.land.descend
    BY <1>7, <1>11, <2>2 DEF DescentInv, Descending
  <2>6. f.land.descend \in Nat /\ Drop \in Nat
    BY <1>1, <1>5, LandingAssumption DEF LandStates
  <2> QED BY <1>1, <1>4, <2>4, <2>5, <2>6
\* The timers of a landing that is in its final descent after the call.
<1>14. ASSUME pc'.state \in {"land_final", "land_complete"}, pc.state # "land_complete"
       PROVE  /\ land'.lower # Off
                    => Lesser(land'.lower, CompleteTime + RelaxTime) <= rest'
              /\ land'.start # Off
                    => /\ Lesser(land'.start, CompleteTime) <= still'
                       /\ Distance(alt', land'.vpos) <= AltChange
  <2>1. /\ f.pc.state = "land_final"
        /\ Detected(f.land, land', r)
    BY <1>2, <1>4, <1>6, <1>14 DEF Judged, Opened
  <2>2. /\ r.at_limit => land'.lower = IF f.land.lower = Off THEN 0 ELSE f.land.lower
        /\ ~r.at_limit => land'.lower = Off /\ land'.start = Off
        /\ land'.start # Off =>
              /\ r.at_limit /\ ~r.correcting /\ land'.lower > RelaxTime
              /\ Distance(r.height, land'.vpos) <= AltChange
              /\ \/ land'.start = 0
                 \/ /\ f.land.start # Off /\ land'.start = f.land.start
                    /\ land'.vpos = f.land.vpos
    BY <2>1 DEF Detected
  <2>3. 0 <= rest' /\ 0 <= still' /\ Lesser(0, CompleteTime) = 0
        /\ Lesser(0, CompleteTime + RelaxTime) = 0
    BY <1>1, <1>4 DEF Lesser
  <2>4. CASE pc.state = "land_final"
    <3>1. f.land = land
      BY <1>2, <2>4 DEF Opened
    <3>2. /\ land.lower # Off => Lesser(land.lower, CompleteTime + RelaxTime) <= rest
          /\ land.start # Off => /\ Lesser(land.start, CompleteTime) <= still
                                 /\ Distance(alt, land.vpos) <= AltChange
      BY <2>4 DEF IInv, TimersInv
    <3>3. ASSUME land'.lower # Off
          PROVE  Lesser(land'.lower, CompleteTime + RelaxTime) <= rest'
      <4>1. r.at_limit
        BY <1>1, <2>2, <3>3
      <4>2. rest' = rest
        BY <1>4, <2>4, <4>1
      <4> QED BY <2>2, <2>3, <3>1, <3>2, <4>1, <4>2
    <3>4. ASSUME land'.start # Off
          PROVE  /\ Lesser(land'.start, CompleteTime) <= still'
                 /\ Distance(alt', land'.vpos) <= AltChange
      <4>1. CASE land'.start = 0
        BY <1>4, <2>2, <2>3, <3>4, <4>1
      <4>2. CASE /\ land.start # Off /\ land'.start = land.start
                 /\ land'.vpos = land.vpos
        <5>1. land'.vpos \in Int /\ r.height \in Int /\ alt \in Int
          BY <1>1, <1>7 DEF LandStates
        <5>2. Distance(r.height, land'.vpos) <= AltChange
              /\ Distance(alt, land'.vpos) <= AltChange
          BY <2>2, <3>2, <3>4, <4>2
        <5>3. Distance(r.height, alt) <= 2 * AltChange
          BY <1>1, <5>1, <5>2, DistanceTriangle
        <5>4. steady
          BY <2>2, <2>4, <3>4, <5>3
        <5>5. still' = still
          BY <1>4, <5>4
        <5> QED BY <1>4, <3>2, <4>2, <5>2, <5>5
      <4> QED BY <2>2, <3>1, <3>4, <4>1, <4>2
    <3> QED BY <3>3, <3>4
  <2>5. CASE pc.state # "land_final"
    <3>1. f.land.start = Off /\ f.land.lower = Off
      BY <1>2, <2>1, <2>5 DEF Opened
    <3>2. land'.lower \in {0, Off} /\ (land'.start # Off => land'.lower = 0)
      BY <1>1, <2>2, <3>1
    <3>3. land'.start = Off
      BY <1>1, <2>2, <3>2
    <3> QED BY <2>3, <3>2, <3>3
  <2> QED BY <2>4, <2>5
<1>15. TimersInv'
  <2> SUFFICES ASSUME pc'.state = "land_final" PROVE TimersInv'
    BY DEF TimersInv
  <2>1. pc.state # "land_complete"
    BY <1>2, <1>4, <1>6 DEF Judged, Opened
  <2> QED BY <1>14, <2>1 DEF TimersInv
<1>16. Touched
  <2> SUFFICES ASSUME pc.state # "land_complete", pc'.state = "land_complete"
               PROVE  rest' >= CompleteTime + RelaxTime /\ still' >= CompleteTime
    BY DEF Touched
  <2>1. Landed(land', CompleteTime)
    BY <1>2, <1>4, <1>6 DEF Judged, Opened
  <2>2. /\ land'.start # Off /\ land'.start >= CompleteTime
        /\ land'.lower >= CompleteTime + RelaxTime
    BY <2>1 DEF Landed
  <2>3. land'.lower # Off /\ land'.start \in Int /\ land'.lower \in Int
    BY <1>1, <1>7, <2>2, Limits DEF LandStates, Off
  <2>4. /\ Lesser(land'.lower, CompleteTime + RelaxTime) <= rest'
        /\ Lesser(land'.start, CompleteTime) <= still'
    BY <1>14, <2>2, <2>3
  <2>5. rest' \in Int /\ still' \in Int
    BY <1>1, <1>4
  <2> QED BY <1>1, <2>2, <2>3, <2>4, <2>5 DEF Lesser
<1> QED BY <1>10, <1>11, <1>12, <1>13, <1>15, <1>16 DEF IInv

-----------------------------------------------------------------------------
(* The vehicle's other calls.                                              *)

LEMMA ApproachKeepsIInv ==
    ASSUME IInv, pc' \in PosStates, pc'.state \notin Descending,
           told' = "none", coop' = FALSE, began' = Off, payload' \in BOOLEAN,
           UNCHANGED <<land, alt, turn, rest, still>>
    PROVE  IInv' /\ Touched
<1>1. TypeOK'
  BY DEF IInv, TypeOK, PosStates
<1>2. TimersInv' /\ DescentInv' /\ AbortClimbsBack' /\ PayloadFloor' /\ Touched
  BY DEF TimersInv, DescentInv, AbortClimbsBack, PayloadFloor, Touched, Descending
<1> QED BY <1>1, <1>2 DEF IInv

LEMMA MissionKeepsIInv ==
    ASSUME IInv, NEW item \in BOOLEAN, do_vtol_land_mission(item)
    PROVE  IInv' /\ Touched
<1>1. PICK where \in {"direct", "near"} :
         LET q == poscontrol_init_approach_prep(pc, where, FALSE)
         IN  pc' = IF pc.state = "approach" /\ where # "direct" THEN q
                   ELSE [q EXCEPT !.changed = MinAirbrake + 1]
  BY DEF do_vtol_land_mission
<1> DEFINE q == poscontrol_init_approach_prep(pc, where, FALSE)
<1>2. q \in PosStates /\ q.state \in Approaching
  BY InitApproach, TypeOKParts DEF IInv
<1>3. pc' = q \/ pc' = [q EXCEPT !.changed = MinAirbrake + 1]
  BY <1>1
<1> HIDE DEF q
<1>4. MinAirbrake + 1 \in 0 .. MinAirbrake + 1
  BY LandingAssumption
<1>5. pc' \in PosStates /\ pc'.state \in Approaching
  BY <1>2, <1>3, <1>4 DEF PosStates
<1>6. /\ told' = "none" /\ coop' = FALSE /\ began' = Off /\ payload' = item
      /\ UNCHANGED <<land, alt, turn, rest, still>>
  BY DEF do_vtol_land_mission
<1> QED BY <1>5, <1>6, ApproachKeepsIInv DEF Approaching, Descending

LEMMA InitApproachKeepsIInv ==
    ASSUME IInv, poscontrol_init_approach
    PROVE  IInv' /\ Touched
<1>1. PICK where \in {"direct", "near", "far"}, hovers \in BOOLEAN :
         pc' = poscontrol_init_approach_prep(pc, where, hovers)
  BY DEF poscontrol_init_approach
<1>2. pc' \in PosStates /\ pc'.state \in Approaching
  BY <1>1, InitApproach, TypeOKParts DEF IInv
<1>3. /\ told' = "none" /\ coop' = FALSE /\ began' = Off /\ payload' \in BOOLEAN
      /\ UNCHANGED <<land, alt, turn, rest, still>>
  BY DEF poscontrol_init_approach, IInv, TypeOK
<1> QED BY <1>2, <1>3, ApproachKeepsIInv DEF Approaching, Descending

LEMMA EnterKeepsIInv ==
    ASSUME IInv, mode_enter
    PROVE  IInv' /\ Touched
<1>1. /\ pc' \in PosStates /\ pc'.state = "none"
  <2>1. MinAirbrake + 1 \in 0 .. MinAirbrake + 1 /\ Off \in -1 .. ThrustLoss + 1
    BY LandingAssumption DEF Off
  <2> QED BY <2>1 DEF mode_enter, PosStates, States
<1>2. /\ told' = "none" /\ coop' = FALSE /\ began' = Off /\ payload' \in BOOLEAN
      /\ UNCHANGED <<land, alt, turn, rest, still>>
  BY DEF mode_enter, IInv, TypeOK
<1> QED BY <1>1, <1>2, ApproachKeepsIInv DEF Descending

LEMMA AbortKeepsIInv ==
    ASSUME IInv, abort_landing
    PROVE  IInv' /\ Touched
<1>1. pc.state \in Descending
  BY DEF abort_landing, Descending
<1>2. pc' \in PosStates /\ pc'.state = "land_abort"
  BY SetStateInRange, TypeOKParts DEF abort_landing, IInv, States
<1>3. /\ told' = "none" /\ coop' = FALSE
      /\ UNCHANGED <<land, alt, payload, turn, rest, still, began>>
  BY DEF abort_landing
<1>4. TypeOK'
  BY <1>2, <1>3 DEF IInv, TypeOK, PosStates
<1>5. TimersInv' /\ DescentInv' /\ AbortClimbsBack' /\ PayloadFloor' /\ Touched
  BY <1>1, <1>2, <1>3
  DEF IInv, TimersInv, DescentInv, AbortClimbsBack, PayloadFloor, Touched
<1> QED BY <1>4, <1>5 DEF IInv

-----------------------------------------------------------------------------
(* The specification.                                                      *)

LEMMA StepKeepsIInv == IInv /\ [Next]_vars => IInv' /\ (Touched \/ UNCHANGED vars)
<1> SUFFICES ASSUME IInv, [Next]_vars PROVE IInv' /\ (Touched \/ UNCHANGED vars)
  OBVIOUS
<1>1. CASE Control
  BY <1>1, ControlKeepsIInv DEF Control
<1>2. CASE Verify
  <2>1. PICK agl \in Alts, height \in Alts, at_limit \in BOOLEAN,
             correcting \in BOOLEAN, there \in BOOLEAN :
           verify_vtol_land(agl, [at_limit |-> at_limit, correcting |-> correcting,
                                  height |-> height], there)
    BY <1>2 DEF Verify
  <2>2. [at_limit |-> at_limit, correcting |-> correcting, height |-> height] \in Readings
    BY DEF Readings
  <2> QED BY <2>1, <2>2, VerifyKeepsIInv
<1>3. CASE \E item \in BOOLEAN : do_vtol_land_mission(item)
  BY <1>3, MissionKeepsIInv
<1>4. CASE poscontrol_init_approach
  BY <1>4, InitApproachKeepsIInv
<1>5. CASE mode_enter
  BY <1>5, EnterKeepsIInv
<1>6. CASE abort_landing
  BY <1>6, AbortKeepsIInv
<1>7. CASE UNCHANGED vars
  <2>1. TypeOK'
    BY <1>7 DEF IInv, TypeOK, vars
  <2>2. TimersInv' /\ DescentInv' /\ AbortClimbsBack' /\ PayloadFloor'
    BY <1>7 DEF IInv, TimersInv, DescentInv, AbortClimbsBack, PayloadFloor, vars
  <2> QED BY <1>7, <2>1, <2>2 DEF IInv
<1> QED BY <1>1, <1>2, <1>3, <1>4, <1>5, <1>6, <1>7 DEF Next

THEOREM Invariance == Spec => []IInv
<1>1. Init => IInv
  BY InitIsSound
<1>2. IInv /\ [Next]_vars => IInv'
  BY StepKeepsIInv
<1> QED BY <1>1, <1>2, PTL DEF Spec

\* The calls of a loop and of the mission keep every variable in its range.
THEOREM TypeOKHolds == Spec => []TypeOK
<1>1. IInv => TypeOK
  BY DEF IInv
<1> QED BY <1>1, Invariance, PTL

\* An aborted landing is told done only at or above where its descent began.
THEOREM AbortClimbsBackHolds == Spec => []AbortClimbsBack
<1>1. IInv => AbortClimbsBack
  BY DEF IInv
<1> QED BY <1>1, Invariance, PTL

\* A payload is not put down further below than the mission item allows.
THEOREM PayloadFloorHolds == Spec => []PayloadFloor
<1>1. IInv => PayloadFloor
  BY DEF IInv
<1> QED BY <1>1, Invariance, PTL

\* No stamp of an earlier descent completes a landing.
THEOREM TouchdownIsRealHolds == Spec => TouchdownIsReal
<1>1. IInv /\ [Next]_vars =>
        [pc.state # "land_complete" /\ pc'.state = "land_complete"
           => rest' >= CompleteTime + RelaxTime /\ still' >= CompleteTime]_vars
  BY StepKeepsIInv DEF Touched
<1> QED BY <1>1, Invariance, PTL DEF Spec, TouchdownIsReal
-----------------------------------------------------------------------------
(* Progress.  That a landing touches down is a temporal property, which    *)
(* the provers cannot reach; what they can is that every call that is      *)
(* given what a landing needs takes it nearer, or waits for the other      *)
(* call, by a count that bounds the calls it takes.                        *)

\* The detector's timer is started only once the throttle has been at its
\* limit for longer than RelaxTime, and the two are never far apart again.
Paced(l) == l.start # Off => l.lower >= l.start + RelaxTime + 1
DetectorInv == Paced(land)

\* The height a is too far from the one the detector's timer began at.
Far(l, a) == Distance(a, l.vpos) > AltChange

\* The calls the detector still needs for a timeout of T, at most.
TimerRank(l, a, T) ==
    IF l.lower = Off THEN T + RelaxTime + 5
    ELSE IF l.lower <= RelaxTime THEN T + RelaxTime + 4 - l.lower
    ELSE IF l.start = Off THEN T + 2
    ELSE IF Far(l, a) THEN T + 3
    ELSE IF l.start < T THEN 1 + T - l.start
    ELSE 0

\* The detector makes no progress by the passing of time.
Stuck(l, a, T) ==
    \/ l.lower = Off
    \/ l.lower > RelaxTime /\ (l.start = Off \/ Far(l, a) \/ l.start >= T)

\* The calls a landing still takes, at most, from the state p and timers l.
DescendRank == CompleteTime + FinalTime + 2 * RelaxTime + 13
LandRank(p, l, a) ==
    IF p.state \in {"land_complete", "land_abort"} THEN 0
    ELSE IF p.state = "land_final" THEN 1 + TimerRank(l, a, CompleteTime)
    ELSE IF p.state = "land_descend"
    THEN CompleteTime + RelaxTime + 7 + TimerRank(l, a, FinalTime)
    ELSE IF p.state = "position2" THEN DescendRank + IF p.done /\ p.active THEN 1 ELSE 0
    ELSE IF p.state = "position1" THEN DescendRank + 2
    ELSE IF p.state = "airbrake" THEN DescendRank + 4 + MinAirbrake - p.changed
    ELSE DescendRank + 5 + MinAirbrake

\* Only verify_vtol_land() takes the landing further.
AwaitsVerify(p, l, a) ==
    \/ p.state = "position2" /\ ~(p.done /\ p.active)
    \/ p.state = "land_descend" /\ Stuck(l, a, FinalTime)
    \/ p.state = "land_final" /\ Stuck(l, a, CompleteTime)

\* A call that is given what a landing needs ends it, or takes it a call
\* nearer to its end, or is not the one the landing waits for; and what is
\* touched down, or aborted, stays so.
LandingProgress ==
    [][/\ Control /\ coop'
             => \/ pc'.state \in {"land_complete", "land_abort"}
                \/ LandRank(pc', land', alt') < LandRank(pc, land, alt)
                \/ /\ AwaitsVerify(pc, land, alt) /\ AwaitsVerify(pc', land', alt')
                   /\ LandRank(pc', land', alt') = LandRank(pc, land, alt)
       /\ Verify /\ coop'
             => \/ pc'.state \in {"land_complete", "land_abort"}
                \/ LandRank(pc', land', alt') < LandRank(pc, land, alt)
                \/ /\ ~AwaitsVerify(pc, land, alt)
                   /\ LandRank(pc', land', alt') = LandRank(pc, land, alt)]_vars

-----------------------------------------------------------------------------
(* The pace of the detector's timers.                                      *)

LEMMA PacedAges ==
    ASSUME NEW l \in LandStates, Paced(l), NEW dt \in Nat \ {0},
           NEW n, n = [l EXCEPT !.start = Aged(@, LongStart, dt),
                                !.lower = Aged(@, LongLower, dt)]
    PROVE  n \in LandStates /\ Paced(n) /\ n.vpos = l.vpos
<1>1. /\ l.start \in -1 .. LongStart /\ l.lower \in -1 .. LongLower
      /\ LongStart \in Nat /\ LongLower \in Nat /\ LongLower = LongStart + RelaxTime + 1
      /\ RelaxTime \in Nat
  BY Limits, LandingAssumption DEF LandStates, LongLower
<1>2. /\ Aged(l.start, LongStart, dt) \in -1 .. LongStart
      /\ Aged(l.lower, LongLower, dt) \in -1 .. LongLower
  BY <1>1, AgedInRange
<1>3. /\ n \in LandStates /\ n.vpos = l.vpos
      /\ n.start = Aged(l.start, LongStart, dt) /\ n.lower = Aged(l.lower, LongLower, dt)
  BY <1>2 DEF LandStates
<1>4. Paced(n)
  BY <1>1, <1>3 DEF Paced, Aged, Lesser, Off
<1> QED BY <1>3, <1>4

LEMMA PacedRelaxes ==
    ASSUME NEW l \in LandStates, Paced(l), NEW at_limit \in BOOLEAN
    PROVE  Paced(should_relax(l, at_limit))
<1> DEFINE n == should_relax(l, at_limit)
<1> SUFFICES Paced(n)
  OBVIOUS
<1>1. /\ at_limit => n.lower = (IF l.lower = Off THEN 0 ELSE l.lower) /\ n.start = l.start
      /\ ~at_limit => n.lower = Off /\ n.start = Off
  BY RelaxStep
<1>2. /\ l.start \in -1 .. LongStart /\ l.lower \in -1 .. LongLower
      /\ LongStart \in Nat /\ LongLower \in Nat /\ RelaxTime \in Nat
  BY Limits, LandingAssumption DEF LandStates
<1> HIDE DEF n
<1>3. CASE at_limit
  BY <1>1, <1>2, <1>3 DEF Paced, Off
<1>4. CASE ~at_limit
  BY <1>1, <1>4 DEF Paced
<1> QED BY <1>3, <1>4

LEMMA PacedDetects ==
    ASSUME NEW l \in LandStates, Paced(l), NEW r \in Readings
    PROVE  land_detector(l, r) \in LandStates /\ Paced(land_detector(l, r))
<1> DEFINE n == land_detector(l, r)
<1>1. Detected(l, n, r)
  BY DetectorStep
<1> HIDE DEF n
<1>2. /\ n \in LandStates
      /\ r.at_limit  => n.lower = IF l.lower = Off THEN 0 ELSE l.lower
      /\ n.start # Off => /\ r.at_limit /\ n.lower > RelaxTime
                          /\ n.start = 0 \/ (l.start # Off /\ n.start = l.start)
  BY <1>1 DEF Detected
<1>3. /\ l.start \in -1 .. LongStart /\ l.lower \in -1 .. LongLower
      /\ n.lower \in -1 .. LongLower
      /\ LongStart \in Nat /\ LongLower \in Nat /\ RelaxTime \in Nat
  BY <1>2, Limits, LandingAssumption DEF LandStates
<1>4. ASSUME n.start # Off PROVE n.lower >= n.start + RelaxTime + 1
  <2>1. CASE n.start = 0
    BY <1>2, <1>3, <1>4, <2>1
  <2>2. CASE l.start # Off /\ n.start = l.start
    <3>1. l.lower >= l.start + RelaxTime + 1
      BY <2>2 DEF Paced
    <3>2. n.lower = l.lower
      BY <1>2, <1>3, <1>4, <2>2, <3>1 DEF Off
    <3> QED BY <2>2, <3>1, <3>2
  <2> QED BY <1>2, <1>4, <2>1, <2>2
<1> QED BY <1>2, <1>4 DEF Paced, n

\* What verify_vtol_land() makes of the timers.
LEMMA PacedVerifies ==
    ASSUME TypeOK, DetectorInv, NEW agl \in Alts, NEW r \in Readings, NEW there \in BOOLEAN,
           NEW f, f = Finalled(Descended(agl, r.height, there), agl, r)
    PROVE  Paced(f.land) /\ Paced(land_detector(f.land, r)) /\ f.land \in LandStates
<1> DEFINE d == Descended(agl, r.height, there)
           noted == [d.land EXCEPT !.last_agl = agl]
           check == check_land_final(d.land, agl, r)
<1>1. r.height \in Alts /\ land \in LandStates /\ pc \in PosStates /\ Paced(land)
  BY TypeOKParts DEF Readings, DetectorInv
<1>2. d.land \in LandStates
  BY <1>1, DescendedStep
<1>3. d.land.start = land.start /\ d.land.lower = land.lower
  <2>1. CASE pc.state = "position2" /\ there /\ (pc.done => ~pc.active)
    <3>1. d.land = [set_land(land, pc, "land_descend", r.height) EXCEPT !.last_agl = agl]
      BY <2>1 DEF Descended
    <3>2. set_land(land, pc, "land_descend", r.height) = [land EXCEPT !.descend = r.height]
      BY <2>1 DEF set_land
    <3> QED BY <1>1, <3>1, <3>2 DEF LandStates
  <2>2. CASE ~(pc.state = "position2" /\ there /\ (pc.done => ~pc.active))
    BY <2>2 DEF Descended
  <2> QED BY <2>1, <2>2
<1>4. Paced(d.land)
  BY <1>1, <1>3 DEF Paced
<1> HIDE DEF d
<1>5. noted \in LandStates /\ noted.start = d.land.start /\ noted.lower = d.land.lower
  BY <1>2 DEF LandStates
<1>6. Paced(noted)
  BY <1>4, <1>5 DEF Paced
<1>7. check.land \in {d.land, land_detector(noted, r)}
  BY DEF check_land_final
<1>8. check.land \in LandStates /\ Paced(check.land)
  BY <1>2, <1>4, <1>5, <1>6, <1>7, PacedDetects
<1> HIDE DEF check
<1>9. f.land \in {d.land, check.land} \/ f.land.start = Off
  <2>1. CASE d.pc.state = "land_descend" /\ check.final
    <3>1. f.land = set_land(check.land, d.pc, "land_final", r.height)
      BY <2>1 DEF Finalled, check, d
    <3>2. set_land(check.land, d.pc, "land_final", r.height)
             = [check.land EXCEPT !.start = Off, !.lower = Off]
      BY <2>1 DEF set_land
    <3> QED BY <1>8, <3>1, <3>2 DEF LandStates
  <2>2. CASE ~(d.pc.state = "land_descend" /\ check.final)
    BY <2>2 DEF Finalled, check, d
  <2> QED BY <2>1, <2>2
<1>10. Paced(f.land)
  BY <1>4, <1>8, <1>9 DEF Paced
<1>11. f.land \in LandStates
  BY FinalledStep DEF Opened
<1> QED BY <1>10, <1>11, PacedDetects

\* The detector's timers keep their pace, for every delay.
THEOREM DetectorInvHolds == Spec => []DetectorInv
<1>1. Init => DetectorInv
  BY DEF Init, DetectorInv, Paced
<1>2. IInv /\ DetectorInv /\ [Next]_vars => DetectorInv'
  <2> SUFFICES ASSUME IInv, DetectorInv, [Next]_vars PROVE DetectorInv'
    OBVIOUS
  <2>1. TypeOK /\ land \in LandStates /\ Paced(land)
    BY TypeOKParts DEF IInv, DetectorInv
  <2>2. ASSUME NEW dt \in Steps, NEW at_limit \in BOOLEAN, NEW next \in {"control", "verify"},
               vtol_position_controller(dt, at_limit, next)
        PROVE  DetectorInv'
    <3> DEFINE l == [land EXCEPT !.start = Aged(@, LongStart, dt),
                                 !.lower = Aged(@, LongLower, dt)]
    <3>1. land' \in {l, should_relax(l, at_limit)}
      BY <2>2 DEF vtol_position_controller
    <3>2. dt \in Nat \ {0}
      BY LandingAssumption
    <3> HIDE DEF l
    <3>3. l \in LandStates /\ Paced(l)
      BY <2>1, <3>2, PacedAges DEF l
    <3> QED BY <3>1, <3>3, PacedRelaxes DEF DetectorInv, Paced
  <2>3. ASSUME NEW agl \in Alts, NEW r \in Readings, NEW there \in BOOLEAN,
               verify_vtol_land(agl, r, there)
        PROVE  DetectorInv'
    <3> DEFINE f == Finalled(Descended(agl, r.height, there), agl, r)
    <3>1. Paced(f.land) /\ Paced(land_detector(f.land, r))
      BY <2>1, PacedVerifies DEF DetectorInv
    <3>2. land' \in {f.land, land_detector(f.land, r)}
      BY <2>3 DEF verify_vtol_land, check_land_complete
    <3> HIDE DEF f
    <3> QED BY <3>1, <3>2 DEF DetectorInv, Paced
  <2>4. CASE Control
    BY <2>2, <2>4 DEF Control
  <2>5. CASE Verify
    BY <2>3, <2>5 DEF Verify, Readings
  <2>6. CASE UNCHANGED land
    BY <2>6 DEF DetectorInv, Paced
  <2> QED BY <2>4, <2>5, <2>6
      DEF Next, do_vtol_land_mission, poscontrol_init_approach, mode_enter,
          abort_landing, vars
<1> QED BY <1>1, <1>2, Invariance, PTL DEF Spec

-----------------------------------------------------------------------------
(* The detector, timed.                                                    *)

Timeouts == {CompleteTime, FinalTime}

LEMMA TimerRange ==
    ASSUME NEW l \in LandStates, NEW a \in Nat, NEW T \in Timeouts
    PROVE  /\ T \in Nat /\ T <= LongStart
           /\ TimerRank(l, a, T) \in 0 .. T + RelaxTime + 5
<1>1. /\ l.start \in -1 .. LongStart /\ l.lower \in -1 .. LongLower
      /\ LongStart \in Nat /\ LongLower \in Nat /\ RelaxTime \in Nat
      /\ T \in Nat /\ T <= LongStart
  BY Limits, LandingAssumption DEF LandStates, Timeouts, LongStart
<1> QED BY <1>1 DEF TimerRank, Off

\* Time that passes brings the detector nearer, or does nothing to it.
LEMMA TimerAges ==
    ASSUME NEW l \in LandStates, NEW dt \in Nat \ {0}, NEW a \in Nat, NEW T \in Timeouts,
           NEW n, n.start = Aged(l.start, LongStart, dt), n.vpos = l.vpos,
           n.lower = Aged(l.lower, LongLower, dt)
    PROVE  \/ TimerRank(n, a, T) < TimerRank(l, a, T)
           \/ /\ Stuck(l, a, T) /\ Stuck(n, a, T) /\ (n.lower = Off <=> l.lower = Off)
              /\ TimerRank(n, a, T) = TimerRank(l, a, T)
<1>1. /\ l.start \in -1 .. LongStart /\ l.lower \in -1 .. LongLower
      /\ LongStart \in Nat /\ LongLower \in Nat /\ RelaxTime \in Nat
      /\ LongLower > RelaxTime
      /\ T \in Nat /\ T <= LongStart
  BY Limits, LandingAssumption, TimerRange DEF LandStates, LongLower
<1>2. /\ n.start = Aged(l.start, LongStart, dt) /\ n.lower = Aged(l.lower, LongLower, dt)
      /\ n.vpos = l.vpos
  OBVIOUS
<1>3. Far(n, a) = Far(l, a) /\ Far(l, a) \in BOOLEAN
  BY <1>2 DEF Far
<1>4. CASE l.lower = Off
  <2>1. n.lower = Off
    BY <1>2, <1>4 DEF Aged
  <2> QED BY <1>4, <2>1 DEF TimerRank, Stuck
<1>5. CASE l.lower # Off /\ l.lower <= RelaxTime
  <2>1. n.lower > l.lower /\ n.lower \in Nat /\ l.lower \in Nat
    BY <1>1, <1>2, <1>5 DEF Aged, Lesser, Off
  <2>2. n.start \in Int
    BY <1>1, <1>2 DEF Aged, Lesser, Off
  <2>3. TimerRank(l, a, T) = T + RelaxTime + 4 - l.lower
    BY <1>5 DEF TimerRank
  <2>4. CASE n.lower <= RelaxTime
    <3>1. TimerRank(n, a, T) = T + RelaxTime + 4 - n.lower
      BY <2>1, <2>4 DEF TimerRank, Off
    <3> QED BY <1>1, <2>1, <2>3, <3>1
  <2>5. CASE ~(n.lower <= RelaxTime)
    <3>1. TimerRank(n, a, T) \in Int /\ TimerRank(n, a, T) <= T + 3
      <4>1. n.start = Off \/ n.start \in Nat
        BY <1>1, <1>2 DEF Aged, Lesser, Off
      <4> QED BY <1>1, <1>3, <2>1, <2>5, <4>1 DEF TimerRank, Off
    <3> QED BY <1>1, <1>5, <2>1, <2>3, <3>1
  <2> QED BY <2>4, <2>5
<1>6. CASE l.lower # Off /\ ~(l.lower <= RelaxTime)
  <2>1. n.lower # Off /\ n.lower > RelaxTime /\ ~(n.lower <= RelaxTime) /\ l.lower > RelaxTime
    BY <1>1, <1>2, <1>6 DEF Aged, Lesser, Off
  <2>2. CASE l.start = Off
    <3>1. n.start = Off
      BY <1>2, <2>2 DEF Aged
    <3> QED BY <1>6, <2>1, <2>2, <3>1 DEF TimerRank, Stuck
  <2>3. CASE l.start # Off /\ Far(l, a)
    <3>1. n.start # Off /\ Far(n, a)
      BY <1>1, <1>2, <1>3, <2>3 DEF Aged, Lesser, Off
    <3> QED BY <1>6, <2>1, <2>3, <3>1 DEF TimerRank, Stuck
  <2>4. CASE l.start # Off /\ ~Far(l, a)
    <3>1. /\ n.start # Off /\ ~Far(n, a) /\ l.start \in Nat /\ n.start \in Nat
          /\ l.start < T => n.start > l.start
          /\ l.start >= T => n.start >= T
      BY <1>1, <1>2, <1>3, <2>4 DEF Aged, Lesser, Off
    <3>2. /\ TimerRank(l, a, T) = IF l.start < T THEN 1 + T - l.start ELSE 0
          /\ TimerRank(n, a, T) = IF n.start < T THEN 1 + T - n.start ELSE 0
      BY <1>6, <2>1, <2>4, <3>1 DEF TimerRank
    <3>3. CASE l.start < T
      BY <1>1, <3>1, <3>2, <3>3
    <3>4. CASE ~(l.start < T)
      <4>1. Stuck(l, a, T) /\ Stuck(n, a, T)
        BY <1>1, <2>1, <3>1, <3>4 DEF Stuck
      <4> QED BY <1>1, <1>6, <2>1, <3>1, <3>2, <3>4, <4>1
    <3> QED BY <3>3, <3>4
  <2> QED BY <2>2, <2>3, <2>4
<1> QED BY <1>4, <1>5, <1>6

\* A reading of a vehicle that rests at the height of the last one brings
\* the detector nearer, unless only time does.
LEMMA TimerDetects ==
    ASSUME NEW l \in LandStates, Paced(l), NEW r \in Readings, r.at_limit, ~r.correcting,
           NEW T \in Timeouts
    PROVE  LET n == land_detector(l, r)
           IN  \/ Landed(n, T)
               \/ TimerRank(n, r.height, T) < TimerRank(l, r.height, T)
               \/ /\ ~Stuck(l, r.height, T) /\ ~Stuck(n, r.height, T)
                  /\ TimerRank(n, r.height, T) = TimerRank(l, r.height, T)
<1> DEFINE n == land_detector(l, r)
           s == should_relax(l, TRUE)
           b == IF s.start = Off THEN [s EXCEPT !.start = 0, !.vpos = r.height] ELSE s
           a == r.height
<1> SUFFICES \/ Landed(n, T)
             \/ TimerRank(n, a, T) < TimerRank(l, a, T)
             \/ /\ ~Stuck(l, a, T) /\ ~Stuck(n, a, T)
                /\ TimerRank(n, a, T) = TimerRank(l, a, T)
  OBVIOUS
<1>1. /\ l.start \in -1 .. LongStart /\ l.lower \in -1 .. LongLower
      /\ LongStart \in Nat /\ LongLower \in Nat /\ RelaxTime \in Nat /\ AltChange \in Nat
      /\ T \in Nat /\ T <= LongStart /\ a \in Nat /\ l.vpos \in Nat
      /\ r.at_limit = TRUE /\ r.correcting = FALSE
  BY Limits, LandingAssumption, TimerRange DEF LandStates, Readings
<1>2. /\ s \in LandStates /\ s.start = l.start /\ s.vpos = l.vpos
      /\ s.lower = IF l.lower = Off THEN 0 ELSE l.lower
  BY RelaxStep
<1>3. n = IF ~Relaxed(s) THEN [s EXCEPT !.start = Off]
          ELSE IF Distance(a, b.vpos) > AltChange THEN [b EXCEPT !.start = Off]
          ELSE b
  BY <1>1 DEF land_detector
<1> HIDE DEF n, s
<1>4. CASE l.lower = Off \/ l.lower <= RelaxTime
  <2>1. l.start = Off
    BY <1>1, <1>4 DEF Paced, Off
  <2>2. s.lower <= RelaxTime /\ s.lower # Off /\ s.lower \in Nat
    BY <1>1, <1>2, <1>4 DEF Off
  <2>3. ~Relaxed(s)
    BY <1>1, <2>2 DEF Relaxed
  <2>4. n.start = Off /\ n.lower = s.lower
    BY <1>2, <1>3, <2>3 DEF LandStates
  <2>5. TimerRank(n, a, T) = T + RelaxTime + 4 - s.lower
    BY <2>2, <2>4 DEF TimerRank
  <2>6. CASE l.lower = Off
    BY <1>1, <1>2, <2>5, <2>6 DEF TimerRank
  <2>7. CASE l.lower # Off
    <3>1. s.lower = l.lower /\ l.lower <= RelaxTime
      BY <1>2, <1>4, <2>7
    <3>2. ~Stuck(l, a, T) /\ ~Stuck(n, a, T)
      BY <1>1, <2>2, <2>4, <3>1 DEF Stuck
    <3> QED BY <2>5, <2>7, <3>1, <3>2 DEF TimerRank
  <2> QED BY <2>6, <2>7
<1>5. CASE l.lower # Off /\ ~(l.lower <= RelaxTime)
  <2>1. s.lower = l.lower /\ Relaxed(s) /\ l.lower > RelaxTime
    BY <1>1, <1>2, <1>5 DEF Relaxed
  <2>2. CASE l.start = Off
    <3>1. b.vpos = a /\ b.start = 0 /\ b.lower = l.lower
      BY <1>2, <2>1, <2>2 DEF LandStates
    <3>2. Distance(a, a) = 0
      BY <1>1 DEF Distance
    <3>3. n = b
      BY <1>1, <1>3, <2>1, <3>1, <3>2
    <3> HIDE DEF b
    <3>4. CASE T = 0
      BY <1>1, <2>1, <3>1, <3>3, <3>4 DEF Landed, Off
    <3>5. CASE T # 0
      <4>1. ~Far(n, a)
        BY <1>1, <3>1, <3>2, <3>3 DEF Far
      <4>2. TimerRank(n, a, T) = 1 + T /\ TimerRank(l, a, T) = T + 2
        BY <1>1, <1>5, <2>1, <2>2, <3>1, <3>3, <3>5, <4>1 DEF TimerRank, Off
      <4> QED BY <1>1, <4>2
    <3> QED BY <3>4, <3>5
  <2>3. CASE l.start # Off
    <3>1. b = s
      BY <1>2, <2>3
    <3> HIDE DEF b
    <3>2. CASE Far(l, a)
      <4>1. n.start = Off /\ n.lower = l.lower
        BY <1>2, <1>3, <2>1, <3>1, <3>2 DEF Far, LandStates
      <4>2. TimerRank(n, a, T) = T + 2 /\ TimerRank(l, a, T) = T + 3
        BY <1>5, <2>3, <3>2, <4>1 DEF TimerRank
      <4> QED BY <1>1, <4>2
    <3>3. CASE ~Far(l, a)
      <4>1. n.start = l.start /\ n.lower = l.lower /\ n.vpos = l.vpos
        BY <1>2, <1>3, <2>1, <3>1, <3>3 DEF Far
      <4>2. TimerRank(n, a, T) = TimerRank(l, a, T) /\ Stuck(n, a, T) = Stuck(l, a, T)
        BY <4>1 DEF TimerRank, Stuck, Far
      <4>3. CASE l.start >= T
        <5>1. l.lower >= T + RelaxTime
          BY <1>1, <2>3, <4>3 DEF Paced
        <5> QED BY <2>3, <4>1, <4>3, <5>1 DEF Landed
      <4>4. CASE ~(l.start >= T)
        <5>1. ~Stuck(l, a, T)
          BY <1>5, <2>3, <3>3, <4>4 DEF Stuck
        <5> QED BY <4>2, <5>1
      <4> QED BY <4>3, <4>4
    <3> QED BY <3>2, <3>3
  <2> QED BY <2>2, <2>3
<1> QED BY <1>4, <1>5

-----------------------------------------------------------------------------
(* The landing's calls.                                                    *)

\* The count is a number, so it cannot go down for ever; and each stage of
\* the landing is below the one before it.
LEMMA LandRankRange ==
    ASSUME NEW p \in PosStates, NEW l \in LandStates, NEW a \in Nat
    PROVE  /\ LandRank(p, l, a) \in Nat
           /\ p.state \in Descending => LandRank(p, l, a) < DescendRank
           /\ p.state = "land_final" => LandRank(p, l, a) <= CompleteTime + RelaxTime + 6
<1>1. /\ {RelaxTime, CompleteTime, FinalTime, MinAirbrake} \subseteq Nat
      /\ p.changed \in 0 .. MinAirbrake + 1
  BY LandingAssumption DEF PosStates
<1>2. /\ TimerRank(l, a, CompleteTime) \in 0 .. CompleteTime + RelaxTime + 5
      /\ TimerRank(l, a, FinalTime) \in 0 .. FinalTime + RelaxTime + 5
  BY TimerRange DEF Timeouts
<1>3. LandRank(p, l, a) \in Nat
  BY <1>1, <1>2 DEF LandRank, DescendRank
<1>4. p.state = "land_final" => LandRank(p, l, a) <= CompleteTime + RelaxTime + 6
  BY <1>1, <1>2 DEF LandRank
<1>5. p.state \in Descending => LandRank(p, l, a) < DescendRank
  BY <1>1, <1>2 DEF LandRank, DescendRank, Descending
<1> QED BY <1>3, <1>4, <1>5

\* The way in: with the threshold near and a reason to end the airbrake.
LEMMA AirbrakeEnds ==
    ASSUME NEW p \in PosStates, p.state \in {"airbrake", "position1"}, NEW i \in ApproachInputs,
           i.brake
    PROVE  LET n == approach_airbrake(p, i)
           IN  \/ n.state = "position1"
               \/ /\ n.state = "airbrake" /\ n.changed = p.changed
                  /\ p.state = "airbrake" /\ ~(p.changed > MinAirbrake)
<1> DEFINE b == IF p.state = "airbrake" /\ p.changed > MinAirbrake /\ i.brake
                THEN set_state(p, "position1") ELSE p
           t == [b EXCEPT !.loss = IF i.sinking /\ ~i.hovers
                                   THEN IF @ = Off THEN 0 ELSE @
                                   ELSE Off]
           c == IF t.loss > ThrustLoss THEN set_state(t, "position1") ELSE t
           n == approach_airbrake(p, i)
<1> SUFFICES \/ n.state = "position1"
             \/ /\ n.state = "airbrake" /\ n.changed = p.changed
                /\ p.state = "airbrake" /\ ~(p.changed > MinAirbrake)
  OBVIOUS
<1>1. b \in PosStates /\ (b.state = "position1" \/ (b = p /\ ~(p.changed > MinAirbrake)))
  BY SetStateInRange DEF States
<1>2. n = IF (IF c.state = "approach" /\ i.slow /\ ~i.hovers
              THEN set_state(c, "position1") ELSE c).state = "approach"
          THEN poscontrol_init_approach_prep(
                 IF c.state = "approach" /\ i.slow /\ ~i.hovers
                 THEN set_state(c, "position1") ELSE c, i.where, i.hovers)
          ELSE IF c.state = "approach" /\ i.slow /\ ~i.hovers
               THEN set_state(c, "position1") ELSE c
  BY DEF approach_airbrake
<1> HIDE DEF b, n
<1>3. DOMAIN t = DOMAIN b /\ t.state = b.state /\ t.changed = b.changed
  BY <1>1 DEF PosStates
<1>4. t \in PosStates
  <2> DEFINE loss == IF i.sinking /\ ~i.hovers THEN IF b.loss = Off THEN 0 ELSE b.loss
                     ELSE Off
  <2>1. loss \in -1 .. ThrustLoss + 1
    BY <1>1, LandingAssumption DEF PosStates, Off
  <2>2. t = [b EXCEPT !.loss = loss]
    OBVIOUS
  <2> HIDE DEF loss, t
  <2> QED BY <1>1, <2>1, <2>2 DEF PosStates
<1> HIDE DEF t
<1>5. c.state = "position1" \/ c = t
  BY <1>4, SetStateInRange DEF States
<1>6. c.state \in {"position1", "airbrake"}
  BY <1>1, <1>3, <1>5
<1> HIDE DEF c
<1>7. n = c
  BY <1>2, <1>6
<1> QED BY <1>1, <1>3, <1>5, <1>6, <1>7

LEMMA ApproachEnds ==
    ASSUME NEW p \in PosStates, p.state = "approach", NEW i \in ApproachInputs, i.near
    PROVE  approach_airbrake(p, i).state \in {"position1", "airbrake"}
<1> DEFINE a == set_state(p, IF i.hovers THEN "position1" ELSE "airbrake")
           b == IF a.state = "airbrake" /\ a.changed > MinAirbrake /\ i.brake
                THEN set_state(a, "position1") ELSE a
           t == [b EXCEPT !.loss = IF i.sinking /\ ~i.hovers
                                   THEN IF @ = Off THEN 0 ELSE @
                                   ELSE Off]
           c == IF t.loss > ThrustLoss THEN set_state(t, "position1") ELSE t
           d == IF c.state = "approach" /\ i.slow /\ ~i.hovers
                THEN set_state(c, "position1") ELSE c
<1>1. a \in PosStates /\ a.state \in {"position1", "airbrake"}
  BY SetStateInRange DEF States
<1>2. approach_airbrake(p, i) =
         IF d.state = "approach" THEN poscontrol_init_approach_prep(d, i.where, i.hovers)
         ELSE d
  BY DEF approach_airbrake
<1> HIDE DEF a
<1>3. b \in PosStates /\ b.state \in {"position1", "airbrake"}
  BY <1>1, SetStateInRange DEF States
<1> HIDE DEF b
<1>4. t \in PosStates /\ t.state = b.state
  <2> DEFINE loss == IF i.sinking /\ ~i.hovers THEN IF b.loss = Off THEN 0 ELSE b.loss
                     ELSE Off
  <2>1. loss \in -1 .. ThrustLoss + 1
    BY <1>3, LandingAssumption DEF PosStates, Off
  <2>2. t = [b EXCEPT !.loss = loss]
    OBVIOUS
  <2> HIDE DEF loss, t
  <2> QED BY <1>3, <2>1, <2>2 DEF PosStates
<1> HIDE DEF t
<1>5. c.state \in {"position1", "airbrake"}
  BY <1>3, <1>4, SetStateInRange DEF States
<1> HIDE DEF c
<1>6. d = c
  BY <1>5
<1> HIDE DEF d
<1> QED BY <1>2, <1>5, <1>6

\* The controller that is given what a landing needs, by the state it is in.
LEMMA ControlledNearer ==
    ASSUME NEW p \in PosStates, NEW r \in Controlled(p), r.coop
    PROVE  /\ p.state \in {"none", "position1"} =>
                 r.pc.state = IF p.state = "none" THEN "position1" ELSE "position2"
           /\ p.state = "position1" => r.pc.done = FALSE
           /\ p.state = "approach" => r.pc.state \in {"position1", "airbrake"}
           /\ p.state = "airbrake" =>
                 \/ r.pc.state = "position1"
                 \/ /\ r.pc.state = "airbrake" /\ r.pc.changed = p.changed
                    /\ ~(p.changed > MinAirbrake)
           /\ p.state \in Descending \cup {"position2"} => r.pc.state = p.state
           /\ p.state = "position2" => r.pc.active = FALSE
<1>1. CASE p.state = "none"
  <2>1. r.pc = set_state(p, "position1")
    BY <1>1 DEF Controlled
  <2> QED BY <1>1, <2>1, SetStateInRange DEF States, Descending
<1>2. CASE p.state \in {"approach", "airbrake"}
  <2>0. PICK i \in ApproachInputs :
           r = [pc |-> approach_airbrake(IF p.state = "approach" /\ i.nvtol
                                         THEN set_state(p, "position1") ELSE p, i),
                coop |-> i.near /\ i.brake]
    BY <1>2 DEF Controlled
  <2> DEFINE q == IF p.state = "approach" /\ i.nvtol THEN set_state(p, "position1") ELSE p
  <2>1. r.pc = approach_airbrake(q, i)
    BY <2>0
  <2>2. i.near /\ i.brake
    BY <2>0
  <2>3. q \in PosStates /\ (q.state = "position1" \/ q = p)
    BY SetStateInRange DEF States
  <2>4. CASE q.state \in {"airbrake", "position1"}
    <3>1. \/ r.pc.state = "position1"
          \/ /\ r.pc.state = "airbrake" /\ r.pc.changed = q.changed
             /\ q.state = "airbrake" /\ ~(q.changed > MinAirbrake)
      <4> HIDE DEF q
      <4> QED BY <2>1, <2>2, <2>3, <2>4, AirbrakeEnds
    <3> QED BY <1>2, <2>3, <3>1 DEF Descending
  <2>5. CASE q.state = "approach"
    <3>1. r.pc.state \in {"position1", "airbrake"}
      <4> HIDE DEF q
      <4> QED BY <2>1, <2>2, <2>3, <2>5, ApproachEnds
    <3>2. p.state = "approach"
      BY <2>3, <2>5
    <3> QED BY <3>1, <3>2 DEF Descending
  <2> QED BY <1>2, <2>3, <2>4, <2>5
<1>3. CASE p.state = "position1"
  <2> DEFINE q == set_state(p, "position2")
  <2>1. q \in PosStates /\ q.state = "position2"
    BY SetStateInRange DEF States
  <2> DEFINE n == [q EXCEPT !.done = FALSE]
  <2>2. r.pc = n
    <3>1. Controlled(p) =
             {[pc |-> IF arrived THEN n ELSE p, coop |-> arrived] : arrived \in BOOLEAN}
      BY <1>3 DEF Controlled
    <3> HIDE DEF n
    <3>2. PICK arrived \in BOOLEAN : r = [pc |-> IF arrived THEN n ELSE p, coop |-> arrived]
      BY <3>1
    <3>3. r.coop = arrived /\ r.pc = IF arrived THEN n ELSE p
      BY <3>2
    <3> QED BY <3>3
  <2> HIDE DEF q
  <2>3. r.pc.state = "position2" /\ r.pc.done = FALSE
    BY <2>1, <2>2 DEF PosStates
  <2> QED BY <1>3, <2>3 DEF Descending
<1>4. CASE p.state \in {"position2", "land_abort", "land_descend", "land_final"}
  <2>1. r.pc = update_land_positioning(p, FALSE)
    <3>1. PICK stick \in BOOLEAN :
             r = [pc |-> update_land_positioning(p, stick), coop |-> ~stick]
      BY <1>4 DEF Controlled
    <3>2. r.coop = ~stick /\ r.pc = update_land_positioning(p, stick)
      BY <3>1
    <3>3. stick = FALSE
      BY <3>2
    <3> QED BY <3>2, <3>3
  <2>2. r.pc.state = p.state /\ r.pc.active = FALSE
    BY <2>1 DEF update_land_positioning, PosStates
  <2> QED BY <1>4, <2>2
<1>5. CASE p.state = "land_complete"
  <2>1. Controlled(p) = {[pc |-> p, coop |-> TRUE]}
    BY <1>5 DEF Controlled
  <2> QED BY <1>5, <2>1
<1> QED BY <1>1, <1>2, <1>3, <1>4, <1>5 DEF PosStates, States

LEMMA ControlNearer ==
    ASSUME IInv, IInv', NEW dt \in Steps, NEW at_limit \in BOOLEAN,
           NEW next \in {"control", "verify"},
           vtol_position_controller(dt, at_limit, next), coop'
    PROVE  \/ pc'.state \in {"land_complete", "land_abort"}
           \/ LandRank(pc', land', alt') < LandRank(pc, land, alt)
           \/ /\ AwaitsVerify(pc, land, alt) /\ AwaitsVerify(pc', land', alt')
              /\ LandRank(pc', land', alt') = LandRank(pc, land, alt)
<1> DEFINE p == [pc EXCEPT !.changed = Aged(@, MinAirbrake + 1, dt),
                           !.loss    = Aged(@, ThrustLoss + 1, dt)]
           l == [land EXCEPT !.start = Aged(@, LongStart, dt),
                             !.lower = Aged(@, LongLower, dt)]
<1>1. /\ pc \in PosStates /\ land \in LandStates /\ alt \in Nat
      /\ pc' \in PosStates /\ land' \in LandStates
      /\ dt \in Nat \ {0} /\ {MinAirbrake, CompleteTime, FinalTime, RelaxTime} \subseteq Nat
      /\ pc.changed \in 0 .. MinAirbrake + 1
  BY TypeOKParts, LandingAssumption DEF IInv, TypeOK, PosStates, LandStates
<1>2. /\ p \in PosStates /\ p.state = pc.state /\ p.done = pc.done /\ p.active = pc.active
      /\ p.changed > MinAirbrake \/ p.changed > pc.changed
  <2>1. /\ Aged(pc.changed, MinAirbrake + 1, dt) \in 0 .. MinAirbrake + 1
        /\ \/ Aged(pc.changed, MinAirbrake + 1, dt) > MinAirbrake
           \/ Aged(pc.changed, MinAirbrake + 1, dt) > pc.changed
    BY <1>1 DEF Aged, Lesser, Off
  <2>2. Aged(pc.loss, ThrustLoss + 1, dt) \in -1 .. ThrustLoss + 1
    <3>1. pc.loss \in -1 .. ThrustLoss + 1 /\ ThrustLoss + 1 \in Nat
      BY <1>1, LandingAssumption DEF PosStates
    <3> QED BY <1>1, <3>1, AgedInRange
  <2> QED BY <1>1, <2>1, <2>2 DEF PosStates
<1>3. PICK r \in Controlled(p) : pc' = r.pc /\ coop' = (r.coop /\ at_limit)
  BY DEF vtol_position_controller
<1>4. land' = (IF p.state = "land_final" THEN should_relax(l, at_limit) ELSE l) /\ alt' = alt
  BY DEF vtol_position_controller
<1>5. r.coop /\ at_limit = TRUE
  BY <1>3
<1> HIDE DEF p
<1>6. /\ pc.state \in {"none", "position1"} =>
            pc'.state = IF pc.state = "none" THEN "position1" ELSE "position2"
      /\ pc.state = "position1" => pc'.done = FALSE
      /\ pc.state = "approach" => pc'.state \in {"position1", "airbrake"}
      /\ pc.state = "airbrake" =>
            \/ pc'.state = "position1"
            \/ /\ pc'.state = "airbrake" /\ pc'.changed = p.changed
               /\ ~(p.changed > MinAirbrake)
      /\ pc.state \in Descending \cup {"position2"} => pc'.state = pc.state
      /\ pc.state = "position2" => pc'.active = FALSE
  <2>1. /\ p.state \in {"none", "position1"} =>
              r.pc.state = IF p.state = "none" THEN "position1" ELSE "position2"
        /\ p.state = "position1" => r.pc.done = FALSE
        /\ p.state = "approach" => r.pc.state \in {"position1", "airbrake"}
        /\ p.state = "airbrake" =>
              \/ r.pc.state = "position1"
              \/ /\ r.pc.state = "airbrake" /\ r.pc.changed = p.changed
                 /\ ~(p.changed > MinAirbrake)
        /\ p.state \in Descending \cup {"position2"} => r.pc.state = p.state
        /\ p.state = "position2" => r.pc.active = FALSE
    BY <1>2, <1>5, ControlledNearer
  <2> QED BY <1>2, <1>3, <2>1
<1>7. pc'.changed \in 0 .. MinAirbrake + 1 /\ DescendRank \in Nat
  BY <1>1 DEF PosStates, DescendRank
<1>8. CASE pc.state \in {"none", "approach", "airbrake", "position1"}
  <2>1. LandRank(pc', land', alt') < LandRank(pc, land, alt)
    <3>1. CASE pc.state \in {"none", "approach"}
      <4>1. pc'.state \in {"position1", "airbrake"}
        BY <1>6, <3>1
      <4> QED BY <1>1, <1>7, <3>1, <4>1 DEF LandRank
    <3>2. CASE pc.state = "airbrake"
      <4>1. CASE pc'.state = "position1"
        BY <1>1, <1>7, <3>2, <4>1 DEF LandRank
      <4>2. CASE pc'.state = "airbrake" /\ pc'.changed > pc.changed
        BY <1>1, <1>7, <3>2, <4>2 DEF LandRank
      <4> QED BY <1>2, <1>6, <3>2, <4>1, <4>2
    <3>3. CASE pc.state = "position1"
      <4>1. pc'.state = "position2" /\ pc'.done = FALSE
        BY <1>6, <3>3
      <4> QED BY <1>7, <3>3, <4>1 DEF LandRank
    <3> QED BY <1>8, <3>1, <3>2, <3>3
  <2> QED BY <2>1
<1>9. CASE pc.state = "position2"
  <2>1. pc'.state = "position2" /\ pc'.active = FALSE
    BY <1>6, <1>9
  <2>2. LandRank(pc', land', alt') = DescendRank
    BY <1>7, <2>1 DEF LandRank
  <2>3. CASE pc.done /\ pc.active
    <3>1. LandRank(pc, land, alt) = DescendRank + 1
      BY <1>9, <2>3 DEF LandRank
    <3> QED BY <1>7, <2>2, <3>1
  <2>4. CASE ~(pc.done /\ pc.active)
    <3>1. LandRank(pc, land, alt) = DescendRank
      BY <1>7, <1>9, <2>4 DEF LandRank
    <3>2. AwaitsVerify(pc, land, alt) /\ AwaitsVerify(pc', land', alt')
      BY <1>9, <2>1, <2>4 DEF AwaitsVerify
    <3> QED BY <2>2, <3>1, <3>2
  <2> QED BY <2>3, <2>4
<1>10. CASE pc.state = "land_descend"
  <2>1. pc'.state = "land_descend" /\ land' = l
    BY <1>2, <1>4, <1>6, <1>10 DEF Descending
  <2>2. \/ TimerRank(l, alt, FinalTime) < TimerRank(land, alt, FinalTime)
        \/ /\ Stuck(land, alt, FinalTime) /\ Stuck(l, alt, FinalTime)
           /\ TimerRank(l, alt, FinalTime) = TimerRank(land, alt, FinalTime)
    <3>1. /\ l.start = Aged(land.start, LongStart, dt) /\ l.vpos = land.vpos
          /\ l.lower = Aged(land.lower, LongLower, dt)
      BY <1>1 DEF LandStates
    <3> HIDE DEF l
    <3> QED BY <1>1, <3>1, TimerAges DEF Timeouts
  <2> HIDE DEF l
  <2>3. /\ LandRank(pc, land, alt)
             = CompleteTime + RelaxTime + 7 + TimerRank(land, alt, FinalTime)
        /\ LandRank(pc', land', alt') = CompleteTime + RelaxTime + 7 + TimerRank(l, alt, FinalTime)
    BY <1>4, <1>10, <2>1 DEF LandRank
  <2>4. TimerRank(land, alt, FinalTime) \in Int /\ TimerRank(l, alt, FinalTime) \in Int
    BY <1>1, <2>1, TimerRange DEF Timeouts
  <2>5. CASE TimerRank(l, alt, FinalTime) < TimerRank(land, alt, FinalTime)
    BY <1>1, <2>3, <2>4, <2>5
  <2>6. CASE /\ Stuck(land, alt, FinalTime) /\ Stuck(l, alt, FinalTime)
             /\ TimerRank(l, alt, FinalTime) = TimerRank(land, alt, FinalTime)
    <3>1. AwaitsVerify(pc, land, alt) /\ AwaitsVerify(pc', land', alt')
      BY <1>4, <1>10, <2>1, <2>6 DEF AwaitsVerify
    <3> QED BY <2>3, <2>6, <3>1
  <2> QED BY <2>2, <2>5, <2>6
<1>11. CASE pc.state = "land_final"
  <2>1. pc'.state = "land_final" /\ land' = should_relax(l, TRUE)
    BY <1>2, <1>4, <1>5, <1>6, <1>11 DEF Descending
  <2>2. \/ TimerRank(l, alt, CompleteTime) < TimerRank(land, alt, CompleteTime)
        \/ /\ Stuck(land, alt, CompleteTime) /\ Stuck(l, alt, CompleteTime)
           /\ l.lower = Off <=> land.lower = Off
           /\ TimerRank(l, alt, CompleteTime) = TimerRank(land, alt, CompleteTime)
    <3>1. /\ l.start = Aged(land.start, LongStart, dt) /\ l.vpos = land.vpos
          /\ l.lower = Aged(land.lower, LongLower, dt)
      BY <1>1 DEF LandStates
    <3> HIDE DEF l
    <3> QED BY <1>1, <3>1, TimerAges DEF Timeouts
  <2>3. l \in LandStates
    <3>1. /\ LongStart \in Nat /\ LongLower \in Nat
          /\ land.start \in -1 .. LongStart /\ land.lower \in -1 .. LongLower
      BY <1>1, Limits DEF LandStates
    <3>2. /\ Aged(land.start, LongStart, dt) \in -1 .. LongStart
          /\ Aged(land.lower, LongLower, dt) \in -1 .. LongLower
      BY <1>1, <3>1, AgedInRange
    <3> QED BY <1>1, <3>2 DEF LandStates
  <2> HIDE DEF l
  <2>4. /\ land'.start = l.start /\ land'.vpos = l.vpos
        /\ land'.lower = IF l.lower = Off THEN 0 ELSE l.lower
    BY <2>1, <2>3, RelaxStep
  <2>5. /\ LandRank(pc, land, alt) = 1 + TimerRank(land, alt, CompleteTime)
        /\ LandRank(pc', land', alt') = 1 + TimerRank(land', alt, CompleteTime)
    BY <1>4, <1>11, <2>1 DEF LandRank
  <2>6. /\ TimerRank(land, alt, CompleteTime) \in Int
        /\ TimerRank(l, alt, CompleteTime) \in Int
        /\ TimerRank(land', alt, CompleteTime) \in Int
    BY <1>1, <2>3, TimerRange DEF Timeouts
  <2>7. CASE l.lower = Off
    <3>1. /\ TimerRank(l, alt, CompleteTime) = CompleteTime + RelaxTime + 5
          /\ TimerRank(land', alt, CompleteTime) = CompleteTime + RelaxTime + 4
      BY <1>1, <2>4, <2>7 DEF TimerRank, Off
    <3> QED BY <1>1, <2>2, <2>5, <2>6, <3>1
  <2>8. CASE l.lower # Off
    <3>1. /\ TimerRank(land', alt, CompleteTime) = TimerRank(l, alt, CompleteTime)
          /\ Stuck(land', alt, CompleteTime) = Stuck(l, alt, CompleteTime)
      BY <2>4, <2>8 DEF TimerRank, Stuck, Far
    <3>2. CASE TimerRank(l, alt, CompleteTime) < TimerRank(land, alt, CompleteTime)
      BY <2>5, <2>6, <3>1, <3>2
    <3>3. CASE /\ Stuck(land, alt, CompleteTime) /\ Stuck(l, alt, CompleteTime)
               /\ TimerRank(l, alt, CompleteTime) = TimerRank(land, alt, CompleteTime)
      <4>1. AwaitsVerify(pc, land, alt) /\ AwaitsVerify(pc', land', alt')
        BY <1>4, <1>11, <2>1, <3>1, <3>3 DEF AwaitsVerify
      <4> QED BY <2>5, <3>1, <3>3, <4>1
    <3> QED BY <2>2, <3>2, <3>3
  <2> QED BY <2>7, <2>8
<1>12. CASE pc.state \in {"land_abort", "land_complete"}
  BY <1>6, <1>12 DEF Descending
<1> QED BY <1>1, <1>8, <1>9, <1>10, <1>11, <1>12 DEF PosStates, States

\* The descent checked, by a vehicle that rests where the last call saw it.
LEMMA FinalledNearer ==
    ASSUME IInv, DetectorInv, pc.state = "land_descend", NEW agl \in Alts,
           NEW r \in Readings, r.at_limit, ~r.correcting, r.height = alt,
           NEW there \in BOOLEAN,
           NEW f, f = Finalled(Descended(agl, r.height, there), agl, r)
    PROVE  \/ f.pc.state = "land_final"
           \/ /\ f.pc = pc
              /\ \/ TimerRank(f.land, alt, FinalTime) < TimerRank(land, alt, FinalTime)
                 \/ /\ ~Stuck(land, alt, FinalTime)
                    /\ TimerRank(f.land, alt, FinalTime) = TimerRank(land, alt, FinalTime)
<1> DEFINE d == Descended(agl, r.height, there)
           noted == [land EXCEPT !.last_agl = agl]
           other == land_detector(noted, r)
           check == check_land_final(land, agl, r)
<1>1. pc \in PosStates /\ land \in LandStates /\ Paced(land) /\ alt \in Nat
  BY TypeOKParts DEF IInv, DetectorInv
<1>2. d = [pc |-> pc, land |-> land]
  BY DEF Descended
<1>3. f = IF check.final
          THEN [pc   |-> set_state(pc, "land_final"),
                land |-> set_land(check.land, pc, "land_final", r.height)]
          ELSE [pc |-> pc, land |-> check.land]
  BY <1>2 DEF Finalled
<1>4. set_state(pc, "land_final").state = "land_final"
  BY <1>1, SetStateInRange DEF States
<1>5. /\ noted \in LandStates /\ noted.start = land.start /\ noted.lower = land.lower
      /\ noted.vpos = land.vpos
  BY <1>1 DEF LandStates
<1>6. Paced(noted)
  BY <1>1, <1>5 DEF Paced
<1>7. /\ TimerRank(noted, alt, FinalTime) = TimerRank(land, alt, FinalTime)
      /\ Stuck(noted, alt, FinalTime) = Stuck(land, alt, FinalTime)
  BY <1>5 DEF TimerRank, Stuck, Far
<1>8. ~check.final => check.land = other /\ ~Landed(other, FinalTime)
  BY DEF check_land_final
<1> HIDE DEF check, noted
<1>9. \/ Landed(other, FinalTime)
      \/ TimerRank(other, alt, FinalTime) < TimerRank(noted, alt, FinalTime)
      \/ /\ ~Stuck(noted, alt, FinalTime)
         /\ TimerRank(other, alt, FinalTime) = TimerRank(noted, alt, FinalTime)
  BY <1>5, <1>6, TimerDetects DEF Timeouts
<1> HIDE DEF other
<1>10. CASE check.final
  BY <1>3, <1>4, <1>10
<1>11. CASE ~check.final
  <2>1. f.pc = pc /\ f.land = other /\ ~Landed(other, FinalTime)
    BY <1>3, <1>8, <1>11
  <2> QED BY <1>7, <1>9, <2>1
<1> QED BY <1>10, <1>11

LEMMA VerifyNearer ==
    ASSUME IInv, IInv', DetectorInv, NEW agl \in Alts, NEW r \in Readings,
           NEW there \in BOOLEAN, verify_vtol_land(agl, r, there), coop'
    PROVE  \/ pc'.state \in {"land_complete", "land_abort"}
           \/ LandRank(pc', land', alt') < LandRank(pc, land, alt)
           \/ /\ ~AwaitsVerify(pc, land, alt)
              /\ LandRank(pc', land', alt') = LandRank(pc, land, alt)
<1> DEFINE f == Finalled(Descended(agl, r.height, there), agl, r)
           aborted == f.pc.state = "land_abort" /\ r.height >= f.land.descend
           left    == IF TooLow(f, r.height)
                      THEN [f EXCEPT !.pc = set_state(@, "land_abort")] ELSE f
           after   == IF aborted THEN f ELSE check_land_complete(left, r)
<1>1. /\ pc \in PosStates /\ land \in LandStates /\ alt \in Nat
      /\ pc' \in PosStates /\ land' \in LandStates /\ alt' \in Nat
      /\ {CompleteTime, FinalTime, RelaxTime} \subseteq Nat
  BY TypeOKParts, LandingAssumption DEF IInv, TypeOK, PosStates, LandStates
<1>2. pc' = after.pc /\ land' = after.land /\ alt' = r.height
  BY DEF verify_vtol_land
<1>3. /\ r.at_limit = TRUE /\ r.correcting = FALSE /\ r.height = alt /\ there = TRUE
  BY DEF verify_vtol_land, Readings
<1>4. Opened(f, r.height) /\ f = [pc |-> f.pc, land |-> f.land]
  BY FinalledStep DEF IInv, Finalled, Descended
<1>5. f.pc \in PosStates /\ f.land \in LandStates
  BY <1>4 DEF Opened
<1>6. f.pc.state = "land_final" => Paced(f.land)
  BY PacedVerifies DEF IInv
<1>7. pc.state = "land_descend" =>
         \/ f.pc.state = "land_final"
         \/ /\ f.pc = pc
            /\ \/ TimerRank(f.land, alt, FinalTime) < TimerRank(land, alt, FinalTime)
               \/ /\ ~Stuck(land, alt, FinalTime)
                  /\ TimerRank(f.land, alt, FinalTime) = TimerRank(land, alt, FinalTime)
  BY <1>3, FinalledNearer
<1>8. pc.state = "position2" /\ f.pc.state = "position2" => pc.done /\ pc.active /\ f.land = land
  <2> SUFFICES ASSUME pc.state = "position2", ~(pc.done /\ pc.active) \/ f.land # land
               PROVE  f.pc.state # "position2"
    BY <1>5
  <2> DEFINE d == Descended(agl, r.height, there)
             q == [set_state(pc, "land_descend") EXCEPT !.done = FALSE]
  <2>1. CASE ~(pc.done /\ pc.active)
    <3>1. d.pc = q
      BY <1>3, <2>1 DEF Descended
    <3>2. q.state = "land_descend"
      BY <1>1 DEF set_state, PosStates
    <3>3. f.pc \in {d.pc, set_state(d.pc, "land_final")}
      BY DEF Finalled
    <3> HIDE DEF q, d, f
    <3>4. d.pc \in PosStates
      BY <1>3, DescendedStep DEF IInv, d, Readings
    <3>5. set_state(d.pc, "land_final").state = "land_final"
      BY <3>4, SetStateInRange DEF States
    <3> QED BY <3>1, <3>2, <3>3, <3>5
  <2>2. CASE f.land # land
    <3> HIDE DEF f
    <3> QED BY <1>4, <2>2 DEF Opened
  <2> QED BY <2>1, <2>2
<1> HIDE DEF f
\* What the check for the end makes of it.
<1>9. \/ pc'.state \in {"land_complete", "land_abort"}
      \/ pc' = f.pc /\ land' = f.land /\ f.pc.state # "land_final"
      \/ /\ pc' = f.pc /\ f.pc.state = "land_final"
         /\ land' = land_detector(f.land, r) /\ ~Landed(land', CompleteTime)
  <2>1. CASE aborted
    BY <1>2, <2>1
  <2>2. CASE ~aborted /\ TooLow(f, r.height)
    <3>1. left = [pc |-> set_state(f.pc, "land_abort"), land |-> f.land]
      BY <1>4, <2>2
    <3> HIDE DEF left
    <3>2. left.pc.state = "land_abort"
      BY <1>5, <3>1, SetStateInRange DEF States
    <3>3. pc' = left.pc
      BY <1>2, <2>2, <3>2 DEF check_land_complete
    <3> QED BY <3>2, <3>3
  <2>3. CASE ~aborted /\ ~TooLow(f, r.height)
    <3>1. after = check_land_complete(f, r)
      BY <2>3
    <3> HIDE DEF after
    <3>2. CASE f.pc.state # "land_final"
      BY <1>2, <3>1, <3>2 DEF check_land_complete
    <3>3. CASE f.pc.state = "land_final" /\ Landed(land_detector(f.land, r), CompleteTime)
      <4>1. pc' = set_state(f.pc, "land_complete")
        BY <1>2, <3>1, <3>3 DEF check_land_complete
      <4>2. pc'.state = "land_complete"
        BY <1>5, <4>1, SetStateInRange DEF States
      <4> QED BY <4>2
    <3>4. CASE f.pc.state = "land_final" /\ ~Landed(land_detector(f.land, r), CompleteTime)
      BY <1>2, <3>1, <3>4 DEF check_land_complete
    <3> QED BY <3>2, <3>3, <3>4
  <2> QED BY <2>1, <2>2, <2>3
<1> HIDE DEF aborted, left, after
<1>10. /\ LandRank(pc, land, alt) \in Nat /\ LandRank(pc', land', alt') \in Nat
       /\ pc'.state \in Descending => LandRank(pc', land', alt') < DescendRank
       /\ pc'.state = "land_final" =>
              LandRank(pc', land', alt') <= CompleteTime + RelaxTime + 6
       /\ TimerRank(land, alt, FinalTime) \in Nat /\ TimerRank(land', alt, FinalTime) \in Nat
       /\ TimerRank(land, alt, CompleteTime) \in Nat
       /\ TimerRank(land', alt, CompleteTime) \in Nat
  <2>1. /\ LandRank(pc, land, alt) \in Nat /\ LandRank(pc', land', alt') \in Nat
        /\ pc'.state \in Descending => LandRank(pc', land', alt') < DescendRank
        /\ pc'.state = "land_final" =>
               LandRank(pc', land', alt') <= CompleteTime + RelaxTime + 6
    BY <1>1, LandRankRange
  <2>2. /\ TimerRank(land, alt, FinalTime) \in Nat /\ TimerRank(land', alt, FinalTime) \in Nat
        /\ TimerRank(land, alt, CompleteTime) \in Nat
        /\ TimerRank(land', alt, CompleteTime) \in Nat
    BY <1>1, TimerRange DEF Timeouts
  <2> QED BY <2>1, <2>2
<1>11. CASE pc.state \notin {"position2", "land_descend", "land_final"}
  <2>1. f.pc = pc /\ f.land = land
    BY <1>4, <1>11 DEF Opened
  <2>2. \/ pc'.state \in {"land_complete", "land_abort"}
        \/ pc' = pc /\ land' = land /\ alt' = alt
    BY <1>2, <1>3, <1>9, <1>11, <2>1
  <2>3. ~AwaitsVerify(pc, land, alt)
    BY <1>11 DEF AwaitsVerify
  <2> QED BY <2>2, <2>3
<1>12. CASE pc.state = "position2"
  <2>1. CASE f.pc.state = "position2"
    <3>1. f.pc = pc
      BY <1>4, <1>12, <2>1 DEF Opened
    <3>2. \/ pc' = pc /\ land' = land /\ alt' = alt
          \/ pc'.state \in {"land_complete", "land_abort"}
      BY <1>2, <1>3, <1>8, <1>9, <1>12, <2>1, <3>1
    <3>3. ~AwaitsVerify(pc, land, alt)
      BY <1>8, <1>12, <2>1 DEF AwaitsVerify
    <3> QED BY <3>2, <3>3
  <2>2. CASE f.pc.state # "position2"
    <3>1. f.pc.state \in {"land_descend", "land_final"}
      BY <1>4, <1>12, <2>2 DEF Opened
    <3>2. pc'.state \in Descending
      BY <1>9, <3>1 DEF Descending
    <3>3. LandRank(pc, land, alt) >= DescendRank /\ DescendRank \in Nat
      BY <1>1, <1>12 DEF LandRank, DescendRank
    <3> QED BY <1>10, <3>2, <3>3
  <2> QED BY <2>1, <2>2
<1>13. CASE pc.state = "land_descend"
  <2>1. LandRank(pc, land, alt) = CompleteTime + RelaxTime + 7 + TimerRank(land, alt, FinalTime)
    BY <1>13 DEF LandRank
  <2>2. CASE f.pc.state = "land_final"
    <3>1. pc'.state \in {"land_complete", "land_abort", "land_final"}
      BY <1>9, <2>2
    <3> QED BY <1>1, <1>10, <2>1, <3>1
  <2>3. CASE f.pc.state # "land_final"
    <3>1. pc'.state \in {"land_complete", "land_abort"} \/ (pc' = pc /\ land' = f.land)
      BY <1>7, <1>9, <1>13, <2>3
    <3>2. CASE pc' = pc /\ land' = f.land
      <4>1. LandRank(pc', land', alt') =
               CompleteTime + RelaxTime + 7 + TimerRank(land', alt, FinalTime)
        BY <1>2, <1>3, <1>13, <3>2 DEF LandRank
      <4>2. CASE TimerRank(f.land, alt, FinalTime) < TimerRank(land, alt, FinalTime)
        BY <1>1, <1>10, <2>1, <3>2, <4>1, <4>2
      <4>3. CASE /\ ~Stuck(land, alt, FinalTime)
                 /\ TimerRank(f.land, alt, FinalTime) = TimerRank(land, alt, FinalTime)
        <5>1. ~AwaitsVerify(pc, land, alt)
          BY <1>13, <4>3 DEF AwaitsVerify
        <5> QED BY <2>1, <3>2, <4>1, <4>3, <5>1
      <4> QED BY <1>7, <1>13, <2>3, <4>2, <4>3
    <3> QED BY <3>1, <3>2
  <2> QED BY <2>2, <2>3
<1>14. CASE pc.state = "land_final"
  <2>1. f.pc = pc /\ f.land = land
    BY <1>4, <1>14 DEF Opened
  <2>2. \/ pc'.state \in {"land_complete", "land_abort"}
        \/ pc' = pc /\ land' = land_detector(land, r) /\ ~Landed(land', CompleteTime)
    BY <1>9, <1>14, <2>1
  <2>3. CASE pc' = pc /\ land' = land_detector(land, r) /\ ~Landed(land', CompleteTime)
    <3>1. /\ LandRank(pc, land, alt) = 1 + TimerRank(land, alt, CompleteTime)
          /\ LandRank(pc', land', alt') = 1 + TimerRank(land', alt, CompleteTime)
      BY <1>2, <1>3, <1>14, <2>3 DEF LandRank
    <3>2. \/ TimerRank(land', alt, CompleteTime) < TimerRank(land, alt, CompleteTime)
          \/ /\ ~Stuck(land, alt, CompleteTime)
             /\ TimerRank(land', alt, CompleteTime) = TimerRank(land, alt, CompleteTime)
      BY <1>1, <1>3, <2>3, TimerDetects DEF Timeouts, DetectorInv
    <3>3. CASE TimerRank(land', alt, CompleteTime) < TimerRank(land, alt, CompleteTime)
      BY <1>10, <3>1, <3>3
    <3>4. CASE /\ ~Stuck(land, alt, CompleteTime)
               /\ TimerRank(land', alt, CompleteTime) = TimerRank(land, alt, CompleteTime)
      <4>1. ~AwaitsVerify(pc, land, alt)
        BY <1>14, <3>4 DEF AwaitsVerify
      <4> QED BY <3>1, <3>4, <4>1
    <3> QED BY <3>2, <3>3, <3>4
  <2> QED BY <2>2, <2>3
<1> QED BY <1>11, <1>12, <1>13, <1>14

\* Every call that is given what a landing needs takes it nearer to its
\* end, or leaves it to the other call, whatever the delays and heights.
THEOREM LandingProgressHolds == Spec => LandingProgress
<1> DEFINE
      Controls == Control /\ coop'
             => \/ pc'.state \in {"land_complete", "land_abort"}
                \/ LandRank(pc', land', alt') < LandRank(pc, land, alt)
                \/ /\ AwaitsVerify(pc, land, alt) /\ AwaitsVerify(pc', land', alt')
                   /\ LandRank(pc', land', alt') = LandRank(pc, land, alt)
      Verifies == Verify /\ coop'
             => \/ pc'.state \in {"land_complete", "land_abort"}
                \/ LandRank(pc', land', alt') < LandRank(pc, land, alt)
                \/ /\ ~AwaitsVerify(pc, land, alt)
                   /\ LandRank(pc', land', alt') = LandRank(pc, land, alt)
<1>1. IInv /\ DetectorInv /\ [Next]_vars => [Controls /\ Verifies]_vars
  <2> SUFFICES ASSUME IInv, DetectorInv, Next PROVE Controls /\ Verifies
    OBVIOUS
  <2>1. IInv'
    BY StepKeepsIInv
  <2>2. Controls
    BY <2>1, ControlNearer DEF Control
  <2>3. Verifies
    <3> SUFFICES ASSUME coop', NEW agl \in Alts, NEW height \in Alts,
                        NEW at_limit \in BOOLEAN, NEW correcting \in BOOLEAN,
                        NEW there \in BOOLEAN,
                        verify_vtol_land(agl, [at_limit |-> at_limit,
                                               correcting |-> correcting,
                                               height |-> height], there)
                 PROVE  \/ pc'.state \in {"land_complete", "land_abort"}
                        \/ LandRank(pc', land', alt') < LandRank(pc, land, alt)
                        \/ /\ ~AwaitsVerify(pc, land, alt)
                           /\ LandRank(pc', land', alt') = LandRank(pc, land, alt)
      BY DEF Verify
    <3> DEFINE r == [at_limit |-> at_limit, correcting |-> correcting, height |-> height]
    <3>1. r \in Readings /\ verify_vtol_land(agl, r, there)
      BY DEF Readings
    <3> HIDE DEF r
    <3> QED BY <2>1, <3>1, VerifyNearer
  <2> QED BY <2>2, <2>3
<1> QED BY <1>1, Invariance, DetectorInvHolds, PTL DEF Spec, LandingProgress
=============================================================================
