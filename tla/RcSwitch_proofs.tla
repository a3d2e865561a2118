--------------------------- MODULE RcSwitch_proofs ---------------------------
(***************************************************************************)
(* For all debounce times, switch assignments and flight modes of          *)
(* RcSwitch: its types, that what is reported was held, that arming takes  *)
(* a gesture, and that no switch leaves its mode behind.                   *)
(***************************************************************************)
EXTENDS MCRcSwitch, TLAPS

SwitchStates(c) == [current_position : RangeOf(c) \cup {None},
                    debounce_position : RangeOf(c) \cup {None}, edge : 0 .. Debounce,
                    initialised : BOOLEAN]
Pulses(c) == RangeOf(c) \cup {Invalid}
Holds == [position : Int, ticks : 0 .. Debounce]

LEMMA Constants ==
    /\ Debounce \in Nat \ {0} /\ FreshAge \in Nat
    /\ Len(FlightModes) \in Nat \ {0}
    /\ RangeOf(0) \subseteq Nat
<1>1. Len(FlightModes) \in Nat /\ Len(FlightModes) # 0
  BY SwitchAssumption
<1>2. ModeRange \subseteq Nat
  BY <1>1 DEF ModeRange
<1> QED BY <1>1, <1>2, SwitchAssumption DEF RangeOf

LEMMA AuxAreChannels ==
    ASSUME options \in AuxOptions
    PROVE  /\ Len(options) \in Nat /\ Aux = 1 .. Len(options) /\ 0 \notin Aux
           /\ \A c \in Aux : options[c] \in AuxFunc
<1>1. options \in Seq(AuxFunc)
  BY SwitchAssumption
<1> QED BY <1>1 DEF Aux

\* What an auxiliary switch may be read as.
LEMMA AuxRange ==
    ASSUME options \in AuxOptions, NEW c \in Aux
    PROVE  RangeOf(c) \subseteq {Low, Middle, High} /\ RangeOf(c) \subseteq Nat
<1>1. c # 0 /\ options[c] \in AuxFunc
  BY AuxAreChannels
<1>2. AuxPositions[options[c]] \subseteq {Low, Middle, High}
  BY <1>1, SwitchAssumption
<1> QED BY <1>1, <1>2 DEF RangeOf, Low, Middle, High

-----------------------------------------------------------------------------
(* The debounce of one switch.                                             *)

\* A reading establishes a position if and only if it reports it.
LEMMA ReadIsSound ==
    ASSUME NEW c, NEW s \in SwitchStates(c), NEW p \in Pulses(c)
    PROVE  /\ Read(s, p) \in SwitchStates(c)
           /\ Read(s, p).initialised = s.initialised
           /\ Read(s, p).current_position = IF Reports(s, p) THEN p ELSE s.current_position
<1>1. CASE p = Invalid
  BY <1>1 DEF Read, Reports
<1>2. CASE p # Invalid
  <2>1. p \in RangeOf(c) /\ 0 \in 0 .. Debounce
    BY <1>2, Constants DEF Pulses
  <2>2. Read(s, p) = debounce_completed(s, p)
    BY <1>2 DEF Read
  <2>3. CASE s.current_position = p
    <3>1. Read(s, p) = [s EXCEPT !.debounce_position = p] /\ ~Reports(s, p)
      BY <2>2, <2>3 DEF debounce_completed, Reports, Settled
    <3> QED BY <2>1, <3>1 DEF SwitchStates
  <2>4. CASE s.current_position # p /\ s.debounce_position # p
    <3>1. Read(s, p) = [s EXCEPT !.debounce_position = p, !.edge = 0] /\ ~Reports(s, p)
      BY <2>2, <2>4 DEF debounce_completed, Reports, Settled
    <3> QED BY <2>1, <3>1 DEF SwitchStates
  <2>5. CASE s.current_position # p /\ s.debounce_position = p /\ Settled(s, p)
    <3>1. Read(s, p) = [s EXCEPT !.current_position = p] /\ Reports(s, p)
      BY <1>2, <2>2, <2>5 DEF debounce_completed, Reports
    <3> QED BY <2>1, <3>1 DEF SwitchStates
  <2>6. CASE s.current_position # p /\ s.debounce_position = p /\ ~Settled(s, p)
    <3>1. Read(s, p) = s /\ ~Reports(s, p)
      BY <2>2, <2>6 DEF debounce_completed, Reports
    <3> QED BY <3>1
  <2> QED BY <2>3, <2>4, <2>5, <2>6
<1> QED BY <1>1, <1>2

\* What is being debounced is the last position read, and its age is no
\* more than the time it was held.
HeldOf(s, h) ==
    /\ s.debounce_position # None => h.position = s.debounce_position
    /\ s.debounce_position \notin {None, s.current_position} => s.edge <= h.ticks

LEMMA NoteIsSound ==
    ASSUME NEW c, NEW s \in SwitchStates(c), NEW h \in Holds, NEW p \in Pulses(c),
           HeldOf(s, h), RangeOf(c) \subseteq Nat
    PROVE  /\ Note(h, p) \in Holds
           /\ HeldOf(Read(s, p), Note(h, p))
           /\ Reports(s, p) => Note(h, p).position = p /\ Note(h, p).ticks >= Debounce
<1>1. CASE p = Invalid
  BY <1>1 DEF Read, Reports, Note
<1>2. CASE p # Invalid
  <2>1. p \in Nat /\ p # None
    BY <1>2 DEF Pulses, None
  <2>2. Read(s, p) = debounce_completed(s, p) /\ 0 \in 0 .. Debounce
    BY <1>2, Constants DEF Read
  <2>3. Note(h, p) \in Holds /\ Note(h, p).position = p
    BY <1>2, <2>1, <2>2 DEF Note, Holds
  <2>4. CASE s.current_position = p
    <3>1. Read(s, p) = [s EXCEPT !.debounce_position = p] /\ ~Reports(s, p)
      BY <2>2, <2>4 DEF debounce_completed, Reports, Settled
    <3>2. Read(s, p).debounce_position = p /\ Read(s, p).current_position = p
      BY <2>4, <3>1 DEF SwitchStates
    <3> QED BY <2>3, <3>1, <3>2 DEF HeldOf
  <2>5. CASE s.current_position # p /\ s.debounce_position # p
    <3>1. Read(s, p) = [s EXCEPT !.debounce_position = p, !.edge = 0] /\ ~Reports(s, p)
      BY <2>2, <2>5 DEF debounce_completed, Reports, Settled
    <3>2. Read(s, p).debounce_position = p /\ Read(s, p).edge = 0
      BY <3>1 DEF SwitchStates
    <3>3. Note(h, p).ticks \in Nat
      BY <2>3, Constants DEF Holds
    <3> QED BY <2>3, <3>1, <3>2, <3>3 DEF HeldOf
  <2>6. CASE s.current_position # p /\ s.debounce_position = p
    <3>1. h.position = p /\ s.edge <= h.ticks
      BY <2>1, <2>6 DEF HeldOf
    <3>2. Note(h, p) = h
      BY <3>1 DEF Note
    <3>3. CASE Settled(s, p)
      <4>1. Read(s, p) = [s EXCEPT !.current_position = p]
        BY <2>2, <2>6, <3>3 DEF debounce_completed
      <4>2. Read(s, p).debounce_position = p /\ Read(s, p).current_position = p
        BY <2>6, <4>1 DEF SwitchStates
      <4>3. h.ticks >= Debounce
        <5>1. s.edge >= Debounce /\ s.edge \in Int /\ h.ticks \in Int /\ Debounce \in Int
          BY <3>3, Constants DEF Settled, SwitchStates, Holds
        <5> QED BY <3>1, <5>1
      <4> QED BY <2>3, <3>1, <3>2, <4>2, <4>3 DEF HeldOf
    <3>4. CASE ~Settled(s, p)
      <4>1. Read(s, p) = s /\ ~Reports(s, p)
        BY <2>2, <2>6, <3>4 DEF debounce_completed, Reports
      <4> QED BY <2>3, <3>2, <4>1
    <3> QED BY <3>3, <3>4
  <2> QED BY <2>4, <2>5, <2>6
<1> QED BY <1>1, <1>2

\* Starting over: nothing is established, and a new reading begins.
LEMMA ResetIsSound ==
    ASSUME NEW s \in SwitchStates(0), NEW h \in Holds, radio_in[0] \in Pulses(0)
    PROVE  /\ reset_mode_switch(s) \in SwitchStates(0)
           /\ reset_mode_switch(s).current_position = None
           /\ HeldOf(reset_mode_switch(s), Note(h, radio_in[0]))
<1> DEFINE t == [s EXCEPT !.current_position = None, !.debounce_position = None]
           p == radio_in[0]
<1>1. /\ t \in SwitchStates(0) /\ t.current_position = None
      /\ t.debounce_position = None
  BY DEF SwitchStates
<1>2. reset_mode_switch(s) = Read(t, p)
  BY DEF reset_mode_switch
<1> HIDE DEF t
<1>3. ~Reports(t, p)
  <2>1. p # Invalid => p # None
    BY Constants DEF Pulses, None
  <2> QED BY <1>1, <2>1 DEF Reports, Settled
<1>4. HeldOf(t, h)
  BY <1>1 DEF HeldOf
<1> QED BY <1>1, <1>2, <1>3, <1>4, Constants, ReadIsSound, NoteIsSound

\* The first reading: only an arming switch takes its position from it.
LEMMA FirstIsSound ==
    ASSUME NEW c, NEW s \in SwitchStates(c), NEW p \in RangeOf(c), NEW option
    PROVE  LET t == init_position(s, option, p)
           IN  /\ t \in SwitchStates(c) /\ t.initialised
               /\ s.initialised => t = s
               /\ option # "ArmDisarm" \/ s.initialised =>
                     /\ t.current_position = s.current_position
                     /\ t.debounce_position = s.debounce_position /\ t.edge = s.edge
               /\ option = "ArmDisarm" /\ ~s.initialised =>
                     t.current_position = p /\ t.debounce_position = p
BY DEF init_position, SwitchStates

\* A reading of an auxiliary switch, its first one included.
FirstOf(s, option, p) == IF p = Invalid THEN s ELSE init_position(s, option, p)

LEMMA AuxReadIsSound ==
    ASSUME NEW c, NEW s \in SwitchStates(c), NEW h \in Holds, NEW p \in Pulses(c),
           NEW option, HeldOf(s, h), RangeOf(c) \subseteq Nat
    PROVE  LET t == FirstOf(s, option, p)
               r == Read(t, p)
           IN  /\ r \in SwitchStates(c) /\ HeldOf(r, Note(h, p)) /\ Note(h, p) \in Holds
               /\ Reports(t, p) =>
                     /\ Note(h, p).position = p /\ Note(h, p).ticks >= Debounce
                     /\ r.current_position = p
                     /\ option = "ArmDisarm" =>
                           s.initialised /\ s.current_position # p
               /\ ~Reports(t, p) /\ option # "ArmDisarm" =>
                     r.current_position = s.current_position
               /\ \/ r.current_position = p /\ p # Invalid
                  \/ /\ r.current_position = s.current_position
                     /\ option = "ArmDisarm" => r.initialised = s.initialised
<1> DEFINE t == FirstOf(s, option, p)
           r == Read(t, p)
<1>1. CASE p = Invalid \/ s.initialised
  <2>1. t = s
    BY <1>1, FirstIsSound DEF FirstOf, Pulses
  <2>2. Reports(s, p) => s.current_position # p /\ p # Invalid
    BY DEF Reports, Settled
  <2> QED BY <1>1, <2>1, <2>2, ReadIsSound, NoteIsSound
<1>2. CASE p # Invalid /\ ~s.initialised /\ option # "ArmDisarm"
  <2>1. p \in RangeOf(c) /\ t = init_position(s, option, p)
    BY <1>2 DEF FirstOf, Pulses
  <2>2. /\ t \in SwitchStates(c) /\ t.current_position = s.current_position
        /\ t.debounce_position = s.debounce_position /\ t.edge = s.edge
    BY <1>2, <2>1, FirstIsSound
  <2>3. HeldOf(t, h)
    BY <2>2 DEF HeldOf
  <2> HIDE DEF t
  <2>4. /\ r \in SwitchStates(c) /\ HeldOf(r, Note(h, p)) /\ Note(h, p) \in Holds
        /\ r.current_position = IF Reports(t, p) THEN p ELSE t.current_position
        /\ Reports(t, p) => Note(h, p).position = p /\ Note(h, p).ticks >= Debounce
    BY <2>2, <2>3, ReadIsSound, NoteIsSound
  <2> QED BY <1>2, <2>2, <2>4 DEF t
<1>3. CASE p # Invalid /\ ~s.initialised /\ option = "ArmDisarm"
  <2>1. p \in RangeOf(c) /\ t = init_position(s, option, p)
    BY <1>3 DEF FirstOf, Pulses
  <2>2. t \in SwitchStates(c) /\ t.current_position = p /\ t.debounce_position = p
    BY <1>3, <2>1, FirstIsSound
  <2> HIDE DEF t
  <2>3. r = [t EXCEPT !.debounce_position = p] /\ ~Reports(t, p)
    BY <1>3, <2>2 DEF Read, Reports, Settled, debounce_completed
  <2>4. r \in SwitchStates(c) /\ r.current_position = p /\ r.debounce_position = p
    BY <2>1, <2>2, <2>3 DEF SwitchStates
  <2>5. p \in Nat
    BY <2>1
  <2>6. 0 \in 0 .. Debounce
    BY Constants
  <2>7. Note(h, p) \in Holds /\ Note(h, p).position = p
    BY <1>3, <2>5, <2>6 DEF Note, Holds
  <2>8. HeldOf(r, Note(h, p))
    BY <2>4, <2>7 DEF HeldOf
  <2> QED BY <1>3, <2>3, <2>4, <2>7, <2>8 DEF t
<1> QED BY <1>1, <1>2, <1>3

-----------------------------------------------------------------------------
(* The invariant.                                                          *)

HistoryOK == /\ held \in [Channels -> Holds] /\ away \in [Aux -> BOOLEAN]
             /\ elsewhere \in BOOLEAN

HeldInv == \A c \in Channels : HeldOf(switch_state[c], held[c])

\* An arming switch that is not established at HIGH has been away from it.
AwayInv == \A c \in Aux :
    /\ options[c] = "ArmDisarm" /\ switch_state[c].initialised
    /\ switch_state[c].current_position # High
    => away[c]

\* Only while the auxiliary switches are read is there a report.
Quiet == pc # "aux" => report = NoReport

IInv == TypeOK /\ HistoryOK /\ HeldInv /\ AwayInv /\ Quiet /\ AuxModeIsHeld

\* The part of TypeOK that speaks of the channels.
ChannelsTyped ==
    /\ DOMAIN radio_in = Channels /\ DOMAIN switch_state = Channels
    /\ \A c \in Channels : radio_in[c] \in Pulses(c) /\ switch_state[c] \in SwitchStates(c)

LEMMA TypeOKParts == TypeOK => ChannelsTyped
BY DEF TypeOK, ChannelsTyped, Pulses, SwitchStates

LEMMA RangesKept ==
    ASSUME UNCHANGED options
    PROVE  \A c : Pulses(c)' = Pulses(c) /\ SwitchStates(c)' = SwitchStates(c)
BY DEF Pulses, SwitchStates, RangeOf

LEMMA TypeOKNext ==
    ASSUME ChannelsTyped', pc' \in {"frame", "failsafe", "mode_switch", "aux", "fly"},
           chan' \in 1 .. Len(options') + 1, options' \in AuxOptions, seen' \in BOOLEAN,
           armed' \in BOOLEAN, age' \in 0 .. FreshAge + 1,
           report' \in [chan : Channels', position : Int], control_mode' \in Modes
    PROVE  TypeOK'
BY DEF TypeOK, ChannelsTyped, Pulses, SwitchStates

LEMMA InitIsSound == MCInit => IInv
<1> SUFFICES ASSUME MCInit PROVE IInv
  OBVIOUS
<1>1. /\ Len(options) \in Nat /\ 0 \in 0 .. Debounce /\ 0 \in 0 .. FreshAge + 1
  BY AuxAreChannels, Constants DEF MCInit, Init
<1>2. ChannelsTyped
  <2>1. /\ radio_in = [c \in Channels |-> Invalid]
        /\ switch_state = [c \in Channels |-> [current_position |-> None,
                             debounce_position |-> None, edge |-> 0, initialised |-> FALSE]]
    BY DEF MCInit, Init
  <2>2. ASSUME NEW c \in Channels
        PROVE  radio_in[c] \in Pulses(c) /\ switch_state[c] \in SwitchStates(c)
    BY <1>1, <2>1 DEF Pulses, SwitchStates
  <2> QED BY <2>1, <2>2 DEF ChannelsTyped
<1>3. TypeOK
  <2>1. report \in [chan : Channels, position : Int]
    BY DEF MCInit, Init, NoReport, None, Channels
  <2>2. /\ pc = "frame" /\ chan = 1 /\ options \in AuxOptions /\ ~seen /\ ~armed /\ age = 0
        /\ seen \in BOOLEAN /\ armed \in BOOLEAN /\ control_mode \in Modes
    BY DEF MCInit, Init, Modes, AuxModes
  <2> QED BY <1>1, <1>2, <2>1, <2>2 DEF TypeOK, ChannelsTyped, Pulses, SwitchStates
<1>4. HistoryOK
  <2>1. [position |-> None, ticks |-> 0] \in Holds
    BY <1>1 DEF Holds, None
  <2> QED BY <2>1 DEF MCInit, HistoryOK
<1>5. HeldInv /\ AwayInv /\ Quiet
  BY DEF MCInit, Init, HeldInv, AwayInv, HeldOf, Channels, Quiet
<1>6. AuxModeIsHeld
  BY DEF MCInit, Init, AuxModeIsHeld, Channels
<1> QED BY <1>3, <1>4, <1>5, <1>6 DEF IInv

-----------------------------------------------------------------------------
(* The steps keep it.                                                      *)

\* Whoever changed the mode, it is the switches' again once one asks for one.
LEMMA ElsewhereStep ==
    ASSUME MCNext
    PROVE  /\ elsewhere' \in BOOLEAN
           /\ elsewhere' <=> ModeTaken \/ (elsewhere /\ ~ModeAsked)
BY DEF MCNext

LEMMA FrameKeeps == IInv /\ MCNext /\ StartTick /\ (ReceiveFrame \/ NoFrame) => IInv'
<1> SUFFICES ASSUME IInv, MCNext, StartTick, ReceiveFrame \/ NoFrame PROVE IInv'
  OBVIOUS
<1>1. ChannelsTyped /\ TypeOK /\ 0 \notin Aux
  BY TypeOKParts, AuxAreChannels DEF IInv, TypeOK
<1>2. UNCHANGED <<options, control_mode, armed, chan>> /\ pc = "frame" /\ pc' = "failsafe"
      /\ report' = NoReport
  BY DEF StartTick
<1>3. Channels' = Channels /\ Aux' = Aux
  BY <1>2 DEF Channels, Aux
<1>4. \A c \in Channels :
        /\ switch_state[c].edge + 1 \in Nat
        /\ switch_state'[c] =
             [switch_state[c] EXCEPT !.edge = Lesser(switch_state[c].edge + 1, Debounce)]
        /\ Lesser(switch_state[c].edge + 1, Debounce) \in 0 .. Debounce
  BY <1>1, Constants DEF StartTick, ChannelsTyped, SwitchStates, Lesser
<1>5. \A c \in Channels :
        /\ switch_state'[c] \in SwitchStates(c)
        /\ switch_state'[c].current_position = switch_state[c].current_position
        /\ switch_state'[c].debounce_position = switch_state[c].debounce_position
        /\ switch_state'[c].initialised = switch_state[c].initialised
        /\ switch_state'[c].edge = Lesser(switch_state[c].edge + 1, Debounce)
  BY <1>1, <1>4 DEF ChannelsTyped, SwitchStates
<1>6. DOMAIN switch_state' = Channels
  BY DEF StartTick
<1>7. DOMAIN radio_in' = Channels /\ \A c \in Channels : radio_in'[c] \in Pulses(c)
  <2>1. CASE NoFrame
    BY <1>1, <2>1 DEF NoFrame, ChannelsTyped
  <2>2. CASE ReceiveFrame
    BY <2>2 DEF ReceiveFrame, Pulses
  <2> QED BY <2>1, <2>2
<1>8. ChannelsTyped'
  BY <1>2, <1>3, <1>5, <1>6, <1>7, RangesKept DEF ChannelsTyped
<1>9. age' \in 0 .. FreshAge + 1 /\ seen' \in BOOLEAN
  <2>1. age \in 0 .. FreshAge + 1 /\ seen \in BOOLEAN
    BY <1>1 DEF TypeOK
  <2>2. Lesser(age + 1, FreshAge + 1) \in 0 .. FreshAge + 1 /\ 0 \in 0 .. FreshAge + 1
    BY <2>1, Constants DEF Lesser
  <2> QED BY <2>1, <2>2 DEF ReceiveFrame, NoFrame
<1>10. TypeOK'
  <2>1. report' \in [chan : Channels', position : Int]
    BY <1>2, <1>3 DEF NoReport, None, Channels
  <2> QED BY <1>1, <1>2, <1>8, <1>9, <2>1, TypeOKNext DEF TypeOK
<1>11. \A c \in Channels : held'[c] = [held[c] EXCEPT !.ticks = Lesser(held[c].ticks + 1, Debounce)]
  BY <1>2 DEF MCNext, Age
<1>12. away' = away
  <2>1. \A c \in Aux : ~IsRead(c)
    BY <1>1, <1>2 DEF IsRead
  <2> QED BY <2>1 DEF MCNext, IInv, HistoryOK
<1>13. HistoryOK'
  <2>1. \A c \in Channels : held'[c] \in Holds
    <3> SUFFICES ASSUME NEW c \in Channels PROVE held'[c] \in Holds
      OBVIOUS
    <3>1. held[c] \in Holds
      BY DEF IInv, HistoryOK
    <3>2. Lesser(held[c].ticks + 1, Debounce) \in 0 .. Debounce
      BY <3>1, Constants DEF Holds, Lesser
    <3> QED BY <1>11, <3>1, <3>2 DEF Holds
  <2>2. held' = [c \in Channels |-> held'[c]]
    BY <1>2 DEF MCNext
  <2> QED BY <1>3, <1>12, <2>1, <2>2, ElsewhereStep DEF IInv, HistoryOK
<1>14. HeldInv'
  <2> SUFFICES ASSUME NEW c \in Channels PROVE HeldOf(switch_state'[c], held'[c])
    BY <1>3 DEF HeldInv, HeldOf
  <2>1. HeldOf(switch_state[c], held[c]) /\ held[c] \in Holds
    BY DEF IInv, HeldInv, HistoryOK
  <2>2. held'[c].position = held[c].position
        /\ held'[c].ticks = Lesser(held[c].ticks + 1, Debounce)
    BY <1>11, <2>1 DEF Holds
  <2>3. switch_state[c].edge \in Int /\ held[c].ticks \in Int /\ Debounce \in Int
    BY <1>1, <2>1, Constants DEF ChannelsTyped, SwitchStates, Holds
  <2> QED BY <1>5, <2>1, <2>2, <2>3 DEF HeldOf, Lesser
<1>15. AwayInv'
  BY <1>2, <1>3, <1>5, <1>12 DEF IInv, AwayInv, Channels
<1>16. AuxModeIsHeld'
  <2>1. elsewhere => elsewhere'
    BY <1>2, ElsewhereStep DEF ModeAsked
  <2> QED BY <1>2, <1>3, <1>5, <2>1 DEF IInv, AuxModeIsHeld, Channels
<1>17. Quiet'
  BY <1>2 DEF Quiet
<1> QED BY <1>10, <1>13, <1>14, <1>15, <1>16, <1>17 DEF IInv

\* What the two action properties ask of a step.
ReportHeld == report' # NoReport /\ report' # report
                 => /\ held'[report'.chan].position = report'.position
                    /\ held'[report'.chan].ticks >= Debounce
ArmedByGesture == ~armed /\ armed' => away[report'.chan]

\* A step that reads no auxiliary switch keeps what is known of them.
LEMMA AuxKept ==
    ASSUME IInv, MCNext, UNCHANGED options,
           \A c \in Aux : ~IsRead(c) /\ switch_state'[c] = switch_state[c]
    PROVE  away' = away /\ AwayInv'
<1>1. Aux' = Aux
  BY DEF Aux
<1>2. away' = away
  BY DEF MCNext, IInv, HistoryOK
<1> QED BY <1>1, <1>2 DEF IInv, AwayInv

LEMMA HeldTyped ==
    ASSUME IInv, MCNext, UNCHANGED options, pc # "frame",
           \A c \in Channels : /\ held'[c] \in Holds
                               /\ HeldOf(switch_state'[c], held'[c]),
           away' \in [Aux -> BOOLEAN]
    PROVE  HistoryOK' /\ HeldInv'
<1>1. Channels' = Channels /\ Aux' = Aux
  BY DEF Channels, Aux
<1>2. held' = [c \in Channels |-> held'[c]]
  BY DEF MCNext
<1> QED BY <1>1, <1>2, ElsewhereStep DEF HistoryOK, HeldInv, HeldOf

\* A step that reads no switch keeps all that is known of them.
LEMMA NothingRead ==
    ASSUME IInv, MCNext, UNCHANGED <<options, radio_in, switch_state>>,
           pc # "frame", \A c \in Channels : ~IsRead(c)
    PROVE  /\ Channels' = Channels /\ Aux' = Aux
           /\ ChannelsTyped' /\ HistoryOK' /\ HeldInv' /\ AwayInv'
<1>1. Channels' = Channels /\ Aux' = Aux
  BY DEF Channels, Aux
<1>2. ChannelsTyped'
  BY <1>1, TypeOKParts, RangesKept DEF IInv, ChannelsTyped
<1>3. away' = away /\ AwayInv'
  BY AuxKept DEF Channels
<1>4. \A c \in Channels : held'[c] = held[c]
  BY DEF MCNext
<1>5. HistoryOK' /\ HeldInv'
  BY <1>3, <1>4, HeldTyped DEF IInv, HistoryOK, HeldInv
<1> QED BY <1>1, <1>2, <1>3, <1>5

\* The two steps in which other than a switch may change the mode.
LEMMA TakeKeeps == IInv /\ MCNext /\ (check_failsafe \/ FlyMode) => IInv'
<1> SUFFICES ASSUME IInv, MCNext, check_failsafe \/ FlyMode PROVE IInv'
  OBVIOUS
<1>1. TypeOK /\ 0 \notin Aux
  BY AuxAreChannels DEF IInv, TypeOK
<1>2. /\ UNCHANGED <<chan, options, seen, age, radio_in, switch_state, report, armed>>
      /\ pc \in {"failsafe", "fly"} /\ pc' \in {"mode_switch", "frame"}
      /\ control_mode' \in Modes
  BY <1>1, SwitchAssumption DEF check_failsafe, FlyMode, TypeOK
<1>3. \A c \in Channels : ~IsRead(c)
  BY <1>2 DEF IsRead
<1>4. /\ Channels' = Channels /\ Aux' = Aux
      /\ ChannelsTyped' /\ HistoryOK' /\ HeldInv' /\ AwayInv'
  BY <1>2, <1>3, NothingRead
<1>5. TypeOK'
  BY <1>1, <1>2, <1>4, TypeOKNext DEF TypeOK
<1>6. AuxModeIsHeld'
  <2>1. ~elsewhere' => ~elsewhere /\ control_mode' = control_mode
    BY <1>2, ElsewhereStep DEF ModeTaken, ModeAsked
  <2> QED BY <1>2, <1>4, <2>1 DEF IInv, AuxModeIsHeld
<1>7. Quiet'
  BY <1>2 DEF IInv, Quiet
<1> QED BY <1>4, <1>5, <1>6, <1>7 DEF IInv

LEMMA ModeSwitchKeeps == IInv /\ MCNext /\ read_mode_switch => IInv' /\ ReportHeld
<1> SUFFICES ASSUME IInv, MCNext, read_mode_switch PROVE IInv' /\ ReportHeld
  OBVIOUS
<1> DEFINE s == switch_state[0]
           p == radio_in[0]
           reads == seen /\ age <= FreshAge
<1>1. ChannelsTyped /\ TypeOK /\ 0 \notin Aux /\ 0 \in Channels
  BY TypeOKParts, AuxAreChannels DEF IInv, TypeOK, Channels
<1>2. /\ UNCHANGED <<chan, options, seen, age, radio_in, armed>>
      /\ pc = "mode_switch" /\ pc' = "aux"
  BY DEF read_mode_switch
<1>3. Channels' = Channels /\ Aux' = Aux
  BY <1>2 DEF Channels, Aux
<1>4. /\ s \in SwitchStates(0) /\ p \in Pulses(0) /\ held[0] \in Holds /\ HeldOf(s, held[0])
  BY <1>1 DEF ChannelsTyped, IInv, HistoryOK, HeldInv
<1>5. \A c \in Aux : ~IsRead(c) /\ switch_state'[c] = switch_state[c]
  BY <1>1, <1>2 DEF IsRead, read_mode_switch, ChannelsTyped, Channels
<1>6. \A c \in Channels : held'[c] = IF c = 0 /\ reads THEN Note(held[0], p) ELSE held[c]
  BY <1>1, <1>2 DEF MCNext, IsRead, Channels
<1>7. /\ DOMAIN switch_state' = Channels
      /\ switch_state'[0] = IF reads THEN Read(s, p) ELSE s
  BY <1>1 DEF read_mode_switch, ChannelsTyped
<1>8. /\ switch_state'[0] \in SwitchStates(0) /\ held'[0] \in Holds
      /\ HeldOf(switch_state'[0], held'[0])
  BY <1>1, <1>4, <1>6, <1>7, Constants, ReadIsSound, NoteIsSound
<1>9. ChannelsTyped'
  <2>1. \A c \in Channels : switch_state'[c] \in SwitchStates(c)
    BY <1>1, <1>5, <1>8 DEF ChannelsTyped, Channels
  <2>2. \A c \in Channels : radio_in'[c] \in Pulses(c)
    BY <1>1, <1>2 DEF ChannelsTyped
  <2> QED BY <1>1, <1>2, <1>3, <1>7, <2>1, <2>2, RangesKept DEF ChannelsTyped
<1>10. CASE reads /\ Reports(s, p)
  <2>1. report' = [chan |-> 0, position |-> p] /\ control_mode' = FlightModes[p + 1]
    BY <1>10 DEF read_mode_switch
  <2>2. p \in ModeRange
    BY <1>4, <1>10 DEF Pulses, RangeOf, Reports
  <2>3. p + 1 \in DOMAIN FlightModes /\ p \in Int
    BY <2>2, SwitchAssumption DEF ModeRange
  <2>4. control_mode' \in Modes
    BY <2>1, <2>3, SwitchAssumption
  <2>5. AuxModeIsHeld'
    <3>1. switch_state'[0].current_position = p
      BY <1>4, <1>7, <1>10, ReadIsSound
    <3> QED BY <2>1, <3>1 DEF AuxModeIsHeld
  <2>6. report' \in [chan : Channels', position : Int]
    BY <1>1, <1>3, <2>1, <2>3
  <2>7. TypeOK'
    BY <1>1, <1>2, <1>9, <2>4, <2>6, TypeOKNext DEF TypeOK
  <2>8. ReportHeld
    <3>1. Note(held[0], p).position = p /\ Note(held[0], p).ticks >= Debounce
      BY <1>4, <1>10, Constants, NoteIsSound
    <3>2. held'[0] = Note(held[0], p)
      BY <1>1, <1>6, <1>10
    <3> QED BY <2>1, <3>1, <3>2 DEF ReportHeld
  <2>9. HistoryOK' /\ HeldInv' /\ AwayInv'
    <3>1. away' = away /\ AwayInv'
      BY <1>2, <1>5, AuxKept
    <3>2. \A c \in Channels : held'[c] \in Holds /\ HeldOf(switch_state'[c], held'[c])
      BY <1>5, <1>6, <1>8 DEF Channels, IInv, HistoryOK, HeldInv
    <3> QED BY <1>2, <3>1, <3>2, HeldTyped DEF IInv, HistoryOK
  <2> QED BY <1>2, <2>5, <2>7, <2>8, <2>9 DEF IInv, Quiet
<1>11. CASE ~(reads /\ Reports(s, p))
  <2>1. UNCHANGED <<report, control_mode>>
    BY <1>11 DEF read_mode_switch
  <2>2. switch_state'[0].current_position = s.current_position
    BY <1>4, <1>7, <1>11, ReadIsSound
  <2>3. AuxModeIsHeld'
    <3>1. report = NoReport
      BY <1>2 DEF IInv, Quiet
    <3>2. elsewhere => elsewhere'
      BY <1>2, <2>1, <3>1, ElsewhereStep DEF ModeAsked
    <3> QED BY <1>2, <1>3, <1>5, <2>1, <2>2, <3>2 DEF AuxModeIsHeld, IInv
  <2>4. TypeOK'
    BY <1>1, <1>2, <1>3, <1>9, <2>1, TypeOKNext DEF TypeOK
  <2>5. HistoryOK' /\ HeldInv' /\ AwayInv'
    <3>1. away' = away /\ AwayInv'
      BY <1>2, <1>5, AuxKept
    <3>2. \A c \in Channels : held'[c] \in Holds /\ HeldOf(switch_state'[c], held'[c])
      BY <1>5, <1>6, <1>8 DEF Channels, IInv, HistoryOK, HeldInv
    <3> QED BY <1>2, <3>1, <3>2, HeldTyped DEF IInv, HistoryOK
  <2> QED BY <1>2, <2>1, <2>3, <2>4, <2>5 DEF IInv, ReportHeld, Quiet
<1> QED BY <1>10, <1>11

LEMMA DoneKeeps == IInv /\ MCNext /\ read_aux_done => IInv'
<1> SUFFICES ASSUME IInv, MCNext, read_aux_done PROVE IInv'
  OBVIOUS
<1>1. ChannelsTyped /\ TypeOK /\ Len(options) \in Nat /\ 0 \notin Aux
  BY TypeOKParts, AuxAreChannels DEF IInv, TypeOK
<1>2. /\ UNCHANGED <<options, seen, age, radio_in, switch_state, control_mode, armed>>
      /\ report' = NoReport /\ pc = "aux" /\ pc' = "fly" /\ chan' = 1
  BY DEF read_aux_done
<1>3. \A c \in Channels : ~IsRead(c)
  BY <1>1, <1>2 DEF IsRead, Channels, read_aux_done
<1>4. /\ Channels' = Channels /\ Aux' = Aux
      /\ ChannelsTyped' /\ HistoryOK' /\ HeldInv' /\ AwayInv'
  BY <1>2, <1>3, NothingRead
<1>5. TypeOK'
  <2>1. report' \in [chan : Channels', position : Int] /\ chan' \in 1 .. Len(options') + 1
    BY <1>1, <1>2, <1>4 DEF NoReport, None, Channels
  <2> QED BY <1>1, <1>2, <1>4, <2>1, TypeOKNext DEF TypeOK
<1>6. AuxModeIsHeld'
  <2>1. elsewhere => elsewhere'
    BY <1>2, ElsewhereStep DEF ModeAsked
  <2> QED BY <1>2, <1>4, <2>1 DEF AuxModeIsHeld, IInv
<1>7. Quiet'
  BY <1>2 DEF Quiet
<1> QED BY <1>4, <1>5, <1>6, <1>7 DEF IInv

\* What reading the auxiliary switch chan does to it, and to the
\* flight-mode switch, which may start over.
LEMMA AuxStep ==
    ASSUME IInv, MCNext, read_aux
    PROVE  LET p == radio_in[chan]
               t == FirstOf(switch_state[chan], options[chan], p)
           IN  /\ chan \in Aux /\ p \in Pulses(chan)
               /\ switch_state'[chan] = Read(t, p) /\ held'[chan] = Note(held[chan], p)
               /\ \A c \in Aux \ {chan} : switch_state'[c] = switch_state[c] /\ held'[c] = held[c]
               /\ \/ switch_state'[0] = switch_state[0]
                  \/ Reports(t, p) /\ switch_state'[0] = reset_mode_switch(switch_state[0])
               /\ ReturnsToSwitch(options[chan], p) /\ Reports(t, p)
                     => switch_state'[0].current_position = None
               /\ held'[0] = IF switch_state'[0] = switch_state[0] THEN held[0]
                             ELSE Note(held[0], radio_in[0])
               /\ DOMAIN switch_state' = Channels
<1> DEFINE p == radio_in[chan]
           t == FirstOf(switch_state[chan], options[chan], p)
           states == [switch_state EXCEPT ![chan] = Read(t, p)]
           old == switch_state[0]
<1>1. ChannelsTyped /\ TypeOK /\ 0 \notin Aux /\ chan \in Aux /\ pc = "aux" /\ seen
  BY TypeOKParts, AuxAreChannels DEF IInv, TypeOK, read_aux
<1>2. p \in Pulses(chan) /\ chan # 0 /\ chan \in Channels /\ 0 \in Channels
  BY <1>1 DEF ChannelsTyped, Channels
<1>3. /\ DOMAIN states = Channels /\ states[chan] = Read(t, p) /\ states[0] = old
      /\ \A c \in Aux \ {chan} : states[c] = switch_state[c]
  BY <1>1, <1>2 DEF ChannelsTyped, Channels
<1>4. switch_state' = IF Reports(t, p) /\ ReturnsToSwitch(options[chan], p)
                      THEN [states EXCEPT ![0] = reset_mode_switch(@)] ELSE states
  BY DEF read_aux, dispatch_aux_function, FirstOf
<1> HIDE DEF states, t
<1>5. /\ DOMAIN switch_state' = Channels /\ switch_state'[chan] = Read(t, p)
      /\ \A c \in Aux \ {chan} : switch_state'[c] = switch_state[c]
      /\ switch_state'[0] = IF Reports(t, p) /\ ReturnsToSwitch(options[chan], p)
                            THEN reset_mode_switch(old) ELSE old
  BY <1>1, <1>2, <1>3, <1>4 DEF Channels
<1>6. reset_mode_switch(old).current_position = None
  BY <1>1, <1>2, ResetIsSound DEF ChannelsTyped, IInv, HistoryOK
<1>7. /\ held'[chan] = Note(held[chan], p)
      /\ \A c \in Aux \ {chan} : held'[c] = held[c]
      /\ held'[0] = IF switch_state'[0] = old THEN held[0] ELSE Note(held[0], radio_in[0])
  BY <1>1, <1>2 DEF MCNext, IsRead, Channels
<1> QED BY <1>1, <1>2, <1>5, <1>6, <1>7 DEF t

LEMMA AuxKeeps == IInv /\ MCNext /\ read_aux => IInv' /\ ReportHeld /\ ArmedByGesture
<1> SUFFICES ASSUME IInv, MCNext, read_aux PROVE IInv' /\ ReportHeld /\ ArmedByGesture
  OBVIOUS
<1> DEFINE p == radio_in[chan]
           s == switch_state[chan]
           option == options[chan]
           t == FirstOf(s, option, p)
           r == Read(t, p)
<1>1. /\ ChannelsTyped /\ TypeOK /\ 0 \notin Aux /\ Len(options) \in Nat
      /\ Aux = 1 .. Len(options) /\ option \in AuxFunc
  BY TypeOKParts, AuxAreChannels DEF IInv, TypeOK, read_aux
<1>2. /\ UNCHANGED <<pc, options, seen, age, radio_in>> /\ chan' = chan + 1 /\ pc = "aux" /\ seen
  BY DEF read_aux
<1>3. Channels' = Channels /\ Aux' = Aux
  BY <1>2 DEF Channels, Aux
<1>4. /\ chan \in Aux /\ p \in Pulses(chan) /\ switch_state'[chan] = r
      /\ held'[chan] = Note(held[chan], p)
      /\ \A c \in Aux \ {chan} : switch_state'[c] = switch_state[c] /\ held'[c] = held[c]
      /\ DOMAIN switch_state' = Channels
  BY AuxStep
<1>5. /\ s \in SwitchStates(chan) /\ held[chan] \in Holds /\ HeldOf(s, held[chan])
      /\ away \in [Aux -> BOOLEAN]
  BY <1>1, <1>4 DEF ChannelsTyped, IInv, HistoryOK, HeldInv, Channels
<1>6. /\ switch_state'[0] \in SwitchStates(0) /\ held'[0] \in Holds
      /\ HeldOf(switch_state'[0], held'[0])
  <2>1. /\ switch_state[0] \in SwitchStates(0) /\ held[0] \in Holds
        /\ HeldOf(switch_state[0], held[0]) /\ radio_in[0] \in Pulses(0)
    BY <1>1 DEF ChannelsTyped, IInv, HistoryOK, HeldInv, Channels
  <2>2. Note(held[0], radio_in[0]) \in Holds
    BY <2>1, Constants, NoteIsSound
  <2>3. CASE switch_state'[0] = switch_state[0]
    BY <2>1, <2>3, AuxStep
  <2>4. CASE switch_state'[0] # switch_state[0]
    <3>1. /\ switch_state'[0] = reset_mode_switch(switch_state[0])
          /\ held'[0] = Note(held[0], radio_in[0])
      BY <2>4, AuxStep
    <3> QED BY <2>1, <2>2, <3>1, ResetIsSound
  <2> QED BY <2>3, <2>4
<1>7. /\ r \in SwitchStates(chan) /\ HeldOf(r, Note(held[chan], p))
      /\ Note(held[chan], p) \in Holds
      /\ Reports(t, p) =>
            /\ Note(held[chan], p).position = p /\ Note(held[chan], p).ticks >= Debounce
            /\ r.current_position = p
            /\ option = "ArmDisarm" => s.initialised /\ s.current_position # p
      /\ ~Reports(t, p) /\ option # "ArmDisarm" => r.current_position = s.current_position
      /\ \/ r.current_position = p /\ p # Invalid
         \/ /\ r.current_position = s.current_position
            /\ option = "ArmDisarm" => r.initialised = s.initialised
  BY <1>1, <1>4, <1>5, AuxRange, AuxReadIsSound DEF TypeOK
<1>8. \A c \in Channels :
        /\ switch_state'[c] \in SwitchStates(c) /\ held'[c] \in Holds
        /\ HeldOf(switch_state'[c], held'[c])
  BY <1>1, <1>4, <1>6, <1>7 DEF Channels, ChannelsTyped, IInv, HistoryOK, HeldInv
<1>9. ChannelsTyped'
  <2>1. \A c \in Channels : radio_in'[c] \in Pulses(c)
    BY <1>1, <1>2 DEF ChannelsTyped
  <2> QED BY <1>1, <1>2, <1>3, <1>4, <1>8, <2>1, RangesKept DEF ChannelsTyped
<1>10. IF Reports(t, p)
       THEN /\ report' = [chan |-> chan, position |-> p]
            /\ control_mode' = IF option \in AuxModes /\ p = High THEN option ELSE control_mode
            /\ armed' = IF option = "ArmDisarm" /\ p # Middle THEN p = High ELSE armed
       ELSE report' = NoReport /\ UNCHANGED <<control_mode, armed>>
  BY DEF read_aux, dispatch_aux_function, FirstOf
<1>11. IsRead(chan) /\ \A c \in Aux \ {chan} : ~IsRead(c)
  BY <1>1, <1>2, <1>4 DEF IsRead
<1>12. /\ option = "ArmDisarm" =>
             away'[chan] = IF report' = [chan |-> chan, position |-> High] THEN FALSE
                           ELSE away[chan] \/ p \in {Low, Middle}
       /\ \A c \in Aux \ {chan} : away'[c] = away[c]
       /\ away' \in [Aux -> BOOLEAN]
  <2>1. away' = [c \in Aux |-> IF ~IsRead(c) \/ options[c] # "ArmDisarm" THEN away[c]
                  ELSE IF report' = [chan |-> c, position |-> High] THEN FALSE
                  ELSE away[c] \/ radio_in[c] \in {Low, Middle}]
    BY DEF MCNext
  <2> QED BY <1>4, <1>5, <1>11, <2>1
<1> HIDE DEF t, r, p, s, option
<1>13. TypeOK'
  <2>1. chan' \in 1 .. Len(options') + 1
    BY <1>1, <1>2, <1>4
  <2>2. p \in Int
    <3>1. Invalid \in Int
      BY DEF Invalid
    <3> QED BY <1>1, <1>4, <3>1, AuxRange DEF Pulses, TypeOK
  <2>3. report' \in [chan : Channels', position : Int]
    BY <1>3, <1>4, <1>10, <2>2 DEF NoReport, None, Channels
  <2>4. control_mode' \in Modes /\ armed' \in BOOLEAN
    BY <1>1, <1>10 DEF TypeOK, Modes
  <2> QED BY <1>1, <1>2, <1>9, <2>1, <2>3, <2>4, TypeOKNext DEF TypeOK
<1>14. HistoryOK' /\ HeldInv'
  BY <1>2, <1>8, <1>12, HeldTyped
<1>15. AwayInv'
  <2> SUFFICES ASSUME NEW c \in Aux, options[c] = "ArmDisarm", switch_state'[c].initialised,
                      switch_state'[c].current_position # High
               PROVE  away'[c]
    BY <1>2, <1>3 DEF AwayInv
  <2>1. CASE c # chan
    BY <1>4, <1>12, <2>1 DEF IInv, AwayInv
  <2>2. CASE c = chan
    <3>1. report' # [chan |-> chan, position |-> High]
      BY <1>4, <1>7, <1>10, <2>2 DEF NoReport, None, High
    <3>2. CASE r.current_position = p /\ p # Invalid
      <4>1. p \in RangeOf(chan) /\ p # High
        BY <1>1, <1>4, <2>2, <3>2 DEF Pulses
      <4>2. p \in {Low, Middle}
        BY <1>1, <1>4, <4>1, AuxRange DEF TypeOK
      <4> QED BY <1>12, <2>2, <3>1, <4>2 DEF option
    <3>3. CASE r.current_position = s.current_position /\ r.initialised = s.initialised
      <4>1. away[chan]
        BY <1>4, <2>2, <3>3 DEF IInv, AwayInv, s
      <4> QED BY <1>12, <2>2, <3>1, <4>1 DEF option
    <3> QED BY <1>7, <2>2, <3>2, <3>3 DEF option
  <2> QED BY <2>1, <2>2
<1>16. AuxModeIsHeld'
  <2> SUFFICES ASSUME switch_state'[0].current_position # None, ~elsewhere',
                      control_mode' # FlightModes[switch_state'[0].current_position + 1]
               PROVE  \E c \in Aux : /\ options[c] = control_mode'
                                     /\ switch_state'[c].current_position = High
    BY <1>2, <1>3 DEF AuxModeIsHeld
  <2>1. ~(Reports(t, p) /\ ReturnsToSwitch(option, p))
    BY AuxStep DEF t, p, s, option
  <2>2. CASE Reports(t, p) /\ option \in AuxModes /\ p = High
    <3>1. control_mode' = option /\ r.current_position = High
      BY <1>7, <1>10, <2>2
    <3> QED BY <1>4, <3>1 DEF option
  <2>3. CASE ~(Reports(t, p) /\ option \in AuxModes /\ p = High)
    <3>1. control_mode' = control_mode
      BY <1>10, <2>3
    <3>2. switch_state'[0] = switch_state[0]
      <4>1. /\ switch_state[0] \in SwitchStates(0) /\ held[0] \in Holds
            /\ radio_in[0] \in Pulses(0)
        BY <1>1 DEF ChannelsTyped, IInv, HistoryOK, Channels
      <4> QED BY <4>1, AuxStep, ResetIsSound
    <3>3. PICK c \in Aux : options[c] = control_mode /\ switch_state[c].current_position = High
      <4>1. ~ModeAsked
        BY <1>1, <1>4, <1>10, <2>3 DEF ModeAsked, option, p
      <4>2. ~elsewhere
        BY <4>1, ElsewhereStep
      <4> QED BY <3>1, <3>2, <4>2 DEF IInv, AuxModeIsHeld
    <3>4. CASE c # chan
      BY <1>4, <3>1, <3>3, <3>4
    <3>5. CASE c = chan
      <4>1. option = control_mode /\ s.current_position = High
        BY <3>3, <3>5 DEF option, s
      <4>2. option # "ArmDisarm" /\ option \in AuxModes
        BY <1>1, <4>1 DEF TypeOK, Modes, AuxModes, AuxFunc
      <4>3. ~Reports(t, p)
        BY <2>1, <2>3, <4>1, <4>2 DEF ReturnsToSwitch
      <4>4. r.current_position = High
        BY <1>7, <4>1, <4>2, <4>3
      <4> QED BY <1>4, <3>1, <3>3, <3>5, <4>4
    <3> QED BY <3>4, <3>5
  <2> QED BY <2>2, <2>3
<1>17. ReportHeld
  BY <1>4, <1>7, <1>10 DEF ReportHeld
<1>18. ArmedByGesture
  <2> SUFFICES ASSUME ~armed, armed' PROVE away[report'.chan]
    BY DEF ArmedByGesture
  <2>1. Reports(t, p) /\ option = "ArmDisarm" /\ p = High /\ report'.chan = chan
    <3>1. Reports(t, p)
      BY <1>10
    <3>2. armed' = IF option = "ArmDisarm" /\ p # Middle THEN p = High ELSE armed
      BY <1>10, <3>1
    <3>3. option = "ArmDisarm" /\ p = High
      BY <3>2
    <3>4. report' = [chan |-> chan, position |-> p]
      BY <1>10, <3>1
    <3> QED BY <3>1, <3>3, <3>4
  <2>2. s.initialised /\ s.current_position # High
    BY <1>7, <2>1
  <2>3. away[chan]
    BY <1>4, <2>1, <2>2 DEF IInv, AwayInv, s, option
  <2> QED BY <2>1, <2>3
<1>19. Quiet'
  BY <1>2 DEF Quiet
<1> QED BY <1>13, <1>14, <1>15, <1>16, <1>17, <1>18, <1>19 DEF IInv

LEMMA NextKeeps ==
    IInv /\ [MCNext]_MCvars => IInv'
<1> SUFFICES ASSUME IInv, [MCNext]_MCvars PROVE IInv'
  OBVIOUS
<1>1. CASE MCNext /\ (ReceiveFrame \/ NoFrame)
  BY <1>1, FrameKeeps DEF ReceiveFrame, NoFrame
<1>2. CASE MCNext /\ ~(ReceiveFrame \/ NoFrame)
  BY <1>2, TakeKeeps, ModeSwitchKeeps, AuxKeeps, DoneKeeps DEF MCNext, Next
<1>3. CASE UNCHANGED MCvars
  <2>1. UNCHANGED <<pc, chan, options, seen, age, radio_in, switch_state, report,
                    control_mode, armed, held, away, elsewhere>>
    BY <1>3 DEF MCvars, vars
  <2>2. Channels' = Channels /\ Aux' = Aux
    BY <2>1 DEF Channels, Aux
  <2>3. ChannelsTyped'
    BY <2>1, <2>2, TypeOKParts, RangesKept DEF IInv, ChannelsTyped
  <2>4. TypeOK'
    BY <2>1, <2>2, <2>3, TypeOKNext DEF IInv, TypeOK
  <2>5. HistoryOK' /\ HeldInv'
    BY <2>1, <2>2 DEF IInv, HistoryOK, HeldInv, HeldOf
  <2>6. AwayInv' /\ AuxModeIsHeld' /\ Quiet'
    BY <2>1, <2>2 DEF IInv, AwayInv, AuxModeIsHeld, Quiet
  <2> QED BY <2>4, <2>5, <2>6 DEF IInv
<1> QED BY <1>1, <1>2, <1>3

-----------------------------------------------------------------------------
(* The theorems.                                                           *)

\* The invariant the theorems rest on holds in every behaviour.
THEOREM IInvHolds == MCSpec => []IInv
<1> QED BY InitIsSound, NextKeeps, PTL DEF MCSpec

\* Every switch keeps its type, and a report is one of a channel.
THEOREM TypeOKHolds == MCSpec => []TypeOK
<1>1. IInv => TypeOK
  BY DEF IInv
<1> QED BY <1>1, IInvHolds, PTL

\* No mode outlives the auxiliary switch it was selected by, unless other
\* than a switch chose it since, for all assignments of functions to channels
\* and all modes that failsafe, mission and ground station may choose.
THEOREM AuxModeIsHeldHolds == MCSpec => []AuxModeIsHeld
<1>1. IInv => AuxModeIsHeld
  BY DEF IInv
<1> QED BY <1>1, IInvHolds, PTL

\* A position is reported only after it was held for the debounce time, for
\* all debounce times.
THEOREM ReportWasHeldHolds == MCSpec => ReportWasHeld
<1>1. IInv /\ [MCNext]_MCvars => [ReportHeld]_MCvars
  <2> SUFFICES ASSUME IInv, MCNext PROVE ReportHeld
    OBVIOUS
  <2>1. CASE ReceiveFrame \/ NoFrame \/ check_failsafe \/ read_aux_done \/ FlyMode
    BY <2>1 DEF ReportHeld, ReceiveFrame, NoFrame, StartTick, check_failsafe,
                read_aux_done, FlyMode
  <2> QED BY <2>1, ModeSwitchKeeps, AuxKeeps DEF MCNext, Next
<1>2. [ReportHeld]_MCvars
        => [report' # NoReport /\ report' # report
              => /\ held'[report'.chan].position = report'.position
                 /\ held'[report'.chan].ticks >= Debounce]_MCvars
  BY DEF ReportHeld
<1> QED BY <1>1, <1>2, IInvHolds, PTL DEF MCSpec, ReportWasHeld

\* The switch arms only after it has been away from HIGH since power-up,
\* and since it last reported HIGH.
THEOREM ArmNeedsGestureHolds == MCSpec => ArmNeedsGesture
<1>1. IInv /\ [MCNext]_MCvars
        => [~armed /\ armed' => away[report'.chan]]_MCvars
  <2> SUFFICES ASSUME IInv, MCNext, ~armed, armed' PROVE away[report'.chan]
    OBVIOUS
  <2>1. read_aux
    BY DEF MCNext, Next, ReceiveFrame, NoFrame, StartTick, check_failsafe,
           read_mode_switch, read_aux_done, FlyMode
  <2> QED BY <2>1, AuxKeeps DEF ArmedByGesture
<1> QED BY <1>1, IInvHolds, PTL DEF MCSpec, ArmNeedsGesture

-----------------------------------------------------------------------------
(* Progress.  That the mode of the flight-mode switch prevails is a        *)
(* temporal property, which the provers cannot reach; what they can is     *)
(* that at rest every switch settles by a count of steps, that only an     *)
(* auxiliary switch that settles sets the flight-mode switch back, and     *)
(* that once all have settled that switch has its mode, unless other than  *)
(* a switch has changed it since.                                          *)

\* The readings and ticks that the switch s, at p, still needs, at most.
Settling(s, p) ==
    IF p = Invalid \/ s.current_position = p THEN 0
    ELSE IF s.debounce_position = p THEN 1 + Debounce - s.edge
    ELSE 2 + Debounce
Left(c) == Settling(switch_state[c], radio_in[c])

\* What channel c waits for: the end of its debounce, or to be read.
Counting == 2 .. Debounce + 1
Served(c) == IF Left(c) \in Counting THEN StartTick
             ELSE IF c = 0 THEN read_mode_switch ELSE read_aux /\ chan = c

\* While nobody moves a switch and the frames are fresh, a channel comes
\* nearer to its position whenever what it waits for happens, and is set
\* back only if it is the flight-mode switch and an auxiliary switch settles.
RestProgress ==
    [][AtRest /\ AtRest' /\ radio_in' = radio_in
         => \A c \in Channels :
              /\ \/ Left(c)' <= Left(c)
                 \/ c = 0 /\ \E d \in Aux : Left(d) > 0 /\ Left(d)' = 0
              /\ Served(c) => Left(c)' = 0 \/ Left(c)' < Left(c)]_vars

\* With every switch settled, the flight-mode switch is established and the
\* vehicle flies its mode, unless failsafe, mission or ground station changed
\* the mode since a switch last asked for one.
SettledOnSwitch ==
    AtRest /\ (\A c \in Channels : Left(c) = 0) => Established /\ (OnSwitch \/ elsewhere)

LEMMA SettlingRange ==
    ASSUME NEW c, NEW s \in SwitchStates(c), NEW p
    PROVE  /\ Settling(s, p) \in Nat
           /\ Settling(s, p) = 0 <=> p = Invalid \/ s.current_position = p
<1>1. s.edge \in 0 .. Debounce /\ Debounce \in Nat
  BY Constants DEF SwitchStates
<1> QED BY <1>1 DEF Settling

LEMMA ReadSettles ==
    ASSUME NEW c, NEW s \in SwitchStates(c), NEW p \in Pulses(c)
    PROVE  /\ Settling(Read(s, p), p) <= Settling(s, p)
           /\ Settling(s, p) \notin Counting =>
                 \/ Settling(Read(s, p), p) = 0
                 \/ Settling(Read(s, p), p) < Settling(s, p)
           /\ Reports(s, p) => Settling(s, p) > 0 /\ Settling(Read(s, p), p) = 0
<1>1. s.edge \in 0 .. Debounce /\ Debounce \in Nat \ {0}
  BY Constants DEF SwitchStates
<1>2. CASE p = Invalid
  BY <1>2 DEF Read, Reports, Settling
<1>3. CASE p # Invalid /\ s.current_position = p
  <2>1. Read(s, p) = [s EXCEPT !.debounce_position = p] /\ ~Reports(s, p)
    BY <1>3 DEF Read, debounce_completed, Reports, Settled
  <2>2. Read(s, p).current_position = p
    BY <1>3, <2>1 DEF SwitchStates
  <2> QED BY <1>3, <2>1, <2>2 DEF Settling
<1>4. CASE p # Invalid /\ s.current_position # p /\ s.debounce_position # p
  <2>1. Read(s, p) = [s EXCEPT !.debounce_position = p, !.edge = 0] /\ ~Reports(s, p)
    BY <1>4 DEF Read, debounce_completed, Reports, Settled
  <2>2. /\ Read(s, p).current_position = s.current_position
        /\ Read(s, p).debounce_position = p /\ Read(s, p).edge = 0
    BY <2>1 DEF SwitchStates
  <2>3. Settling(s, p) = 2 + Debounce /\ Settling(Read(s, p), p) = 1 + Debounce
    BY <1>1, <1>4, <2>2 DEF Settling
  <2> QED BY <1>1, <2>1, <2>3
<1>5. CASE p # Invalid /\ s.current_position # p /\ s.debounce_position = p /\ Settled(s, p)
  <2>1. Read(s, p) = [s EXCEPT !.current_position = p]
    BY <1>5 DEF Read, debounce_completed
  <2>2. Read(s, p).current_position = p
    BY <2>1 DEF SwitchStates
  <2>3. Settling(s, p) = 1 + Debounce - s.edge /\ Settling(Read(s, p), p) = 0
    BY <1>5, <2>2 DEF Settling
  <2> QED BY <1>1, <2>3
<1>6. CASE p # Invalid /\ s.current_position # p /\ s.debounce_position = p /\ ~Settled(s, p)
  <2>1. Read(s, p) = s /\ ~Reports(s, p)
    BY <1>6 DEF Read, debounce_completed, Reports
  <2>2. s.edge < Debounce /\ Settling(s, p) = 1 + Debounce - s.edge
    BY <1>1, <1>6 DEF Settled, Settling
  <2> QED BY <1>1, <2>1, <2>2 DEF Counting
<1> QED BY <1>2, <1>3, <1>4, <1>5, <1>6

\* A first reading only settles the switch.
LEMMA FirstSettles ==
    ASSUME NEW c, NEW s \in SwitchStates(c), NEW p \in Pulses(c), NEW option
    PROVE  LET t == FirstOf(s, option, p)
           IN  /\ t \in SwitchStates(c)
               /\ Settling(t, p) = 0 \/ Settling(t, p) = Settling(s, p)
<1> DEFINE t == FirstOf(s, option, p)
<1>1. CASE p = Invalid
  BY <1>1 DEF FirstOf
<1>2. CASE p # Invalid
  <2>1. p \in RangeOf(c) /\ t = init_position(s, option, p)
    BY <1>2 DEF FirstOf, Pulses
  <2>2. t \in SwitchStates(c)
    BY <2>1, FirstIsSound
  <2>3. \/ t.current_position = p
        \/ /\ t.current_position = s.current_position
           /\ t.debounce_position = s.debounce_position /\ t.edge = s.edge
    BY <2>1, FirstIsSound
  <2> HIDE DEF t
  <2>4. Settling(t, p) = 0 \/ Settling(t, p) = Settling(s, p)
    BY <2>3 DEF Settling
  <2> QED BY <2>2, <2>4 DEF t
<1> QED BY <1>1, <1>2

\* What a step leaves to be done on channel c is no more than before, and
\* less if it is what the channel waits for.
Nearer(c) ==
    /\ \/ Left(c)' <= Left(c)
       \/ c = 0 /\ \E d \in Aux : Left(d) > 0 /\ Left(d)' = 0
    /\ Served(c) => Left(c)' = 0 \/ Left(c)' < Left(c)

LEMMA LeftIsNat ==
    ASSUME IInv
    PROVE  \A c \in Channels : Left(c) \in Nat
BY TypeOKParts, SettlingRange DEF IInv, ChannelsTyped, Left

LEMMA FrameSettles ==
    ASSUME IInv, StartTick, radio_in' = radio_in, NEW c \in Channels
    PROVE  Nearer(c)
<1> DEFINE s == switch_state[c]
           p == radio_in[c]
<1>1. s \in SwitchStates(c) /\ p \in Pulses(c)
  BY TypeOKParts DEF IInv, ChannelsTyped
<1>2. s.edge \in 0 .. Debounce /\ Debounce \in Nat \ {0}
  BY <1>1, Constants DEF SwitchStates
<1>3. switch_state'[c] = [s EXCEPT !.edge = Lesser(s.edge + 1, Debounce)]
  BY DEF StartTick
<1>4. /\ switch_state'[c].current_position = s.current_position
      /\ switch_state'[c].debounce_position = s.debounce_position
      /\ switch_state'[c].edge = Lesser(s.edge + 1, Debounce)
  BY <1>1, <1>3 DEF SwitchStates
<1>5. Left(c) = Settling(s, p) /\ Left(c)' = Settling(switch_state'[c], p)
  BY DEF Left
<1>6. pc = "frame"
  BY DEF StartTick
<1> HIDE DEF s, p
<1>7. CASE p = Invalid \/ s.current_position = p
  <2>1. Left(c) = 0 /\ Left(c)' = 0
    BY <1>4, <1>5, <1>7 DEF Settling
  <2> QED BY <2>1 DEF Nearer
<1>8. CASE p # Invalid /\ s.current_position # p /\ s.debounce_position = p
  <2>1. /\ Left(c) = 1 + Debounce - s.edge
        /\ Left(c)' = 1 + Debounce - Lesser(s.edge + 1, Debounce)
    BY <1>4, <1>5, <1>8 DEF Settling
  <2>2. Left(c)' <= Left(c) /\ (Left(c) \in Counting => Left(c)' < Left(c))
    BY <1>2, <2>1 DEF Lesser, Counting
  <2>3. Served(c) => Left(c) \in Counting
    BY <1>6 DEF Served, read_mode_switch, read_aux
  <2> QED BY <2>2, <2>3 DEF Nearer
<1>9. CASE p # Invalid /\ s.current_position # p /\ s.debounce_position # p
  <2>1. Left(c) = 2 + Debounce /\ Left(c)' = 2 + Debounce
    BY <1>4, <1>5, <1>9 DEF Settling
  <2>2. Left(c)' <= Left(c) /\ Left(c) \notin Counting
    BY <1>2, <2>1 DEF Counting
  <2>3. ~Served(c)
    BY <1>6, <2>2 DEF Served, read_mode_switch, read_aux
  <2> QED BY <2>2, <2>3 DEF Nearer
<1> QED BY <1>7, <1>8, <1>9

\* A step that leaves the channel c alone, and is not what it waits for.
LEMMA Idles ==
    ASSUME IInv, NEW c \in Channels, ~Served(c),
           switch_state'[c] = switch_state[c], radio_in'[c] = radio_in[c]
    PROVE  Nearer(c)
<1>1. Left(c)' = Left(c) /\ Left(c) \in Nat
  BY LeftIsNat DEF Left
<1> QED BY <1>1 DEF Nearer

LEMMA ModeSwitchSettles ==
    ASSUME IInv, AtRest, read_mode_switch, NEW c \in Channels
    PROVE  Nearer(c)
<1>1. /\ ChannelsTyped /\ 0 \in Channels /\ 0 \notin Aux /\ pc = "mode_switch"
      /\ radio_in' = radio_in
  BY TypeOKParts, AuxAreChannels DEF IInv, TypeOK, Channels, read_mode_switch
<1>2. switch_state' = [switch_state EXCEPT ![0] = Read(@, radio_in[0])]
  BY DEF AtRest, read_mode_switch
<1>3. CASE c # 0
  <2>1. ~Served(c)
    BY <1>1, <1>3 DEF Served, StartTick, read_aux
  <2>2. switch_state'[c] = switch_state[c]
    BY <1>1, <1>2, <1>3 DEF ChannelsTyped
  <2> QED BY <1>1, <2>1, <2>2, Idles
<1>4. CASE c = 0
  <2>1. switch_state'[0] = Read(switch_state[0], radio_in[0])
    BY <1>1, <1>2 DEF ChannelsTyped
  <2>2. /\ Left(0) = Settling(switch_state[0], radio_in[0])
        /\ Left(0)' = Settling(Read(switch_state[0], radio_in[0]), radio_in[0])
    BY <1>1, <2>1 DEF Left
  <2>3. /\ Left(0)' <= Left(0)
        /\ Left(0) \notin Counting => Left(0)' = 0 \/ Left(0)' < Left(0)
    BY <1>1, <2>2, ReadSettles DEF ChannelsTyped
  <2>4. Served(0) => Left(0) \notin Counting
    BY <1>1 DEF Served, StartTick
  <2> QED BY <1>4, <2>3, <2>4 DEF Nearer
<1> QED BY <1>3, <1>4

LEMMA AuxSettles ==
    ASSUME IInv, MCNext, read_aux, NEW c \in Channels
    PROVE  Nearer(c)
<1> DEFINE p == radio_in[chan]
           s == switch_state[chan]
           t == FirstOf(s, options[chan], p)
<1>1. /\ ChannelsTyped /\ 0 \notin Aux /\ pc = "aux" /\ radio_in' = radio_in
      /\ Channels = {0} \cup Aux /\ Aux' = Aux
  BY TypeOKParts, AuxAreChannels DEF IInv, TypeOK, Channels, Aux, read_aux
<1>2. /\ chan \in Aux /\ p \in Pulses(chan) /\ switch_state'[chan] = Read(t, p)
      /\ \A d \in Aux \ {chan} : switch_state'[d] = switch_state[d]
      /\ switch_state'[0] = switch_state[0] \/ Reports(t, p)
  BY AuxStep
<1>3. s \in SwitchStates(chan)
  BY <1>1, <1>2 DEF ChannelsTyped
<1>4. t \in SwitchStates(chan) /\ (Settling(t, p) = 0 \/ Settling(t, p) = Settling(s, p))
  BY <1>2, <1>3, FirstSettles
<1>5. PICK k \in Aux : k = chan
  BY <1>2
<1>6. Left(k) = Settling(s, p) /\ Left(k)' = Settling(Read(t, p), p)
  BY <1>1, <1>2, <1>5 DEF Left
<1>7. /\ Left(k) \in Nat /\ Settling(t, p) \in Nat
      /\ Settling(Read(t, p), p) \in Nat
  <2>1. Read(t, p) \in SwitchStates(chan)
    BY <1>2, <1>4, ReadIsSound
  <2> QED BY <1>3, <1>4, <1>6, <2>1, SettlingRange
<1>8. /\ Settling(Read(t, p), p) <= Settling(t, p)
      /\ Settling(t, p) \notin Counting =>
            \/ Settling(Read(t, p), p) = 0
            \/ Settling(Read(t, p), p) < Settling(t, p)
      /\ Reports(t, p) => Settling(t, p) > 0 /\ Settling(Read(t, p), p) = 0
  BY <1>2, <1>4, ReadSettles
<1> HIDE DEF t, s, p
<1>9. CASE c = k
  <2>1. Left(c)' <= Left(c)
    BY <1>4, <1>6, <1>7, <1>8, <1>9
  <2>2. Left(c) \notin Counting => Left(c)' = 0 \/ Left(c)' < Left(c)
    BY <1>4, <1>6, <1>7, <1>8, <1>9
  <2>3. Served(c) => Left(c) \notin Counting
    BY <1>1 DEF Served, StartTick
  <2> QED BY <2>1, <2>2, <2>3 DEF Nearer
<1>10. ASSUME c # k PROVE ~Served(c)
  BY <1>1, <1>5, <1>10 DEF Served, StartTick, read_mode_switch
<1>11. CASE c # k /\ c # 0
  BY <1>1, <1>2, <1>5, <1>10, <1>11, Idles
<1>12. CASE c # k /\ c = 0
  <2>1. CASE switch_state'[0] = switch_state[0]
    BY <1>1, <1>10, <1>12, <2>1, Idles
  <2>2. CASE Reports(t, p)
    <3>1. Left(k) > 0 /\ Left(k)' = 0
      BY <1>4, <1>6, <1>7, <1>8, <2>2
    <3> QED BY <1>10, <1>12, <3>1 DEF Nearer
  <2> QED BY <1>2, <2>1, <2>2
<1> QED BY <1>9, <1>11, <1>12

\* The steps in which no switch is read and no time passes.
LEMMA OthersSettle ==
    ASSUME IInv, check_failsafe \/ read_aux_done \/ FlyMode, NEW c \in Channels
    PROVE  Nearer(c)
<1>1. /\ radio_in' = radio_in /\ switch_state' = switch_state
      /\ pc \in {"failsafe", "fly"} \/ (pc = "aux" /\ (~seen \/ chan \notin Aux))
  BY DEF check_failsafe, read_aux_done, FlyMode
<1>2. ~Served(c)
  BY <1>1 DEF Served, StartTick, read_mode_switch, read_aux
<1> QED BY <1>1, <1>2, Idles

\* At rest every channel settles in as many steps as it is left to take, once
\* no auxiliary switch has any left: for all debounce times and assignments.
THEOREM RestProgressHolds == MCSpec => RestProgress
<1>1. IInv /\ [MCNext]_MCvars =>
        [AtRest /\ AtRest' /\ radio_in' = radio_in
           => \A c \in Channels :
                /\ \/ Left(c)' <= Left(c)
                   \/ c = 0 /\ \E d \in Aux : Left(d) > 0 /\ Left(d)' = 0
                /\ Served(c) => Left(c)' = 0 \/ Left(c)' < Left(c)]_vars
  <2> SUFFICES ASSUME IInv, MCNext, AtRest, radio_in' = radio_in, NEW c \in Channels
               PROVE  Nearer(c)
    BY DEF Nearer, MCvars
  <2>1. CASE ReceiveFrame \/ NoFrame
    BY <2>1, FrameSettles DEF ReceiveFrame, NoFrame
  <2>2. CASE ~(ReceiveFrame \/ NoFrame)
    BY <2>2, ModeSwitchSettles, AuxSettles, OthersSettle DEF MCNext, Next
  <2> QED BY <2>1, <2>2
<1> QED BY <1>1, IInvHolds, PTL DEF MCSpec, RestProgress

\* And then the vehicle flies the mode of its flight-mode switch, unless other
\* than a switch changed it: the modes of the auxiliary switches, all out of
\* HIGH, are gone.
THEOREM SettledOnSwitchHolds == MCSpec => []SettledOnSwitch
<1>1. IInv => SettledOnSwitch
  <2> SUFFICES ASSUME IInv, AtRest, \A c \in Channels : Left(c) = 0
               PROVE  Established /\ (OnSwitch \/ elsewhere)
    BY DEF SettledOnSwitch
  <2>1. ChannelsTyped /\ TypeOK /\ 0 \in Channels /\ Aux \subseteq Channels
    BY TypeOKParts DEF IInv, Channels
  <2>2. \A c \in Channels : radio_in[c] = Invalid
                            \/ switch_state[c].current_position = radio_in[c]
    BY <2>1, SettlingRange DEF ChannelsTyped, Left
  <2>3. radio_in[0] # Invalid /\ radio_in[0] # None
    BY <2>1, Constants DEF AtRest, ChannelsTyped, Pulses, None
  <2>4. switch_state[0].current_position = radio_in[0]
    BY <2>1, <2>2, <2>3
  <2>5. ASSUME NEW c \in Aux, options[c] = control_mode
        PROVE  switch_state[c].current_position # High
    <3>1. options[c] \in AuxModes
      <4>1. options[c] \in AuxFunc /\ options[c] \in Modes
        BY <2>1, <2>5, AuxAreChannels DEF TypeOK
      <4> QED BY <4>1 DEF AuxFunc, Modes, AuxModes
    <3>2. radio_in[c] \in {Low, Middle}
      BY <3>1 DEF AtRest
    <3>3. switch_state[c].current_position = radio_in[c]
      BY <2>1, <2>2, <3>2 DEF Low, Middle, Invalid
    <3> QED BY <3>2, <3>3 DEF Low, Middle, High
  <2>6. elsewhere \/ control_mode = FlightModes[switch_state[0].current_position + 1]
    BY <2>3, <2>4, <2>5 DEF IInv, AuxModeIsHeld
  <2> QED BY <2>3, <2>4, <2>6 DEF Established, OnSwitch
<1> QED BY <1>1, IInvHolds, PTL
=============================================================================
