------------------------------ MODULE RcSwitch ------------------------------
(***************************************************************************)
(* The switches of the transmitter: the debounced flight-mode switch and   *)
(* the debounced auxiliary switches, read once a tick in this order, and   *)
(* what the vehicle does with a position they report.  Channel 0 is the    *)
(* flight-mode channel; channel i > 0 has the auxiliary function options[i].*)
(*                                                                         *)
(* The vehicle's mode is not the switches' alone.  Between the frame and   *)
(* the switches the failsafe may take it over, or give back the mode it    *)
(* interrupted; after them the mode may change itself (a mission that is   *)
(* flown to its end, a climb-out whose failsafe was postponed), and so may *)
(* the ground station between two ticks.  PlaneControl says when each of   *)
(* them does and to which mode; here any of them may do so in any tick.    *)
(*                                                                         *)
(* Pulse widths are abstracted to the position they are read as.  Time is  *)
(* counted in ticks; a switch's edge is the age of its last edge.          *)
(***************************************************************************)
EXTENDS Integers, Sequences

CONSTANTS
    FlightModes,    \* the mode of each position of the flight-mode switch
    AuxOptions,     \* the assignments of functions to channels explored
    AuxPositions,   \* the positions of each function's switch, two or three
    FailsafeModes,  \* the modes a failsafe takes over with, or gives back
    ChosenModes,    \* the modes chosen by the mode flown or a ground station
    Debounce,       \* SWITCH_DEBOUNCE_TIME_MS, in ticks
    FreshAge        \* oldest valid frame the mode switch may use, in ticks

Low == 0    Middle == 1     High == 2       \* AuxSwitchPos
None    == -1       \* no position established
Invalid == -2       \* a pulse outside the limits

AuxModes == {"MANUAL", "FBWA", "CRUISE", "AUTO", "RTL", "LOITER", "TAKEOFF"}
AuxFunc  == AuxModes \cup {"ArmDisarm", "ModeSwitchReset"}
Modes    == AuxModes \cup {"FBWB"}

ASSUME SwitchAssumption ==
    /\ FlightModes \in Seq(Modes) /\ FlightModes # << >>
    /\ AuxOptions \subseteq Seq(AuxFunc)
    /\ AuxPositions \in [AuxFunc -> SUBSET {Low, Middle, High}]
    /\ FailsafeModes \subseteq Modes /\ ChosenModes \subseteq Modes
    /\ Debounce \in Nat \ {0} /\ FreshAge \in Nat

VARIABLES
    pc,             \* the step of the tick that runs next
    chan,           \* the auxiliary channel that is read next
    options,        \* the functions of the auxiliary channels
    seen,           \* has_ever_seen_rc_input_
    age,            \* age of the last valid frame
    radio_in,       \* the position each channel's pulse stands for
    switch_state,
    report,         \* the position the last read returned, if any
    control_mode,
    armed

vars == <<pc, chan, options, seen, age, radio_in, switch_state, report, control_mode, armed>>

Aux       == DOMAIN options
Channels  == {0} \cup Aux
ModeRange == 0 .. Len(FlightModes) - 1
RangeOf(c) == IF c = 0 THEN ModeRange ELSE AuxPositions[options[c]]
NoReport  == [chan |-> 0, position |-> None]

Lesser(a, b) == IF a < b THEN a ELSE b

-----------------------------------------------------------------------------
(* debounce_completed(): the state it leaves, and whether it returns true. *)

\* Mutant of Settled: the position need not be the one last debounced.
Settled_AnyPosition(s, p) == s.current_position # p /\ s.edge >= Debounce
Settled(s, p) == s.current_position # p /\ s.debounce_position = p /\ s.edge >= Debounce

debounce_completed(s, p) ==
    IF s.current_position = p THEN [s EXCEPT !.debounce_position = p]
    ELSE IF s.debounce_position # p THEN [s EXCEPT !.debounce_position = p, !.edge = 0]
    ELSE IF Settled(s, p) THEN [s EXCEPT !.current_position = p]
    ELSE s

\* Mutant of init_position: the arming switch is treated like any other.
init_position_NoArm(s, option, p) == [s EXCEPT !.initialised = TRUE]

\* An arming switch takes the position it is first read in as established.
init_position(s, option, p) ==
    IF s.initialised THEN s
    ELSE IF option = "ArmDisarm"
    THEN [s EXCEPT !.initialised = TRUE, !.current_position = p, !.debounce_position = p]
    ELSE [s EXCEPT !.initialised = TRUE]

\* Mutant of Read: a pulse out of limits is not rejected.
Read_Unchecked(s, p) == debounce_completed(s, p)

\* Reading a channel: nothing happens while its pulse is out of limits.
Read(s, p)    == IF p = Invalid THEN s ELSE debounce_completed(s, p)
Reports(s, p) == p # Invalid /\ Settled(s, p)

\* Mutant of reset_mode_switch: the established position is not forgotten.
reset_mode_switch_Partial(s) == Read([s EXCEPT !.debounce_position = None], radio_in[0])

\* reset_mode_switch(): forget the position, and read it again at once.
reset_mode_switch(s) ==
    Read([s EXCEPT !.current_position = None, !.debounce_position = None], radio_in[0])

-----------------------------------------------------------------------------

Init ==
    /\ pc = "frame" /\ chan = 1
    /\ options \in AuxOptions
    /\ seen = FALSE /\ age = 0
    /\ radio_in = [c \in Channels |-> Invalid]
    /\ switch_state = [c \in Channels |-> [current_position |-> None,
                        debounce_position |-> None, edge |-> 0, initialised |-> FALSE]]
    /\ report = NoReport
    /\ control_mode = "MANUAL"
    /\ armed = FALSE

\* The tick begins: time advances and a frame may have arrived.
StartTick ==
    /\ pc = "frame" /\ pc' = "failsafe"
    /\ switch_state' = [c \in Channels |->
            [switch_state[c] EXCEPT !.edge = Lesser(@ + 1, Debounce)]]
    /\ report' = NoReport
    /\ UNCHANGED <<chan, options, control_mode, armed>>

\* A frame counts as valid, for the mode switch, if its throttle does.
ReceiveFrame ==
    /\ StartTick
    /\ seen' = TRUE
    /\ \E ok \in BOOLEAN : age' = IF ok THEN 0 ELSE Lesser(age + 1, FreshAge + 1)
    /\ radio_in' \in [Channels -> ModeRange \cup {Low, Middle, High, Invalid}]
    /\ \A c \in Channels : radio_in'[c] \in RangeOf(c) \cup {Invalid}

NoFrame ==
    /\ StartTick
    /\ age' = Lesser(age + 1, FreshAge + 1)
    /\ UNCHANGED <<seen, radio_in>>

\* check_short_rc_failsafe() and check_long_failsafe(): on the link as the
\* frame left it, a mode is taken over or given back.  There is no failsafe
\* before the first frame.
check_failsafe ==
    /\ pc = "failsafe" /\ pc' = "mode_switch"
    /\ control_mode' \in {control_mode} \cup IF seen THEN FailsafeModes ELSE {}
    /\ UNCHANGED <<chan, options, seen, age, radio_in, switch_state, report, armed>>

\* The flight-mode switch is read only from fresh frames.
read_mode_switch ==
    /\ pc = "mode_switch" /\ pc' = "aux"
    /\ IF seen /\ age <= FreshAge
       THEN /\ switch_state' = [switch_state EXCEPT ![0] = Read(@, radio_in[0])]
            /\ IF Reports(switch_state[0], radio_in[0])
               THEN /\ report' = [chan |-> 0, position |-> radio_in[0]]
                    /\ control_mode' = FlightModes[radio_in[0] + 1]
               ELSE UNCHANGED <<report, control_mode>>
       ELSE UNCHANGED <<switch_state, report, control_mode>>
    /\ UNCHANGED <<chan, options, seen, age, radio_in, armed>>

\* Mutant of ReturnsToSwitch: a released mode switch is ignored.
ReturnsToSwitch_ResetOnly(option, p) == option = "ModeSwitchReset"

\* do_aux_function_change_mode() and the other functions, for the position p
\* that the switch with function option reported; s is its switch state.
ReturnsToSwitch(option, p) ==
    \/ option = "ModeSwitchReset"
    \/ option \in AuxModes /\ p # High /\ control_mode = option

dispatch_aux_function(option, p, states) ==
    /\ control_mode' = IF option \in AuxModes /\ p = High THEN option ELSE control_mode
    /\ switch_state' = IF ReturnsToSwitch(option, p)
                       THEN [states EXCEPT ![0] = reset_mode_switch(@)] ELSE states
    /\ armed' = IF option = "ArmDisarm" /\ p # Middle THEN p = High ELSE armed

\* read_aux_all(), one channel at a time.
read_aux ==
    /\ pc = "aux" /\ seen /\ chan \in Aux
    /\ LET p == radio_in[chan]
           s == IF p = Invalid THEN switch_state[chan]
                ELSE init_position(switch_state[chan], options[chan], p)
           states == [switch_state EXCEPT ![chan] = Read(s, p)]
       IN  IF Reports(s, p)
           THEN /\ report' = [chan |-> chan, position |-> p]
                /\ dispatch_aux_function(options[chan], p, states)
           ELSE /\ report' = NoReport
                /\ switch_state' = states
                /\ UNCHANGED <<control_mode, armed>>
    /\ chan' = chan + 1
    /\ UNCHANGED <<pc, options, seen, age, radio_in>>

read_aux_done ==
    /\ pc = "aux" /\ (~seen \/ chan \notin Aux)
    /\ pc' = "fly" /\ chan' = 1
    /\ report' = NoReport
    /\ UNCHANGED <<options, seen, age, radio_in, switch_state, control_mode, armed>>

\* The mode is flown, and the tick ends.  The mode flown may change itself,
\* and a ground station may choose one before the next tick.
FlyMode ==
    /\ pc = "fly" /\ pc' = "frame"
    /\ control_mode' \in {control_mode} \cup ChosenModes
    /\ UNCHANGED <<chan, options, seen, age, radio_in, switch_state, report, armed>>

Next ==
    \/ ReceiveFrame \/ NoFrame \/ check_failsafe
    \/ read_mode_switch \/ read_aux \/ read_aux_done \/ FlyMode

\* tick() is called for ever and runs to its end: one step at a time is enabled.
Fairness == WF_vars(Next)

Spec == Init /\ [][Next]_vars
FairSpec == Spec /\ Fairness

-----------------------------------------------------------------------------

\* Every variable has its type.
TypeOK ==
    /\ pc \in {"frame", "failsafe", "mode_switch", "aux", "fly"}
    /\ chan \in 1 .. Len(options) + 1
    /\ options \in AuxOptions
    /\ seen \in BOOLEAN /\ armed \in BOOLEAN
    /\ age \in 0 .. FreshAge + 1
    /\ DOMAIN radio_in = Channels /\ DOMAIN switch_state = Channels
    /\ \A c \in Channels :
          /\ radio_in[c] \in RangeOf(c) \cup {Invalid}
          /\ switch_state[c] \in [current_position : RangeOf(c) \cup {None},
                debounce_position : RangeOf(c) \cup {None}, edge : 0 .. Debounce,
                initialised : BOOLEAN]
    /\ report \in [chan : Channels, position : Int]
    /\ control_mode \in Modes
=============================================================================
