----------------------------- MODULE MCRcSwitch -----------------------------
(* RcSwitch with a two-position flight-mode switch and auxiliary switches  *)
(* of every kind.  held tells the position each channel was last read in,  *)
(* and for how many ticks every reading has been that one; away, that an   *)
(* arming switch has been read out of HIGH since it last reported HIGH;    *)
(* elsewhere, that the mode was changed by other than the switches since a *)
(* switch last asked for one.                                              *)
EXTENDS RcSwitch

VARIABLES held, away, elsewhere

MCvars == <<vars, held, away, elsewhere>>

MCFlightModes == <<"FBWB", "RTL">>
MCAuxOptions ==
    {<<"ArmDisarm">>, <<"ModeSwitchReset">>, <<"TAKEOFF">>, <<"RTL", "LOITER">>}
MCAuxPositions == [f \in AuxFunc |-> IF f \in {"ArmDisarm", "TAKEOFF"}
                                      THEN {Low, Middle, High} ELSE {Low, High}]
MCFailsafeModes == {"RTL", "LOITER"}
MCChosenModes == {"RTL"}

Age(h) == [h EXCEPT !.ticks = Lesser(@ + 1, Debounce)]
Note(h, p) == IF p = Invalid \/ h.position = p THEN h ELSE [position |-> p, ticks |-> 0]

\* reset_mode_switch() reads the flight-mode switch, too.
IsRead(c) ==
    IF c = 0 THEN \/ pc = "mode_switch" /\ seen /\ age <= FreshAge
                  \/ pc = "aux" /\ switch_state'[0] # switch_state[0]
             ELSE pc = "aux" /\ seen /\ chan = c

\* The steps by which other than a switch changes the mode.
ModeTaken == pc \in {"failsafe", "fly"} /\ control_mode' # control_mode

\* A switch asks for a mode: a position of the flight-mode switch, or an
\* auxiliary switch put to its mode.
ModeAsked ==
    /\ pc \in {"mode_switch", "aux"} /\ report' # NoReport
    /\ \/ report'.chan = 0
       \/ report'.position = High /\ options[report'.chan] \in AuxModes

MCInit == /\ Init
          /\ held = [c \in Channels |-> [position |-> None, ticks |-> 0]]
          /\ away = [c \in Aux |-> FALSE]
          /\ elsewhere = FALSE
MCNext ==
    /\ Next
    /\ held' = [c \in Channels |->
            IF pc = "frame" THEN Age(held[c])
            ELSE IF IsRead(c) THEN Note(held[c], radio_in[c]) ELSE held[c]]
    /\ away' = [c \in Aux |->
            IF ~IsRead(c) \/ options[c] # "ArmDisarm" THEN away[c]
            ELSE IF report' = [chan |-> c, position |-> High] THEN FALSE
            ELSE away[c] \/ radio_in[c] \in {Low, Middle}]
    /\ elsewhere' = (ModeTaken \/ (elsewhere /\ ~ModeAsked))
MCSpec == MCInit /\ [][MCNext]_MCvars /\ WF_MCvars(MCNext)

\* Letting go of a switch leaves no mode of it behind.  Once the flight-mode
\* switch is established the vehicle flies its mode, or one whose auxiliary
\* switch is established at HIGH, unless the failsafe, the mode flown or a
\* ground station has changed the mode since a switch last asked for one (a
\* failsafe gives back an auxiliary switch's mode though it was released
\* meanwhile, and leaves the vehicle in the mode it last took over with).
AuxModeIsHeld ==
    switch_state[0].current_position # None /\ ~elsewhere =>
        \/ control_mode = FlightModes[switch_state[0].current_position + 1]
        \/ \E c \in Aux : /\ options[c] = control_mode
                          /\ switch_state[c].current_position = High

\* A position is reported only after every reading of the channel for the
\* whole debounce time was that position, whatever resets came in between.
ReportWasHeld ==
    [][report' # NoReport /\ report' # report
         => /\ held'[report'.chan].position = report'.position
            /\ held'[report'.chan].ticks >= Debounce]_MCvars

\* The arming switch arms only on a gesture: it has been read out of HIGH
\* since power-up, and again since it last reported HIGH.
ArmNeedsGesture ==
    [][~armed /\ armed' => away[report'.chan]]_MCvars

\* Once no switch is moved any more, the frames are fresh and no auxiliary
\* switch is at its mode, the flight-mode switch comes to be established and
\* its mode to be flown, for good, until other than a switch changes it.
AtRest == /\ seen /\ age <= FreshAge
          /\ radio_in[0] # Invalid
          /\ \A c \in Aux : options[c] \in AuxModes => radio_in[c] \in {Low, Middle}
Established == radio_in[0] # Invalid /\ switch_state[0].current_position = radio_in[0]
OnSwitch == control_mode = FlightModes[radio_in[0] + 1]
ModeSwitchPrevails ==
    <>[]AtRest /\ <>[][radio_in' = radio_in]_vars
        => <>[](Established /\ (OnSwitch \/ elsewhere))
=============================================================================
