------------------------------ MODULE Failsafe ------------------------------
(***************************************************************************)
(* What the RC failsafe promises to whoever flies the aircraft, without    *)
(* the tick that carries it out.  The link is sensed and the level it      *)
(* calls for is decided in one step.  A raised level gives the failsafe    *)
(* one duty, to take the mode over; a Short level that ends, while the     *)
(* failsafe still owns the mode, gives it the duty to return the mode it   *)
(* interrupted.  Without a duty it never touches the mode: a mode chosen   *)
(* after the failsafe acted stays, however long the link stays lost.       *)
(***************************************************************************)
CONSTANTS
    Modes,
    NoMode,         \* nothing saved yet
    Start,          \* the mode flown first
    Deferring       \* modes that may postpone a long failsafe

VARIABLES
    selects,        \* the modes the configured actions select
    answers_short,  \* a short loss is answered
    link,
    level,
    duty,           \* what the failsafe still has to do
    mode,
    owned,          \* the failsafe chose the mode
    saved           \* the mode the failsafe interrupted

vars == <<selects, answers_short, link, level, duty, mode, owned, saved>>

Links == {"Good", "Lost", "Overdue"}

Init ==
    /\ selects \in SUBSET Modes
    /\ answers_short \in BOOLEAN
    /\ link = "Good" /\ level = "None" /\ duty = "none"
    /\ mode = Start /\ owned = FALSE /\ saved = NoMode

\* The level a link calls for, from the level so far: a raised level stays
\* until the link is good again, an overdue link is always at Long.
Called(l, from) ==
    CASE l = "Good"    -> "None"
      [] l = "Overdue" -> "Long"
      [] OTHER         -> IF from = "None" /\ answers_short THEN "Short" ELSE from

Sense ==
    /\ duty \in {"none", "postponed"}
    /\ link' \in Links
    /\ level' = Called(link', level)
    /\ duty' = CASE level' \notin {level, "None"} -> "take"
                 [] level' = "None" /\ level = "Short" /\ owned /\ saved # mode -> "release"
                 [] level' = "None" /\ ~(level = "Short" /\ owned /\ saved # mode) -> "none"
                 [] OTHER -> duty
    /\ saved' = IF level = "None" /\ level' # "None" /\ answers_short THEN mode ELSE saved
    /\ UNCHANGED <<selects, answers_short, mode, owned>>

TakeOver(m) == mode' = m /\ owned' = (owned \/ m # mode)

\* A level raised twice at once, None to Short to Long, takes over twice.
Act ==
    /\ duty = "take" /\ duty' \in {"take", "none"}
    /\ \E m \in selects \cup {mode} : TakeOver(m)
    /\ UNCHANGED <<selects, answers_short, link, level, saved>>

Postpone ==
    /\ duty = "take" /\ duty' = "postponed"
    /\ level = "Long" /\ mode \in Deferring
    /\ UNCHANGED <<selects, answers_short, link, level, mode, owned, saved>>

\* A postponed duty is taken up in earnest, and only once.
TakeUp ==
    /\ duty = "postponed" /\ duty' = "none"
    /\ \E m \in selects \ {mode} : TakeOver(m)
    /\ UNCHANGED <<selects, answers_short, link, level, saved>>

GiveBack ==
    /\ duty = "release" /\ duty' = "none"
    /\ mode' = saved /\ owned' = FALSE
    /\ UNCHANGED <<selects, answers_short, link, level, saved>>

\* The pilot, the ground station or the mission choose another mode.
Choose ==
    /\ duty \in {"none", "postponed"} /\ duty' = "none"
    /\ mode' \in Modes \ {mode} /\ owned' = FALSE
    /\ UNCHANGED <<selects, answers_short, link, level, saved>>

Next == Sense \/ Act \/ Postpone \/ TakeUp \/ GiveBack \/ Choose

Spec == Init /\ [][Next]_vars
=============================================================================
