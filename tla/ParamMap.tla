------------------------------ MODULE ParamMap ------------------------------
(***************************************************************************)
(* What the parameter store promises: a map from parameters to values that *)
(* survives a restart.  A parameter appears in the map whole, is never     *)
(* lost again, and nothing but a save of that parameter changes it.  A     *)
(* value already in the map is overwritten in place and a power loss may   *)
(* then leave some of its words old: that much the store does not promise. *)
(***************************************************************************)
EXTENDS Integers

CONSTANTS Params, Words, Width, Default

VARIABLES ram,      \* the live values
          stored,   \* the values that survive; Absent if never saved
          saving    \* a save of the table is in progress

vars == <<ram, stored, saving>>

Absent == << >>
Values(p) == [1..Width[p] -> Words]
Boot(map) == [p \in Params |-> IF map[p] = Absent THEN [i \in 1..Width[p] |-> Default]
                                                 ELSE map[p]]

Init == /\ stored = [p \in Params |-> Absent]
        /\ ram = Boot(stored)
        /\ saving = FALSE

Set == /\ ~saving
       /\ \E p \in Params : \E v \in Values(p) : ram' = [ram EXCEPT ![p] = v]
       /\ UNCHANGED <<stored, saving>>

Begin == ~saving /\ saving' = TRUE /\ UNCHANGED <<ram, stored>>
End   == saving /\ saving' = FALSE /\ UNCHANGED <<ram, stored>>

Append(p) == /\ saving /\ stored[p] = Absent
             /\ stored' = [stored EXCEPT ![p] = ram[p]]
             /\ UNCHANGED <<ram, saving>>

Overwrite(p) ==
    /\ saving /\ stored[p] # Absent
    /\ \E done \in SUBSET (1..Width[p]) :
          stored' = [stored EXCEPT ![p] =
                        [i \in 1..Width[p] |-> IF i \in done THEN ram[p][i] ELSE @[i]]]
    /\ UNCHANGED <<ram, saving>>

Reboot == /\ ram' = Boot(stored)
          /\ saving' = FALSE
          /\ UNCHANGED stored

Next == \/ Set \/ Begin \/ End \/ Reboot
        \/ \E p \in Params : Append(p) \/ Overwrite(p)

Spec == Init /\ [][Next]_vars
=============================================================================
