----------------------------- MODULE ParamStore -----------------------------
(***************************************************************************)
(* The parameter log of ap-param: scan(), load_raw() and save_raw() over   *)
(* the areas of a StorageAccess, and the table passes that load it at boot *)
(* and save it.  Storage is a sequence of two-byte words.  Each raw write  *)
(* is one action, so that power may be lost between any two.               *)
(*                                                                         *)
(* A header is two words: the first holds key, type and the low bits of    *)
(* the group element, the second the rest of it, 0 for the parameters of   *)
(* the table.  Splitting a header or a sentinel at an odd byte adds no     *)
(* case: one new byte still reads as a sentinel, and the fourth byte is 0  *)
(* in both.                                                                *)
(***************************************************************************)
EXTENDS Integers, Sequences, SequencesExt

CONSTANTS
    Table,          \* the parameters, in the order of the table
    Width,          \* type_size() of each, in words
    Words,          \* the words values are made of
    Default,        \* the word of every default value
    AreaLengths     \* the lengths of the Param areas, in words

Params == Range(Table)
HeaderSize == 2     \* of a ParamHeader, and of the EepromHeader

\* Where the n-th area ends in the logical addresses, and the whole space.
AreaEnd[n \in 0 .. Len(AreaLengths)] ==
    IF n = 0 THEN 0 ELSE AreaEnd[n - 1] + AreaLengths[n]
Size == AreaEnd[Len(AreaLengths)]

\* The words headers are made of.  A sentinel's first word is all ones, and
\* so is erased storage; fresh storage is all zeros.
Zero == "0x0000"
Ones == "0xFFFF"
SentinelTail == "0x003F"
HeaderWords(p) == <<p, Zero>>
Sentinel == <<Ones, SentinelTail>>

ASSUME LayoutAssumption ==
    /\ Table \in Seq(STRING) /\ IsInjective(Table)
    /\ Width \in [Params -> {1, 2}]
    /\ Default \in Words
    /\ AreaLengths \in Seq(Nat \ {0}) /\ AreaLengths # << >>
    /\ AreaLengths[1] >= 3 * HeaderSize   \* the first entry's header is whole
    /\ (Params \cup Words) \cap {Zero, Ones, SentinelTail} = {}
    /\ Params \cap Words = {}

VARIABLES
    storage,    \* the words of the Param areas
    ram,        \* the live tunables
    pos,        \* the row the save pass is at; 0 when none runs
    forced,     \* force_save of that pass
    todo,       \* the raw writes its save_raw() has still to make
    outcome     \* what the last save of each parameter came to

vars == <<storage, ram, pos, forced, todo, outcome>>

Outcomes == {"None", "Written", "SkippedMatchesDefault", "Failed"}
Absent == << >>
DefaultValue(p) == [i \in 1..Width[p] |-> Default]
Values(p) == {[i \in 1..Width[p] |-> w] : w \in Words}

-----------------------------------------------------------------------------
(* Reading the log.                                                        *)

is_sentinel(h) == h[1] = Ones \/ h = <<Zero, Zero>>

\* The header at ofs of the words st, and what a value following it occupies.
HeaderAt(st, ofs) == <<st[ofs], st[ofs + 1]>>
type_size(h)      == IF h[1] \in Params THEN Width[h[1]] ELSE 0

\* The loop of scan(), from any offset of the words st.
Walk(st, p) ==
    LET walk[ofs \in 0 .. 2 * Size] ==
            IF ofs + HeaderSize > Size THEN [found |-> FALSE, ofs |-> -1]
            ELSE IF HeaderAt(st, ofs) = HeaderWords(p) THEN [found |-> TRUE, ofs |-> ofs]
            ELSE IF is_sentinel(HeaderAt(st, ofs)) THEN [found |-> FALSE, ofs |-> ofs]
            ELSE walk[ofs + type_size(HeaderAt(st, ofs)) + HeaderSize]
    IN  walk

\* scan(): the first entry of p, or the sentinel that ends the log, or, if
\* the areas end before one is found, neither.
scan(p) == Walk(storage, p)[HeaderSize]

\* Mutant of load_raw: the value is read where its header is.
load_raw_AtHeader(p) ==
    LET at == scan(p)
    IN  IF at.found THEN [i \in 1..Width[p] |-> storage[at.ofs + i - 1]] ELSE Absent

load_raw(p) ==
    LET at == scan(p)
    IN  IF at.found THEN [i \in 1..Width[p] |-> storage[at.ofs + HeaderSize + i - 1]]
                    ELSE Absent

\* load_aparm_parameters(): defaults where nothing is stored.
LoadTable == [p \in Params |-> IF load_raw(p) = Absent THEN DefaultValue(p) ELSE load_raw(p)]

-----------------------------------------------------------------------------
(* Writing the log.                                                        *)

AreaEnds == {AreaEnd[n] : n \in 1 .. Len(AreaLengths) - 1}

\* Mutant of write_block: what lies past the end of the area is not written.
write_block_OneArea(ofs, words) ==
    IF ofs + 1 \in AreaEnds THEN << [at |-> ofs, words |-> <<words[1]>>] >>
                            ELSE << [at |-> ofs, words |-> words] >>

\* StorageAccess::write_block(): one raw write for each area it touches.
write_block(ofs, words) ==
    IF ofs + 1 \in AreaEnds /\ Len(words) = 2
    THEN << [at |-> ofs, words |-> <<words[1]>>], [at |-> ofs + 1, words |-> <<words[2]>>] >>
    ELSE << [at |-> ofs, words |-> words] >>

\* Mutant of HasRoom: no room is kept for the new sentinel.
HasRoom_NoSentinel(p, ofs) == ofs + Width[p] + HeaderSize < Size
HasRoom(p, ofs) == ofs + Width[p] + 2 * HeaderSize < Size

\* Mutant of AppendWrites: the header comes before the value.
AppendWrites_HeaderFirst(p, ofs) ==
    write_block(ofs + HeaderSize + Width[p], Sentinel)
        \o write_block(ofs, HeaderWords(p))
        \o write_block(ofs + HeaderSize, ram[p])

\* save_raw()'s order for a new entry: the new sentinel, the value, and the
\* header last, over the old sentinel.
AppendWrites(p, ofs) ==
    write_block(ofs + HeaderSize + Width[p], Sentinel)
        \o write_block(ofs + HeaderSize, ram[p])
        \o write_block(ofs, HeaderWords(p))

\* The raw writes of save_raw(); none if it fails.
save_raw(p) ==
    LET at == scan(p)
    IN  IF at.found THEN write_block(at.ofs + HeaderSize, ram[p])
        ELSE IF at.ofs # -1 /\ HasRoom(p, at.ofs) THEN AppendWrites(p, at.ofs)
        ELSE << >>

should_skip_save(p) == ~forced /\ ram[p] = DefaultValue(p)

-----------------------------------------------------------------------------

Init ==
    /\ storage \in {[a \in 0 .. Size - 1 |-> w] : w \in {Zero, Ones}}
    /\ ram = [p \in Params |-> DefaultValue(p)]
    /\ pos = 0
    /\ forced = FALSE
    /\ todo = << >>
    /\ outcome = [p \in Params |-> "None"]

\* A tunable is changed in flight.
SetParam ==
    /\ pos = 0
    /\ \E p \in Params : \E v \in Values(p) \ {ram[p]} :
          /\ ram' = [ram EXCEPT ![p] = v]
          /\ outcome' = [outcome EXCEPT ![p] = "None"]
    /\ UNCHANGED <<storage, pos, forced, todo>>

BeginSave ==
    /\ pos = 0 /\ pos' = 1
    /\ forced' \in BOOLEAN
    /\ outcome' = [p \in Params |-> "None"]
    /\ UNCHANGED <<storage, ram, todo>>

\* One row of save_aparm_parameters(), up to its first raw write.  A row that
\* fails is passed over: the result of save_raw() is discarded.
SaveRow ==
    /\ pos \in DOMAIN Table /\ todo = << >>
    /\ LET p == Table[pos]
           writes == IF should_skip_save(p) THEN << >> ELSE save_raw(p)
       IN  /\ todo' = writes
           /\ pos' = IF writes = << >> THEN pos + 1 ELSE pos
           /\ outcome' = [outcome EXCEPT ![p] =
                 IF should_skip_save(p) THEN "SkippedMatchesDefault"
                 ELSE IF writes = << >> THEN "Failed" ELSE "None"]
    /\ UNCHANGED <<storage, ram, forced>>

RawWrite ==
    /\ todo # << >>
    /\ LET w == Head(todo)
       IN  storage' = [a \in DOMAIN storage |->
                          IF a - w.at + 1 \in DOMAIN w.words THEN w.words[a - w.at + 1]
                                                             ELSE storage[a]]
    /\ todo' = Tail(todo)
    /\ IF Tail(todo) = << >>
       THEN pos' = pos + 1 /\ outcome' = [outcome EXCEPT ![Table[pos]] = "Written"]
       ELSE UNCHANGED <<pos, outcome>>
    /\ UNCHANGED <<ram, forced>>

EndSave ==
    /\ pos = Len(Table) + 1 /\ pos' = 0
    /\ UNCHANGED <<storage, ram, forced, todo, outcome>>

\* Power is lost at any moment; the tunables are loaded at the next boot.
Reboot ==
    /\ ram' = LoadTable
    /\ pos' = 0 /\ todo' = << >>
    /\ outcome' = [p \in Params |-> "None"]
    /\ UNCHANGED <<storage, forced>>

Next == SetParam \/ BeginSave \/ SaveRow \/ RawWrite \/ EndSave \/ Reboot

Spec == Init /\ [][Next]_vars

-----------------------------------------------------------------------------

AllWords == Params \cup Words \cup {Zero, Ones, SentinelTail}

\* Every variable has its type; in particular a boot loads values only.
TypeOK ==
    /\ storage \in [0 .. Size - 1 -> AllWords]
    /\ \A p \in Params : ram[p] \in [1..Width[p] -> Words]
    /\ pos \in 0 .. Len(Table) + 1
    /\ forced \in BOOLEAN
    /\ \A i \in DOMAIN todo : todo[i].at \in 0 .. Size - 1
    /\ outcome \in [Params -> Outcomes]

\* The log always ends in a sentinel that scan() reaches, whatever write the
\* power was lost after and however full the areas are: without one no new
\* parameter could ever be stored again.
LogEndsInSentinel == \A p \in Params : scan(p).ofs # -1

\* A parameter reported written is the one the next boot loads.
WrittenIsLoaded ==
    \A p \in Params : outcome[p] = "Written" => load_raw(p) = ram[p]

\* A saved parameter, skipped ones included, is the one the next boot loads:
\* the round trip the tests promise of save and load.
SavedIsLoaded ==
    \A p \in Params : outcome[p] \in {"Written", "SkippedMatchesDefault"}
                        => LoadTable[p] = ram[p]

\* The log implements the map of ParamMap: an entry becomes visible whole,
\* with the last raw write of its header, stays for good, and no write for
\* one parameter, torn or not, changes what is loaded for another.
Map == INSTANCE ParamMap WITH stored <- [p \in Params |-> load_raw(p)], saving <- pos # 0
ImplementsMap == Map!Spec
=============================================================================
