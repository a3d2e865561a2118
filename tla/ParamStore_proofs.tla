-------------------------- MODULE ParamStore_proofs --------------------------
(***************************************************************************)
(* For all tables, widths, words and layouts of the areas of ParamStore:   *)
(* its types, that the log always ends in a sentinel, that what is         *)
(* reported written is loaded, and that the log implements ParamMap.       *)
(***************************************************************************)
EXTENDS ParamStore, WellFoundedInduction, SequenceTheorems, TLAPS

-----------------------------------------------------------------------------
(* The sizes of the areas add up.                                          *)

\* The areas laid out one after the other, up to the n-th.
Ends(v, n) == v = [k \in 0 .. n |-> IF k = 0 THEN 0 ELSE v[k - 1] + AreaLengths[k]]

\* The least-number principle, from which all inductions below are made.
LEMMA LeastOf ==
    ASSUME NEW S \in SUBSET Nat, S # {}
    PROVE  \E x \in S : \A y \in S : ~(y < x)
<1>1. \E x \in S : \A y \in S : ~(<<y, x>> \in OpToRel(<, Nat))
  BY NatLessThanWellFounded, WFMin
<1> QED BY <1>1 DEF OpToRel

LEMMA LengthsAreNat ==
    /\ Len(AreaLengths) \in Nat \ {0}
    /\ \A k \in 1 .. Len(AreaLengths) : AreaLengths[k] \in Nat \ {0}
  BY LayoutAssumption, EmptySeq

LEMMA OneMoreArea ==
    ASSUME NEW n \in Nat, NEW v, Ends(v, n)
    PROVE  \E w : Ends(w, n + 1)
<1> DEFINE w == [k \in 0 .. n + 1 |-> IF k = n + 1 THEN v[n] + AreaLengths[n + 1] ELSE v[k]]
<1>1. \A k \in 0 .. n : w[k] = v[k] /\ v[k] = IF k = 0 THEN 0 ELSE v[k - 1] + AreaLengths[k]
  BY DEF Ends
<1>2. w[n + 1] = w[n] + AreaLengths[n + 1]
  BY <1>1
<1>3. w = [k \in 0 .. n + 1 |-> w[k]]
  OBVIOUS
<1> HIDE DEF w
<1>4. \A k \in 0 .. n + 1 : w[k] = IF k = 0 THEN 0 ELSE w[k - 1] + AreaLengths[k]
  <2> SUFFICES ASSUME NEW k \in 0 .. n + 1
               PROVE  w[k] = IF k = 0 THEN 0 ELSE w[k - 1] + AreaLengths[k]
    OBVIOUS
  <2>1. CASE k = n + 1
    BY <1>2, <2>1
  <2>2. CASE k # n + 1
    <3>1. k \in 0 .. n /\ (k # 0 => k - 1 \in 0 .. n)
      BY <2>2
    <3> QED BY <1>1, <3>1
  <2> QED BY <2>1, <2>2
<1>5. Ends(w, n + 1)
  BY <1>3, <1>4 DEF Ends
<1> QED BY <1>5

\* AreaEnd is defined at every area: there is no least one at which the
\* layout could not be continued.
LEMMA EndsExist == \A n \in Nat : \E v : Ends(v, n)
<1> SUFFICES ASSUME \E n \in Nat : ~ \E v : Ends(v, n) PROVE FALSE
  OBVIOUS
<1> DEFINE S == {n \in Nat : ~ \E v : Ends(v, n)}
<1>1. S \in SUBSET Nat /\ S # {}
  OBVIOUS
<1>2. PICK n \in S : \A m \in S : ~(m < n)
  <2> HIDE DEF S
  <2> QED BY <1>1, LeastOf
<1>3. n # 0
  <2>1. Ends([k \in 0 .. 0 |-> 0], 0)
    BY DEF Ends
  <2> QED BY <1>2, <2>1
<1>4. n - 1 \in Nat /\ n - 1 < n /\ (n - 1) + 1 = n
  BY <1>2, <1>3
<1>5. n - 1 \notin S
  BY <1>2, <1>4
<1>6. \E v : Ends(v, n)
  <2> HIDE DEF Ends
  <2> QED BY <1>4, <1>5, OneMoreArea
<1> QED BY <1>2, <1>6

LEMMA AreaEndsAdd ==
    \A k \in 0 .. Len(AreaLengths) :
        AreaEnd[k] = IF k = 0 THEN 0 ELSE AreaEnd[k - 1] + AreaLengths[k]
<1>1. AreaEnd = CHOOSE v : Ends(v, Len(AreaLengths))
  BY DEF AreaEnd, Ends
<1>2. Ends(AreaEnd, Len(AreaLengths))
  BY <1>1, EndsExist, LengthsAreNat
<1> HIDE DEF Ends
<1>3. AreaEnd = [k \in 0 .. Len(AreaLengths) |->
                    IF k = 0 THEN 0 ELSE AreaEnd[k - 1] + AreaLengths[k]]
  BY <1>2 DEF Ends
<1> QED BY <1>3

\* The areas end one after the other, and the space with the last of them.
LEMMA AreaEndGrows ==
    \A k \in 1 .. Len(AreaLengths) : AreaEnd[k] \in Nat /\ AreaEnd[k] >= AreaLengths[1]
<1> SUFFICES ASSUME \E k \in 1 .. Len(AreaLengths) :
                        ~(AreaEnd[k] \in Nat /\ AreaEnd[k] >= AreaLengths[1])
             PROVE  FALSE
  OBVIOUS
<1> DEFINE S == {k \in 1 .. Len(AreaLengths) :
                    ~(AreaEnd[k] \in Nat /\ AreaEnd[k] >= AreaLengths[1])}
<1>1. S \in SUBSET Nat /\ S # {}
  OBVIOUS
<1>2. PICK k \in S : \A m \in S : ~(m < k)
  <2> HIDE DEF S
  <2> QED BY <1>1, LeastOf
<1>3. k \in 1 .. Len(AreaLengths) /\ AreaEnd[k] = AreaEnd[k - 1] + AreaLengths[k]
  BY AreaEndsAdd, LengthsAreNat
<1>4. CASE k = 1
  <2>1. AreaEnd[0] = 0
    BY AreaEndsAdd, LengthsAreNat
  <2> QED BY <1>2, <1>3, <1>4, <2>1, LengthsAreNat
<1>5. CASE k # 1
  <2>1. k - 1 \in 1 .. Len(AreaLengths) /\ k - 1 < k
    BY <1>3, <1>5, LengthsAreNat
  <2>2. AreaEnd[k - 1] \in Nat /\ AreaEnd[k - 1] >= AreaLengths[1]
    BY <1>2, <2>1
  <2> QED BY <1>2, <1>3, <2>2, LengthsAreNat
<1> QED BY <1>4, <1>5

\* The logical space of the areas is a number, and no smaller than the first.
LEMMA SizeIsWhole == Size \in Nat /\ AreaLengths[1] <= Size
  BY AreaEndGrows, LengthsAreNat DEF Size

LEMMA Layout ==
    /\ Size \in Nat /\ Size >= 3 * HeaderSize /\ HeaderSize = 2
    /\ \A p \in Params : Width[p] \in {1, 2} /\ p \notin {Zero, Ones, SentinelTail}
    /\ \A w \in Words : w \notin {Zero, Ones, SentinelTail} /\ w \notin Params
    /\ Default \in Words
    /\ Zero # Ones /\ Zero # SentinelTail /\ Ones # SentinelTail
<1>1. AreaLengths[1] \in Nat
  BY LayoutAssumption
<1> QED BY <1>1, LayoutAssumption, SizeIsWhole DEF HeaderSize, Zero, Ones, SentinelTail

LEMMA GreatestOf ==
    ASSUME NEW n \in Nat, NEW S \in SUBSET (0 .. n), S # {}
    PROVE  \E x \in S : \A y \in S : y <= x
<1> DEFINE D == {d \in 0 .. n : n - d \in S}
<1>1. D \in SUBSET Nat /\ D # {}
  <2>1. PICK x \in S : TRUE
    OBVIOUS
  <2>2. x \in 0 .. n /\ n - x \in 0 .. n /\ n - (n - x) = x
    OBVIOUS
  <2>3. n - x \in D
    BY <2>2
  <2>4. \A d \in D : d \in Nat
    OBVIOUS
  <2> HIDE DEF D
  <2> QED BY <2>3, <2>4
<1>2. PICK d \in D : \A c \in D : ~(c < d)
  <2> HIDE DEF D
  <2> QED BY <1>1, LeastOf
<1>3. \A y \in S : y \in 0 .. n /\ n - y \in D
  OBVIOUS
<1> QED BY <1>2, <1>3

-----------------------------------------------------------------------------
(* The loop of scan() is defined: every entry takes it further on.         *)

\* One turn of the loop, the rest of the way being w.
Turn(st, p, w, ofs) ==
    IF ofs + HeaderSize > Size THEN [found |-> FALSE, ofs |-> -1]
    ELSE IF HeaderAt(st, ofs) = HeaderWords(p) THEN [found |-> TRUE, ofs |-> ofs]
    ELSE IF is_sentinel(HeaderAt(st, ofs)) THEN [found |-> FALSE, ofs |-> ofs]
    ELSE w[ofs + type_size(HeaderAt(st, ofs)) + HeaderSize]

Turns(st, p, w, from) ==
    w = [ofs \in from .. 2 * Size |-> Turn(st, p, w, ofs)]

LEMMA TurnGoesOn ==
    ASSUME NEW st, NEW p, NEW from \in Nat, NEW ofs \in from .. 2 * Size, NEW v, NEW w,
           \A o \in (ofs + 1) .. 2 * Size : v[o] = w[o]
    PROVE  Turn(st, p, v, ofs) = Turn(st, p, w, ofs)
<1>1. CASE ofs + HeaderSize > Size
  BY <1>1 DEF Turn
<1>2. CASE ~(ofs + HeaderSize > Size)
  <2>1. type_size(HeaderAt(st, ofs)) \in {0, 1, 2}
    BY Layout DEF type_size
  <2>2. ofs + type_size(HeaderAt(st, ofs)) + HeaderSize \in (ofs + 1) .. 2 * Size
    BY <1>2, <2>1, Layout
  <2> QED BY <2>2 DEF Turn
<1> QED BY <1>1, <1>2

LEMMA OneMoreTurn ==
    ASSUME NEW st, NEW p, NEW n \in Nat, n <= 2 * Size, NEW v, Turns(st, p, v, n + 1)
    PROVE  \E w : Turns(st, p, w, n)
<1> DEFINE w == [ofs \in n .. 2 * Size |-> IF ofs = n THEN Turn(st, p, v, n) ELSE v[ofs]]
<1>1. \A o \in (n + 1) .. 2 * Size : v[o] = w[o]
  BY Layout
<1>2. \A o \in (n + 1) .. 2 * Size : v[o] = Turn(st, p, v, o)
  BY DEF Turns
<1> HIDE DEF w
<1>3. ASSUME NEW ofs \in n .. 2 * Size
      PROVE  Turn(st, p, v, ofs) = Turn(st, p, w, ofs)
  <2>1. (ofs + 1) .. 2 * Size \subseteq (n + 1) .. 2 * Size
    BY Layout
  <2> QED BY <1>1, <2>1, TurnGoesOn
<1>4. \A ofs \in n .. 2 * Size : w[ofs] = Turn(st, p, v, ofs)
  <2>1. w[n] = Turn(st, p, v, n)
    BY Layout DEF w
  <2>2. \A ofs \in n .. 2 * Size : ofs = n \/ ofs \in (n + 1) .. 2 * Size
    BY Layout
  <2> QED BY <1>1, <1>2, <2>1, <2>2
<1>5. w = [ofs \in n .. 2 * Size |-> w[ofs]]
  BY DEF w
<1>6. \A ofs \in n .. 2 * Size : w[ofs] = Turn(st, p, w, ofs)
  BY <1>3, <1>4
<1>7. w = [ofs \in n .. 2 * Size |-> Turn(st, p, w, ofs)]
  BY <1>5, <1>6
<1> QED BY <1>7 DEF Turns

LEMMA WalkExists == ASSUME NEW st, NEW p PROVE \E w : Turns(st, p, w, 0)
<1> DEFINE S == {n \in 0 .. 2 * Size + 1 : \E w : Turns(st, p, w, n)}
<1>1. 2 * Size + 1 \in S
  <2>1. Turns(st, p, [ofs \in {} |-> 0], 2 * Size + 1)
    <3>1. (2 * Size + 1) .. 2 * Size = {}
      BY Layout
    <3> QED BY <3>1 DEF Turns
  <2> QED BY <2>1, Layout
<1>2. S \in SUBSET Nat /\ S # {}
  BY <1>1
<1>3. PICK n \in S : \A m \in S : ~(m < n)
  <2> HIDE DEF S
  <2> QED BY <1>2, LeastOf
<1>4. PICK w : Turns(st, p, w, n)
  OBVIOUS
<1>5. CASE n = 0
  BY <1>4, <1>5
<1>6. CASE n # 0
  <2>1. n - 1 \in Nat /\ n - 1 <= 2 * Size /\ (n - 1) + 1 = n
    BY <1>6, Layout
  <2>2. \E v : Turns(st, p, v, n - 1)
    <3> HIDE DEF S
    <3> QED BY <1>4, <2>1, OneMoreTurn
  <2>3. n - 1 \in S
    BY <2>1, <2>2, Layout
  <2> QED BY <1>3, <2>1, <2>3
<1> QED BY <1>5, <1>6

LEMMA WalkTurns ==
    ASSUME NEW st, NEW p, NEW ofs \in 0 .. 2 * Size
    PROVE  Walk(st, p)[ofs] = Turn(st, p, Walk(st, p), ofs)
<1>1. Walk(st, p) = CHOOSE w : Turns(st, p, w, 0)
  BY DEF Walk, Turns, Turn
<1>2. Turns(st, p, Walk(st, p), 0)
  BY <1>1, WalkExists
<1> HIDE DEF Turns
<1>3. Walk(st, p) = [o \in 0 .. 2 * Size |-> Turn(st, p, Walk(st, p), o)]
  BY <1>2 DEF Turns
<1> QED BY <1>3

-----------------------------------------------------------------------------
(* The log as a chain of entries.                                          *)

Found(st, b, p) == HeaderAt(st, b) = HeaderWords(p)

\* B holds the offsets of the entries and of the sentinel e that ends them:
\* every entry, torn or whole, is followed directly by the next.
Chain(st, B, e) ==
    /\ B \in SUBSET (HeaderSize .. Size) /\ HeaderSize \in B
    /\ e \in B /\ e + HeaderSize <= Size /\ is_sentinel(HeaderAt(st, e))
    /\ \A b \in B : b <= e
    /\ \A b \in B \ {e} :
          /\ st[b] \in Params
          /\ b + HeaderSize + Width[st[b]] \in B
          /\ \A c \in B : c > b => c >= b + HeaderSize + Width[st[b]]

\* No parameter has two entries.
Unique(st, B) == \A p \in Params : \A b, c \in B : Found(st, b, p) /\ Found(st, c, p) => b = c

Log(st, B, e) == Chain(st, B, e) /\ Unique(st, B)

ValueAt(st, b, p) == [i \in 1..Width[p] |-> st[b + HeaderSize + i - 1]]

\* What load_raw() gives on the words st.
Load(st, p) ==
    LET at == Walk(st, p)[HeaderSize]
    IN  IF at.found THEN ValueAt(st, at.ofs, p) ELSE Absent

LEMMA EndIsNoEntry ==
    ASSUME NEW st, NEW B, NEW e, Chain(st, B, e), NEW p \in Params
    PROVE  ~Found(st, e, p)
<1>1. st[e] \in {Zero, Ones}
  BY DEF Chain, is_sentinel, HeaderAt
<1> QED BY <1>1, Layout DEF Found, HeaderAt, HeaderWords

\* From any entry the loop comes to the first whole entry of p, or to the end.
LEMMA WalkInChain ==
    ASSUME NEW st, NEW B, NEW e, Chain(st, B, e), NEW p \in Params, NEW b \in B
    PROVE  \/ \E c \in B : Found(st, c, p) /\ Walk(st, p)[b] = [found |-> TRUE, ofs |-> c]
           \/ /\ \A c \in B : c >= b => ~Found(st, c, p)
              /\ Walk(st, p)[b] = [found |-> FALSE, ofs |-> e]
<1> DEFINE Good(o) ==
      \/ \E c \in B : Found(st, c, p) /\ Walk(st, p)[o] = [found |-> TRUE, ofs |-> c]
      \/ /\ \A c \in B : c >= o => ~Found(st, c, p)
         /\ Walk(st, p)[o] = [found |-> FALSE, ofs |-> e]
    Bad == {o \in B : ~Good(o)}
<1>1. B \subseteq 0 .. Size /\ e \in B /\ \A o \in B : o \in 0 .. 2 * Size
  BY Layout DEF Chain
<1>2. \A o \in B : o <= e /\ ~(o + HeaderSize > Size)
  BY <1>1, Layout DEF Chain
<1>3. ASSUME NEW o \in B
      PROVE  Walk(st, p)[o] = IF Found(st, o, p) THEN [found |-> TRUE, ofs |-> o]
                              ELSE IF is_sentinel(HeaderAt(st, o))
                                   THEN [found |-> FALSE, ofs |-> o]
                              ELSE Walk(st, p)[o + type_size(HeaderAt(st, o)) + HeaderSize]
  BY <1>1, <1>2, WalkTurns DEF Turn, Found
<1>4. Good(e)
  <2>1. ~Found(st, e, p) /\ is_sentinel(HeaderAt(st, e))
    BY EndIsNoEntry DEF Chain
  <2>2. \A c \in B : c >= e => c = e
    BY <1>1, <1>2
  <2> QED BY <1>1, <1>3, <2>1, <2>2
<1>5. ASSUME NEW o \in B \ {e}, \A c \in B : c > o => Good(c)
      PROVE  Good(o)
  <2> DEFINE next == o + HeaderSize + Width[st[o]]
  <2>0. /\ st[o] \in Params /\ next \in B /\ \A c \in B : c > o => c >= next
        /\ o \in Nat /\ Width[st[o]] \in {1, 2} /\ HeaderSize = 2
    <3>1. st[o] \in Params /\ next \in B /\ \A c \in B : c > o => c >= next
      <4> HIDE DEF Good, Bad
      <4> QED BY DEF Chain
    <3>2. o \in Nat
      BY <1>1, Layout
    <3> HIDE DEF next, Good, Bad
    <3> QED BY <3>1, <3>2, Layout
  <2>1. st[o] \in Params /\ next \in B /\ next > o /\ \A c \in B : c > o => c >= next
    BY <2>0
  <2>2. ~is_sentinel(HeaderAt(st, o)) /\ type_size(HeaderAt(st, o)) = Width[st[o]]
    BY <2>1, Layout DEF is_sentinel, HeaderAt, type_size
  <2>3. CASE Found(st, o, p)
    BY <1>3, <2>3
  <2>4. CASE ~Found(st, o, p)
    <3>1. o + type_size(HeaderAt(st, o)) + HeaderSize = next
      BY <2>0, <2>2
    <3>2. Walk(st, p)[o] = Walk(st, p)[next]
      BY <1>3, <2>2, <2>4, <3>1
    <3>3. Good(next)
      BY <1>5, <2>1
    <3>4. \A c \in B : c >= o => c = o \/ c >= next
      BY <1>1, <2>1
    <3> HIDE DEF next
    <3> QED BY <2>4, <3>2, <3>3, <3>4
  <2> QED BY <2>3, <2>4
<1>6. Bad = {}
  <2> SUFFICES ASSUME Bad # {} PROVE FALSE
    OBVIOUS
  <2> HIDE DEF Good
  <2>1. PICK o \in Bad : \A c \in Bad : c <= o
    BY <1>1, Layout, GreatestOf
  <2>2. \A c \in B : c > o => Good(c)
    BY <1>1, <2>1
  <2> QED BY <1>4, <1>5, <2>1, <2>2
<1> QED BY <1>6

\* scan() comes to an entry of p at b.
Finds(st, p, b) == Walk(st, p)[HeaderSize].found = TRUE /\ Walk(st, p)[HeaderSize].ofs = b

\* What is loaded is the value of the one whole entry, if there is one.
LEMMA Loads ==
    ASSUME NEW st, NEW B, NEW e, Log(st, B, e), NEW p \in Params
    PROVE  /\ \A b \in B : Found(st, b, p) => /\ Load(st, p) = ValueAt(st, b, p)
                                              /\ Finds(st, p, b)
           /\ (\A b \in B : ~Found(st, b, p)) =>
                 /\ Load(st, p) = Absent
                 /\ Walk(st, p)[HeaderSize] = [found |-> FALSE, ofs |-> e]
<1>1. Chain(st, B, e) /\ Unique(st, B) /\ HeaderSize \in B /\ \A c \in B : c >= HeaderSize
  BY Layout DEF Log, Chain
<1>2. \/ \E c \in B : /\ Found(st, c, p)
                      /\ Walk(st, p)[HeaderSize] = [found |-> TRUE, ofs |-> c]
      \/ /\ \A c \in B : ~Found(st, c, p)
         /\ Walk(st, p)[HeaderSize] = [found |-> FALSE, ofs |-> e]
  BY <1>1, WalkInChain
<1>3. CASE \A c \in B : ~Found(st, c, p)
  <2>1. Walk(st, p)[HeaderSize] = [found |-> FALSE, ofs |-> e]
    BY <1>2, <1>3
  <2>2. Load(st, p) = Absent
    BY <2>1 DEF Load
  <2> QED BY <1>3, <2>1, <2>2
<1>4. ASSUME NEW c \in B, Found(st, c, p),
             Walk(st, p)[HeaderSize] = [found |-> TRUE, ofs |-> c]
      PROVE  \A b \in B : Found(st, b, p) => Load(st, p) = ValueAt(st, b, p) /\ b = c
  BY <1>1, <1>4 DEF Load, Unique
<1>5. CASE \E c \in B : Found(st, c, p) /\ Walk(st, p)[HeaderSize] = [found |-> TRUE, ofs |-> c]
  <2>1. PICK c \in B : Found(st, c, p) /\ Walk(st, p)[HeaderSize] = [found |-> TRUE, ofs |-> c]
    BY <1>5
  <2>2. \A b \in B : Found(st, b, p) => Load(st, p) = ValueAt(st, b, p) /\ b = c
    BY <1>4, <2>1
  <2>3. \A b \in B : Found(st, b, p) => /\ Load(st, p) = ValueAt(st, b, p)
                                        /\ Finds(st, p, b)
    BY <2>1, <2>2 DEF Finds
  <2>4. ~(\A b \in B : ~Found(st, b, p))
    BY <2>1
  <2> QED BY <2>3, <2>4
<1> QED BY <1>2, <1>3, <1>5

\* A value is not nothing.
LEMMA ValueIsPresent ==
    ASSUME NEW p \in Params, NEW v, v = [i \in 1..Width[p] |-> v[i]]
    PROVE  v # Absent
<1>1. 1 \in DOMAIN v /\ 1 \notin DOMAIN Absent
  BY Layout DEF Absent
<1> QED BY <1>1

-----------------------------------------------------------------------------
(* What the raw writes do to the words.                                    *)

Memory == [0 .. Size - 1 -> AllWords]
RawWrites == [at : Nat, words : [1..1 -> AllWords] \cup [1..2 -> AllWords]]
Addr(w) == {w.at + k - 1 : k \in DOMAIN w.words}
Touched(ws) == UNION {Addr(ws[i]) : i \in DOMAIN ws}

Applied(st, w) == [a \in DOMAIN st |-> IF a - w.at + 1 \in DOMAIN w.words
                                       THEN w.words[a - w.at + 1] ELSE st[a]]

\* The write w, and all of the writes ws, bring the words to the target T.
Fits(w, T) == \A k \in DOMAIN w.words : /\ w.at + k - 1 \in DOMAIN T
                                        /\ w.words[k] = T[w.at + k - 1]
Pending(st, ws, T) ==
    /\ ws \in Seq(RawWrites)
    /\ \A i \in DOMAIN ws : Fits(ws[i], T)
    /\ \A a \in DOMAIN T : st[a] = T[a] \/ a \in Touched(ws)

LEMMA AppliedIs ==
    ASSUME NEW st \in Memory, NEW w \in RawWrites, NEW T, Fits(w, T)
    PROVE  /\ Applied(st, w) \in Memory
           /\ Addr(w) \subseteq DOMAIN T
           /\ \A a \in 0 .. Size - 1 : Applied(st, w)[a] = IF a \in Addr(w) THEN T[a] ELSE st[a]
<1>1. w.at \in Nat /\ (DOMAIN w.words = 1..1 \/ DOMAIN w.words = 1..2)
      /\ \A k \in DOMAIN w.words : w.words[k] \in AllWords
  BY DEF RawWrites
<1>2. ASSUME NEW a \in 0 .. Size - 1
      PROVE  a \in Addr(w) <=> a - w.at + 1 \in DOMAIN w.words
  <2>1. ASSUME a - w.at + 1 \in DOMAIN w.words PROVE a \in Addr(w)
    <3>1. a = w.at + (a - w.at + 1) - 1
      BY <1>1
    <3> QED BY <2>1, <3>1 DEF Addr
  <2>2. ASSUME a \in Addr(w) PROVE a - w.at + 1 \in DOMAIN w.words
    <3>1. PICK k \in DOMAIN w.words : a = w.at + k - 1
      BY <2>2 DEF Addr
    <3>2. k \in Nat
      BY <1>1
    <3>3. a - w.at + 1 = k
      BY <1>1, <3>1, <3>2
    <3> QED BY <3>3
  <2> QED BY <2>1, <2>2
<1>3. ASSUME NEW a \in 0 .. Size - 1, a - w.at + 1 \in DOMAIN w.words
      PROVE  w.words[a - w.at + 1] = T[a]
  <2>1. w.at + (a - w.at + 1) - 1 = a
    BY <1>1
  <2> QED BY <1>3, <2>1 DEF Fits
<1>4. DOMAIN st = 0 .. Size - 1 /\ \A a \in 0 .. Size - 1 : st[a] \in AllWords
  BY DEF Memory
<1>5. Applied(st, w) \in Memory
  BY <1>1, <1>4 DEF Applied, Memory
<1>6. Addr(w) \subseteq DOMAIN T
  BY DEF Fits, Addr
<1> QED BY <1>2, <1>3, <1>4, <1>5, <1>6 DEF Applied

LEMMA PendingTail ==
    ASSUME NEW st \in Memory, NEW ws, NEW T, DOMAIN T \subseteq 0 .. Size - 1,
           Pending(st, ws, T), ws # << >>
    PROVE  /\ Pending(Applied(st, Head(ws)), Tail(ws), T)
           /\ Head(ws) \in RawWrites /\ Fits(Head(ws), T)
<1>1. ws \in Seq(RawWrites) /\ Head(ws) = ws[1] /\ 1 \in DOMAIN ws
  BY DEF Pending
<1>2. Head(ws) \in RawWrites /\ Fits(Head(ws), T)
  BY <1>1 DEF Pending
<1>3. Tail(ws) \in Seq(RawWrites)
  BY <1>1
<1>4. \A i \in DOMAIN Tail(ws) : i + 1 \in DOMAIN ws /\ Tail(ws)[i] = ws[i + 1]
  BY <1>1
<1>5. \A i \in DOMAIN Tail(ws) : Fits(Tail(ws)[i], T)
  BY <1>4 DEF Pending
<1>6. \A a : a \in Touched(ws) => a \in Addr(Head(ws)) \/ a \in Touched(Tail(ws))
  <2>1. SUFFICES ASSUME NEW a, NEW i \in DOMAIN ws, a \in Addr(ws[i])
                 PROVE  a \in Addr(Head(ws)) \/ a \in Touched(Tail(ws))
    BY DEF Touched
  <2>2. CASE i = 1
    BY <1>1, <2>1, <2>2
  <2>3. CASE i # 1
    <3>1. i - 1 \in DOMAIN Tail(ws) /\ Tail(ws)[i - 1] = ws[i]
      BY <1>1, <2>3
    <3> QED BY <2>1, <3>1 DEF Touched
  <2> QED BY <2>2, <2>3
<1>7. \A a \in DOMAIN T : Applied(st, Head(ws))[a] = IF a \in Addr(Head(ws)) THEN T[a] ELSE st[a]
  BY <1>2, AppliedIs
<1>8. \A a \in DOMAIN T : Applied(st, Head(ws))[a] = T[a] \/ a \in Touched(Tail(ws))
  BY <1>6, <1>7 DEF Pending
<1> QED BY <1>2, <1>3, <1>5, <1>8 DEF Pending

\* The last of the writes leaves the target.
LEMMA PendingNone ==
    ASSUME NEW st, NEW T, Pending(st, << >>, T)
    PROVE  \A a \in DOMAIN T : st[a] = T[a]
<1>1. Touched(<< >>) = {}
  BY DEF Touched
<1> QED BY <1>1 DEF Pending

LEMMA BlockFits ==
    ASSUME NEW ofs \in Nat, NEW words \in [1..1 -> AllWords] \cup [1..2 -> AllWords], NEW T,
           \A k \in DOMAIN words : ofs + k - 1 \in DOMAIN T /\ words[k] = T[ofs + k - 1]
    PROVE  LET ws == write_block(ofs, words)
           IN  /\ ws \in Seq(RawWrites) /\ ws # << >>
               /\ \A i \in DOMAIN ws : Fits(ws[i], T)
               /\ \A k \in DOMAIN words : ofs + k - 1 \in Touched(ws)
<1>1. CASE ofs + 1 \in AreaEnds /\ Len(words) = 2
  <2> DEFINE w1 == [at |-> ofs, words |-> <<words[1]>>]
             w2 == [at |-> ofs + 1, words |-> <<words[2]>>]
  <2>1. DOMAIN words = 1..2 /\ words[1] \in AllWords /\ words[2] \in AllWords
    BY <1>1
  <2>2. write_block(ofs, words) = <<w1, w2>>
    BY <1>1 DEF write_block
  <2>3. w1 \in RawWrites /\ w2 \in RawWrites
    BY <2>1 DEF RawWrites
  <2>4. Fits(w1, T) /\ Fits(w2, T)
    BY <2>1 DEF Fits
  <2>5. ofs \in Addr(w1) /\ ofs + 1 \in Addr(w2)
    BY DEF Addr
  <2>6. DOMAIN <<w1, w2>> = {1, 2} /\ <<w1, w2>>[1] = w1 /\ <<w1, w2>>[2] = w2
    OBVIOUS
  <2> HIDE DEF w1, w2
  <2>7. ofs \in Touched(<<w1, w2>>) /\ ofs + 1 \in Touched(<<w1, w2>>)
    BY <2>5, <2>6 DEF Touched
  <2>8. \A k \in 1..2 : ofs + k - 1 = ofs \/ ofs + k - 1 = ofs + 1
    OBVIOUS
  <2> QED BY <2>1, <2>2, <2>3, <2>4, <2>6, <2>7, <2>8
<1>2. CASE ~(ofs + 1 \in AreaEnds /\ Len(words) = 2)
  <2> DEFINE w1 == [at |-> ofs, words |-> words]
  <2>1. write_block(ofs, words) = <<w1>>
    BY <1>2 DEF write_block
  <2>2. w1 \in RawWrites
    BY DEF RawWrites
  <2>3. Fits(w1, T)
    BY DEF Fits
  <2>4. \A k \in DOMAIN words : ofs + k - 1 \in Addr(w1)
    BY DEF Addr
  <2>5. DOMAIN <<w1>> = {1} /\ <<w1>>[1] = w1
    OBVIOUS
  <2> HIDE DEF w1
  <2>6. \A k \in DOMAIN words : ofs + k - 1 \in Touched(<<w1>>)
    BY <2>4, <2>5 DEF Touched
  <2> QED BY <2>1, <2>2, <2>3, <2>5, <2>6
<1> QED BY <1>1, <1>2

LEMMA ConcatFits ==
    ASSUME NEW x \in Seq(RawWrites), NEW y \in Seq(RawWrites), NEW T,
           \A i \in DOMAIN x : Fits(x[i], T), \A i \in DOMAIN y : Fits(y[i], T)
    PROVE  /\ x \o y \in Seq(RawWrites)
           /\ \A i \in DOMAIN (x \o y) : Fits((x \o y)[i], T)
           /\ Touched(x) \cup Touched(y) \subseteq Touched(x \o y)
<1>1. x \o y \in Seq(RawWrites) /\ Len(x \o y) = Len(x) + Len(y)
  OBVIOUS
<1>2. \A i \in DOMAIN (x \o y) : \/ i \in DOMAIN x /\ (x \o y)[i] = x[i]
                                 \/ i - Len(x) \in DOMAIN y /\ (x \o y)[i] = y[i - Len(x)]
  BY <1>1
<1>3. \A i \in DOMAIN x : i \in DOMAIN (x \o y) /\ (x \o y)[i] = x[i]
  BY <1>1
<1>4. \A i \in DOMAIN y : i + Len(x) \in DOMAIN (x \o y) /\ (x \o y)[i + Len(x)] = y[i]
  BY <1>1
<1>5. \A i \in DOMAIN (x \o y) : Fits((x \o y)[i], T)
  BY <1>2
<1>6. Touched(x) \subseteq Touched(x \o y)
  BY <1>3 DEF Touched
<1>7. Touched(y) \subseteq Touched(x \o y)
  BY <1>4 DEF Touched
<1> QED BY <1>1, <1>5, <1>6, <1>7

-----------------------------------------------------------------------------
(* What a change of the words does to the log.                             *)

\* The words of the value of the entry at b, and of a new entry at e.
Over(b, p, v) == [a \in b + HeaderSize .. b + HeaderSize + Width[p] - 1 |->
                     v[a - b - HeaderSize + 1]]
Fresh(e, p, v) == [a \in e + HeaderSize .. e + 2 * HeaderSize + Width[p] - 1 |->
                      IF a < e + HeaderSize + Width[p] THEN v[a - e - HeaderSize + 1]
                      ELSE Sentinel[a - e - HeaderSize - Width[p] + 1]]

\* An entry lies between its header and the next, within the areas.
LEMMA EntryExtent ==
    ASSUME NEW st, NEW B, NEW e, Chain(st, B, e), NEW b \in B
    PROVE  /\ b \in Nat /\ b + 1 \in Nat /\ b >= HeaderSize /\ b + 1 < Size
           /\ b # e =>
                /\ st[b] \in Params
                /\ b + HeaderSize + Width[st[b]] <= e
                /\ \A c \in B : c <= b \/ c >= b + HeaderSize + Width[st[b]]
<1>1. b \in Nat /\ e \in Nat /\ b >= HeaderSize /\ b <= e /\ e + HeaderSize <= Size
  BY Layout DEF Chain
<1>2. ASSUME b # e
      PROVE  /\ st[b] \in Params
             /\ b + HeaderSize + Width[st[b]] <= e
             /\ \A c \in B : c <= b \/ c >= b + HeaderSize + Width[st[b]]
  <2>1. \A c \in B : c \in Nat
    BY Layout DEF Chain
  <2>2. /\ st[b] \in Params /\ b + HeaderSize + Width[st[b]] \in B
        /\ \A c \in B : c > b => c >= b + HeaderSize + Width[st[b]]
    BY <1>2 DEF Chain
  <2>3. b + HeaderSize + Width[st[b]] <= e
    BY <2>2 DEF Chain
  <2> QED BY <1>1, <2>1, <2>2, <2>3
<1> QED BY <1>1, <1>2, Layout

LEMMA FoundIsEntry ==
    ASSUME NEW st, NEW B, NEW e, Chain(st, B, e), NEW b \in B, NEW p \in Params, Found(st, b, p)
    PROVE  b # e /\ st[b] = p
  BY EndIsNoEntry DEF Found, HeaderAt, HeaderWords

LEMMA KeptHeaders ==
    ASSUME NEW st, NEW st2, NEW B, NEW e, Log(st, B, e),
           \A b \in B : st2[b] = st[b] /\ st2[b + 1] = st[b + 1]
    PROVE  /\ Log(st2, B, e)
           /\ \A b \in B : \A p : Found(st2, b, p) <=> Found(st, b, p)
<1>1. \A b \in B : HeaderAt(st2, b) = HeaderAt(st, b)
  BY DEF HeaderAt
<1>2. \A b \in B : \A p : Found(st2, b, p) <=> Found(st, b, p)
  BY <1>1 DEF Found
<1>3. Chain(st2, B, e)
  BY <1>1 DEF Log, Chain
<1> QED BY <1>2, <1>3 DEF Log, Unique

\* A parameter whose entry stays, with its words, is loaded as before.
LEMMA SameLoad ==
    ASSUME NEW st, NEW B, NEW e, Log(st, B, e), NEW st2, NEW B2, NEW e2, Log(st2, B2, e2),
           NEW p \in Params,
           \A b \in B : Found(st, b, p) =>
              /\ b \in B2 /\ Found(st2, b, p)
              /\ \A i \in 1 .. Width[p] : st2[b + HeaderSize + i - 1] = st[b + HeaderSize + i - 1],
           \A b \in B2 : Found(st2, b, p) => b \in B /\ Found(st, b, p)
    PROVE  Load(st2, p) = Load(st, p)
<1>1. CASE \A b \in B : ~Found(st, b, p)
  <2>1. Load(st, p) = Absent
    BY <1>1, Loads
  <2>2. Load(st2, p) = Absent
    BY <1>1, Loads
  <2> QED BY <2>1, <2>2
<1>2. ASSUME NEW b \in B, Found(st, b, p) PROVE Load(st2, p) = Load(st, p)
  <2>1. Load(st, p) = ValueAt(st, b, p)
    BY <1>2, Loads
  <2>2. b \in B2 /\ Found(st2, b, p)
    BY <1>2
  <2>3. Load(st2, p) = ValueAt(st2, b, p)
    BY <2>2, Loads
  <2>4. ValueAt(st2, b, p) = ValueAt(st, b, p)
    BY <1>2 DEF ValueAt
  <2> QED BY <2>1, <2>3, <2>4
<1> QED BY <1>1, <1>2

\* Of what is loaded for p, some words have become those of v.
Mixed(st, st2, p, v) ==
    \E done \in SUBSET (1 .. Width[p]) :
       Load(st2, p) = [i \in 1 .. Width[p] |-> IF i \in done THEN v[i] ELSE Load(st, p)[i]]

\* Writing a value over another leaves the log and the other parameters.
LEMMA Overwritten ==
    ASSUME NEW st \in Memory, NEW B, NEW e, Log(st, B, e), NEW p \in Params, NEW b \in B,
           Found(st, b, p), NEW v, NEW w \in RawWrites, Fits(w, Over(b, p, v)),
           NEW st2, st2 = Applied(st, w)
    PROVE  /\ st2 \in Memory /\ Log(st2, B, e) /\ Found(st2, b, p)
           /\ \A q \in Params \ {p} : Load(st2, q) = Load(st, q)
           /\ Mixed(st, st2, p, v)
<1> DEFINE T == Over(b, p, v)
           lo == b + HeaderSize
           hi == b + HeaderSize + Width[p] - 1
<1>1. Chain(st, B, e) /\ b # e /\ st[b] = p
  BY FoundIsEntry DEF Log
<1>2. /\ b \in Nat /\ Width[p] \in {1, 2} /\ HeaderSize = 2 /\ e \in Nat /\ Size \in Nat
      /\ e + 1 < Size /\ b + HeaderSize + Width[p] <= e
      /\ \A c \in B : c \in Nat /\ c + 1 < Size /\ (c <= b \/ c >= b + HeaderSize + Width[p])
  <2>1. e \in B
    BY <1>1 DEF Chain
  <2> QED BY <1>1, <2>1, EntryExtent, Layout
<1>3. /\ st2 \in Memory
      /\ \A a \in 0 .. Size - 1 : st2[a] = IF a \in Addr(w) THEN T[a] ELSE st[a]
      /\ \A a \in Addr(w) : a \in lo .. hi
  <2>1. DOMAIN T = lo .. hi
    BY DEF Over
  <2>2. Fits(w, T)
    OBVIOUS
  <2> HIDE DEF T
  <2> QED BY <2>1, <2>2, AppliedIs
<1>4. \A a \in 0 .. Size - 1 : a \notin lo .. hi => st2[a] = st[a]
  BY <1>3
<1>5. \A c \in B : st2[c] = st[c] /\ st2[c + 1] = st[c + 1]
  BY <1>2, <1>4
<1>6. Log(st2, B, e) /\ \A c \in B : \A q : Found(st2, c, q) <=> Found(st, c, q)
  BY <1>5, KeptHeaders
<1>7. ASSUME NEW q \in Params \ {p} PROVE Load(st2, q) = Load(st, q)
  <2>1. ASSUME NEW c \in B, Found(st, c, q)
        PROVE  \A i \in 1 .. Width[q] : st2[c + HeaderSize + i - 1] = st[c + HeaderSize + i - 1]
    <3>1. c # e /\ st[c] = q /\ c # b
      BY <1>1, <2>1, FoundIsEntry
    <3>2. /\ c \in Nat /\ Width[q] \in {1, 2} /\ c + HeaderSize + Width[q] <= e
          /\ b <= c \/ b >= c + HeaderSize + Width[q]
      BY <1>1, <3>1, EntryExtent, Layout
    <3>3. c < b \/ c >= b + HeaderSize + Width[p]
      BY <1>2, <3>1, <3>2
    <3>4. \A i \in 1 .. Width[q] : /\ c + HeaderSize + i - 1 \in 0 .. Size - 1
                                   /\ c + HeaderSize + i - 1 \notin lo .. hi
      BY <1>2, <3>2, <3>3
    <3> QED BY <1>4, <3>4
  <2> QED BY <1>6, <2>1, SameLoad
<1>8. Load(st, p) = ValueAt(st, b, p) /\ Load(st2, p) = ValueAt(st2, b, p)
  BY <1>6, Loads
<1>9. Mixed(st, st2, p, v)
  <2> DEFINE done == {i \in 1 .. Width[p] : b + HeaderSize + i - 1 \in Addr(w)}
  <2>1. ASSUME NEW i \in 1 .. Width[p]
        PROVE  st2[b + HeaderSize + i - 1] = IF i \in done THEN v[i] ELSE Load(st, p)[i]
    <3>1. /\ b + HeaderSize + i - 1 \in 0 .. Size - 1 /\ b + HeaderSize + i - 1 \in lo .. hi
          /\ (b + HeaderSize + i - 1) - b - HeaderSize + 1 = i
      BY <1>2
    <3>2. T[b + HeaderSize + i - 1] = v[i]
      BY <3>1 DEF Over
    <3>3. Load(st, p)[i] = st[b + HeaderSize + i - 1]
      BY <1>8 DEF ValueAt
    <3> HIDE DEF T
    <3> QED BY <1>3, <3>1, <3>2, <3>3
  <2>2. Load(st2, p) = [i \in 1 .. Width[p] |-> IF i \in done THEN v[i] ELSE Load(st, p)[i]]
    BY <1>8, <2>1 DEF ValueAt
  <2>3. done \in SUBSET (1 .. Width[p])
    OBVIOUS
  <2> HIDE DEF done
  <2> QED BY <2>2, <2>3 DEF Mixed
<1> QED BY <1>3, <1>6, <1>7, <1>9

\* Words past the sentinel are no part of the log.
LEMMA PastTheEnd ==
    ASSUME NEW st, NEW B, NEW e, Log(st, B, e), NEW st2,
           \A a \in 0 .. Size - 1 : a <= e + 1 => st2[a] = st[a]
    PROVE  /\ Log(st2, B, e)
           /\ \A q \in Params : Load(st2, q) = Load(st, q)
           /\ \A b \in B : \A q : Found(st2, b, q) <=> Found(st, b, q)
<1>1. Chain(st, B, e) /\ e \in B
  BY DEF Log, Chain
<1>2. /\ e \in Nat /\ e + 1 < Size /\ Size \in Nat /\ HeaderSize = 2
      /\ \A b \in B : b \in Nat /\ b <= e
  BY <1>1, EntryExtent, Layout DEF Chain
<1>3. \A b \in B : st2[b] = st[b] /\ st2[b + 1] = st[b + 1]
  BY <1>2
<1>4. Log(st2, B, e) /\ \A b \in B : \A q : Found(st2, b, q) <=> Found(st, b, q)
  BY <1>3, KeptHeaders
<1>5. ASSUME NEW q \in Params PROVE Load(st2, q) = Load(st, q)
  <2>1. ASSUME NEW b \in B, Found(st, b, q)
        PROVE  \A i \in 1 .. Width[q] : st2[b + HeaderSize + i - 1] = st[b + HeaderSize + i - 1]
    <3>1. b # e /\ st[b] = q
      BY <1>1, <2>1, FoundIsEntry
    <3>2. b \in Nat /\ Width[q] \in {1, 2} /\ b + HeaderSize + Width[q] <= e
      BY <1>1, <3>1, EntryExtent, Layout
    <3> QED BY <1>2, <3>2
  <2> QED BY <1>4, <2>1, SameLoad
<1> QED BY <1>4, <1>5

\* The name of p is written over the sentinel at e, and the words after the
\* value already hold the next sentinel.
Starts(st, st2, e, p, e2) ==
    /\ \A a \in 0 .. Size - 1 : a \notin {e, e + 1} => st2[a] = st[a]
    /\ st2[e] = p
    /\ e2 = e + HeaderSize + Width[p] /\ e2 + HeaderSize <= Size
    /\ is_sentinel(HeaderAt(st, e2))

\* The log then has one more entry, which is whole if the rest of its header
\* is there.
LEMMA Appended ==
    ASSUME NEW st, NEW B, NEW e, Log(st, B, e), NEW p \in Params,
           \A b \in B : ~Found(st, b, p), NEW st2, NEW e2, Starts(st, st2, e, p, e2)
    PROVE  /\ Log(st2, B \cup {e2}, e2)
           /\ \A q \in Params \ {p} : Load(st2, q) = Load(st, q)
           /\ \A b \in B \cup {e2} : Found(st2, b, p) => b = e
           /\ Found(st2, e, p) <=> st2[e + 1] = Zero
<1> DEFINE B2 == B \cup {e2}
<1> USE DEF Starts
<1>1. Chain(st, B, e) /\ Unique(st, B) /\ e \in B
  BY DEF Log, Chain
<1>2. /\ e \in Nat /\ e >= HeaderSize /\ Size \in Nat /\ HeaderSize = 2 /\ Width[p] \in {1, 2}
      /\ e2 + HeaderSize <= Size
      /\ \A b \in B : b \in Nat /\ b >= HeaderSize /\ b <= e
  <2>1. \A b \in B : b \in Nat /\ b >= HeaderSize /\ b <= e
    BY <1>1, Layout DEF Chain
  <2>2. e \in Nat /\ e >= HeaderSize
    BY <1>1, <2>1
  <2>3. HeaderSize = 2 /\ Width[p] \in {1, 2} /\ Size \in Nat
    BY Layout
  <2>4. e2 + HeaderSize <= Size
    BY <2>2, <2>3
  <2> QED BY <2>1, <2>2, <2>3, <2>4
<1>3. ASSUME NEW b \in B, b # e
      PROVE  /\ st2[b] = st[b] /\ st2[b + 1] = st[b + 1]
             /\ b + HeaderSize + Width[st[b]] <= e /\ Width[st[b]] \in {1, 2}
             /\ \A i \in 1 .. Width[st[b]] :
                   st2[b + HeaderSize + i - 1] = st[b + HeaderSize + i - 1]
  <2>1. st[b] \in Params /\ b + HeaderSize + Width[st[b]] <= e /\ Width[st[b]] \in {1, 2}
    BY <1>1, <1>3, EntryExtent, Layout
  <2>2. b \in 0 .. Size - 1 /\ b + 1 \in 0 .. Size - 1 /\ b + 1 < e
    BY <1>2, <2>1
  <2>3. \A i \in 1 .. Width[st[b]] : /\ b + HeaderSize + i - 1 \in 0 .. Size - 1
                                     /\ b + HeaderSize + i - 1 \notin {e, e + 1}
    BY <1>2, <2>1
  <2>4. st2[b] = st[b] /\ st2[b + 1] = st[b + 1]
    BY <1>2, <2>2
  <2> QED BY <2>1, <2>3, <2>4
<1>4. e2 \in 0 .. Size - 1 /\ e2 + 1 \in 0 .. Size - 1 /\ e2 > e + 1 /\ e2 \notin B
  BY <1>2
<1>5. HeaderAt(st2, e2) = HeaderAt(st, e2)
  BY <1>2, <1>4 DEF HeaderAt
<1>6. Chain(st2, B2, e2)
  <2>1. B2 \in SUBSET (HeaderSize .. Size) /\ HeaderSize \in B2 /\ e2 \in B2
    <3>1. B \in SUBSET (HeaderSize .. Size) /\ HeaderSize \in B
      BY <1>1 DEF Chain
    <3>2. e2 \in HeaderSize .. Size
      BY <1>2
    <3> QED BY <3>1, <3>2
  <2>2. is_sentinel(HeaderAt(st2, e2)) /\ \A b \in B2 : b <= e2
    BY <1>2, <1>4, <1>5
  <2>3. ASSUME NEW b \in B2 \ {e2}
        PROVE  /\ st2[b] \in Params
               /\ b + HeaderSize + Width[st2[b]] \in B2
               /\ \A c \in B2 : c > b => c >= b + HeaderSize + Width[st2[b]]
    <3>1. CASE b = e
      <4>1. st2[b] = p /\ b + HeaderSize + Width[st2[b]] = e2
        BY <3>1
      <4>2. \A c \in B2 : c > b => c = e2
        BY <1>2, <3>1
      <4> QED BY <1>2, <4>1, <4>2
    <3>2. CASE b # e
      <4>1. b \in B /\ st2[b] = st[b] /\ b + HeaderSize + Width[st[b]] <= e
        BY <1>3, <3>2
      <4>2. /\ st[b] \in Params /\ b + HeaderSize + Width[st[b]] \in B
            /\ \A c \in B : c > b => c >= b + HeaderSize + Width[st[b]]
        BY <1>1, <3>2, <4>1 DEF Chain
      <4>3. e2 >= b + HeaderSize + Width[st[b]]
        BY <1>2, <1>3, <1>4, <3>2, <4>1
      <4> QED BY <4>1, <4>2, <4>3
    <3> QED BY <3>1, <3>2
  <2> HIDE DEF B2
  <2> QED BY <1>2, <2>1, <2>2, <2>3 DEF Chain
<1>7. \A b \in B \ {e} : \A q : Found(st2, b, q) <=> Found(st, b, q)
  BY <1>3 DEF Found, HeaderAt
<1>8. \A q \in Params : ~Found(st2, e2, q) /\ ~Found(st, e, q)
  BY <1>1, <1>6, EndIsNoEntry
<1>9. \A q \in Params : Found(st2, e, q) <=> q = p /\ st2[e + 1] = Zero
  BY DEF Found, HeaderAt, HeaderWords
<1>10. Unique(st2, B2)
  <2> SUFFICES ASSUME NEW q \in Params, NEW b \in B2, NEW c \in B2,
                      Found(st2, b, q), Found(st2, c, q)
               PROVE  b = c
    BY DEF Unique
  <2>1. b \in B /\ c \in B
    BY <1>8
  <2>2. CASE q = p
    BY <1>7, <2>1, <2>2
  <2>3. CASE q # p
    <3>1. b # e /\ c # e
      BY <1>9, <2>3
    <3> QED BY <1>1, <1>7, <2>1, <3>1 DEF Unique
  <2> QED BY <2>2, <2>3
<1>11. Log(st2, B2, e2)
  BY <1>6, <1>10 DEF Log
<1>12. ASSUME NEW q \in Params \ {p} PROVE Load(st2, q) = Load(st, q)
  <2>1. ASSUME NEW b \in B, Found(st, b, q)
        PROVE  /\ b \in B2 /\ Found(st2, b, q)
               /\ \A i \in 1 .. Width[q] :
                     st2[b + HeaderSize + i - 1] = st[b + HeaderSize + i - 1]
    <3>1. b # e /\ st[b] = q
      BY <1>1, <2>1, FoundIsEntry
    <3> QED BY <1>3, <1>7, <2>1, <3>1
  <2>2. ASSUME NEW b \in B2, Found(st2, b, q)
        PROVE  b \in B /\ Found(st, b, q)
    <3>1. b \in B /\ b # e
      BY <1>8, <1>9, <2>2
    <3> QED BY <1>7, <2>2, <3>1
  <2> HIDE DEF B2
  <2> QED BY <1>11, <2>1, <2>2, SameLoad
<1>13. \A b \in B2 : Found(st2, b, p) => b = e
  BY <1>7, <1>8
<1> QED BY <1>9, <1>11, <1>12, <1>13

\* The last word of a header makes its entry whole.
LEMMA Completed ==
    ASSUME NEW st, NEW B, NEW e, Log(st, B, e), NEW p \in Params, NEW b \in B, b # e,
           st[b] = p, \A c \in B \ {b} : ~Found(st, c, p), NEW st2,
           \A a \in 0 .. Size - 1 : a # b + 1 => st2[a] = st[a], st2[b + 1] = Zero
    PROVE  /\ Log(st2, B, e) /\ Found(st2, b, p)
           /\ \A q \in Params \ {p} : Load(st2, q) = Load(st, q)
<1>1. Chain(st, B, e) /\ Unique(st, B) /\ e \in B
  BY DEF Log, Chain
<1>2. /\ HeaderSize = 2 /\ Size \in Nat /\ Width[p] \in {1, 2} /\ b + HeaderSize + Width[p] <= e
      /\ \A c \in B : /\ c \in Nat /\ c + 1 < Size
                      /\ c <= b \/ c >= b + HeaderSize + Width[p]
  BY <1>1, EntryExtent, Layout
<1>3. ASSUME NEW c \in B, c # b
      PROVE  st2[c] = st[c] /\ st2[c + 1] = st[c + 1]
  <2>1. c # b + 1
    BY <1>2, <1>3
  <2>2. c + 1 # b + 1 /\ c \in 0 .. Size - 1 /\ c + 1 \in 0 .. Size - 1
    BY <1>2, <1>3
  <2> QED BY <2>1, <2>2
<1>4. st2[b] = st[b]
  BY <1>2
<1>5. \A c \in B \ {b} : HeaderAt(st2, c) = HeaderAt(st, c)
  BY <1>3 DEF HeaderAt
<1>6. \A c \in B : st2[c] = st[c]
  BY <1>3, <1>4
<1>7. Chain(st2, B, e)
  BY <1>1, <1>5, <1>6 DEF Chain
<1>8. \A c \in B \ {b} : \A q : Found(st2, c, q) <=> Found(st, c, q)
  BY <1>5 DEF Found
<1>9. Found(st2, b, p) /\ \A q \in Params \ {p} : ~Found(st2, b, q) /\ ~Found(st, b, q)
  BY <1>4 DEF Found, HeaderAt, HeaderWords
<1>10. Unique(st2, B)
  <2> SUFFICES ASSUME NEW q \in Params, NEW c \in B, NEW d \in B,
                      Found(st2, c, q), Found(st2, d, q)
               PROVE  c = d
    BY DEF Unique
  <2>1. CASE q = p
    BY <1>8, <2>1
  <2>2. CASE q # p
    BY <1>1, <1>8, <1>9, <2>2 DEF Unique
  <2> QED BY <2>1, <2>2
<1>11. Log(st2, B, e)
  BY <1>7, <1>10 DEF Log
<1>12. ASSUME NEW q \in Params \ {p} PROVE Load(st2, q) = Load(st, q)
  <2>1. ASSUME NEW c \in B, Found(st, c, q)
        PROVE  /\ Found(st2, c, q)
               /\ \A i \in 1 .. Width[q] :
                     st2[c + HeaderSize + i - 1] = st[c + HeaderSize + i - 1]
    <3>1. c # b /\ c # e /\ st[c] = q
      BY <1>1, <1>9, <2>1, FoundIsEntry
    <3>2. /\ c \in Nat /\ Width[q] \in {1, 2} /\ c + HeaderSize + Width[q] <= e
          /\ b <= c \/ b >= c + HeaderSize + Width[q]
      BY <1>1, <3>1, EntryExtent, Layout
    <3>3. c < b \/ c >= b + HeaderSize + Width[p]
      BY <1>2, <3>1, <3>2
    <3>4. e \in Nat /\ e + 1 < Size
      BY <1>1, <1>2
    <3>5. \A i \in 1 .. Width[q] : /\ c + HeaderSize + i - 1 \in 0 .. Size - 1
                                   /\ c + HeaderSize + i - 1 # b + 1
      BY <1>2, <3>2, <3>3, <3>4
    <3> QED BY <1>8, <2>1, <3>1, <3>5
  <2>2. \A c \in B : Found(st2, c, q) => Found(st, c, q)
    BY <1>8, <1>9
  <2> QED BY <1>11, <2>1, <2>2, SameLoad
<1> QED BY <1>9, <1>11, <1>12

-----------------------------------------------------------------------------
(* A save under way.                                                       *)

\* What the writes td still have to do for the value v of p: overwrite the
\* value of its entry; write what follows a new header, and then the header;
\* or complete a header that has its first word.
Overwriting(st, td, p, v, B) ==
    \E b \in B : Found(st, b, p) /\ Pending(st, td, Over(b, p, v))
Appending(st, td, p, v, B, e) ==
    /\ \A b \in B : ~Found(st, b, p)
    /\ e + 2 * HeaderSize + Width[p] <= Size
    /\ \E pre \in Seq(RawWrites) : /\ td = pre \o write_block(e, HeaderWords(p))
                                   /\ Pending(st, pre, Fresh(e, p, v))
Completing(st, td, p, v, B, e) ==
    \E b \in B \ {e} :
       /\ st[b] = p /\ \A c \in B \ {b} : ~Found(st, c, p)
       /\ ValueAt(st, b, p) = v
       /\ td = << [at |-> b + 1, words |-> <<Zero>>] >>

Doing(st, td, p, v, B, e) ==
    \/ Overwriting(st, td, p, v, B)
    \/ Appending(st, td, p, v, B, e)
    \/ Completing(st, td, p, v, B, e)

\* What one write may change of what is loaded for p: nothing; p appears,
\* with the value v; or some of its words become those of v.
Changed(st, st2, p, v) ==
    \/ Load(st2, p) = Load(st, p)
    \/ Load(st, p) = Absent /\ Load(st2, p) = v
    \/ Load(st, p) # Absent /\ Mixed(st, st2, p, v)

\* One write of a save: where it goes, what it leaves of the log and of what
\* is loaded, and what the rest of the writes still have to do.
Written(st, td, p, v, st2) ==
    /\ Head(td) \in RawWrites /\ Head(td).at \in 0 .. Size - 1 /\ st2 \in Memory
    /\ \E B2, e2 : /\ Log(st2, B2, e2)
                   /\ Tail(td) # << >> => Doing(st2, Tail(td), p, v, B2, e2)
    /\ \A q \in Params \ {p} : Load(st2, q) = Load(st, q)
    /\ Changed(st, st2, p, v)
    /\ Tail(td) = << >> => Load(st2, p) = v

LEMMA OverwriteStep ==
    ASSUME NEW st \in Memory, NEW B, NEW e, Log(st, B, e), NEW p \in Params,
           NEW v \in [1 .. Width[p] -> Words], NEW td, td # << >>,
           Overwriting(st, td, p, v, B)
    PROVE  Written(st, td, p, v, Applied(st, Head(td)))
<1> DEFINE w == Head(td)
           st2 == Applied(st, w)
<1>1. PICK b \in B : Found(st, b, p) /\ Pending(st, td, Over(b, p, v))
  BY DEF Overwriting
<1>2. Chain(st, B, e) /\ b # e /\ st[b] = p /\ e \in B
  BY <1>1, FoundIsEntry DEF Log, Chain
<1>3. /\ b \in Nat /\ HeaderSize = 2 /\ Width[p] \in {1, 2} /\ Size \in Nat
      /\ e \in Nat /\ e + 1 < Size /\ b + HeaderSize + Width[p] <= e
  BY <1>2, EntryExtent, Layout
<1>4. DOMAIN Over(b, p, v) = b + HeaderSize .. b + HeaderSize + Width[p] - 1
  BY DEF Over
<1>5. DOMAIN Over(b, p, v) \subseteq 0 .. Size - 1
  BY <1>3, <1>4
<1>6. Pending(st2, Tail(td), Over(b, p, v)) /\ w \in RawWrites /\ Fits(w, Over(b, p, v))
  BY <1>1, <1>5, PendingTail
<1>7. /\ st2 \in Memory /\ Log(st2, B, e) /\ Found(st2, b, p)
      /\ \A q \in Params \ {p} : Load(st2, q) = Load(st, q)
      /\ Mixed(st, st2, p, v)
  <2>1. st2 = Applied(st, w)
    OBVIOUS
  <2> HIDE DEF st2, w
  <2> QED BY <1>1, <1>6, <2>1, Overwritten
<1>8. Load(st, p) # Absent
  <2>1. Load(st, p) = ValueAt(st, b, p)
    BY <1>1, Loads
  <2> QED BY <2>1, ValueIsPresent DEF ValueAt
<1>9. w.at \in 0 .. Size - 1
  <2>1. 1 \in DOMAIN w.words /\ w.at \in Nat
    BY <1>6 DEF RawWrites
  <2>2. w.at + 1 - 1 \in DOMAIN Over(b, p, v)
    BY <1>6, <2>1 DEF Fits
  <2> QED BY <1>5, <2>1, <2>2
<1>10. ASSUME Tail(td) = << >> PROVE Load(st2, p) = v
  <2>1. \A a \in DOMAIN Over(b, p, v) : st2[a] = Over(b, p, v)[a]
    BY <1>6, <1>10, PendingNone
  <2>2. \A i \in 1 .. Width[p] : st2[b + HeaderSize + i - 1] = v[i]
    <3> TAKE i \in 1 .. Width[p]
    <3>1. /\ b + HeaderSize + i - 1 \in b + HeaderSize .. b + HeaderSize + Width[p] - 1
          /\ (b + HeaderSize + i - 1) - b - HeaderSize + 1 = i
      BY <1>3
    <3>2. Over(b, p, v)[b + HeaderSize + i - 1] = v[i]
      BY <3>1 DEF Over
    <3> QED BY <1>4, <2>1, <3>1, <3>2
  <2>3. Load(st2, p) = ValueAt(st2, b, p)
    <3> HIDE DEF st2
    <3> QED BY <1>7, Loads
  <2> QED BY <2>2, <2>3 DEF ValueAt
<1>11. Doing(st2, Tail(td), p, v, B, e)
  BY <1>6, <1>7 DEF Doing, Overwriting
<1>12. Changed(st, st2, p, v)
  BY <1>7, <1>8 DEF Changed
<1> QED BY <1>6, <1>7, <1>9, <1>10, <1>11, <1>12 DEF Written

LEMMA CompleteStep ==
    ASSUME NEW st \in Memory, NEW B, NEW e, Log(st, B, e), NEW p \in Params,
           NEW v \in [1 .. Width[p] -> Words], NEW td, Completing(st, td, p, v, B, e)
    PROVE  Written(st, td, p, v, Applied(st, Head(td)))
<1> DEFINE w == Head(td)
           st2 == Applied(st, w)
<1>1. PICK b \in B \ {e} : /\ st[b] = p /\ \A c \in B \ {b} : ~Found(st, c, p)
                           /\ ValueAt(st, b, p) = v
                           /\ td = << [at |-> b + 1, words |-> <<Zero>>] >>
  BY DEF Completing
<1>2. Chain(st, B, e) /\ e \in B
  BY DEF Log, Chain
<1>3. /\ b \in Nat /\ HeaderSize = 2 /\ Width[p] \in {1, 2} /\ Size \in Nat
      /\ e \in Nat /\ e + 1 < Size /\ b + HeaderSize + Width[p] <= e
  BY <1>1, <1>2, EntryExtent, Layout
<1>4. w = [at |-> b + 1, words |-> <<Zero>>] /\ Tail(td) = << >>
  BY <1>1
<1>5. w \in RawWrites
  BY <1>3, <1>4 DEF RawWrites, AllWords
<1>6. /\ st2 \in Memory /\ st2[b + 1] = Zero
      /\ \A a \in 0 .. Size - 1 : a # b + 1 => st2[a] = st[a]
  <2> DEFINE T == [a \in {b + 1} |-> Zero]
  <2>1. Fits(w, T)
    BY <1>3, <1>4 DEF Fits
  <2>2. /\ st2 \in Memory /\ Addr(w) \subseteq DOMAIN T
        /\ \A a \in 0 .. Size - 1 : st2[a] = IF a \in Addr(w) THEN T[a] ELSE st[a]
    <3> HIDE DEF T
    <3> QED BY <1>5, <2>1, AppliedIs
  <2>3. b + 1 \in Addr(w) /\ b + 1 \in 0 .. Size - 1
    <3>1. 1 \in DOMAIN w.words /\ w.at + 1 - 1 = b + 1
      BY <1>3, <1>4
    <3>2. w.at + 1 - 1 \in Addr(w)
      BY <3>1 DEF Addr
    <3> QED BY <1>3, <3>1, <3>2
  <2> QED BY <2>2, <2>3
<1>7. /\ Log(st2, B, e) /\ Found(st2, b, p)
      /\ \A q \in Params \ {p} : Load(st2, q) = Load(st, q)
  <2> HIDE DEF st2
  <2> QED BY <1>1, <1>6, Completed
<1>8. Load(st2, p) = v
  <2>1. Load(st2, p) = ValueAt(st2, b, p)
    <3> HIDE DEF st2
    <3> QED BY <1>7, Loads
  <2>2. ASSUME NEW i \in 1 .. Width[p]
        PROVE  st2[b + HeaderSize + i - 1] = st[b + HeaderSize + i - 1]
    <3>1. b + HeaderSize + i - 1 \in 0 .. Size - 1 /\ b + HeaderSize + i - 1 # b + 1
      BY <1>3
    <3> QED BY <1>6, <3>1
  <2>3. ValueAt(st2, b, p) = ValueAt(st, b, p)
    BY <2>2 DEF ValueAt
  <2> QED BY <1>1, <2>1, <2>3
<1>9. Load(st, p) = v \/ Load(st, p) = Absent
  <2>1. CASE Found(st, b, p)
    <3>1. Load(st, p) = ValueAt(st, b, p)
      BY <2>1, Loads
    <3> QED BY <1>1, <3>1
  <2>2. CASE ~Found(st, b, p)
    <3>1. \A c \in B : ~Found(st, c, p)
      BY <1>1, <2>2
    <3>2. Load(st, p) = Absent
      BY <3>1, Loads
    <3> QED BY <3>2
  <2> QED BY <2>1, <2>2
<1>10. Changed(st, st2, p, v)
  BY <1>8, <1>9 DEF Changed
<1>11. w.at \in 0 .. Size - 1
  BY <1>3, <1>4
<1> QED BY <1>4, <1>5, <1>6, <1>7, <1>8, <1>10, <1>11 DEF Written

\* The words a new entry needs after its header, as the log will read them.
LEMMA FreshIs ==
    ASSUME NEW e \in Nat, NEW p \in Params, NEW v
    PROVE  /\ DOMAIN Fresh(e, p, v) = e + HeaderSize .. e + 2 * HeaderSize + Width[p] - 1
           /\ \A i \in 1 .. Width[p] :
                 /\ e + HeaderSize + i - 1 \in DOMAIN Fresh(e, p, v)
                 /\ Fresh(e, p, v)[e + HeaderSize + i - 1] = v[i]
           /\ \A k \in {1, 2} :
                 /\ e + HeaderSize + Width[p] + k - 1 \in DOMAIN Fresh(e, p, v)
                 /\ Fresh(e, p, v)[e + HeaderSize + Width[p] + k - 1] = Sentinel[k]
<1>1. HeaderSize = 2 /\ Width[p] \in {1, 2}
  BY Layout
<1>2. DOMAIN Fresh(e, p, v) = e + HeaderSize .. e + 2 * HeaderSize + Width[p] - 1
  BY DEF Fresh
<1>3. ASSUME NEW i \in 1 .. Width[p]
      PROVE  /\ e + HeaderSize + i - 1 \in DOMAIN Fresh(e, p, v)
             /\ Fresh(e, p, v)[e + HeaderSize + i - 1] = v[i]
  <2>1. /\ e + HeaderSize + i - 1 \in e + HeaderSize .. e + 2 * HeaderSize + Width[p] - 1
        /\ e + HeaderSize + i - 1 < e + HeaderSize + Width[p]
        /\ (e + HeaderSize + i - 1) - e - HeaderSize + 1 = i
    BY <1>1
  <2> QED BY <1>2, <2>1 DEF Fresh
<1>4. ASSUME NEW k \in {1, 2}
      PROVE  /\ e + HeaderSize + Width[p] + k - 1 \in DOMAIN Fresh(e, p, v)
             /\ Fresh(e, p, v)[e + HeaderSize + Width[p] + k - 1] = Sentinel[k]
  <2> DEFINE a == e + HeaderSize + Width[p] + k - 1
  <2>1. /\ a \in e + HeaderSize .. e + 2 * HeaderSize + Width[p] - 1
        /\ ~(a < e + HeaderSize + Width[p])
        /\ a - e - HeaderSize - Width[p] + 1 = k
    BY <1>1
  <2> HIDE DEF a
  <2>2. a \in DOMAIN Fresh(e, p, v) /\ Fresh(e, p, v)[a] = Sentinel[k]
    BY <1>2, <2>1 DEF Fresh
  <2> QED BY <2>2 DEF a
<1> QED BY <1>2, <1>3, <1>4

\* The writes before the header leave the log as it was.
LEMMA BeforeHeader ==
    ASSUME NEW st \in Memory, NEW B, NEW e, Log(st, B, e), NEW p \in Params, NEW v,
           \A b \in B : ~Found(st, b, p), e + 2 * HeaderSize + Width[p] <= Size,
           NEW pre \in Seq(RawWrites), pre # << >>, Pending(st, pre, Fresh(e, p, v)),
           NEW td, td = pre \o write_block(e, HeaderWords(p)),
           write_block(e, HeaderWords(p)) \in Seq(RawWrites),
           write_block(e, HeaderWords(p)) # << >>
    PROVE  Written(st, td, p, v, Applied(st, Head(td)))
<1> DEFINE wb == write_block(e, HeaderWords(p))
           T == Fresh(e, p, v)
           w == Head(td)
           st2 == Applied(st, w)
<1>1. Chain(st, B, e) /\ e \in B
  BY DEF Log, Chain
<1>2. e \in Nat /\ e + 1 < Size /\ HeaderSize = 2 /\ Width[p] \in {1, 2} /\ Size \in Nat
  BY <1>1, EntryExtent, Layout
<1>3. DOMAIN T = e + HeaderSize .. e + 2 * HeaderSize + Width[p] - 1
  BY <1>2, FreshIs
<1>4. DOMAIN T \subseteq 0 .. Size - 1 /\ \A a \in DOMAIN T : a > e + 1
  BY <1>2, <1>3
<1>5. w = Head(pre) /\ Tail(td) = Tail(pre) \o wb /\ Tail(td) # << >> /\ Tail(pre) \in Seq(RawWrites)
  <2> HIDE DEF wb
  <2>1. wb \in Seq(RawWrites) /\ wb # << >> /\ td = pre \o wb
    BY DEF wb
  <2>2. td \in Seq(RawWrites) /\ Len(td) = Len(pre) + Len(wb) /\ Len(wb) > 0 /\ Len(pre) > 0
        /\ Len(pre) \in Nat /\ Len(wb) \in Nat /\ td # << >>
    BY <2>1
  <2>3. \A i \in 1 .. Len(td) : td[i] = IF i <= Len(pre) THEN pre[i] ELSE wb[i - Len(pre)]
    BY <2>1, ConcatProperties
  <2>4. td[1] = pre[1] /\ w = td[1] /\ Head(pre) = pre[1]
    BY <2>2, <2>3
  <2>5. /\ Tail(pre) \in Seq(RawWrites) /\ Len(Tail(pre)) = Len(pre) - 1
        /\ \A i \in 1 .. Len(Tail(pre)) : Tail(pre)[i] = pre[i + 1]
    BY <2>2, HeadTailProperties
  <2>6. /\ Tail(td) \in Seq(RawWrites) /\ Len(Tail(td)) = Len(td) - 1
        /\ \A i \in 1 .. Len(Tail(td)) : Tail(td)[i] = td[i + 1]
    BY <2>2, HeadTailProperties
  <2>7. /\ Tail(pre) \o wb \in Seq(RawWrites) /\ Len(Tail(pre) \o wb) = Len(td) - 1
        /\ \A i \in 1 .. Len(td) - 1 : (Tail(pre) \o wb)[i] =
              IF i <= Len(pre) - 1 THEN Tail(pre)[i] ELSE wb[i - (Len(pre) - 1)]
    BY <2>1, <2>2, <2>5, ConcatProperties
  <2>8. \A i \in 1 .. Len(td) - 1 : Tail(td)[i] = (Tail(pre) \o wb)[i]
    <3> TAKE i \in 1 .. Len(td) - 1
    <3>1. i \in 1 .. Len(Tail(td)) /\ i + 1 \in 1 .. Len(td) /\ i \in Nat
      BY <2>2, <2>6
    <3>2. Tail(td)[i] = IF i + 1 <= Len(pre) THEN pre[i + 1] ELSE wb[i + 1 - Len(pre)]
      BY <2>3, <2>6, <3>1
    <3>3. CASE i <= Len(pre) - 1
      BY <2>2, <2>5, <2>7, <3>1, <3>2, <3>3
    <3>4. CASE ~(i <= Len(pre) - 1)
      <4>1. i + 1 - Len(pre) = i - (Len(pre) - 1)
        BY <2>2, <3>1
      <4> QED BY <2>2, <2>7, <3>1, <3>2, <3>4, <4>1
    <3> QED BY <3>3, <3>4
  <2>9. Tail(td) = Tail(pre) \o wb
    BY <2>6, <2>7, <2>8, SeqEqual
  <2>10. Len(Tail(td)) > 0
    BY <2>2, <2>6
  <2>11. Tail(td) # << >>
    BY <2>10, EmptySeq
  <2> QED BY <2>4, <2>5, <2>9, <2>11
<1>6. Pending(st2, Tail(pre), T) /\ w \in RawWrites /\ Fits(w, T)
  <2> HIDE DEF T
  <2> QED BY <1>4, <1>5, PendingTail DEF T
<1>7. /\ st2 \in Memory
      /\ \A a \in 0 .. Size - 1 : a <= e + 1 => st2[a] = st[a]
  <2> HIDE DEF T, w
  <2>1. /\ st2 \in Memory /\ Addr(w) \subseteq DOMAIN T
        /\ \A a \in 0 .. Size - 1 : st2[a] = IF a \in Addr(w) THEN T[a] ELSE st[a]
    BY <1>6, AppliedIs
  <2>2. \A a \in 0 .. Size - 1 : a <= e + 1 => a \notin Addr(w)
    BY <1>2, <1>4, <2>1
  <2> QED BY <2>1, <2>2
<1>8. /\ Log(st2, B, e)
      /\ \A q \in Params : Load(st2, q) = Load(st, q)
      /\ \A b \in B : \A q : Found(st2, b, q) <=> Found(st, b, q)
  <2> HIDE DEF st2
  <2> QED BY <1>7, PastTheEnd
<1>9. Doing(st2, Tail(td), p, v, B, e)
  <2> HIDE DEF st2
  <2>1. \A b \in B : ~Found(st2, b, p)
    BY <1>8
  <2> QED BY <1>5, <1>6, <2>1 DEF Doing, Appending
<1>10. w.at \in 0 .. Size - 1
  <2> HIDE DEF T, w
  <2>1. 1 \in DOMAIN w.words /\ w.at \in Nat
    BY <1>6 DEF RawWrites
  <2>2. w.at + 1 - 1 \in DOMAIN T
    BY <1>6, <2>1 DEF Fits
  <2> QED BY <1>4, <2>1, <2>2
<1>11. Changed(st, st2, p, v)
  BY <1>8 DEF Changed
<1> QED
  <2> HIDE DEF st2, w
  <2>1. Written(st, td, p, v, st2)
    BY <1>5, <1>6, <1>7, <1>8, <1>9, <1>10, <1>11 DEF Written, w
  <2> QED BY <2>1 DEF st2, w

\* The first write of the header makes the entry, whole unless the second
\* word of the header is in the next area.
LEMMA WriteHeader ==
    ASSUME NEW st \in Memory, NEW B, NEW e, Log(st, B, e), NEW p \in Params,
           NEW v \in [1 .. Width[p] -> Words],
           \A b \in B : ~Found(st, b, p), e + 2 * HeaderSize + Width[p] <= Size,
           \A a \in DOMAIN Fresh(e, p, v) : st[a] = Fresh(e, p, v)[a],
           NEW td, td = write_block(e, HeaderWords(p))
    PROVE  Written(st, td, p, v, Applied(st, Head(td)))
<1> DEFINE w == Head(td)
           st2 == Applied(st, w)
           e2 == e + HeaderSize + Width[p]
           B2 == B \cup {e2}
           rest == << [at |-> e + 1, words |-> <<Zero>>] >>
<1>1. Chain(st, B, e) /\ e \in B
  BY DEF Log, Chain
<1>2. e \in Nat /\ e + 1 < Size /\ HeaderSize = 2 /\ Width[p] \in {1, 2} /\ Size \in Nat
  BY <1>1, EntryExtent, Layout
<1>3. /\ w \in RawWrites /\ w.at = e /\ p \in AllWords /\ Zero \in AllWords
      /\ \/ Tail(td) = << >> /\ w = [at |-> e, words |-> <<p, Zero>>]
         \/ Tail(td) = rest /\ w = [at |-> e, words |-> <<p>>]
  <2>1. p \in AllWords /\ Zero \in AllWords
    BY DEF AllWords
  <2>2. Len(HeaderWords(p)) = 2 /\ HeaderWords(p)[1] = p /\ HeaderWords(p)[2] = Zero
    BY DEF HeaderWords
  <2>3. \/ td = << [at |-> e, words |-> <<p, Zero>>] >>
        \/ td = << [at |-> e, words |-> <<p>>], [at |-> e + 1, words |-> <<Zero>>] >>
    BY <2>2 DEF write_block, HeaderWords
  <2>4. CASE td = << [at |-> e, words |-> <<p, Zero>>] >>
    <3>1. w = [at |-> e, words |-> <<p, Zero>>] /\ Tail(td) = << >>
      BY <2>4
    <3>2. <<p, Zero>> \in [1..2 -> AllWords]
      BY <2>1
    <3> QED BY <1>2, <2>1, <3>1, <3>2 DEF RawWrites
  <2>5. CASE td = << [at |-> e, words |-> <<p>>], [at |-> e + 1, words |-> <<Zero>>] >>
    <3>1. w = [at |-> e, words |-> <<p>>] /\ Tail(td) = rest
      BY <2>5
    <3>2. <<p>> \in [1..1 -> AllWords]
      BY <2>1
    <3> QED BY <1>2, <2>1, <3>1, <3>2 DEF RawWrites
  <2> QED BY <2>3, <2>4, <2>5
<1>4. /\ st2 \in Memory /\ st2[e] = p
      /\ Tail(td) = << >> => st2[e + 1] = Zero
      /\ \A a \in 0 .. Size - 1 : a \notin {e, e + 1} => st2[a] = st[a]
  <2> DEFINE T == [a \in {e, e + 1} |-> IF a = e THEN p ELSE Zero]
  <2>1. DOMAIN T = {e, e + 1} /\ T[e] = p /\ T[e + 1] = Zero
    BY <1>2
  <2> HIDE DEF T, w
  <2>2. Fits(w, T)
    <3>1. CASE w = [at |-> e, words |-> <<p, Zero>>]
      <4>1. DOMAIN w.words = {1, 2} /\ w.at = e /\ w.words[1] = p /\ w.words[2] = Zero
        BY <3>1
      <4>2. \A k \in {1, 2} : e + k - 1 = IF k = 1 THEN e ELSE e + 1
        BY <1>2
      <4> QED BY <2>1, <4>1, <4>2 DEF Fits
    <3>2. CASE w = [at |-> e, words |-> <<p>>]
      <4>1. DOMAIN w.words = {1} /\ w.at = e /\ w.words[1] = p /\ e + 1 - 1 = e
        BY <1>2, <3>2
      <4> QED BY <2>1, <4>1 DEF Fits
    <3> QED BY <1>3, <3>1, <3>2
  <2>3. /\ st2 \in Memory /\ Addr(w) \subseteq DOMAIN T
        /\ \A a \in 0 .. Size - 1 : st2[a] = IF a \in Addr(w) THEN T[a] ELSE st[a]
    BY <1>3, <2>2, AppliedIs
  <2>4. e \in Addr(w) /\ (Tail(td) = << >> => e + 1 \in Addr(w))
    <3>1. 1 \in DOMAIN w.words /\ w.at + 1 - 1 = e
      BY <1>2, <1>3
    <3>2. Tail(td) = << >> => 2 \in DOMAIN w.words /\ w.at + 2 - 1 = e + 1
      BY <1>2, <1>3
    <3>3. w.at + 1 - 1 \in Addr(w) /\ (Tail(td) = << >> => w.at + 2 - 1 \in Addr(w))
      BY <3>1, <3>2 DEF Addr
    <3> QED BY <3>1, <3>2, <3>3
  <2>5. e \in 0 .. Size - 1 /\ e + 1 \in 0 .. Size - 1
    BY <1>2
  <2> QED BY <2>1, <2>3, <2>4, <2>5
<1>5. is_sentinel(HeaderAt(st, e2))
  <2>1. /\ e2 + 1 - 1 \in DOMAIN Fresh(e, p, v)
        /\ Fresh(e, p, v)[e2 + 1 - 1] = Sentinel[1]
    BY <1>2, FreshIs
  <2>2. e2 + 1 - 1 = e2
    BY <1>2
  <2>3. st[e2] = Ones
    BY <2>1, <2>2 DEF Sentinel
  <2> HIDE DEF e2
  <2> QED BY <2>3 DEF is_sentinel, HeaderAt
<1>6. /\ Log(st2, B2, e2)
      /\ \A q \in Params \ {p} : Load(st2, q) = Load(st, q)
      /\ \A b \in B2 : Found(st2, b, p) => b = e
      /\ Found(st2, e, p) <=> st2[e + 1] = Zero
  <2>1. e2 = e + HeaderSize + Width[p] /\ e2 + HeaderSize <= Size
    BY <1>2
  <2> HIDE DEF st2, e2
  <2>2. \A a \in 0 .. Size - 1 : a \notin {e, e + 1} => st2[a] = st[a]
    BY <1>4
  <2>3. st2[e] = p
    BY <1>4
  <2>4. is_sentinel(HeaderAt(st, e2))
    BY <1>5
  <2>5. \A b \in B : ~Found(st, b, p)
    OBVIOUS
  <2>6. Starts(st, st2, e, p, e2)
    BY <2>1, <2>2, <2>3, <2>4 DEF Starts
  <2>7. Log(st2, B \cup {e2}, e2)
    BY <2>5, <2>6, Appended
  <2>8. \A q \in Params \ {p} : Load(st2, q) = Load(st, q)
    BY <2>5, <2>6, <2>7, Appended
  <2>9. \A b \in B \cup {e2} : Found(st2, b, p) => b = e
    BY <2>5, <2>6, <2>7, Appended
  <2>10. Found(st2, e, p) <=> st2[e + 1] = Zero
    BY <2>5, <2>6, <2>7, Appended
  <2> QED BY <2>7, <2>8, <2>9, <2>10
<1>7. ValueAt(st2, e, p) = v
  <2>1. ASSUME NEW i \in 1 .. Width[p] PROVE st2[e + HeaderSize + i - 1] = v[i]
    <3>1. e + HeaderSize + i - 1 \in 0 .. Size - 1 /\ e + HeaderSize + i - 1 \notin {e, e + 1}
      BY <1>2
    <3>2. /\ e + HeaderSize + i - 1 \in DOMAIN Fresh(e, p, v)
          /\ Fresh(e, p, v)[e + HeaderSize + i - 1] = v[i]
      BY <1>2, FreshIs
    <3>3. st[e + HeaderSize + i - 1] = v[i]
      BY <3>2
    <3> QED BY <1>4, <3>1, <3>3
  <2> QED BY <2>1 DEF ValueAt
<1>8. e \in B2 /\ e # e2
  BY <1>1, <1>2
<1>9. Load(st, p) = Absent
  BY Loads
<1>10. IF st2[e + 1] = Zero THEN Load(st2, p) = v ELSE Load(st2, p) = Absent
  <2> HIDE DEF st2, B2, e2
  <2>1. CASE st2[e + 1] = Zero
    <3>1. Load(st2, p) = ValueAt(st2, e, p)
      BY <1>6, <1>8, <2>1, Loads
    <3> QED BY <1>7, <2>1, <3>1
  <2>2. CASE st2[e + 1] # Zero
    <3>1. \A b \in B2 : ~Found(st2, b, p)
      BY <1>6, <2>2
    <3>2. Load(st2, p) = Absent
      BY <1>6, <3>1, Loads
    <3> QED BY <2>2, <3>2
  <2> QED BY <2>1, <2>2
<1>11. Changed(st, st2, p, v)
  <2> HIDE DEF st2
  <2> QED BY <1>9, <1>10 DEF Changed
<1>12. Tail(td) # << >> => Doing(st2, Tail(td), p, v, B2, e2)
  <2> SUFFICES ASSUME Tail(td) # << >> PROVE Completing(st2, Tail(td), p, v, B2, e2)
    BY DEF Doing
  <2>1. Tail(td) = rest
    BY <1>3
  <2>2. \A c \in B2 \ {e} : ~Found(st2, c, p)
    BY <1>6
  <2> HIDE DEF st2, B2, e2, w
  <2> QED BY <1>4, <1>7, <1>8, <2>1, <2>2 DEF Completing
<1>13. w.at \in 0 .. Size - 1
  BY <1>2, <1>3
<1> QED
  <2> HIDE DEF st2, w, B2, e2
  <2>1. Tail(td) = << >> => Load(st2, p) = v
    BY <1>4, <1>10
  <2>2. Written(st, td, p, v, st2)
    BY <1>3, <1>4, <1>6, <1>11, <1>12, <1>13, <2>1 DEF Written, w
  <2> QED BY <2>2 DEF st2, w

\* One raw write of a save under way.
LEMMA WriteStep ==
    ASSUME NEW st \in Memory, NEW B, NEW e, Log(st, B, e), NEW p \in Params,
           NEW v \in [1 .. Width[p] -> Words], NEW td, td # << >>,
           Doing(st, td, p, v, B, e)
    PROVE  Written(st, td, p, v, Applied(st, Head(td)))
<1>1. CASE Appending(st, td, p, v, B, e)
  <2>1. PICK pre \in Seq(RawWrites) : /\ td = pre \o write_block(e, HeaderWords(p))
                                      /\ Pending(st, pre, Fresh(e, p, v))
    BY <1>1 DEF Appending
  <2>2. (\A b \in B : ~Found(st, b, p)) /\ e + 2 * HeaderSize + Width[p] <= Size
    BY <1>1 DEF Appending
  <2>3. /\ write_block(e, HeaderWords(p)) \in Seq(RawWrites)
        /\ write_block(e, HeaderWords(p)) # << >>
    <3> DEFINE T == [a \in {e, e + 1} |-> IF a = e THEN p ELSE Zero]
    <3>1. e \in Nat
      BY EntryExtent DEF Log, Chain
    <3>2. HeaderWords(p) \in [1..2 -> AllWords]
      BY DEF HeaderWords, AllWords
    <3>3. \A k \in DOMAIN HeaderWords(p) :
             e + k - 1 \in DOMAIN T /\ HeaderWords(p)[k] = T[e + k - 1]
      BY <3>1 DEF HeaderWords
    <3> HIDE DEF T
    <3> QED BY <3>1, <3>2, <3>3, BlockFits
  <2>4. CASE pre = << >>
    <3>1. td = write_block(e, HeaderWords(p))
      BY <2>1, <2>3, <2>4, ConcatEmptySeq
    <3>2. \A a \in DOMAIN Fresh(e, p, v) : st[a] = Fresh(e, p, v)[a]
      BY <2>1, <2>4, PendingNone
    <3> QED BY <2>2, <3>1, <3>2, WriteHeader
  <2>5. CASE pre # << >>
    BY <2>1, <2>2, <2>3, <2>5, BeforeHeader
  <2> QED BY <2>4, <2>5
<1> QED BY <1>1, OverwriteStep, CompleteStep DEF Doing

-----------------------------------------------------------------------------
(* The start of a save.                                                    *)

LEMMA LoadRawIs ==
    ASSUME NEW p
    PROVE  /\ load_raw(p) = Load(storage, p) /\ load_raw(p)' = Load(storage', p)
           /\ scan(p) = Walk(storage, p)[HeaderSize]
           /\ scan(p)' = Walk(storage', p)[HeaderSize]
  BY DEF load_raw, scan, Load, ValueAt

LEMMA AtInTarget ==
    ASSUME NEW w \in RawWrites, NEW T, Fits(w, T)
    PROVE  w.at \in DOMAIN T
<1>1. 1 \in DOMAIN w.words /\ w.at \in Nat
  BY DEF RawWrites
<1>2. w.at + 1 - 1 \in DOMAIN T
  BY <1>1 DEF Fits
<1> QED BY <1>1, <1>2

InRange(ws) == \A i \in DOMAIN ws : ws[i].at \in 0 .. Size - 1

\* What save_raw() has to write is what a save under way still has to do.
LEMMA SaveStarts ==
    ASSUME NEW B, NEW e, Log(storage, B, e), NEW p \in Params,
           ram[p] \in [1 .. Width[p] -> Words], save_raw(p) # << >>
    PROVE  /\ Doing(storage, save_raw(p), p, ram[p], B, e)
           /\ save_raw(p) \in Seq(RawWrites) /\ InRange(save_raw(p))
<1> DEFINE v == ram[p]
<1>1. Chain(storage, B, e) /\ e \in B
  BY DEF Log, Chain
<1>2. e \in Nat /\ e + 1 < Size /\ HeaderSize = 2 /\ Width[p] \in {1, 2} /\ Size \in Nat
  BY <1>1, EntryExtent, Layout
<1>3. v \in [1..1 -> AllWords] \cup [1..2 -> AllWords] /\ DOMAIN v = 1 .. Width[p]
  <2>1. Words \subseteq AllWords
    BY DEF AllWords
  <2> QED BY <1>2, <2>1
<1>4. ASSUME NEW b \in B, Found(storage, b, p)
      PROVE  /\ Doing(storage, save_raw(p), p, v, B, e)
             /\ save_raw(p) \in Seq(RawWrites) /\ InRange(save_raw(p))
  <2> DEFINE T == Over(b, p, v)
             ws == write_block(b + HeaderSize, v)
  <2>1. save_raw(p) = ws
    <3>1. Finds(storage, p, b)
      BY <1>4, Loads
    <3>2. scan(p).found = TRUE /\ scan(p).ofs = b
      BY <3>1, LoadRawIs DEF Finds
    <3> QED BY <3>2 DEF save_raw
  <2>2. b \in Nat /\ b + HeaderSize + Width[p] <= e
    <3>1. b # e /\ storage[b] = p
      BY <1>1, <1>4, FoundIsEntry
    <3> QED BY <1>1, <3>1, EntryExtent
  <2>3. DOMAIN T = b + HeaderSize .. b + HeaderSize + Width[p] - 1 /\ b + HeaderSize \in Nat
    BY <1>2, <2>2 DEF Over
  <2>4. ASSUME NEW k \in DOMAIN v
        PROVE  b + HeaderSize + k - 1 \in DOMAIN T /\ v[k] = T[b + HeaderSize + k - 1]
    <3>1. k \in Nat /\ 1 <= k /\ k <= Width[p]
      BY <1>2, <1>3
    <3>2. /\ b + HeaderSize + k - 1 \in b + HeaderSize .. b + HeaderSize + Width[p] - 1
          /\ (b + HeaderSize + k - 1) - b - HeaderSize + 1 = k
      BY <1>2, <2>2, <3>1
    <3> QED BY <2>3, <3>2 DEF Over
  <2>5. /\ ws \in Seq(RawWrites) /\ ws # << >>
        /\ \A i \in DOMAIN ws : Fits(ws[i], T)
        /\ \A k \in DOMAIN v : b + HeaderSize + k - 1 \in Touched(ws)
    <3> HIDE DEF T, v
    <3> QED BY <1>3, <2>3, <2>4, BlockFits
  <2>6. \A a \in DOMAIN T : a \in Touched(ws)
    <3> TAKE a \in DOMAIN T
    <3>1. a - b - HeaderSize + 1 \in DOMAIN v /\ b + HeaderSize + (a - b - HeaderSize + 1) - 1 = a
      BY <1>2, <1>3, <2>2, <2>3
    <3> HIDE DEF v, T, ws
    <3>2. b + HeaderSize + (a - b - HeaderSize + 1) - 1 \in Touched(ws)
      BY <2>5, <3>1
    <3> QED BY <3>1, <3>2
  <2>7. Pending(storage, ws, T)
    BY <2>5, <2>6 DEF Pending
  <2>8. Doing(storage, ws, p, v, B, e)
    BY <1>4, <2>7 DEF Doing, Overwriting
  <2>9. InRange(ws)
    <3> HIDE DEF ws, T
    <3>1. ASSUME NEW i \in DOMAIN ws PROVE ws[i].at \in 0 .. Size - 1
      <4>1. ws[i] \in RawWrites /\ Fits(ws[i], T)
        BY <2>5
      <4>2. ws[i].at \in DOMAIN T
        BY <4>1, AtInTarget
      <4> QED BY <1>2, <2>2, <2>3, <4>2
    <3> QED BY <3>1 DEF InRange
  <2> QED BY <2>1, <2>5, <2>8, <2>9
<1>5. ASSUME \A b \in B : ~Found(storage, b, p)
      PROVE  /\ Doing(storage, save_raw(p), p, v, B, e)
             /\ save_raw(p) \in Seq(RawWrites) /\ InRange(save_raw(p))
  <2> DEFINE T == Fresh(e, p, v)
             U == [a \in {e, e + 1} |-> IF a = e THEN p ELSE Zero]
             wS == write_block(e + HeaderSize + Width[p], Sentinel)
             wV == write_block(e + HeaderSize, v)
             wH == write_block(e, HeaderWords(p))
             pre == wS \o wV
  <2>1. save_raw(p) = pre \o wH /\ e + 2 * HeaderSize + Width[p] <= Size
    <3>1. Walk(storage, p)[HeaderSize] = [found |-> FALSE, ofs |-> e]
      BY <1>5, Loads
    <3>2. scan(p) = [found |-> FALSE, ofs |-> e]
      BY <3>1, LoadRawIs
    <3>3. HasRoom(p, e) /\ save_raw(p) = AppendWrites(p, e)
      BY <3>2 DEF save_raw
    <3> QED BY <1>2, <3>3 DEF HasRoom, AppendWrites
  <2>2. /\ wS \in Seq(RawWrites) /\ \A i \in DOMAIN wS : Fits(wS[i], T)
        /\ \A k \in 1..2 : e + HeaderSize + Width[p] + k - 1 \in Touched(wS)
    <3>1. e + HeaderSize + Width[p] \in Nat /\ Sentinel \in [1..2 -> AllWords] /\ DOMAIN Sentinel = 1..2
      BY <1>2 DEF Sentinel, AllWords
    <3>2. ASSUME NEW k \in DOMAIN Sentinel
          PROVE  /\ e + HeaderSize + Width[p] + k - 1 \in DOMAIN T
                 /\ Sentinel[k] = T[e + HeaderSize + Width[p] + k - 1]
      <4>1. k \in {1, 2}
        BY <3>1
      <4> QED BY <1>2, <4>1, FreshIs
    <3> HIDE DEF T, v
    <3> QED BY <3>1, <3>2, BlockFits
  <2>3. /\ wV \in Seq(RawWrites) /\ \A i \in DOMAIN wV : Fits(wV[i], T)
        /\ \A k \in DOMAIN v : e + HeaderSize + k - 1 \in Touched(wV)
    <3>1. e + HeaderSize \in Nat
      BY <1>2
    <3>2. ASSUME NEW k \in DOMAIN v
          PROVE  e + HeaderSize + k - 1 \in DOMAIN T /\ v[k] = T[e + HeaderSize + k - 1]
      BY <1>2, <1>3, FreshIs
    <3> HIDE DEF T, v
    <3> QED BY <1>3, <3>1, <3>2, BlockFits
  <2>4. /\ pre \in Seq(RawWrites) /\ \A i \in DOMAIN pre : Fits(pre[i], T)
        /\ Touched(wS) \cup Touched(wV) \subseteq Touched(pre)
    <3> HIDE DEF T, wS, wV
    <3> QED BY <2>2, <2>3, ConcatFits
  <2>5. \A a \in DOMAIN T : a \in Touched(pre)
    <3> TAKE a \in DOMAIN T
    <3>1. a \in e + HeaderSize .. e + 2 * HeaderSize + Width[p] - 1
      BY <1>2, FreshIs
    <3>2. CASE a < e + HeaderSize + Width[p]
      <4>1. /\ a - e - HeaderSize + 1 \in DOMAIN v
            /\ e + HeaderSize + (a - e - HeaderSize + 1) - 1 = a
        BY <1>2, <1>3, <3>1, <3>2
      <4> HIDE DEF v, wV, wS, pre
      <4>2. e + HeaderSize + (a - e - HeaderSize + 1) - 1 \in Touched(wV)
        BY <2>3, <4>1
      <4> QED BY <2>4, <4>1, <4>2
    <3>3. CASE ~(a < e + HeaderSize + Width[p])
      <4>1. /\ a - e - HeaderSize - Width[p] + 1 \in 1..2
            /\ e + HeaderSize + Width[p] + (a - e - HeaderSize - Width[p] + 1) - 1 = a
        BY <1>2, <3>1, <3>3
      <4> HIDE DEF v, wV, wS, pre
      <4>2. e + HeaderSize + Width[p] + (a - e - HeaderSize - Width[p] + 1) - 1 \in Touched(wS)
        BY <2>2, <4>1
      <4> QED BY <2>4, <4>1, <4>2
    <3> QED BY <3>2, <3>3
  <2>6. Pending(storage, pre, T)
    BY <2>4, <2>5 DEF Pending
  <2>7. Doing(storage, pre \o wH, p, v, B, e)
    <3> HIDE DEF pre
    <3>1. Appending(storage, pre \o wH, p, v, B, e)
      BY <1>5, <2>1, <2>4, <2>6 DEF Appending
    <3> QED BY <3>1 DEF Doing
  <2>8. wH \in Seq(RawWrites) /\ \A i \in DOMAIN wH : Fits(wH[i], U)
    <3>1. HeaderWords(p) \in [1..2 -> AllWords]
      BY DEF HeaderWords, AllWords
    <3>2. \A k \in DOMAIN HeaderWords(p) :
             e + k - 1 \in DOMAIN U /\ HeaderWords(p)[k] = U[e + k - 1]
      BY <1>2 DEF HeaderWords
    <3> HIDE DEF U
    <3> QED BY <1>2, <3>1, <3>2, BlockFits
  <2>9. ASSUME NEW i \in DOMAIN (pre \o wH) PROVE (pre \o wH)[i].at \in 0 .. Size - 1
    <3> HIDE DEF pre, wH
    <3>1. \/ \E j \in DOMAIN pre : (pre \o wH)[i] = pre[j]
          \/ \E j \in DOMAIN wH : (pre \o wH)[i] = wH[j]
      <4>1. /\ pre \o wH \in Seq(RawWrites) /\ Len(pre \o wH) = Len(pre) + Len(wH)
            /\ Len(pre) \in Nat /\ Len(wH) \in Nat
        BY <2>4, <2>8
      <4>2. i \in 1 .. Len(pre) + Len(wH)
        BY <4>1
      <4>3. (pre \o wH)[i] = IF i <= Len(pre) THEN pre[i] ELSE wH[i - Len(pre)]
        BY <2>4, <2>8, <4>2, ConcatProperties
      <4>4. DOMAIN pre = 1 .. Len(pre) /\ DOMAIN wH = 1 .. Len(wH)
        BY <2>4, <2>8
      <4> QED BY <4>1, <4>2, <4>3, <4>4
    <3>2. ASSUME NEW j \in DOMAIN pre PROVE pre[j].at \in 0 .. Size - 1
      <4>1. pre[j] \in RawWrites /\ Fits(pre[j], T)
        BY <2>4
      <4>2. pre[j].at \in DOMAIN T
        BY <4>1, AtInTarget
      <4>3. pre[j].at \in e + HeaderSize .. e + 2 * HeaderSize + Width[p] - 1
        BY <1>2, <4>2, FreshIs
      <4> QED BY <1>2, <2>1, <4>3
    <3>3. ASSUME NEW j \in DOMAIN wH PROVE wH[j].at \in 0 .. Size - 1
      <4>1. DOMAIN U = {e, e + 1}
        OBVIOUS
      <4> HIDE DEF U
      <4>2. wH[j] \in RawWrites /\ Fits(wH[j], U)
        BY <2>8
      <4>3. wH[j].at \in DOMAIN U
        BY <4>2, AtInTarget
      <4> QED BY <1>2, <4>1, <4>3
    <3> QED BY <3>1, <3>2, <3>3
  <2>10. pre \o wH \in Seq(RawWrites) /\ InRange(pre \o wH)
    BY <2>4, <2>8, <2>9 DEF InRange
  <2> QED BY <2>1, <2>7, <2>10
<1> QED BY <1>4, <1>5

-----------------------------------------------------------------------------
(* The invariant.                                                          *)

\* The words form a log, and a save under way does one of the three things.
LogInv ==
    \E B, e : /\ Log(storage, B, e)
              /\ todo # << >> => Doing(storage, todo, Table[pos], ram[Table[pos]], B, e)

\* A save under way has a row, which is not reported written yet.
RowInv ==
    /\ todo \in Seq(RawWrites)
    /\ todo # << >> => pos \in DOMAIN Table /\ outcome[Table[pos]] # "Written"

\* Whatever is stored of a parameter is a value.
LoadedValue(p) == Load(storage, p) = Absent \/ Load(storage, p) \in [1 .. Width[p] -> Words]
LoadedInv == \A p \in Params : LoadedValue(p)

IInv ==
    /\ TypeOK
    /\ ram = [p \in Params |-> ram[p]]
    /\ LogInv
    /\ RowInv
    /\ LoadedInv
    /\ WrittenIsLoaded

LEMMA TableIsSeq ==
    /\ Len(Table) \in Nat /\ DOMAIN Table = 1 .. Len(Table) /\ 0 \notin DOMAIN Table
    /\ Len(Table) + 1 \notin DOMAIN Table
    /\ \A i \in DOMAIN Table : Table[i] \in Params
<1>1. Len(Table) \in Nat /\ DOMAIN Table = 1 .. Len(Table)
  BY LayoutAssumption
<1>2. \A i \in DOMAIN Table : Table[i] \in Params
  BY DEF Params, Range
<1> QED BY <1>1, <1>2

LEMMA DefaultIsValue ==
    ASSUME NEW p \in Params
    PROVE  DefaultValue(p) \in [1 .. Width[p] -> Words]
  BY Layout DEF DefaultValue

\* No save under way.
LEMMA Idle ==
    ASSUME IInv, pos \notin DOMAIN Table
    PROVE  todo = << >>
  BY DEF IInv, RowInv

LEMMA InitIsSound == Init => IInv /\ \A p \in Params : load_raw(p) = Absent
<1> SUFFICES ASSUME Init PROVE IInv /\ \A p \in Params : load_raw(p) = Absent
  OBVIOUS
<1>1. PICK w \in {Zero, Ones} : storage = [a \in 0 .. Size - 1 |-> w]
  BY DEF Init
<1>2. storage \in Memory /\ \A a \in 0 .. Size - 1 : storage[a] = w
  BY <1>1 DEF Memory, AllWords
<1> DEFINE B == {HeaderSize}
           e == HeaderSize
<1>3. HeaderAt(storage, e) = <<w, w>>
  BY <1>2, Layout DEF HeaderAt
<1>4. Log(storage, B, e)
  <2>1. is_sentinel(HeaderAt(storage, e))
    BY <1>3 DEF is_sentinel
  <2>2. Chain(storage, B, e)
    BY <2>1, Layout DEF Chain
  <2>3. Unique(storage, B)
    BY DEF Unique
  <2> QED BY <2>2, <2>3 DEF Log
<1>5. \A p \in Params : \A b \in B : ~Found(storage, b, p)
  BY <1>4, EndIsNoEntry DEF Log
<1>6. ASSUME NEW p \in Params PROVE Load(storage, p) = Absent
  <2> HIDE DEF B, e
  <2> QED BY <1>4, <1>5, Loads
<1>7. \A p \in Params : load_raw(p) = Absent
  BY <1>6, LoadRawIs
<1>8. todo = << >> /\ pos = 0 /\ forced = FALSE
      /\ ram = [p \in Params |-> DefaultValue(p)] /\ outcome = [p \in Params |-> "None"]
  BY DEF Init
<1>9. TypeOK
  <2>1. \A p \in Params : ram[p] \in [1 .. Width[p] -> Words]
    BY <1>8, DefaultIsValue
  <2>2. pos \in 0 .. Len(Table) + 1
    BY <1>8, TableIsSeq
  <2>3. \A i \in DOMAIN todo : todo[i].at \in 0 .. Size - 1
    BY <1>8
  <2>4. outcome \in [Params -> Outcomes]
    BY <1>8 DEF Outcomes
  <2> QED BY <1>2, <1>8, <2>1, <2>2, <2>3, <2>4 DEF TypeOK, Memory
<1>10. LogInv
  BY <1>4, <1>8 DEF LogInv
<1> QED BY <1>6, <1>7, <1>8, <1>9, <1>10 DEF IInv, RowInv, LoadedInv, LoadedValue, WrittenIsLoaded

-----------------------------------------------------------------------------
(* The steps.                                                              *)

LEMMA SetParamIsSound == IInv /\ SetParam => IInv' /\ \A p \in Params : load_raw(p)' = load_raw(p)
<1> SUFFICES ASSUME IInv, SetParam
             PROVE  IInv' /\ \A p \in Params : load_raw(p)' = load_raw(p)
  OBVIOUS
<1>1. todo = << >> /\ todo' = todo /\ storage' = storage /\ pos' = pos /\ forced' = forced
  BY Idle, TableIsSeq DEF SetParam
<1>2. PICK p \in Params : \E v \in Values(p) \ {ram[p]} :
          /\ ram' = [ram EXCEPT ![p] = v]
          /\ outcome' = [outcome EXCEPT ![p] = "None"]
  BY DEF SetParam
<1>3. PICK v \in Values(p) : /\ ram' = [ram EXCEPT ![p] = v]
                             /\ outcome' = [outcome EXCEPT ![p] = "None"]
  BY <1>2
<1>4. v \in [1 .. Width[p] -> Words]
  BY DEF Values
<1>5. /\ ram' = [q \in Params |-> ram'[q]]
      /\ \A q \in Params : ram'[q] = IF q = p THEN v ELSE ram[q]
      /\ outcome' \in [Params -> Outcomes]
      /\ \A q \in Params : outcome'[q] = IF q = p THEN "None" ELSE outcome[q]
  BY <1>3 DEF IInv, TypeOK, Outcomes
<1>6. TypeOK'
  BY <1>1, <1>4, <1>5 DEF IInv, TypeOK
<1>7. \A q \in Params : load_raw(q)' = load_raw(q)
  BY <1>1, LoadRawIs
<1>8. LogInv' /\ LoadedInv'
  BY <1>1 DEF IInv, LogInv, LoadedInv, LoadedValue
<1>9. RowInv'
  BY <1>1 DEF IInv, RowInv
<1>10. WrittenIsLoaded'
  BY <1>5, <1>7 DEF IInv, WrittenIsLoaded
<1> QED BY <1>5, <1>6, <1>7, <1>8, <1>9, <1>10 DEF IInv

LEMMA BeginSaveIsSound == IInv /\ BeginSave => IInv' /\ \A p \in Params : load_raw(p)' = load_raw(p)
<1> SUFFICES ASSUME IInv, BeginSave
             PROVE  IInv' /\ \A p \in Params : load_raw(p)' = load_raw(p)
  OBVIOUS
<1>1. /\ todo = << >> /\ todo' = todo /\ storage' = storage /\ ram' = ram
      /\ outcome' = [p \in Params |-> "None"]
  BY Idle, TableIsSeq DEF BeginSave
<1>2. \A p \in Params : load_raw(p)' = load_raw(p)
  BY <1>1, LoadRawIs
<1>6. LogInv' /\ LoadedInv'
  BY <1>1 DEF IInv, LogInv, LoadedInv, LoadedValue
<1>3. TypeOK'
  BY <1>1, TableIsSeq DEF IInv, TypeOK, BeginSave, Outcomes
<1>4. RowInv' /\ WrittenIsLoaded' /\ ram' = [p \in Params |-> ram'[p]]
  BY <1>1 DEF IInv, RowInv, WrittenIsLoaded
<1> QED BY <1>2, <1>3, <1>4, <1>6 DEF IInv

LEMMA EndSaveIsSound == IInv /\ EndSave => IInv' /\ \A p \in Params : load_raw(p)' = load_raw(p)
<1> SUFFICES ASSUME IInv, EndSave
             PROVE  IInv' /\ \A p \in Params : load_raw(p)' = load_raw(p)
  OBVIOUS
<1>1. /\ todo = << >> /\ todo' = todo /\ storage' = storage /\ ram' = ram /\ outcome' = outcome
  BY Idle, TableIsSeq DEF EndSave
<1>2. \A p \in Params : load_raw(p)' = load_raw(p)
  BY <1>1, LoadRawIs
<1>6. LogInv' /\ LoadedInv'
  BY <1>1 DEF IInv, LogInv, LoadedInv, LoadedValue
<1>3. TypeOK'
  BY <1>1, TableIsSeq DEF IInv, TypeOK, EndSave
<1>4. WrittenIsLoaded'
  BY <1>1, <1>2 DEF IInv, WrittenIsLoaded
<1>5. RowInv' /\ ram' = [p \in Params |-> ram'[p]]
  BY <1>1 DEF IInv, RowInv
<1> QED BY <1>2, <1>3, <1>4, <1>5, <1>6 DEF IInv

LEMMA LoadTableIs ==
    ASSUME IInv, NEW p \in Params
    PROVE  /\ LoadTable[p] = IF load_raw(p) = Absent THEN DefaultValue(p) ELSE load_raw(p)
           /\ LoadTable[p] \in [1 .. Width[p] -> Words]
<1>1. LoadTable[p] = IF load_raw(p) = Absent THEN DefaultValue(p) ELSE load_raw(p)
  BY DEF LoadTable
<1>2. load_raw(p) = Absent \/ load_raw(p) \in [1 .. Width[p] -> Words]
  BY LoadRawIs DEF IInv, LoadedInv, LoadedValue
<1> QED BY <1>1, <1>2, DefaultIsValue

LEMMA RebootIsSound == IInv /\ Reboot => IInv' /\ \A p \in Params : load_raw(p)' = load_raw(p)
<1> SUFFICES ASSUME IInv, Reboot
             PROVE  IInv' /\ \A p \in Params : load_raw(p)' = load_raw(p)
  OBVIOUS
<1>1. /\ todo' = << >> /\ pos' = 0 /\ storage' = storage /\ ram' = LoadTable
      /\ outcome' = [p \in Params |-> "None"] /\ forced' = forced
  BY DEF Reboot
<1>2. \A p \in Params : load_raw(p)' = load_raw(p)
  BY <1>1, LoadRawIs
<1>3. LogInv' /\ LoadedInv'
  BY <1>1 DEF IInv, LogInv, LoadedInv, LoadedValue
<1>4. ram' = [p \in Params |-> ram'[p]]
  BY <1>1 DEF LoadTable
<1>5. \A p \in Params : ram'[p] \in [1 .. Width[p] -> Words]
  BY <1>1, LoadTableIs
<1>6. TypeOK'
  BY <1>1, <1>5, TableIsSeq DEF IInv, TypeOK, Outcomes
<1>7. RowInv' /\ WrittenIsLoaded'
  BY <1>1 DEF RowInv, WrittenIsLoaded
<1> QED BY <1>2, <1>3, <1>4, <1>6, <1>7 DEF IInv

LEMMA SaveRowIsSound == IInv /\ SaveRow => IInv' /\ \A p \in Params : load_raw(p)' = load_raw(p)
<1> SUFFICES ASSUME IInv, SaveRow
             PROVE  IInv' /\ \A p \in Params : load_raw(p)' = load_raw(p)
  OBVIOUS
<1> DEFINE p == Table[pos]
           writes == IF should_skip_save(p) THEN << >> ELSE save_raw(p)
<1>1. /\ pos \in DOMAIN Table /\ p \in Params
      /\ storage' = storage /\ ram' = ram /\ forced' = forced
      /\ todo' = writes /\ pos' = IF writes = << >> THEN pos + 1 ELSE pos
      /\ \E o \in {"SkippedMatchesDefault", "Failed", "None"} :
            outcome' = [outcome EXCEPT ![p] = o]
  BY TableIsSeq DEF SaveRow
<1>2. /\ outcome' \in [Params -> Outcomes] /\ outcome'[p] # "Written"
      /\ \A q \in Params : outcome'[q] = "Written" => outcome[q] = "Written"
  BY <1>1 DEF IInv, TypeOK, Outcomes
<1>3. PICK B, e : Log(storage, B, e)
  BY DEF IInv, LogInv
<1>4. writes # << >> => /\ Doing(storage, writes, p, ram[p], B, e)
                        /\ writes \in Seq(RawWrites) /\ InRange(writes)
  <2>1. ram[p] \in [1 .. Width[p] -> Words]
    BY <1>1 DEF IInv, TypeOK
  <2> HIDE DEF p
  <2>2. save_raw(p) # << >> => /\ Doing(storage, save_raw(p), p, ram[p], B, e)
                               /\ save_raw(p) \in Seq(RawWrites) /\ InRange(save_raw(p))
    BY <1>1, <1>3, <2>1, SaveStarts
  <2> QED BY <2>2
<1> HIDE DEF writes
<1>5. LogInv'
  <2>1. writes # << >> => pos' = pos /\ Doing(storage', todo', Table[pos'], ram'[Table[pos']], B, e)
    BY <1>1, <1>4
  <2> QED BY <1>1, <1>3, <2>1 DEF LogInv
<1>6. RowInv'
  <2>1. todo' \in Seq(RawWrites)
    BY <1>1, <1>4, EmptySeq
  <2>2. todo' # << >> => pos' = pos
    BY <1>1
  <2> QED BY <1>1, <1>2, <2>1, <2>2 DEF RowInv
<1>7. \A q \in Params : load_raw(q)' = load_raw(q)
  BY <1>1, LoadRawIs
<1>8. WrittenIsLoaded'
  BY <1>1, <1>2, <1>7 DEF IInv, WrittenIsLoaded
<1>9. LoadedInv' /\ ram' = [q \in Params |-> ram'[q]]
  BY <1>1 DEF IInv, LoadedInv, LoadedValue
<1>10. TypeOK'
  <2>1. pos' \in 0 .. Len(Table) + 1
    BY <1>1, TableIsSeq
  <2>2. \A i \in DOMAIN todo' : todo'[i].at \in 0 .. Size - 1
    BY <1>1, <1>4 DEF InRange
  <2> QED BY <1>1, <1>2, <2>1, <2>2 DEF IInv, TypeOK
<1> QED BY <1>5, <1>6, <1>7, <1>8, <1>9, <1>10 DEF IInv

\* What a raw write shows: of one parameter, whose row the pass is at, what
\* one write may change, and nothing of the others.
WriteShows ==
    /\ ram' = ram /\ pos # 0 /\ pos' # 0
    /\ \E p \in Params : /\ Changed(storage, storage', p, ram[p])
                         /\ \A q \in Params \ {p} : Load(storage', q) = Load(storage, q)

LEMMA RawWriteIsSound == IInv /\ RawWrite => IInv' /\ WriteShows
<1> SUFFICES ASSUME IInv, RawWrite PROVE IInv' /\ WriteShows
  OBVIOUS
<1> DEFINE p == Table[pos]
<1>1. /\ todo # << >> /\ todo' = Tail(todo) /\ ram' = ram /\ forced' = forced
      /\ storage' = Applied(storage, Head(todo))
      /\ Tail(todo) = << >> => pos' = pos + 1 /\ outcome' = [outcome EXCEPT ![p] = "Written"]
      /\ Tail(todo) # << >> => pos' = pos /\ outcome' = outcome
  BY DEF RawWrite, Applied
<1>2. /\ pos \in DOMAIN Table /\ pos \in 1 .. Len(Table) /\ p \in Params
      /\ outcome[p] # "Written" /\ todo \in Seq(RawWrites)
  BY <1>1, TableIsSeq DEF IInv, RowInv
<1>3. storage \in Memory /\ ram[p] \in [1 .. Width[p] -> Words]
  BY <1>2 DEF IInv, TypeOK, Memory
<1>4. PICK B, e : Log(storage, B, e) /\ Doing(storage, todo, p, ram[p], B, e)
  BY <1>1 DEF IInv, LogInv
<1>5. Written(storage, todo, p, ram[p], storage')
  <2> HIDE DEF p
  <2> QED BY <1>1, <1>2, <1>3, <1>4, WriteStep
<1>6. /\ storage' \in Memory
      /\ \A q \in Params \ {p} : Load(storage', q) = Load(storage, q)
      /\ Changed(storage, storage', p, ram[p])
      /\ Tail(todo) = << >> => Load(storage', p) = ram[p]
  BY <1>5 DEF Written
<1>7. PICK B2, e2 : /\ Log(storage', B2, e2)
                    /\ Tail(todo) # << >> => Doing(storage', Tail(todo), p, ram[p], B2, e2)
  BY <1>5 DEF Written
<1> HIDE DEF p
<1>8. LogInv'
  <2>1. todo' # << >> => Doing(storage', todo', Table[pos'], ram'[Table[pos']], B2, e2)
    BY <1>1, <1>7 DEF p
  <2> QED BY <1>7, <2>1 DEF LogInv
<1>9. RowInv'
  <2>1. todo' \in Seq(RawWrites)
    BY <1>1, <1>2
  <2>2. todo' # << >> => pos' \in DOMAIN Table /\ outcome'[Table[pos']] # "Written"
    BY <1>1, <1>2 DEF p
  <2> QED BY <2>1, <2>2 DEF RowInv
<1>10. LoadedInv'
  <2>1. ASSUME NEW q \in Params \ {p} PROVE LoadedValue(q)'
    BY <1>6, <2>1 DEF IInv, LoadedInv, LoadedValue
  <2>2. Load(storage', p) = Absent \/ Load(storage', p) \in [1 .. Width[p] -> Words]
    <3>1. Load(storage, p) = Absent \/ Load(storage, p) \in [1 .. Width[p] -> Words]
      BY <1>2 DEF IInv, LoadedInv, LoadedValue
    <3>2. CASE Load(storage, p) # Absent /\ Mixed(storage, storage', p, ram[p])
      BY <1>3, <3>1, <3>2 DEF Mixed
    <3> QED BY <1>3, <1>6, <3>1, <3>2 DEF Changed
  <2> QED BY <2>1, <2>2 DEF LoadedInv, LoadedValue
<1>11. outcome' \in [Params -> Outcomes]
  BY <1>1 DEF IInv, TypeOK, Outcomes
<1>12. WrittenIsLoaded'
  <2> SUFFICES ASSUME NEW q \in Params, outcome'[q] = "Written" PROVE load_raw(q)' = ram'[q]
    BY DEF WrittenIsLoaded
  <2>1. CASE q = p
    <3>1. Tail(todo) = << >>
      BY <1>1, <1>2, <2>1
    <3> QED BY <1>1, <1>6, <2>1, <3>1, LoadRawIs
  <2>2. CASE q # p
    <3>1. outcome[q] = "Written"
      BY <1>1, <2>2 DEF IInv, TypeOK
    <3>2. load_raw(q) = ram[q]
      BY <3>1 DEF IInv, WrittenIsLoaded
    <3> QED BY <1>1, <1>6, <2>2, <3>2, LoadRawIs
  <2> QED BY <2>1, <2>2
<1>13. TypeOK'
  <2>1. pos' \in 0 .. Len(Table) + 1
    BY <1>1, <1>2, TableIsSeq
  <2>2. ASSUME NEW i \in DOMAIN todo' PROVE todo'[i].at \in 0 .. Size - 1
    <3>1. i + 1 \in DOMAIN todo /\ todo'[i] = todo[i + 1]
      BY <1>1, <1>2, <2>2
    <3> QED BY <3>1 DEF IInv, TypeOK
  <2> QED BY <1>1, <1>6, <1>11, <2>1, <2>2 DEF IInv, TypeOK, Memory
<1>14. WriteShows
  BY <1>1, <1>2, <1>6, TableIsSeq DEF WriteShows
<1> QED BY <1>1, <1>8, <1>9, <1>10, <1>12, <1>13, <1>14 DEF IInv

LEMMA NextKeeps == IInv /\ [Next]_vars => IInv'
<1> SUFFICES ASSUME IInv, [Next]_vars PROVE IInv'
  OBVIOUS
<1>1. CASE UNCHANGED vars
  <2>1. /\ storage' = storage /\ ram' = ram /\ pos' = pos /\ forced' = forced
        /\ todo' = todo /\ outcome' = outcome
    BY <1>1 DEF vars
  <2>2. WrittenIsLoaded'
    BY <2>1, LoadRawIs DEF IInv, WrittenIsLoaded
  <2>3. TypeOK' /\ RowInv' /\ ram' = [p \in Params |-> ram'[p]]
    BY <2>1 DEF IInv, TypeOK, RowInv
  <2>4. LogInv' /\ LoadedInv'
    BY <2>1 DEF IInv, LogInv, LoadedInv, LoadedValue
  <2> QED BY <2>2, <2>3, <2>4 DEF IInv
<1>2. CASE Next
  BY <1>2, SetParamIsSound, BeginSaveIsSound, SaveRowIsSound, RawWriteIsSound,
     EndSaveIsSound, RebootIsSound DEF Next
<1> QED BY <1>1, <1>2

-----------------------------------------------------------------------------
(* The theorems.                                                           *)

\* The words are a log whatever happens: one chain of entries, none twice,
\* up to a sentinel, and what is still to write completes one change of it.
THEOREM IInvHolds == Spec => []IInv
<1>1. Init => IInv
  BY InitIsSound
<1> QED BY <1>1, NextKeeps, PTL DEF Spec

\* Every variable has its type; every boot loads values.
THEOREM TypeOKHolds == Spec => []TypeOK
<1>1. IInv => TypeOK
  BY DEF IInv
<1> QED BY <1>1, IInvHolds, PTL

\* scan() reaches a sentinel whatever write the power was lost after.
THEOREM LogEndsInSentinelHolds == Spec => []LogEndsInSentinel
<1>1. IInv => LogEndsInSentinel
  <2> SUFFICES ASSUME IInv, NEW p \in Params PROVE scan(p).ofs # -1
    BY DEF LogEndsInSentinel
  <2>1. PICK B, e : Log(storage, B, e)
    BY DEF IInv, LogInv
  <2>2. e \in B /\ \A b \in B : b \in Nat
    BY <2>1, Layout DEF Log, Chain
  <2>3. CASE \A b \in B : ~Found(storage, b, p)
    <3>1. Walk(storage, p)[HeaderSize] = [found |-> FALSE, ofs |-> e]
      BY <2>1, <2>3, Loads
    <3> QED BY <2>2, <3>1, LoadRawIs
  <2>4. ASSUME NEW b \in B, Found(storage, b, p) PROVE scan(p).ofs # -1
    <3>1. Finds(storage, p, b)
      BY <2>1, <2>4, Loads
    <3> QED BY <2>2, <3>1, LoadRawIs DEF Finds
  <2> QED BY <2>3, <2>4
<1> QED BY <1>1, IInvHolds, PTL

\* A parameter reported written is the one the next boot loads, whatever was
\* saved, set or lost since.
THEOREM WrittenIsLoadedHolds == Spec => []WrittenIsLoaded
<1>1. IInv => WrittenIsLoaded
  BY DEF IInv
<1> QED BY <1>1, IInvHolds, PTL

-----------------------------------------------------------------------------
(* The log implements the map.                                             *)

Stored == [p \in Params |-> load_raw(p)]

LEMMA MapInit == Init => Map!Init
<1> SUFFICES ASSUME Init PROVE Map!Init
  OBVIOUS
<1>1. \A p \in Params : load_raw(p) = << >>
  BY InitIsSound DEF Absent
<1>2. Stored = [p \in Params |-> << >>]
  BY <1>1 DEF Stored
<1>3. ram = [p \in Params |-> [i \in 1 .. Width[p] |-> Default]] /\ (pos # 0) = FALSE
  BY DEF Init, DefaultValue
<1>4. ram = Map!Boot(Stored)
  BY <1>2, <1>3 DEF Map!Boot, Map!Absent
<1> QED BY <1>2, <1>3, <1>4 DEF Map!Init, Map!Absent, Stored

LEMMA MapNext == IInv /\ [Next]_vars => [Map!Next]_(Map!vars)
<1> SUFFICES ASSUME IInv, [Next]_vars PROVE Map!Next \/ UNCHANGED Map!vars
  OBVIOUS
<1>1. CASE UNCHANGED vars
  <2>1. ram' = ram /\ storage' = storage /\ pos' = pos
    BY <1>1 DEF vars
  <2>2. Stored' = Stored
    BY <2>1, LoadRawIs DEF Stored
  <2> QED BY <2>1, <2>2 DEF Map!vars, Stored
<1>2. CASE SetParam
  <2>1. Stored' = Stored
    BY <1>2, SetParamIsSound DEF Stored
  <2>2. PICK p \in Params : \E v \in Values(p) \ {ram[p]} : ram' = [ram EXCEPT ![p] = v]
    BY <1>2 DEF SetParam
  <2>3. PICK v \in Values(p) : ram' = [ram EXCEPT ![p] = v]
    BY <2>2
  <2>4. v \in Map!Values(p)
    BY DEF Values, Map!Values
  <2>5. (pos # 0) = FALSE /\ (pos # 0)' = FALSE
    BY <1>2 DEF SetParam
  <2>6. Map!Set
    BY <2>1, <2>3, <2>4, <2>5 DEF Map!Set, Stored
  <2> QED BY <2>6 DEF Map!Next
<1>3. CASE BeginSave
  <2>1. Stored' = Stored
    BY <1>3, BeginSaveIsSound DEF Stored
  <2>2. (pos # 0) = FALSE /\ (pos # 0)' = TRUE /\ ram' = ram
    BY <1>3 DEF BeginSave
  <2>3. Map!Begin
    BY <2>1, <2>2 DEF Map!Begin, Stored
  <2> QED BY <2>3 DEF Map!Next
<1>4. CASE SaveRow
  <2>1. Stored' = Stored
    BY <1>4, SaveRowIsSound DEF Stored
  <2>2. (pos # 0) = TRUE /\ (pos # 0)' = TRUE /\ ram' = ram
    BY <1>4, TableIsSeq DEF SaveRow
  <2> QED BY <2>1, <2>2 DEF Map!vars, Stored
<1>5. CASE EndSave
  <2>1. Stored' = Stored
    BY <1>5, EndSaveIsSound DEF Stored
  <2>2. (pos # 0) = TRUE /\ (pos # 0)' = FALSE /\ ram' = ram
    BY <1>5, TableIsSeq DEF EndSave
  <2>3. Map!End
    BY <2>1, <2>2 DEF Map!End, Stored
  <2> QED BY <2>3 DEF Map!Next
<1>6. CASE Reboot
  <2>1. Stored' = Stored
    BY <1>6, RebootIsSound DEF Stored
  <2>2. ram' = LoadTable /\ (pos # 0)' = FALSE
    BY <1>6 DEF Reboot
  <2>3. LoadTable = Map!Boot(Stored)
    BY DEF LoadTable, Map!Boot, Stored, Absent, Map!Absent, DefaultValue
  <2>4. Map!Reboot
    BY <2>1, <2>2, <2>3 DEF Map!Reboot, Stored
  <2> QED BY <2>4 DEF Map!Next
<1>7. CASE RawWrite
  <2>1. ram' = ram /\ (pos # 0) = TRUE /\ (pos # 0)' = TRUE
    BY <1>7, RawWriteIsSound DEF WriteShows
  <2>2. PICK p \in Params : /\ Changed(storage, storage', p, ram[p])
                            /\ \A q \in Params \ {p} : Load(storage', q) = Load(storage, q)
    BY <1>7, RawWriteIsSound DEF WriteShows
  <2>3. \A q \in Params : Stored[q] = Load(storage, q) /\ Stored'[q] = Load(storage', q)
    BY LoadRawIs DEF Stored
  <2>4. Stored = [q \in Params |-> Stored[q]] /\ Stored' = [q \in Params |-> Stored'[q]]
    BY DEF Stored
  <2>5. CASE Load(storage', p) = Load(storage, p)
    <3>1. Stored' = Stored
      BY <2>2, <2>3, <2>4, <2>5
    <3> QED BY <2>1, <3>1 DEF Map!vars, Stored
  <2>6. CASE Load(storage, p) = Absent /\ Load(storage', p) = ram[p]
    <3>1. Stored[p] = << >> /\ Stored' = [Stored EXCEPT ![p] = ram[p]]
      BY <2>2, <2>3, <2>4, <2>6 DEF Absent
    <3>2. Map!Append(p)
      BY <2>1, <3>1 DEF Map!Append, Map!Absent, Stored
    <3> QED BY <3>2 DEF Map!Next
  <2>7. CASE Load(storage, p) # Absent /\ Mixed(storage, storage', p, ram[p])
    <3>1. PICK done \in SUBSET (1 .. Width[p]) :
             Load(storage', p) =
                [i \in 1 .. Width[p] |-> IF i \in done THEN ram[p][i] ELSE Load(storage, p)[i]]
      BY <2>7 DEF Mixed
    <3>2. /\ Stored[p] # << >>
          /\ Stored' = [Stored EXCEPT ![p] =
                [i \in 1 .. Width[p] |-> IF i \in done THEN ram[p][i] ELSE Stored[p][i]]]
      BY <2>2, <2>3, <2>4, <2>7, <3>1 DEF Absent
    <3>3. Map!Overwrite(p)
      BY <2>1, <3>2 DEF Map!Overwrite, Map!Absent, Stored
    <3> QED BY <3>3 DEF Map!Next
  <2> QED BY <2>2, <2>5, <2>6, <2>7 DEF Changed
<1> QED BY <1>1, <1>2, <1>3, <1>4, <1>5, <1>6, <1>7 DEF Next

\* The log implements the map: an entry becomes visible whole and stays, and
\* no write for one parameter changes what is loaded for another.
THEOREM ImplementsMapHolds == Spec => ImplementsMap
<1>1. Spec => []IInv
  BY IInvHolds
<1> QED BY <1>1, MapInit, MapNext, PTL DEF Spec, ImplementsMap, Map!Spec
=============================================================================
