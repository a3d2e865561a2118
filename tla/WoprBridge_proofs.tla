-------------------------- MODULE WoprBridge_proofs --------------------------
(***************************************************************************)
(* For all missions, losses and capacities of WoprBridge: its types, that  *)
(* the cache is the mission flown, that the host's landing is flown, that  *)
(* an upload is whole, and that every exchange a timeout begins is bounded.*)
(***************************************************************************)
EXTENDS WoprBridge, WellFoundedInduction, SequenceTheorems, TLAPS

-----------------------------------------------------------------------------
(* The first and the last item that passes a test.                         *)

\* A set of natural numbers that is not empty has a least element.
LEMMA LeastOf ==
    ASSUME NEW S \in SUBSET Nat, S # {}
    PROVE  \E x \in S : \A y \in S : x <= y
<1>1. \E x \in S : \A y \in S : ~(<<y, x>> \in OpToRel(<, Nat))
  BY NatLessThanWellFounded, WFMin
<1>2. PICK x \in S : \A y \in S : ~(<<y, x>> \in OpToRel(<, Nat))
  BY <1>1
<1>3. \A y \in S : ~(y < x)
  BY <1>2 DEF OpToRel
<1> QED BY <1>3

LEMMA MinOf ==
    ASSUME NEW S \in SUBSET Nat, S # {}
    PROVE  Min(S) \in S
BY LeastOf DEF Min

LEMMA MaxOf ==
    ASSUME NEW n \in Nat, NEW S \in SUBSET (1 .. n), S # {}
    PROVE  Max(S) \in S
<1> DEFINE T == {n - x : x \in S}
<1>1. T \in SUBSET Nat /\ T # {}
  <2>1. ASSUME NEW x \in S PROVE n - x \in Nat
    OBVIOUS
  <2> QED BY <2>1
<1>2. PICK t \in T : \A u \in T : t <= u
  BY <1>1, LeastOf
<1>3. PICK x \in S : t = n - x
  OBVIOUS
<1>4. ASSUME NEW y \in S PROVE x >= y
  <2>1. n - y \in T
    OBVIOUS
  <2>2. n - x <= n - y
    BY <1>2, <1>3, <2>1
  <2> QED BY <2>2
<1> QED BY <1>3, <1>4 DEF Max

LEMMA GoodIsIndex ==
    ASSUME NEW items \in Seq(Items)
    PROVE  Good(items) \in 0 .. Len(items)
<1> DEFINE I == {i \in 1 .. Len(items) : items[i].cmd = "bad"}
<1>1. Good(items) = IF I # {} THEN Min(I) ELSE 0
  BY DEF Good, SelectInSeq
<1>2. Len(items) \in Nat
  OBVIOUS
<1>3. I \in SUBSET Nat
  BY <1>2
<1>4. I # {} => Min(I) \in I
  <2> HIDE DEF I
  <2> QED BY <1>3, MinOf
<1> QED BY <1>1, <1>2, <1>4

LEMMA LastLandIsIndex ==
    ASSUME NEW items \in Seq(Items)
    PROVE  LastLand(items) \in 0 .. Len(items)
<1> DEFINE I == {i \in 1 .. Len(items) : items[i].cmd = "land"}
<1>1. LastLand(items) = IF I # {} THEN Max(I) ELSE 0
  BY DEF LastLand, SelectLastInSeq
<1>2. Len(items) \in Nat
  OBVIOUS
<1>3. I # {} => Max(I) \in I
  BY <1>2, MaxOf
<1> QED BY <1>1, <1>2, <1>3

\* What is read of a request are items of it, from its first one on.
LEMMA ReadIsPrefix ==
    ASSUME NEW items \in Seq(Items)
    PROVE  Read(items) \in Seq(Items) /\ Len(Read(items)) <= Len(items)
<1>1. CASE ~Refused(items)
  BY <1>1 DEF Read
<1>2. CASE Refused(items)
  <2>1. Good(items) \in 1 .. Len(items)
    BY <1>2, GoodIsIndex DEF Refused
  <2>2. Read(items) = SubSeq(items, 1, Good(items) - 1)
    BY <1>2 DEF Read
  <2> QED BY <2>1, <2>2, SubSeqProperties
<1> QED BY <1>1, <1>2

-----------------------------------------------------------------------------
(* The invariant.  The bridge's note of a landing is checked by no run on  *)
(* its own: it is what makes HostLandIsFlown provable.                     *)

LandOf(items) ==
    IF LastLand(items) = 0 THEN None
    ELSE [index |-> LastLand(items) - 1, at |-> items[LastLand(items)].at]

\* With the host's mission in force, what is noted is its last Land item.
LandNoted == intact = "host" /\ vehicle.vtol => noted = LandOf(vehicle.items)

IInv == TypeOK /\ CacheIsFlown /\ LandNoted

Vehicles == [initialized : BOOLEAN, vtol : BOOLEAN,
             control_mode : FixedWing \cup {"failsafe"}, items : Seq(Items), index : Nat]
Notes == {None} \cup [index : Nat, at : Places]
Links == [active : BOOLEAN, count : Nat, rows : Seq(Items), cached : Seq(Items)]
Indexed(v) == v.items # << >> => v.index < Len(v.items)
Open(l) == l.active => Len(l.rows) < l.count

LEMMA InitIsSound == Init => IInv
<1> SUFFICES ASSUME Init PROVE IInv
  OBVIOUS
<1>1. TypeOK
  BY BridgeAssumption DEF Init, TypeOK, Released, None, FixedWing, Vertical
<1> QED BY <1>1 DEF IInv, Init, CacheIsFlown, LandNoted

\* What is noted of a request is typed, and of an accepted one it is the
\* last Land item.
LEMMA NotedIsLand ==
    ASSUME NEW items \in Seq(Items), noted \in Notes
    PROVE  /\ Noted(items) \in Notes
           /\ ~Refused(items) /\ vehicle.vtol => Noted(items) = LandOf(items)
<1> DEFINE last == LastLand(Read(items))
<1>1. last \in 0 .. Len(Read(items)) /\ Len(Read(items)) <= Len(items)
  BY ReadIsPrefix, LastLandIsIndex
<1>2. last # 0 => items[last] \in Items /\ last - 1 \in Nat
  BY <1>1, ReadIsPrefix
<1>3. Noted(items) = IF vehicle.vtol /\ last # 0
                     THEN [index |-> last - 1, at |-> items[last].at] ELSE None
  BY DEF Noted
<1>4. ~Refused(items) => last = LastLand(items)
  BY DEF Read
<1> HIDE DEF last
<1>5. Noted(items) \in Notes
  BY <1>2, <1>3 DEF Notes, None, Items
<1> QED BY <1>3, <1>4, <1>5 DEF LandOf

\* A tick moves the mode and the index, the latter within the mission.
LEMMA TickedKeeps ==
    ASSUME NEW v \in Vehicles, Indexed(v), NEW w \in Ticked(v)
    PROVE  /\ w \in Vehicles /\ Indexed(w)
           /\ w.items = v.items /\ w.vtol = v.vtol
<1>1. CASE w = v
  BY <1>1
<1>2. CASE \E m \in FixedWing \cup {"failsafe"} : w = [v EXCEPT !.control_mode = m]
  BY <1>2 DEF Vehicles, Indexed
<1>3. CASE v.index + 1 < Len(v.items) /\ w = [v EXCEPT !.index = @ + 1]
  BY <1>3 DEF Vehicles, Indexed
<1> QED BY <1>1, <1>2, <1>3 DEF Ticked, FixedWing

LEMMA LoadIsSound ==
    ASSUME vehicle \in Vehicles, NEW items \in Seq(Items), items # << >>
    PROVE  /\ load(items) \in Vehicles /\ Indexed(load(items))
           /\ load(items).items = items /\ load(items).vtol = vehicle.vtol
<1>1. Len(items) \in Nat /\ Len(items) # 0
  BY EmptySeq
<1>2. load(items) = [vehicle EXCEPT !.items = items, !.index = 0]
  BY DEF load
<1>3. load(items) \in Vehicles
  <2>1. load(items) = [initialized |-> vehicle.initialized, vtol |-> vehicle.vtol,
                       control_mode |-> vehicle.control_mode, items |-> items, index |-> 0]
    BY <1>2 DEF Vehicles
  <2>2. /\ vehicle.initialized \in BOOLEAN /\ vehicle.vtol \in BOOLEAN
        /\ vehicle.control_mode \in FixedWing \cup {"failsafe"}
    BY DEF Vehicles
  <2> QED BY <2>1, <2>2 DEF Vehicles
<1>4. /\ load(items).items = items /\ load(items).vtol = vehicle.vtol
      /\ load(items).index = 0
  BY <1>2 DEF Vehicles
<1> QED BY <1>1, <1>3, <1>4 DEF Indexed

\* A count, and an item in a session, leave a session that is still short
\* of rows, and are answered.
LEMMA CountIsSound ==
    ASSUME link \in Links, NEW n \in Nat
    PROVE  /\ MissionCount(n).link \in Links /\ Open(MissionCount(n).link)
           /\ MissionCount(n).reply \in ToStation
           /\ MissionCount(n).link.cached = link.cached
<1>1. CASE n \notin 1 .. MaxRows
  BY <1>1 DEF MissionCount, Links, Open, Ack, ToStation
<1>2. CASE n \in 1 .. MaxRows
  <2>1. n # 0 /\ Len(<< >>) = 0 /\ << >> \in Seq(Items)
    BY <1>2, BridgeAssumption
  <2>2. /\ MissionCount(n).link = [link EXCEPT !.active = TRUE, !.count = n, !.rows = << >>]
        /\ MissionCount(n).reply = Request(0)
    BY <1>2 DEF MissionCount
  <2>3. MissionCount(n).reply \in ToStation
    BY <2>2 DEF Request, ToStation
  <2>4. MissionCount(n).link = [active |-> TRUE, count |-> n, rows |-> << >>,
                                cached |-> link.cached]
    BY <2>2 DEF Links
  <2>5. link.cached \in Seq(Items)
    BY DEF Links
  <2>6. MissionCount(n).link \in Links
    BY <2>1, <2>4, <2>5 DEF Links
  <2>7. Open(MissionCount(n).link)
    BY <2>1, <2>4 DEF Open
  <2>8. MissionCount(n).link.cached = link.cached
    BY <2>4
  <2> QED BY <2>3, <2>6, <2>7, <2>8
<1> QED BY <1>1, <1>2

LEMMA FlyableIsSeq ==
    ASSUME NEW rows \in Seq(Items)
    PROVE  Flyable(rows) \in Seq(Items)
BY HeadTailProperties DEF Flyable

\* Only an item that completes an upload that can be flown changes the cache.
LEMMA ItemIsSound ==
    ASSUME link \in Links, Open(link), link.active, NEW seq \in Nat, NEW row \in Items
    PROVE  LET r == MissionItem(seq, row)
               rows == Append(link.rows, row)
               uploads == seq = Len(link.rows) /\ seq + 1 = link.count /\ Loadable(rows)
           IN  /\ r.link \in Links /\ Open(r.link) /\ r.reply \in ToStation
               /\ r.link.cached = IF uploads THEN rows ELSE link.cached
<1> DEFINE r == MissionItem(seq, row)
           rows == Append(link.rows, row)
           uploads == seq = Len(link.rows) /\ seq + 1 = link.count /\ Loadable(rows)
<1>1. /\ rows \in Seq(Items) /\ Len(rows) = Len(link.rows) + 1
      /\ Len(link.rows) \in Nat /\ Len(rows) \in Nat /\ link.count \in Nat
      /\ Len(link.rows) < link.count
  BY DEF Links, Open
<1>2. CASE seq # Len(link.rows)
  <2>1. r = [link |-> link, reply |-> Request(Len(link.rows))]
    BY <1>2 DEF MissionItem
  <2> QED BY <1>1, <1>2, <2>1 DEF Request, ToStation
<1>3. CASE seq = Len(link.rows) /\ Len(rows) < link.count
  <2>1. r = [link |-> [link EXCEPT !.rows = rows], reply |-> Request(Len(rows))]
    BY <1>3 DEF MissionItem
  <2> HIDE DEF rows
  <2>2. r.link \in Links /\ Open(r.link) /\ r.link.cached = link.cached
    <3>1. r.link = [active |-> link.active, count |-> link.count, rows |-> rows,
                    cached |-> link.cached]
      <4>1. r.link = [link EXCEPT !.rows = rows]
        BY <2>1
      <4> QED BY <4>1 DEF Links
    <3>2. link.active \in BOOLEAN /\ link.cached \in Seq(Items)
      BY DEF Links
    <3>3. r.link \in Links
      BY <1>1, <3>1, <3>2 DEF Links
    <3>4. Open(r.link)
      BY <1>1, <1>3, <3>1 DEF Open
    <3> QED BY <3>1, <3>3, <3>4
  <2>3. r.reply \in ToStation
    BY <1>1, <2>1 DEF Request, ToStation
  <2>4. ~uploads
    BY <1>1, <1>3
  <2> QED BY <2>2, <2>3, <2>4 DEF rows
<1>4. CASE seq = Len(link.rows) /\ ~(Len(rows) < link.count)
  <2>1. r = [link |-> Completed(rows), reply |-> Ack(Loadable(rows))]
    BY <1>4 DEF MissionItem
  <2>2. seq + 1 = link.count
    BY <1>1, <1>4
  <2>3. Loadable(rows) \in BOOLEAN
    BY DEF Loadable, Refused
  <2> HIDE DEF rows
  <2>4. /\ r.link \in Links /\ Open(r.link)
        /\ r.link.cached = IF Loadable(rows) THEN rows ELSE link.cached
    <3>1. r.link = [active |-> FALSE, count |-> link.count, rows |-> rows,
                    cached |-> IF Loadable(rows) THEN rows ELSE link.cached]
      <4>1. r.link = Completed(rows)
        BY <2>1
      <4>2. Completed(rows) = [link EXCEPT !.active = FALSE, !.rows = rows,
                                 !.cached = IF Loadable(rows) THEN rows ELSE link.cached]
        BY DEF Completed
      <4> QED BY <4>1, <4>2 DEF Links
    <3>2. (IF Loadable(rows) THEN rows ELSE link.cached) \in Seq(Items)
      BY <1>1 DEF Links
    <3> DEFINE cached == IF Loadable(rows) THEN rows ELSE link.cached
    <3> HIDE DEF cached
    <3>3. r.link \in Links
      BY <1>1, <3>1, <3>2 DEF Links, cached
    <3>4. Open(r.link)
      BY <3>1 DEF Open
    <3> QED BY <3>1, <3>3, <3>4
  <2>5. r.reply \in ToStation
    BY <2>1, <2>3 DEF Ack, ToStation
  <2> QED BY <1>4, <2>2, <2>4, <2>5 DEF rows
<1> QED BY <1>2, <1>3, <1>4

-----------------------------------------------------------------------------
(* The invariant is kept.  One lemma per request and per datagram.         *)

Pilots == [mode : Vertical \cup {"manual"}, target : Places \cup {"spot"}]
Stations == [mission : Seq(Items), answer : {"idle", "no", "accepted", "refused"}]

\* The vehicle and the bridge's own state.
BridgeTyped == /\ vehicle \in Vehicles /\ Indexed(vehicle)
               /\ pilot \in Pilots /\ noted \in Notes
               /\ intact \in {"none", "host", "gcs"}

\* The session, the station and the network.
LinkTyped == /\ link \in Links /\ Open(link) /\ gcs \in Stations
             /\ up \in Seq(ToBridge) /\ down \in Seq(ToStation)
             /\ lost \in 0 .. MaxLosses

LEMMA Parts == TypeOK <=> BridgeTyped /\ LinkTyped
BY DEF TypeOK, BridgeTyped, LinkTyped, Vehicles, Indexed, Pilots, Notes, Links, Open,
       Stations

LEMMA PartsNext == BridgeTyped' /\ LinkTyped' => TypeOK'
BY DEF TypeOK, BridgeTyped, LinkTyped, Vehicles, Indexed, Pilots, Notes, Links, Open,
       Stations

\* Only the mission, its note and its cache matter to CacheIsFlown and
\* LandNoted.
LEMMA MissionKept ==
    ASSUME IInv, UNCHANGED <<noted, intact>>, link'.cached = link.cached,
           vehicle'.items = vehicle.items, vehicle'.vtol = vehicle.vtol
    PROVE  CacheIsFlown' /\ LandNoted'
BY DEF IInv, CacheIsFlown, LandNoted

LEMMA LinkKept ==
    ASSUME IInv, UNCHANGED <<link, gcs, up, down, lost>>
    PROVE  LinkTyped'
BY Parts DEF IInv, LinkTyped

LEMMA InitKeeps == IInv /\ init => IInv'
<1> SUFFICES ASSUME IInv, init PROVE IInv'
  OBVIOUS
<1>1. PICK ok, vtol \in BOOLEAN :
        vehicle' = [initialized |-> ok, vtol |-> vtol, control_mode |-> "other",
                    items |-> << >>, index |-> 0]
  BY DEF init
<1>2. BridgeTyped'
  BY <1>1, Parts DEF IInv, init, BridgeTyped, Vehicles, Indexed, Pilots, Notes, Released,
                     None, FixedWing
<1>3. LinkTyped'
  BY LinkKept DEF init
<1> QED BY <1>2, <1>3, PartsNext DEF IInv, init, CacheIsFlown, LandNoted

LEMMA ModeKeeps ==
    ASSUME IInv, NEW m \in FixedWing \cup Vertical, set_mode(m)
    PROVE  IInv'
<1>1. BridgeTyped
  BY Parts DEF IInv
<1>2. PICK c \in FixedWing : vehicle' = [vehicle EXCEPT !.control_mode = c]
  BY DEF set_mode, FixedWing
<1>3. /\ vehicle' \in Vehicles /\ Indexed(vehicle')
      /\ vehicle'.items = vehicle.items /\ vehicle'.vtol = vehicle.vtol
  BY <1>1, <1>2 DEF BridgeTyped, Vehicles, Indexed
<1>4. pilot' \in Pilots
  BY DEF set_mode, Pilots, Released
<1>5. BridgeTyped'
  BY <1>1, <1>3, <1>4 DEF BridgeTyped, set_mode
<1>6. LinkTyped' /\ CacheIsFlown' /\ LandNoted'
  BY <1>3, LinkKept, MissionKept DEF set_mode
<1> QED BY <1>5, <1>6, PartsNext DEF IInv

LEMMA MissionKeeps ==
    ASSUME IInv, NEW items \in HostMissions, set_mission(items)
    PROVE  IInv'
<1>1. BridgeTyped /\ items \in Seq(Items) /\ items # << >>
  BY Parts, BridgeAssumption DEF IInv, set_mission
<1>2. noted' \in Notes
  BY <1>1, NotedIsLand DEF BridgeTyped, set_mission
<1>3. vehicle' \in Vehicles /\ Indexed(vehicle')
  BY <1>1, LoadIsSound DEF BridgeTyped, set_mission
<1>4. BridgeTyped'
  BY <1>1, <1>2, <1>3 DEF BridgeTyped, set_mission
<1>5. LinkTyped'
  BY LinkKept DEF set_mission
<1>6. CacheIsFlown'
  BY DEF CacheIsFlown, set_mission
<1>7. LandNoted'
  <2> SUFFICES ASSUME ~Refused(items), vehicle'.vtol PROVE noted' = LandOf(vehicle'.items)
    BY DEF LandNoted, set_mission
  <2>1. vehicle' = load(items) /\ noted' = Noted(items)
    BY DEF set_mission
  <2>2. load(items).items = items /\ load(items).vtol = vehicle.vtol
    BY <1>1, LoadIsSound DEF BridgeTyped
  <2> QED BY <1>1, <2>1, <2>2, NotedIsLand DEF BridgeTyped
<1> QED BY <1>4, <1>5, <1>6, <1>7, PartsNext DEF IInv

LEMMA DisarmKeeps == IInv /\ disarm => IInv'
<1> SUFFICES ASSUME IInv, disarm PROVE IInv'
  OBVIOUS
<1>1. BridgeTyped
  BY Parts DEF IInv
<1>2. vehicle' = vehicle \/ vehicle' = [vehicle EXCEPT !.index = 0]
  BY DEF disarm
<1>3. vehicle.items \in Seq(Items)
  BY <1>1 DEF BridgeTyped, Vehicles
<1>4. vehicle.items # << >> => 0 < Len(vehicle.items)
  BY <1>3, EmptySeq
<1>5. /\ vehicle' \in Vehicles /\ Indexed(vehicle')
      /\ vehicle'.items = vehicle.items /\ vehicle'.vtol = vehicle.vtol
  BY <1>1, <1>2, <1>4 DEF BridgeTyped, Vehicles, Indexed
<1>6. BridgeTyped'
  BY <1>1, <1>5 DEF BridgeTyped, disarm
<1>7. LinkTyped' /\ CacheIsFlown' /\ LandNoted'
  BY <1>5, LinkKept, MissionKept DEF disarm
<1> QED BY <1>6, <1>7, PartsNext DEF IInv

LEMMA StepKeeps == IInv /\ step => IInv'
<1> SUFFICES ASSUME IInv, step PROVE IInv'
  OBVIOUS
<1> DEFINE v == IF Takeover THEN [vehicle EXCEPT !.control_mode = "fbwa"] ELSE vehicle
<1>1. BridgeTyped
  BY Parts DEF IInv
<1>2. v \in Vehicles /\ Indexed(v) /\ v.items = vehicle.items /\ v.vtol = vehicle.vtol
  BY <1>1 DEF BridgeTyped, Vehicles, Indexed, FixedWing
<1>3. vehicle' \in Ticked(v)
  BY DEF step
<1> HIDE DEF v
<1>4. /\ vehicle' \in Vehicles /\ Indexed(vehicle')
      /\ vehicle'.items = vehicle.items /\ vehicle'.vtol = vehicle.vtol
  BY <1>2, <1>3, TickedKeeps
<1>5. pilot' \in Pilots
  BY <1>1 DEF step, Takeover, BridgeTyped, Pilots, Notes, None, Vertical
<1>6. BridgeTyped'
  BY <1>1, <1>4, <1>5 DEF BridgeTyped, step
<1>7. LinkTyped' /\ CacheIsFlown' /\ LandNoted'
  BY <1>4, LinkKept, MissionKept DEF step
<1> QED BY <1>6, <1>7, PartsNext DEF IInv

\* Loading what was uploaded is what fills the cache.
LEMMA FrameKeeps == IInv /\ handle_frame => IInv'
<1> SUFFICES ASSUME IInv, handle_frame PROVE IInv'
  OBVIOUS
<1> DEFINE m == Head(up)
           rows == Append(link.rows, m.row)
<1>1. BridgeTyped /\ LinkTyped
  BY Parts DEF IInv
<1>2. m \in ToBridge /\ up' \in Seq(ToBridge)
  BY <1>1, HeadTailProperties DEF LinkTyped, handle_frame
<1>3. UNCHANGED <<pilot, noted, gcs, lost>>
  BY DEF handle_frame
<1>4. CASE m.type = "count"
  <2>1. m.n \in Nat /\ ~Uploads(m)
    BY <1>2, <1>4 DEF ToBridge, Uploads
  <2>2. /\ link' = MissionCount(m.n).link /\ down' = Append(down, MissionCount(m.n).reply)
        /\ UNCHANGED <<vehicle, intact>>
    BY <1>4, <2>1 DEF handle_frame
  <2>3. /\ link' \in Links /\ Open(link') /\ link'.cached = link.cached
        /\ down' \in Seq(ToStation)
    BY <1>1, <2>1, <2>2, CountIsSound, AppendProperties DEF LinkTyped
  <2>4. BridgeTyped' /\ LinkTyped'
    BY <1>1, <1>2, <1>3, <2>2, <2>3 DEF BridgeTyped, LinkTyped
  <2> QED BY <1>3, <2>2, <2>3, <2>4, MissionKept, PartsNext DEF IInv
<1>5. CASE m.type = "item" /\ ~link.active
  <2>1. ~Uploads(m)
    BY <1>5 DEF Uploads
  <2>2. UNCHANGED <<vehicle, intact, link, down>>
    BY <1>5, <2>1 DEF handle_frame
  <2>3. BridgeTyped' /\ LinkTyped'
    BY <1>1, <1>2, <1>3, <2>2 DEF BridgeTyped, LinkTyped
  <2> QED BY <1>3, <2>2, <2>3, MissionKept, PartsNext DEF IInv
<1>6. CASE m.type = "item" /\ link.active
  <2>1. m.seq \in Nat /\ m.row \in Items
    BY <1>2, <1>6 DEF ToBridge
  <2>2. /\ link' = MissionItem(m.seq, m.row).link
        /\ down' = Append(down, MissionItem(m.seq, m.row).reply)
    BY <1>6 DEF handle_frame
  <2>3. Uploads(m) <=> m.seq = Len(link.rows) /\ m.seq + 1 = link.count /\ Loadable(rows)
    BY <1>6 DEF Uploads
  <2>4. /\ link' \in Links /\ Open(link') /\ down' \in Seq(ToStation)
        /\ link'.cached = IF Uploads(m) THEN rows ELSE link.cached
    BY <1>1, <1>6, <2>1, <2>2, <2>3, ItemIsSound, AppendProperties DEF LinkTyped
  <2>5. LinkTyped'
    BY <1>1, <1>2, <1>3, <2>4 DEF LinkTyped
  <2>6. CASE ~Uploads(m)
    <3>1. UNCHANGED <<vehicle, intact>>
      BY <2>6 DEF handle_frame
    <3>2. BridgeTyped'
      BY <1>1, <1>3, <3>1 DEF BridgeTyped
    <3> QED BY <1>3, <2>4, <2>5, <2>6, <3>1, <3>2, MissionKept, PartsNext DEF IInv
  <2>7. CASE Uploads(m)
    <3>1. vehicle' = load(Flyable(rows)) /\ intact' = "gcs" /\ link'.cached = rows
      BY <2>4, <2>7 DEF handle_frame
    <3>2. Flyable(rows) # << >>
      BY <2>3, <2>7 DEF Loadable
    <3>3. Flyable(rows) \in Seq(Items)
      <4>1. rows \in Seq(Items)
        BY <1>1, <2>1 DEF LinkTyped, Links
      <4> QED BY <4>1, FlyableIsSeq
    <3>4. vehicle' \in Vehicles /\ Indexed(vehicle') /\ vehicle'.items = Flyable(rows)
      BY <1>1, <3>1, <3>2, <3>3, LoadIsSound DEF BridgeTyped
    <3>5. BridgeTyped'
      BY <1>1, <1>3, <3>1, <3>4 DEF BridgeTyped
    <3>6. CacheIsFlown' /\ LandNoted'
      BY <3>1, <3>4 DEF CacheIsFlown, LandNoted
    <3> QED BY <2>5, <3>5, <3>6, PartsNext DEF IInv
  <2> QED BY <2>6, <2>7
<1> QED BY <1>2, <1>4, <1>5, <1>6 DEF ToBridge

\* What the station and the network do leaves the bridge as it is.
LEMMA OutsideKeeps ==
    ASSUME IInv, UNCHANGED <<vehicle, pilot, noted, link, intact>>,
           gcs' \in Stations, up' \in Seq(ToBridge), down' \in Seq(ToStation),
           lost' \in 0 .. MaxLosses
    PROVE  IInv'
<1>1. BridgeTyped /\ LinkTyped
  BY Parts DEF IInv
<1>2. BridgeTyped' /\ LinkTyped'
  BY <1>1 DEF BridgeTyped, LinkTyped
<1>3. CacheIsFlown' /\ LandNoted'
  BY MissionKept
<1> QED BY <1>2, <1>3, PartsNext DEF IInv

LEMMA CountIsDatagram ==
    ASSUME NEW mission \in Seq(Items), LinkTyped
    PROVE  Append(up, Count(Len(mission))) \in Seq(ToBridge)
<1>1. Count(Len(mission)) \in ToBridge
  BY DEF Count, ToBridge
<1> QED BY <1>1, AppendProperties DEF LinkTyped

LEMMA UploadKeeps ==
    ASSUME IInv, NEW mission \in GcsMissions, Upload(mission)
    PROVE  IInv'
<1>1. LinkTyped /\ mission \in Seq(Items)
  BY Parts, BridgeAssumption DEF IInv
<1>2. gcs' \in Stations
  BY <1>1 DEF Upload, Stations
<1> QED BY <1>1, <1>2, CountIsDatagram, OutsideKeeps DEF Upload, LinkTyped

LEMMA TimeoutKeeps == IInv /\ Timeout => IInv'
<1> SUFFICES ASSUME IInv, Timeout PROVE IInv'
  OBVIOUS
<1>1. LinkTyped
  BY Parts DEF IInv
<1>2. gcs.mission \in Seq(Items)
  BY <1>1 DEF LinkTyped, Stations
<1> QED BY <1>1, <1>2, CountIsDatagram, OutsideKeeps DEF Timeout, LinkTyped

LEMMA ReceiveKeeps == IInv /\ Receive => IInv'
<1> SUFFICES ASSUME IInv, Receive PROVE IInv'
  OBVIOUS
<1> DEFINE m == Head(down)
           asked == m.type = "request" /\ gcs.answer = "no" /\ m.seq < Len(gcs.mission)
<1>1. LinkTyped
  BY Parts DEF IInv
<1>2. m \in ToStation /\ down' \in Seq(ToStation)
  BY <1>1, HeadTailProperties DEF LinkTyped, Receive
<1>3. gcs' \in Stations
  BY <1>1 DEF LinkTyped, Receive, Stations
<1>4. up' \in Seq(ToBridge)
  <2>1. CASE ~asked
    BY <1>1, <2>1 DEF LinkTyped, Receive
  <2>2. CASE asked
    <3>1. m.seq \in Nat
      BY <1>2, <2>2 DEF ToStation
    <3>2. gcs.mission[m.seq + 1] \in Items
      BY <1>1, <2>2, <3>1 DEF LinkTyped, Stations
    <3>3. Item(m.seq, gcs.mission[m.seq + 1]) \in ToBridge
      BY <3>1, <3>2 DEF Item, ToBridge
    <3>4. up' = Append(up, Item(m.seq, gcs.mission[m.seq + 1]))
      BY <2>2 DEF Receive
    <3> QED BY <1>1, <3>3, <3>4, AppendProperties DEF LinkTyped
  <2> QED BY <2>1, <2>2
<1> QED BY <1>1, <1>2, <1>3, <1>4, OutsideKeeps DEF Receive, LinkTyped

LEMMA LoseKeeps == IInv /\ Lose => IInv'
<1> SUFFICES ASSUME IInv, Lose PROVE IInv'
  OBVIOUS
<1>1. LinkTyped
  BY Parts DEF IInv
<1>2. up' \in Seq(ToBridge) /\ down' \in Seq(ToStation)
  BY <1>1, HeadTailProperties DEF LinkTyped, Lose
<1>3. lost' \in 0 .. MaxLosses
  BY <1>1, BridgeAssumption DEF LinkTyped, Lose
<1> QED BY <1>1, <1>2, <1>3, OutsideKeeps DEF Lose, LinkTyped

LEMMA IdleKeeps == IInv /\ UNCHANGED vars => IInv'
BY DEF IInv, TypeOK, CacheIsFlown, LandNoted, vars

LEMMA NextKeeps == IInv /\ [Next]_vars => IInv'
<1> SUFFICES ASSUME IInv, [Next]_vars PROVE IInv'
  OBVIOUS
<1>1. CASE Host
  BY <1>1, InitKeeps, ModeKeeps, MissionKeeps, DisarmKeeps, StepKeeps DEF Host
<1>2. CASE \E m \in GcsMissions : Upload(m)
  BY <1>2, UploadKeeps
<1>3. CASE handle_frame \/ Timeout \/ Receive \/ Lose
  BY <1>3, FrameKeeps, TimeoutKeeps, ReceiveKeeps, LoseKeeps
<1>4. CASE UNCHANGED vars
  BY <1>4, IdleKeeps
<1> QED BY <1>1, <1>2, <1>3, <1>4 DEF Next

-----------------------------------------------------------------------------
(* The theorems.                                                           *)

\* The invariant the theorems rest on holds in every behaviour.
THEOREM IInvHolds == Spec => []IInv
<1> QED BY InitIsSound, NextKeeps, PTL DEF Spec

\* The bridge, the session and the datagrams keep their types; the index of
\* the mission stays within it, and a session is always short of a row.
THEOREM TypeOKHolds == Spec => []TypeOK
<1>1. IInv => TypeOK
  BY DEF IInv
<1> QED BY <1>1, IInvHolds, PTL

\* What a ground station downloads is what the vehicle flies, until the host
\* starts another model or sends a mission: for all missions, capacities and
\* losses.
THEOREM CacheIsFlownHolds == Spec => []CacheIsFlown
<1>1. IInv => CacheIsFlown
  BY DEF IInv
<1> QED BY <1>1, IInvHolds, PTL

\* The step that lands the host's mission.
LEMMA LandingIsNoted ==
    ASSUME IInv, intact = "host", Landing
    PROVE  IF vehicle.index + 1 = LastLand(vehicle.items)
           THEN LandsHere(Current.at) ELSE pilot' = pilot
<1>1. BridgeTyped /\ step /\ vehicle.vtol /\ current_mode = "auto"
  BY Parts DEF IInv, Landing
<1>2. noted = LandOf(vehicle.items)
  BY <1>1 DEF IInv, LandNoted
<1>3. vehicle.index \in Nat /\ vehicle.items \in Seq(Items)
  BY <1>1 DEF BridgeTyped, Vehicles
<1>4. LastLand(vehicle.items) \in 0 .. Len(vehicle.items)
  BY <1>3, LastLandIsIndex
<1>5. pilot.mode # "qland"
  BY <1>1 DEF current_mode, Vertical
<1>6. pilot' = IF Takeover THEN [mode |-> "qland", target |-> noted.at] ELSE pilot
  BY <1>1 DEF step
<1>7. CASE LastLand(vehicle.items) = 0
  <2>1. noted = None
    BY <1>2, <1>7 DEF LandOf
  <2> QED BY <1>3, <1>6, <1>7, <2>1 DEF Takeover
<1>8. CASE LastLand(vehicle.items) # 0
  <2>1. /\ noted.index = LastLand(vehicle.items) - 1
        /\ noted.at = vehicle.items[LastLand(vehicle.items)].at
    BY <1>2, <1>8 DEF LandOf
  <2>2. noted # None
    BY <1>4, <1>8, <2>1 DEF None
  <2>3. Takeover <=> vehicle.index + 1 = LastLand(vehicle.items)
    BY <1>1, <1>3, <1>4, <1>5, <2>1, <2>2 DEF Takeover
  <2> QED BY <1>6, <2>1, <2>3 DEF LandsHere, Current
<1> QED BY <1>7, <1>8

\* With the host's mission in force, AUTO on a VTOL model lands at its last
\* Land item when it has come there, and nowhere before.
THEOREM HostLandIsFlownHolds == Spec => HostLandIsFlown
<1>1. IInv /\ [Next]_vars
        => [intact = "host" /\ Landing
              => IF vehicle.index + 1 = LastLand(vehicle.items)
                 THEN LandsHere(Current.at) ELSE pilot' = pilot]_vars
  BY LandingIsNoted
<1> QED BY <1>1, IInvHolds, PTL DEF Spec, HostLandIsFlown

-----------------------------------------------------------------------------
(* Uploads without loss.  Every datagram to the bridge belongs to a        *)
(* mission: a count begins one, an item is a row of the one begun last.    *)

\* Between the missions m and n stands the datagram d.
Leads(m, d, n) ==
    IF d.type = "count" THEN n \in GcsMissions /\ d.n = Len(n)
    ELSE n = m /\ d.seq + 1 \in DOMAIN m /\ d.row = m[d.seq + 1]

\* The session l has the first rows of the mission m, and its count.
SessionOf(l, m) ==
    l.active => /\ m \in GcsMissions /\ l.count = Len(m)
                /\ \A k \in DOMAIN l.rows : k \in DOMAIN m /\ l.rows[k] = m[k]

\* From the mission of the session to the one the ground station uploads.
Marked(marks, u, l, m) ==
    /\ marks \in [1 .. Len(u) + 1 -> GcsMissions \cup {<< >>}]
    /\ SessionOf(l, marks[1])
    /\ \A i \in 1 .. Len(u) : Leads(marks[i], u[i], marks[i + 1])
    /\ marks[Len(u) + 1] = m
InOrder(u, l, m) == \E marks : Marked(marks, u, l, m)

StationInv == gcs.answer = "no" => gcs.mission \in GcsMissions
WholeInv == /\ IInv /\ StationInv
            /\ lost = 0 => InOrder(up, link, gcs.mission) /\ UploadIsWhole

LEMMA SentInOrder ==
    ASSUME NEW u \in Seq(ToBridge), NEW l, NEW m, InOrder(u, l, m), NEW d \in ToBridge,
           NEW n \in GcsMissions \cup {<< >>}, Leads(m, d, n)
    PROVE  InOrder(Append(u, d), l, n)
<1>1. PICK marks : Marked(marks, u, l, m)
  BY DEF InOrder
<1> DEFINE next == [i \in 1 .. Len(u) + 2 |-> IF i <= Len(u) + 1 THEN marks[i] ELSE n]
<1>2. /\ Len(u) \in Nat /\ Len(Append(u, d)) = Len(u) + 1
      /\ \A i \in 1 .. Len(u) : Append(u, d)[i] = u[i]
      /\ Append(u, d)[Len(u) + 1] = d
  OBVIOUS
<1>3. next \in [1 .. Len(u) + 1 + 1 -> GcsMissions \cup {<< >>}]
  BY <1>1, <1>2 DEF Marked
<1>4. /\ \A i \in 1 .. Len(u) + 1 : next[i] = marks[i]
      /\ next[Len(u) + 2] = n /\ next[Len(u) + 1 + 1] = n
  BY <1>2
<1> HIDE DEF next
<1>5. SessionOf(l, next[1])
  BY <1>1, <1>2, <1>4 DEF Marked
<1>6. ASSUME NEW i \in 1 .. Len(u) + 1
      PROVE  Leads(next[i], Append(u, d)[i], next[i + 1])
  <2>1. CASE i = Len(u) + 1
    BY <1>1, <1>2, <1>4, <2>1 DEF Marked
  <2>2. CASE i \in 1 .. Len(u)
    <3>1. next[i] = marks[i] /\ next[i + 1] = marks[i + 1]
      BY <1>2, <1>4, <2>2
    <3> QED BY <1>1, <1>2, <2>2, <3>1 DEF Marked
  <2> QED BY <1>2, <2>1, <2>2
<1>7. Marked(next, Append(u, d), l, n)
  BY <1>2, <1>3, <1>4, <1>5, <1>6 DEF Marked
<1> QED BY <1>7 DEF InOrder

\* One datagram is handled: the session goes on to the next mission.
LEMMA HandledInOrder ==
    ASSUME NEW u \in Seq(ToBridge), u # << >>, NEW l, NEW m, InOrder(u, l, m),
           NEW r,
           \A S, T \in GcsMissions \cup {<< >>} :
              SessionOf(l, S) /\ Leads(S, Head(u), T) => SessionOf(r, T)
    PROVE  InOrder(Tail(u), r, m)
<1>1. PICK marks : Marked(marks, u, l, m)
  BY DEF InOrder
<1> DEFINE next == [i \in 1 .. Len(u) |-> marks[i + 1]]
<1>2. /\ Len(u) \in Nat \ {0} /\ Len(Tail(u)) = Len(u) - 1 /\ Head(u) = u[1]
      /\ \A i \in 1 .. Len(u) - 1 : Tail(u)[i] = u[i + 1]
  OBVIOUS
<1>3. /\ next \in [1 .. Len(u) - 1 + 1 -> GcsMissions \cup {<< >>}]
      /\ \A i \in 1 .. Len(u) : next[i] = marks[i + 1]
  BY <1>1, <1>2 DEF Marked
<1> HIDE DEF next
<1>4. SessionOf(r, next[1])
  <2>1. SessionOf(l, marks[1]) /\ Leads(marks[1], u[1], marks[1 + 1])
    BY <1>1, <1>2 DEF Marked
  <2>2. marks[1] \in GcsMissions \cup {<< >>} /\ marks[1 + 1] \in GcsMissions \cup {<< >>}
    BY <1>1, <1>2 DEF Marked
  <2>3. SessionOf(r, marks[1 + 1])
    BY <1>2, <2>1, <2>2
  <2> QED BY <1>2, <1>3, <2>3
<1>5. ASSUME NEW i \in 1 .. Len(u) - 1
      PROVE  Leads(next[i], Tail(u)[i], next[i + 1])
  BY <1>1, <1>2, <1>3 DEF Marked
<1>6. next[Len(u) - 1 + 1] = m
  BY <1>1, <1>2, <1>3 DEF Marked
<1>7. Marked(next, Tail(u), r, m)
  BY <1>2, <1>3, <1>4, <1>5, <1>6 DEF Marked
<1> QED BY <1>7 DEF InOrder

LEMMA MissionsAreSeqs == \A S \in GcsMissions \cup {<< >>} : S \in Seq(Items)
  BY BridgeAssumption, EmptySeq

\* A count begins the mission it counts.
LEMMA CountBegins ==
    ASSUME link \in Links, NEW S, NEW T \in GcsMissions \cup {<< >>}, NEW d,
           d.type = "count", Leads(S, d, T)
    PROVE  /\ SessionOf(MissionCount(d.n).link, T)
           /\ MissionCount(d.n).link.cached = link.cached
<1>1. T \in GcsMissions /\ d.n = Len(T)
  BY DEF Leads
<1> QED BY <1>1 DEF MissionCount, SessionOf, Links

\* An item adds its row to a session of the same mission; with the last one
\* the session ends, and what is cached is the mission.
LEMMA ItemGoesOn ==
    ASSUME link \in Links, Open(link), link.active, NEW S \in GcsMissions \cup {<< >>},
           SessionOf(link, S), NEW d \in ToBridge, d.type # "count", NEW T, Leads(S, d, T)
    PROVE  LET r == MissionItem(d.seq, d.row).link
           IN  SessionOf(r, T) /\ (r.cached = link.cached \/ r.cached \in GcsMissions)
<1> DEFINE r == MissionItem(d.seq, d.row).link
           rows == Append(link.rows, d.row)
<1>1. /\ d.seq \in Nat /\ d.row \in Items /\ T = S
      /\ d.seq + 1 \in DOMAIN S /\ d.row = S[d.seq + 1]
  BY DEF ToBridge, Leads
<1>2. /\ S \in GcsMissions /\ S \in Seq(Items) /\ link.count = Len(S)
      /\ \A k \in DOMAIN link.rows : k \in DOMAIN S /\ link.rows[k] = S[k]
  BY MissionsAreSeqs DEF SessionOf
<1>3. link.rows \in Seq(Items) /\ Len(link.rows) < link.count
  BY DEF Links, Open
<1>4. /\ rows \in Seq(Items) /\ Len(rows) = Len(link.rows) + 1 /\ Len(link.rows) \in Nat
      /\ DOMAIN rows = 1 .. Len(link.rows) + 1 /\ DOMAIN link.rows = 1 .. Len(link.rows)
      /\ \A k \in 1 .. Len(link.rows) : rows[k] = link.rows[k]
      /\ rows[Len(link.rows) + 1] = d.row
  BY <1>1, <1>3
<1> HIDE DEF rows
<1>5. ASSUME d.seq = Len(link.rows)
      PROVE  \A k \in DOMAIN rows : k \in DOMAIN S /\ rows[k] = S[k]
  BY <1>1, <1>2, <1>4, <1>5
<1>6. CASE d.seq # Len(link.rows)
  BY <1>1, <1>6 DEF MissionItem
<1>7. CASE d.seq = Len(link.rows) /\ Len(rows) < link.count
  <2>1. r = [link EXCEPT !.rows = rows]
    BY <1>7 DEF MissionItem, rows
  <2>2. r.active /\ r.count = link.count /\ r.rows = rows /\ r.cached = link.cached
    BY <2>1 DEF Links
  <2> QED BY <1>1, <1>2, <1>5, <1>7, <2>2 DEF SessionOf
<1>8. CASE d.seq = Len(link.rows) /\ ~(Len(rows) < link.count)
  <2>1. r = Completed(rows)
    BY <1>8 DEF MissionItem, rows
  <2>2. ~r.active /\ (r.cached = rows \/ r.cached = link.cached)
    BY <2>1 DEF Completed, Links
  <2>3. rows = S
    BY <1>2, <1>3, <1>4, <1>5, <1>8
  <2> QED BY <1>2, <2>2, <2>3 DEF SessionOf
<1> QED BY <1>6, <1>7, <1>8

\* The session, the datagrams and what the station uploads stay.
LEMMA OrderKept ==
    ASSUME WholeInv, IInv', UNCHANGED <<link, gcs, up>>, lost' = 0 => lost = 0
    PROVE  WholeInv'
  BY DEF WholeInv, StationInv, UploadIsWhole

LEMMA HostOrder == WholeInv /\ Host => WholeInv'
<1> SUFFICES ASSUME WholeInv, Host PROVE WholeInv'
  OBVIOUS
<1>1. IInv'
  BY NextKeeps DEF WholeInv, Next
<1>2. UNCHANGED <<link, gcs, up, lost>>
  BY DEF Host, init, set_mode, set_mission, disarm, step
<1> QED BY <1>1, <1>2, OrderKept

LEMMA FrameOrder == WholeInv /\ handle_frame => WholeInv'
<1> SUFFICES ASSUME WholeInv, handle_frame PROVE WholeInv'
  OBVIOUS
<1> DEFINE d == Head(up)
<1>1. IInv' /\ LinkTyped
  BY NextKeeps, Parts DEF WholeInv, Next, IInv
<1>2. /\ up # << >> /\ up' = Tail(up) /\ gcs' = gcs /\ lost' = lost
      /\ up \in Seq(ToBridge) /\ d \in ToBridge /\ link \in Links /\ Open(link)
  BY <1>1, HeadTailProperties DEF handle_frame, LinkTyped
<1>3. CASE lost # 0
  BY <1>1, <1>2, <1>3 DEF WholeInv, StationInv
<1>4. ASSUME NEW S \in GcsMissions \cup {<< >>}, NEW T \in GcsMissions \cup {<< >>},
             SessionOf(link, S), Leads(S, d, T)
      PROVE  SessionOf(link', T) /\ (link'.cached = link.cached \/ link'.cached \in GcsMissions)
  <2>1. CASE d.type = "count"
    <3>1. link' = MissionCount(d.n).link
      BY <2>1 DEF handle_frame
    <3> HIDE DEF d
    <3> QED BY <1>2, <1>4, <2>1, <3>1, CountBegins
  <2>2. CASE d.type # "count" /\ ~link.active
    <3>1. d.type = "item"
      BY <1>2, <2>2 DEF ToBridge
    <3>2. link' = link
      BY <2>2, <3>1 DEF handle_frame
    <3> QED BY <2>2, <3>2 DEF SessionOf
  <2>3. CASE d.type # "count" /\ link.active
    <3>1. link' = MissionItem(d.seq, d.row).link
      BY <2>3 DEF handle_frame
    <3> HIDE DEF d
    <3> QED BY <1>2, <1>4, <2>3, <3>1, ItemGoesOn
  <2> QED BY <2>1, <2>2, <2>3
<1>5. CASE lost = 0
  <2>1. InOrder(up, link, gcs.mission) /\ UploadIsWhole
    BY <1>5 DEF WholeInv
  <2>2. InOrder(up', link', gcs'.mission)
    <3> HIDE DEF d
    <3>1. \A S, T \in GcsMissions \cup {<< >>} :
             SessionOf(link, S) /\ Leads(S, Head(up), T) => SessionOf(link', T)
      BY <1>4 DEF d
    <3> QED BY <1>2, <2>1, <3>1, HandledInOrder
  <2>3. UploadIsWhole'
    <3>1. PICK marks : Marked(marks, up, link, gcs.mission)
      BY <2>1 DEF InOrder
    <3>2. Len(up) \in Nat \ {0} /\ d = up[1]
      BY <1>2
    <3>3. /\ marks[1] \in GcsMissions \cup {<< >>} /\ marks[1 + 1] \in GcsMissions \cup {<< >>}
          /\ SessionOf(link, marks[1]) /\ Leads(marks[1], d, marks[1 + 1])
      BY <3>1, <3>2 DEF Marked
    <3>4. link'.cached = link.cached \/ link'.cached \in GcsMissions
      <4> HIDE DEF d
      <4> QED BY <1>4, <3>3
    <3> QED BY <1>5, <2>1, <3>4 DEF UploadIsWhole
  <2> QED BY <1>1, <1>2, <2>2, <2>3 DEF WholeInv, StationInv
<1> QED BY <1>3, <1>5

LEMMA UploadOrder ==
    ASSUME WholeInv, NEW mission \in GcsMissions, Upload(mission)
    PROVE  WholeInv'
<1>1. IInv' /\ LinkTyped
  BY NextKeeps, Parts DEF WholeInv, Next, IInv
<1>2. /\ up \in Seq(ToBridge) /\ up' = Append(up, Count(Len(mission)))
      /\ link' = link /\ lost' = lost /\ gcs'.mission = mission
  BY <1>1 DEF Upload, LinkTyped
<1>3. Count(Len(mission)) \in ToBridge /\ Leads(gcs.mission, Count(Len(mission)), mission)
  BY MissionsAreSeqs DEF Count, ToBridge, Leads
<1>4. lost = 0 => InOrder(up', link', gcs'.mission) /\ UploadIsWhole'
  BY <1>2, <1>3, SentInOrder DEF WholeInv, UploadIsWhole
<1> QED BY <1>1, <1>2, <1>4 DEF WholeInv, StationInv

LEMMA TimeoutOrder == WholeInv /\ Timeout => WholeInv'
<1> SUFFICES ASSUME WholeInv, Timeout PROVE WholeInv'
  OBVIOUS
<1> DEFINE mission == gcs.mission
<1>1. IInv' /\ LinkTyped
  BY NextKeeps, Parts DEF WholeInv, Next, IInv
<1>2. /\ up \in Seq(ToBridge) /\ up' = Append(up, Count(Len(mission)))
      /\ link' = link /\ lost' = lost /\ gcs' = gcs /\ mission \in GcsMissions
  BY <1>1 DEF Timeout, LinkTyped, WholeInv, StationInv
<1>3. Count(Len(mission)) \in ToBridge /\ Leads(mission, Count(Len(mission)), mission)
  BY <1>2, MissionsAreSeqs DEF Count, ToBridge, Leads
<1>4. lost = 0 => InOrder(up', link', gcs'.mission) /\ UploadIsWhole'
  BY <1>2, <1>3, SentInOrder DEF WholeInv, UploadIsWhole
<1> QED BY <1>1, <1>2, <1>4 DEF WholeInv, StationInv

LEMMA ReceiveOrder == WholeInv /\ Receive => WholeInv'
<1> SUFFICES ASSUME WholeInv, Receive PROVE WholeInv'
  OBVIOUS
<1> DEFINE q == Head(down)
           mission == gcs.mission
           d == Item(q.seq, mission[q.seq + 1])
           asked == q.type = "request" /\ gcs.answer = "no" /\ q.seq < Len(mission)
<1>1. IInv' /\ LinkTyped
  BY NextKeeps, Parts DEF WholeInv, Next, IInv
<1>2. /\ up \in Seq(ToBridge) /\ q \in ToStation /\ gcs \in Stations
      /\ link' = link /\ lost' = lost /\ up' = IF asked THEN Append(up, d) ELSE up
      /\ gcs'.mission = mission /\ (gcs'.answer = "no" => gcs.answer = "no")
  BY <1>1, HeadTailProperties DEF Receive, LinkTyped, Stations
<1>3. StationInv'
  BY <1>2 DEF WholeInv, StationInv
<1>4. ASSUME asked
      PROVE  /\ d \in ToBridge /\ Leads(mission, d, mission)
             /\ mission \in GcsMissions \cup {<< >>}
  <2>1. mission \in GcsMissions /\ mission \in Seq(Items) /\ q.seq \in Nat
    BY <1>2, <1>4, MissionsAreSeqs DEF WholeInv, StationInv, ToStation
  <2>2. q.seq + 1 \in DOMAIN mission /\ mission[q.seq + 1] \in Items
    BY <1>4, <2>1
  <2> QED BY <2>1, <2>2 DEF Item, ToBridge, Leads
<1>5. lost = 0 => InOrder(up', link', gcs'.mission) /\ UploadIsWhole'
  <2> HIDE DEF asked, d, mission
  <2>1. lost = 0 => InOrder(up, link, mission) /\ UploadIsWhole
    BY DEF WholeInv, mission
  <2>2. lost = 0 /\ asked => InOrder(Append(up, d), link, mission)
    BY <1>2, <1>4, <2>1, SentInOrder
  <2> QED BY <1>2, <2>1, <2>2 DEF UploadIsWhole
<1> QED BY <1>1, <1>2, <1>3, <1>5 DEF WholeInv

LEMMA LoseOrder == WholeInv /\ Lose => WholeInv'
<1> SUFFICES ASSUME WholeInv, Lose PROVE WholeInv'
  OBVIOUS
<1>1. IInv'
  BY NextKeeps DEF WholeInv, Next
<1>2. lost' # 0 /\ gcs' = gcs
  BY Parts DEF Lose, WholeInv, IInv, LinkTyped
<1> QED BY <1>1, <1>2 DEF WholeInv, StationInv

\* As long as no datagram is lost, the cache is a mission that was uploaded,
\* from its first row to its last, for any number and length of uploads.
THEOREM UploadIsWholeHolds == Spec => []UploadIsWhole
<1>1. Init => WholeInv
  <2> SUFFICES ASSUME Init PROVE WholeInv
    OBVIOUS
  <2>1. /\ up = << >> /\ ~link.active /\ gcs.mission = << >> /\ gcs.answer = "idle"
        /\ link.cached = << >>
    BY DEF Init
  <2> DEFINE marks == [i \in 1 .. Len(up) + 1 |-> << >>]
  <2>2. Marked(marks, up, link, gcs.mission)
    BY <2>1 DEF Marked, SessionOf
  <2>3. InOrder(up, link, gcs.mission)
    BY <2>2 DEF InOrder
  <2> QED BY <2>1, <2>3, InitIsSound DEF WholeInv, StationInv, UploadIsWhole
<1>2. WholeInv /\ [Next]_vars => WholeInv'
  <2>1. WholeInv /\ UNCHANGED vars => WholeInv'
    BY OrderKept, IdleKeeps DEF WholeInv, vars
  <2> QED BY <2>1, HostOrder, FrameOrder, UploadOrder, TimeoutOrder, ReceiveOrder, LoseOrder
          DEF Next
<1>3. WholeInv => UploadIsWhole
  BY DEF WholeInv, UploadIsWhole
<1> QED BY <1>1, <1>2, <1>3, PTL DEF Spec

-----------------------------------------------------------------------------
(* The exchange that a timeout begins.  With nothing left on the way there *)
(* is one datagram at a time, and every one of them brings the answer      *)
(* nearer, whatever uploads were lost or left before.                      *)

\* The session has the first rows of what the station uploads.
Session == /\ link.active /\ link.count = Len(gcs.mission)
           /\ \A k \in 1 .. Len(link.rows) : link.rows[k] = gcs.mission[k]

Counted == up = <<Count(Len(gcs.mission))>> /\ down = << >>
Asked   == Session /\ up = << >> /\ down = <<Request(Len(link.rows))>>
Sent    == /\ Session /\ down = << >>
           /\ up = <<Item(Len(link.rows), gcs.mission[Len(link.rows) + 1])>>

\* What is accepted is what was uploaded; a count of none clears nothing.
Cached  == gcs.mission # << >> => link.cached = gcs.mission
Replied == \/ up = << >> /\ down = <<Ack(FALSE)>>
           \/ up = << >> /\ down = <<Ack(TRUE)>> /\ Cached

Exchange == gcs.answer = "no" /\ (Counted \/ Asked \/ Sent \/ Replied)

\* The datagrams still to be handled: a count, a request and an item for
\* each row that is missing, and the answer.
Left == IF Counted THEN 2 * Len(gcs.mission) + 2
        ELSE IF Replied THEN 1
        ELSE 2 * (Len(gcs.mission) - Len(link.rows)) + Len(down)

\* The timeout begins an exchange.  Until a datagram is lost or the station
\* leaves the upload for another, each datagram handled leaves fewer to
\* come, no other step adds one, and with the last the station has its
\* answer, and the cache the mission it accepts.
ExchangeProgress ==
    /\ [][Timeout => Exchange']_vars
    /\ [][Exchange /\ gcs'.mission = gcs.mission /\ lost' = lost
            => \/ /\ Exchange' /\ Left' \in 0 .. Left
                  /\ handle_frame \/ Receive => Left' < Left
               \/ /\ gcs'.answer # "no"
                  /\ gcs'.answer = "accepted" => Cached']_vars

LEMMA ExchangeTyped ==
    ASSUME IInv
    PROVE  /\ link \in Links /\ Open(link) /\ gcs \in Stations
           /\ gcs.mission \in Seq(Items) /\ Len(gcs.mission) \in Nat
           /\ link.rows \in Seq(Items) /\ Len(link.rows) \in Nat /\ link.count \in Nat
           /\ up \in Seq(ToBridge) /\ down \in Seq(ToStation)
<1>1. link \in Links /\ Open(link) /\ gcs \in Stations
      /\ up \in Seq(ToBridge) /\ down \in Seq(ToStation)
  BY Parts DEF IInv, LinkTyped
<1>2. gcs.mission \in Seq(Items) /\ link.rows \in Seq(Items) /\ link.count \in Nat
  BY <1>1 DEF Stations, Links
<1> QED BY <1>1, <1>2

\* A session in an exchange is short of a row of the mission.
LEMMA SessionIsShort == IInv /\ Session => Len(link.rows) < Len(gcs.mission)
BY ExchangeTyped DEF Session, Open

LEMMA OneOnTheWay == \A x : <<x>> # << >> /\ Len(<<x>>) = 1
<1> SUFFICES ASSUME NEW x PROVE <<x>> # << >> /\ Len(<<x>>) = 1
  OBVIOUS
<1>1. Len(<<x>>) = 1 /\ Len(<< >>) = 0
  OBVIOUS
<1> QED BY <1>1

\* What is left in each phase.
LeftByPhase ==
    /\ Counted => Left = 2 * Len(gcs.mission) + 2
    /\ Asked => Left = 2 * (Len(gcs.mission) - Len(link.rows)) + 1
    /\ Sent => Left = 2 * (Len(gcs.mission) - Len(link.rows)) + 0
    /\ Replied => Left = 1

LEMMA LeftIs == LeftByPhase
<1>1. Counted => Left = 2 * Len(gcs.mission) + 2
  BY DEF Left
<1>2. ASSUME Asked PROVE Left = 2 * (Len(gcs.mission) - Len(link.rows)) + 1
  <2>1. up = << >> /\ down = <<Request(Len(link.rows))>> /\ Len(down) = 1
    BY <1>2 DEF Asked
  <2>2. ~Counted
    BY <2>1 DEF Counted
  <2>3. Request(Len(link.rows)).type # Ack(TRUE).type
        /\ Request(Len(link.rows)).type # Ack(FALSE).type
    BY DEF Request, Ack
  <2>4. ~Replied
    BY <2>1, <2>3 DEF Replied
  <2> QED BY <2>1, <2>2, <2>4 DEF Left
<1>3. ASSUME Sent PROVE Left = 2 * (Len(gcs.mission) - Len(link.rows)) + 0
  <2> DEFINE d == Item(Len(link.rows), gcs.mission[Len(link.rows) + 1])
  <2>1. up = <<d>> /\ down = << >> /\ Len(down) = 0
    BY <1>3 DEF Sent
  <2>2. d.type # Count(Len(gcs.mission)).type
    BY DEF Item, Count
  <2> HIDE DEF d
  <2>3. ~Counted
    <3>1. up[1] = d
      BY <2>1
    <3>2. Counted => up[1] = Count(Len(gcs.mission))
      BY DEF Counted
    <3> QED BY <2>2, <3>1, <3>2
  <2>4. ~Replied
    BY <2>1 DEF Replied
  <2> QED BY <2>1, <2>3, <2>4 DEF Left
<1>4. ASSUME Replied PROVE Left = 1
  <2>1. down # << >>
    BY <1>4, OneOnTheWay, Zenon DEF Replied
  <2>2. ~Counted
    BY <2>1 DEF Counted
  <2> QED BY <1>4, <2>2 DEF Left
<1>5. Asked => Left = 2 * (Len(gcs.mission) - Len(link.rows)) + 1
  BY <1>2
<1>6. Sent => Left = 2 * (Len(gcs.mission) - Len(link.rows)) + 0
  BY <1>3
<1>7. Replied => Left = 1
  BY <1>4
<1> QED BY <1>1, <1>5, <1>6, <1>7, Zenon DEF LeftByPhase

LEMMA LeftIsNext == LeftByPhase'
<1> QED BY LeftIs, PTL

LEMMA LeftIsNat == IInv /\ Exchange => Left \in Nat
<1> SUFFICES ASSUME IInv, Exchange PROVE Left \in Nat
  OBVIOUS
<1> DEFINE n == Len(gcs.mission)
           k == Len(link.rows)
<1>1. n \in Nat /\ k \in Nat
  BY ExchangeTyped
<1>2. Asked \/ Sent => k < n
  BY SessionIsShort DEF Asked, Sent
<1>6. /\ Counted => Left = 2 * n + 2
      /\ Asked => Left = 2 * (n - k) + 1
      /\ Sent => Left = 2 * (n - k) + 0
      /\ Replied => Left = 1
  BY LeftIs DEF LeftByPhase
<1> HIDE DEF n, k
<1>3. CASE Counted
  BY <1>1, <1>3, <1>6
<1>4. CASE Asked \/ Sent
  BY <1>1, <1>2, <1>4, <1>6
<1>5. CASE Replied
  BY <1>5, <1>6
<1> QED BY <1>3, <1>4, <1>5 DEF Exchange

LEMMA TimeoutBegins == IInv /\ Timeout => Exchange'
<1> SUFFICES ASSUME IInv, Timeout PROVE Exchange'
  OBVIOUS
<1>1. up = << >> /\ down = << >>
  <2>1. Len(up) \in Nat /\ Len(down) \in Nat /\ Len(up) + Len(down) = 0
    BY ExchangeTyped DEF Timeout, OnTheWay
  <2>2. Len(up) = 0 /\ Len(down) = 0
    BY <2>1
  <2> QED BY <2>2, ExchangeTyped, EmptySeq
<1>2. up' = <<Count(Len(gcs.mission))>> /\ down' = << >> /\ gcs' = gcs
  BY <1>1 DEF Timeout
<1>3. Counted'
  BY <1>2 DEF Counted
<1> QED BY <1>2, <1>3 DEF Exchange, Timeout

\* A step that moves no datagram keeps the exchange and what is left of it.
LEMMA ExchangeStays ==
    ASSUME IInv, Exchange, UNCHANGED <<link, gcs, up, down>>
    PROVE  Exchange' /\ Left' \in 0 .. Left
<1>1. Exchange' /\ Left' = Left
  BY DEF Exchange, Left, Counted, Asked, Sent, Replied, Cached, Session
<1> QED BY <1>1, LeftIsNat

\* The count opens a session, or is answered at once.
LEMMA CountIsHandled ==
    ASSUME IInv, gcs.answer = "no", Counted, handle_frame
    PROVE  Exchange' /\ Left' \in 0 .. Left /\ Left' < Left
<1> DEFINE n == Len(gcs.mission)
<1>1. /\ up' = << >> /\ down' = <<MissionCount(n).reply>> /\ gcs' = gcs
      /\ link' = MissionCount(n).link
  BY DEF handle_frame, Counted, Count
<1>2. n \in Nat /\ link \in Links /\ Left = 2 * n + 2
  BY ExchangeTyped, LeftIs DEF LeftByPhase
<1>3. CASE n \in 1 .. MaxRows
  <2>1. /\ MissionCount(n).link = [link EXCEPT !.active = TRUE, !.count = n, !.rows = << >>]
        /\ MissionCount(n).reply = Request(0)
    BY <1>3 DEF MissionCount
  <2>2. link'.active /\ link'.count = n /\ link'.rows = << >>
    BY <1>1, <1>2, <2>1 DEF Links
  <2>3. Len(link'.rows) = 0 /\ Len(gcs'.mission) = n
    BY <1>1, <2>2
  <2>4. Session'
    BY <1>1, <2>2, <2>3 DEF Session
  <2>5. Asked'
    BY <1>1, <2>1, <2>3, <2>4 DEF Asked
  <2>6. Left' = 2 * (n - 0) + 1
    BY <2>3, <2>5, LeftIsNext DEF LeftByPhase
  <2> QED BY <1>1, <1>2, <2>5, <2>6 DEF Exchange
<1>4. CASE n \notin 1 .. MaxRows
  <2>1. MissionCount(n).reply = Ack(n = 0)
    BY <1>4 DEF MissionCount
  <2>2. Replied'
    <3>1. CASE n = 0
      <4>1. gcs.mission = << >>
        BY <3>1, ExchangeTyped, EmptySeq
      <4>2. down' = <<Ack(TRUE)>>
        BY <1>1, <2>1, <3>1
      <4> QED BY <1>1, <4>1, <4>2 DEF Replied, Cached
    <3>2. CASE n # 0
      <4>1. down' = <<Ack(FALSE)>>
        BY <1>1, <2>1, <3>2
      <4> QED BY <1>1, <4>1 DEF Replied
    <3> QED BY <3>1, <3>2
  <2>3. Left' = 1
    BY <2>2, LeftIsNext DEF LeftByPhase
  <2> QED BY <1>1, <1>2, <2>2, <2>3 DEF Exchange
<1> QED BY <1>3, <1>4

\* An item adds its row: the next one is asked for, or it was the last.
LEMMA ItemIsHandled ==
    ASSUME IInv, gcs.answer = "no", Sent, handle_frame
    PROVE  Exchange' /\ Left' \in 0 .. Left /\ Left' < Left
<1> DEFINE n == Len(gcs.mission)
           k == Len(link.rows)
           row == gcs.mission[k + 1]
           rows == Append(link.rows, row)
           r == MissionItem(k, row)
<1>1. /\ up = <<Item(k, row)>> /\ down = << >> /\ link.active /\ link.count = n
      /\ \A i \in 1 .. k : link.rows[i] = gcs.mission[i]
  BY DEF Sent, Session
<1>2. /\ up' = << >> /\ down' = <<r.reply>> /\ gcs' = gcs /\ link' = r.link
  BY <1>1 DEF handle_frame, Item
<1>3. /\ n \in Nat /\ k \in Nat /\ k < n /\ link \in Links
      /\ gcs.mission \in Seq(Items) /\ link.rows \in Seq(Items)
  BY ExchangeTyped, SessionIsShort DEF Sent
<1>4. Left = 2 * (n - k)
  BY <1>3, LeftIs DEF LeftByPhase
<1>5. /\ rows \in Seq(Items) /\ Len(rows) = k + 1
      /\ \A i \in 1 .. k + 1 : rows[i] = gcs.mission[i]
  <2>1. row \in Items
    BY <1>3
  <2>2. /\ rows \in Seq(Items) /\ Len(rows) = k + 1 /\ rows[k + 1] = row
        /\ \A i \in 1 .. k : rows[i] = link.rows[i]
    BY <1>3, <2>1
  <2> QED BY <1>1, <1>3, <2>2
<1>6. CASE k + 1 < n
  <2>1. r = [link |-> [link EXCEPT !.rows = rows], reply |-> Request(k + 1)]
    BY <1>1, <1>5, <1>6 DEF MissionItem
  <2> HIDE DEF rows, r
  <2>2. /\ link'.active = link.active /\ link'.count = link.count /\ link'.rows = rows
        /\ down' = <<Request(k + 1)>>
    BY <1>2, <1>3, <2>1 DEF Links
  <2> HIDE DEF k
  <2>3. Len(link'.rows) = k + 1 /\ Len(gcs'.mission) = n
    BY <1>2, <1>5, <2>2
  <2>4. Session'
    BY <1>1, <1>2, <1>5, <2>2, <2>3 DEF Session
  <2>5. Asked'
    BY <1>2, <2>2, <2>3, <2>4 DEF Asked
  <2>6. Left' = 2 * (n - (k + 1)) + 1
    BY <2>3, <2>5, LeftIsNext DEF LeftByPhase
  <2> HIDE DEF n
  <2> QED BY <1>2, <1>3, <1>4, <1>6, <2>5, <2>6 DEF Exchange
<1>7. CASE ~(k + 1 < n)
  <2>1. r = [link |-> Completed(rows), reply |-> Ack(Loadable(rows))]
    BY <1>1, <1>5, <1>7 DEF MissionItem
  <2>2. rows = gcs.mission
    BY <1>3, <1>5, <1>7
  <2> HIDE DEF rows, r
  <2>3. link'.cached = IF Loadable(rows) THEN rows ELSE link.cached
    <3>1. link' = [link EXCEPT !.active = FALSE, !.rows = rows,
                               !.cached = IF Loadable(rows) THEN rows ELSE link.cached]
      BY <1>2, <2>1 DEF Completed
    <3> QED BY <1>3, <3>1 DEF Links
  <2>4. down' = <<Ack(Loadable(rows))>> /\ Loadable(rows) \in BOOLEAN
    BY <1>2, <2>1 DEF Loadable, Refused
  <2>5. Replied'
    <3>1. CASE Loadable(rows)
      <4>1. Loadable(rows) = TRUE
        BY <2>4, <3>1
      <4>2. down' = <<Ack(TRUE)>> /\ link'.cached = gcs'.mission
        BY <1>2, <2>2, <2>3, <2>4, <4>1
      <4> QED BY <1>2, <4>2 DEF Replied, Cached
    <3>2. CASE ~Loadable(rows)
      <4>1. Loadable(rows) = FALSE
        BY <2>4, <3>2
      <4> QED BY <1>2, <2>4, <4>1 DEF Replied
    <3> QED BY <3>1, <3>2
  <2>6. Left' = 1
    BY <2>5, LeftIsNext DEF LeftByPhase
  <2> HIDE DEF n, k
  <2> QED BY <1>2, <1>3, <1>4, <2>5, <2>6 DEF Exchange
<1> QED BY <1>6, <1>7

\* The station sends the row it is asked for.
LEMMA RequestIsReceived ==
    ASSUME IInv, gcs.answer = "no", Asked, Receive
    PROVE  Exchange' /\ Left' \in 0 .. Left /\ Left' < Left
<1> DEFINE n == Len(gcs.mission)
           k == Len(link.rows)
<1>1. up = << >> /\ down = <<Request(k)>> /\ Session
  BY DEF Asked
<1>2. n \in Nat /\ k \in Nat /\ k < n
  BY <1>1, ExchangeTyped, SessionIsShort
<1>3. down' = << >> /\ gcs' = gcs /\ link' = link
      /\ up' = <<Item(k, gcs.mission[k + 1])>>
  BY <1>1, <1>2 DEF Receive, Request
<1>4. Sent'
  BY <1>1, <1>3 DEF Sent, Session
<1>5. Left = 2 * (n - k) + 1
  BY LeftIs DEF LeftByPhase
<1>6. Left' = 2 * (n - k) + 0
  <2>1. Left' = 2 * (Len(gcs'.mission) - Len(link'.rows)) + 0
    BY <1>4, LeftIsNext DEF LeftByPhase
  <2> QED BY <1>3, <2>1
<1> HIDE DEF n, k
<1> QED BY <1>2, <1>3, <1>4, <1>5, <1>6 DEF Exchange

\* The station takes the answer.
LEMMA AnswerIsReceived ==
    ASSUME IInv, gcs.answer = "no", Replied, Receive
    PROVE  gcs'.answer # "no" /\ (gcs'.answer = "accepted" => Cached')
<1>1. gcs \in Stations /\ link' = link
  BY ExchangeTyped DEF Receive
<1>2. CASE down = <<Ack(FALSE)>>
  <2>1. gcs' = [gcs EXCEPT !.answer = "refused"]
    BY <1>2 DEF Receive, Ack
  <2> QED BY <1>1, <2>1 DEF Stations
<1>3. CASE down = <<Ack(TRUE)>> /\ Cached
  <2>1. gcs' = [gcs EXCEPT !.answer = "accepted"]
    BY <1>3 DEF Receive, Ack
  <2>2. gcs'.answer = "accepted" /\ gcs'.mission = gcs.mission
    BY <1>1, <2>1 DEF Stations
  <2> QED BY <1>1, <1>3, <2>2 DEF Cached
<1> QED BY <1>2, <1>3 DEF Replied

LEMMA ExchangeGoesOn ==
    ASSUME IInv, [Next]_vars, Exchange, gcs'.mission = gcs.mission, lost' = lost
    PROVE  \/ /\ Exchange' /\ Left' \in 0 .. Left
              /\ handle_frame \/ Receive => Left' < Left
           \/ /\ gcs'.answer # "no"
              /\ gcs'.answer = "accepted" => Cached'
<1>1. CASE handle_frame
  <2>1. up # << >>
    BY <1>1 DEF handle_frame
  <2>2. Counted \/ Sent
    BY <2>1 DEF Exchange, Asked, Replied
  <2> QED BY <1>1, <2>2, CountIsHandled, ItemIsHandled DEF Exchange
<1>2. CASE Receive
  <2>1. down # << >>
    BY <1>2 DEF Receive
  <2>2. Asked \/ Replied
    BY <2>1 DEF Exchange, Counted, Sent
  <2> QED BY <1>2, <2>2, RequestIsReceived, AnswerIsReceived DEF Exchange
<1>3. CASE (Host \/ UNCHANGED vars) /\ ~handle_frame /\ ~Receive
  <2>1. UNCHANGED <<link, gcs, up, down>>
    BY <1>3 DEF Host, init, set_mode, set_mission, disarm, step, vars
  <2> QED BY <1>3, <2>1, ExchangeStays
<1>4. CASE \E m \in GcsMissions : Upload(m)
  <2>1. PICK m \in GcsMissions : Upload(m)
    BY <1>4
  <2>2. m # gcs.mission /\ gcs'.mission = m
    BY <2>1 DEF Upload, Exchange
  <2> QED BY <2>2
<1>5. CASE Timeout
  <2> DEFINE u == Len(up)
             d == Len(down)
  <2>1. u + d = 0
    BY <1>5 DEF Timeout, OnTheWay
  <2>2. u = 1 \/ d = 1
    BY OneOnTheWay, Zenon DEF Exchange, Counted, Asked, Sent, Replied
  <2>3. u \in Nat /\ d \in Nat
    BY ExchangeTyped
  <2> HIDE DEF u, d
  <2>4. FALSE
    BY <2>1, <2>2, <2>3
  <2> QED BY <2>4
<1>6. CASE Lose
  <2>1. lost \in Nat /\ lost' = lost + 1
    BY <1>6, Parts, BridgeAssumption DEF Lose, IInv, LinkTyped
  <2> QED BY <2>1
<1> QED BY <1>1, <1>2, <1>3, <1>4, <1>5, <1>6 DEF Next

\* An upload begun by a timeout comes to its answer datagram by datagram,
\* and is cached as it was sent when it is accepted: for missions of any
\* length, and whatever was lost, or left half uploaded, before it.
THEOREM ExchangeProgressHolds == Spec => ExchangeProgress
<1>1. IInv /\ [Next]_vars => [Timeout => Exchange']_vars
  BY TimeoutBegins
<1>2. IInv /\ [Next]_vars
        => [Exchange /\ gcs'.mission = gcs.mission /\ lost' = lost
              => \/ /\ Exchange' /\ Left' \in 0 .. Left
                    /\ handle_frame \/ Receive => Left' < Left
                 \/ /\ gcs'.answer # "no"
                    /\ gcs'.answer = "accepted" => Cached']_vars
  BY ExchangeGoesOn
<1> QED BY <1>1, <1>2, IInvHolds, PTL DEF Spec, ExchangeProgress
=============================================================================
