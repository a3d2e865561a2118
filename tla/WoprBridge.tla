------------------------------ MODULE WoprBridge ------------------------------
(***************************************************************************)
(* The WOPR bridge: one process that serves a host, which steps it, and a  *)
(* MAVLink ground station, and owns the vehicle between their datagrams.   *)
(* Both may load the mission: the host in one request, the ground station  *)
(* row by row.  On a VTOL model the bridge lands at the mission's Land     *)
(* item, which it remembers apart from the mission.                        *)
(*                                                                         *)
(* The vehicle is PlaneControl's; here it is the mode it flies and the     *)
(* mission.  Both sockets are bound to the loopback address: datagrams     *)
(* keep their order and may be lost, at most MaxLosses of the ground       *)
(* station's, of which at most Capacity are on the way.                    *)
(***************************************************************************)
EXTENDS Integers, Sequences, SequencesExt

CONSTANTS
    Places,         \* where an item may lie
    HostMissions,   \* the missions the host may send
    GcsMissions,    \* the missions the ground station may upload
    MaxRows,        \* the rows an upload may have
    Capacity,
    MaxLosses

\* An item as it is sent: "bad" is a command or a frame the bridge refuses.
Items == [cmd : {"wp", "land", "bad"}, at : Places]

ASSUME BridgeAssumption ==
    /\ HostMissions \subseteq Seq(Items)
    /\ GcsMissions \subseteq Seq(Items)
    /\ {MaxRows, Capacity} \subseteq Nat \ {0}
    /\ MaxLosses \in Nat

VARIABLES
    vehicle,    \* the Plane, as far as the bridge moves it
    pilot,      \* vtol_mode_ and where its position is held
    noted,      \* vtol_land_index_ and the coordinates kept with it
    link,       \* the upload session and the cache of the GcsLink
    gcs,        \* the ground station: what it uploads, and its answer
    up, down,   \* the datagrams to the bridge and to the ground station
    lost,       \* how many of them have been lost
    intact      \* history: what was last told of the mission is in force

vars == <<vehicle, pilot, noted, link, gcs, up, down, lost, intact>>

None == [index |-> -1, at |-> "none"]
Vertical == {"qhover", "qland"}
FixedWing == {"fbwa", "auto", "other"}

-----------------------------------------------------------------------------
(* Requests of the host, and the commands of the ground station that reach *)
(* the same functions.                                                     *)

\* The items before the first one that is refused.
Good(items) == SelectInSeq(items, LAMBDA i : i.cmd = "bad")
Refused(items) == Good(items) # 0
Read(items) == IF Refused(items) THEN SubSeq(items, 1, Good(items) - 1) ELSE items
LastLand(items) == SelectLastInSeq(items, LAMBDA i : i.cmd = "land")

\* Mutant of Noted: a mission without a Land item keeps the old one.
Noted_Kept(items) ==
    LET last == LastLand(Read(items))
    IN  IF vehicle.vtol /\ last # 0 THEN [index |-> last - 1, at |-> items[last].at]
        ELSE noted

Noted(items) ==
    LET last == LastLand(Read(items))
    IN  IF vehicle.vtol /\ last # 0 THEN [index |-> last - 1, at |-> items[last].at]
        ELSE None

\* Mutant of load: the new mission begins where the old one was.
load_KeepsIndex(items) == [vehicle EXCEPT !.items = items]

load(items) == [vehicle EXCEPT !.items = items, !.index = 0]

\* A target is of no use outside of vertical flight, and latched anew in it.
Released == [mode |-> "manual", target |-> "spot"]

\* The Plane is built anew; a model that is refused leaves it unused.
init ==
    /\ \E ok, vtol \in BOOLEAN :
         vehicle' = [initialized |-> ok, vtol |-> vtol, control_mode |-> "other",
                     items |-> << >>, index |-> 0]
    /\ pilot' = Released
    /\ noted' = None
    /\ intact' = "none"
    /\ UNCHANGED <<link, gcs, up, down, lost>>

set_mode(requested) ==
    /\ vehicle.initialized
    /\ requested \in Vertical => vehicle.vtol
    /\ vehicle' = [vehicle EXCEPT !.control_mode =
                       IF requested \in Vertical THEN "fbwa" ELSE requested]
    /\ pilot' = IF requested \in Vertical THEN [mode |-> requested, target |-> "spot"]
                ELSE Released
    /\ UNCHANGED <<noted, link, gcs, up, down, lost, intact>>

\* The items are read, and the Land item noted, before the mission is known
\* to be accepted.
set_mission(items) ==
    /\ vehicle.initialized /\ items # << >>
    /\ noted' = Noted(items)
    /\ vehicle' = IF Refused(items) THEN vehicle ELSE load(items)
    /\ intact' = IF Refused(items) THEN "none" ELSE "host"
    /\ UNCHANGED <<pilot, link, gcs, up, down, lost>>

\* arm() and a disarm() that follows it, which restarts the mission.
disarm ==
    /\ vehicle.initialized
    /\ vehicle' = IF vehicle.control_mode = "auto" THEN vehicle
                  ELSE [vehicle EXCEPT !.index = 0]
    /\ UNCHANGED <<pilot, noted, link, gcs, up, down, lost, intact>>

-----------------------------------------------------------------------------
(* One tick of a STEP request.                                             *)

current_mode == IF vehicle.vtol /\ pilot.mode \in Vertical THEN pilot.mode
                ELSE vehicle.control_mode
Current == vehicle.items[vehicle.index + 1]

Takeover == /\ vehicle.vtol /\ noted # None /\ pilot.mode # "qland"
            /\ current_mode = "auto" /\ vehicle.index = noted.index

\* What Plane::tick() makes of its mode and mission: a failsafe and its end,
\* and AUTO, which passes an item other than Land or returns from the last.
Ticked(v) ==
    {v, [v EXCEPT !.control_mode = "failsafe"]}
    \cup {[v EXCEPT !.control_mode = m] :
            m \in IF v.control_mode = "failsafe" THEN FixedWing ELSE {}}
    \cup IF v.control_mode # "auto" \/ v.items = << >> THEN {}
         ELSE IF v.items[v.index + 1].cmd = "land" THEN {}
         ELSE IF v.index + 1 < Len(v.items) THEN {[v EXCEPT !.index = @ + 1]}
         ELSE {[v EXCEPT !.control_mode = "other"]}

step ==
    /\ vehicle.initialized
    /\ vehicle' \in Ticked(IF Takeover THEN [vehicle EXCEPT !.control_mode = "fbwa"]
                           ELSE vehicle)
    /\ pilot' = IF Takeover THEN [mode |-> "qland", target |-> noted.at] ELSE pilot
    /\ UNCHANGED <<noted, link, gcs, up, down, lost, intact>>

-----------------------------------------------------------------------------
(* The upload of a mission: handle_frame().                                *)

Count(n)       == [type |-> "count", n |-> n]
Item(seq, row) == [type |-> "item", seq |-> seq, row |-> row]
Request(seq)   == [type |-> "request", seq |-> seq]
Ack(accepted)  == [type |-> "ack", accepted |-> accepted]

\* A waypoint in the first row is the home position, and not flown.
Flyable(rows) == IF rows # << >> /\ rows[1].cmd = "wp" THEN Tail(rows) ELSE rows
Loadable(rows) == vehicle.initialized /\ ~Refused(rows) /\ Flyable(rows) # << >>

\* Mutant of MissionCount: a session that is open goes on with its rows.
MissionCount_KeepsRows(n) ==
    IF n \notin 1 .. MaxRows
    THEN [link |-> [link EXCEPT !.active = FALSE], reply |-> Ack(n = 0)]
    ELSE [link  |-> [link EXCEPT !.active = TRUE, !.count = n],
          reply |-> Request(Len(link.rows))]

\* Mutant of MissionCount: an open session goes on as it was.
MissionCount_Busy(n) ==
    IF n \notin 1 .. MaxRows
    THEN [link |-> [link EXCEPT !.active = FALSE], reply |-> Ack(n = 0)]
    ELSE IF link.active THEN [link |-> link, reply |-> Request(Len(link.rows))]
    ELSE [link  |-> [link EXCEPT !.active = TRUE, !.count = n, !.rows = << >>],
          reply |-> Request(0)]

\* A count of none is answered as accepted, and clears nothing; one that is
\* too large is refused, and ends the session as well.
MissionCount(n) ==
    IF n \notin 1 .. MaxRows
    THEN [link |-> [link EXCEPT !.active = FALSE], reply |-> Ack(n = 0)]
    ELSE [link  |-> [link EXCEPT !.active = TRUE, !.count = n, !.rows = << >>],
          reply |-> Request(0)]

\* Mutant of Completed: the cache is filled before the mission is loaded.
Completed_CachesFirst(rows) == [link EXCEPT !.active = FALSE, !.rows = rows,
                                            !.cached = rows]

Completed(rows) == [link EXCEPT !.active = FALSE, !.rows = rows,
                                !.cached = IF Loadable(rows) THEN rows ELSE @]

MissionItem(seq, row) ==
    LET rows == Append(link.rows, row)
    IN  IF seq # Len(link.rows) THEN [link |-> link, reply |-> Request(Len(link.rows))]
        ELSE IF Len(rows) < link.count
        THEN [link |-> [link EXCEPT !.rows = rows], reply |-> Request(Len(rows))]
        ELSE [link |-> Completed(rows), reply |-> Ack(Loadable(rows))]

Uploads(m) == /\ m.type = "item" /\ link.active /\ m.seq = Len(link.rows)
              /\ m.seq + 1 = link.count /\ Loadable(Append(link.rows, m.row))

\* An item outside of a session is dropped without a reply.
handle_frame ==
    /\ up # << >> /\ up' = Tail(up)
    /\ LET m == Head(up)
       IN  /\ IF m.type = "item" /\ ~link.active THEN UNCHANGED <<link, down>>
              ELSE LET r == IF m.type = "count" THEN MissionCount(m.n)
                            ELSE MissionItem(m.seq, m.row)
                   IN  link' = r.link /\ down' = Append(down, r.reply)
           /\ IF Uploads(m)
              THEN /\ vehicle' = load(Flyable(Append(link.rows, m.row)))
                   /\ intact' = "gcs"
              ELSE UNCHANGED <<vehicle, intact>>
    /\ UNCHANGED <<pilot, noted, gcs, lost>>

-----------------------------------------------------------------------------
(* The ground station, and the network.                                    *)

OnTheWay == Len(up) + Len(down)

\* It uploads a mission, and may leave the one it is uploading for another.
Upload(mission) ==
    /\ OnTheWay < Capacity
    /\ gcs.answer = "no" => mission # gcs.mission
    /\ gcs' = [mission |-> mission, answer |-> "no"]
    /\ up' = Append(up, Count(Len(mission)))
    /\ UNCHANGED <<vehicle, pilot, noted, link, down, lost, intact>>

\* It begins again when an answer does not come.
Timeout ==
    /\ gcs.answer = "no" /\ OnTheWay = 0
    /\ up' = Append(up, Count(Len(gcs.mission)))
    /\ UNCHANGED <<vehicle, pilot, noted, link, gcs, down, lost, intact>>

Receive ==
    /\ down # << >> /\ down' = Tail(down)
    /\ LET m == Head(down)
           asked == m.type = "request" /\ gcs.answer = "no" /\ m.seq < Len(gcs.mission)
       IN  /\ up' = IF asked THEN Append(up, Item(m.seq, gcs.mission[m.seq + 1])) ELSE up
           /\ gcs' = IF m.type = "ack" /\ gcs.answer = "no"
                     THEN [gcs EXCEPT !.answer = IF m.accepted THEN "accepted" ELSE "refused"]
                     ELSE gcs
    /\ UNCHANGED <<vehicle, pilot, noted, link, lost, intact>>

Lose ==
    /\ lost < MaxLosses /\ lost' = lost + 1
    /\ \/ up # << >> /\ up' = Tail(up) /\ UNCHANGED down
       \/ down # << >> /\ down' = Tail(down) /\ UNCHANGED up
    /\ UNCHANGED <<vehicle, pilot, noted, link, gcs, intact>>

-----------------------------------------------------------------------------
Init ==
    /\ vehicle = [initialized |-> FALSE, vtol |-> FALSE, control_mode |-> "other",
                  items |-> << >>, index |-> 0]
    /\ pilot = Released
    /\ noted = None
    /\ link = [active |-> FALSE, count |-> 0, rows |-> << >>, cached |-> << >>]
    /\ gcs = [mission |-> << >>, answer |-> "idle"]
    /\ up = << >>
    /\ down = << >>
    /\ lost = 0
    /\ intact = "none"

Host == \/ init
        \/ \E m \in FixedWing \cup Vertical : set_mode(m)
        \/ \E items \in HostMissions : set_mission(items)
        \/ disarm
        \/ step

Next == \/ Host
        \/ handle_frame
        \/ \E m \in GcsMissions : Upload(m)
        \/ Timeout
        \/ Receive
        \/ Lose

\* main() reads the ground station's socket whenever it has something; the
\* ground station reads its own, and does not wait for ever.
Spec == /\ Init /\ [][Next]_vars
        /\ WF_vars(handle_frame) /\ WF_vars(Receive) /\ WF_vars(Timeout)

-----------------------------------------------------------------------------
ToBridge  == [type : {"count"}, n : Nat] \cup [type : {"item"}, seq : Nat, row : Items]
ToStation == [type : {"request"}, seq : Nat] \cup [type : {"ack"}, accepted : BOOLEAN]

TypeOK ==
    /\ vehicle \in [initialized : BOOLEAN, vtol : BOOLEAN,
                    control_mode : FixedWing \cup {"failsafe"}, items : Seq(Items),
                    index : Nat]
    /\ vehicle.items # << >> => vehicle.index < Len(vehicle.items)
    /\ pilot \in [mode : Vertical \cup {"manual"}, target : Places \cup {"spot"}]
    /\ noted \in {None} \cup [index : Nat, at : Places]
    /\ link \in [active : BOOLEAN, count : Nat, rows : Seq(Items), cached : Seq(Items)]
    /\ link.active => Len(link.rows) < link.count
    /\ gcs \in [mission : Seq(Items), answer : {"idle", "no", "accepted", "refused"}]
    /\ up \in Seq(ToBridge) /\ down \in Seq(ToStation)
    /\ lost \in 0 .. MaxLosses
    /\ intact \in {"none", "host", "gcs"}

\* What a ground station downloads is the mission it uploaded last, and the
\* one the vehicle flies until the host starts another model or sends a
\* mission, even one that is refused, whatever uploads were refused, abandoned
\* or begun again.
CacheIsFlown == intact = "gcs" => vehicle.items = Flyable(link.cached)

\* As long as no datagram is lost, an accepted mission is one that was
\* uploaded, from its first row to its last: rows of an upload that was
\* abandoned, and requests still on the way, do not mix with the next.
UploadIsWhole == lost = 0 => link.cached \in GcsMissions \cup {<< >>}

\* An upload is answered in the end, whatever was lost of it, unless the
\* ground station goes on for ever leaving one for the next.
UploadAnswered ==
    []<>(gcs.answer # "no") \/ []<><<gcs'.answer = "no">>_gcs

Landing == step /\ vehicle.vtol /\ current_mode = "auto" /\ vehicle.items # << >>
LandsHere(place) == pilot' = [mode |-> "qland", target |-> place]

\* With the host's mission in force, AUTO on a VTOL model lands vertically
\* at the coordinates of its last Land item, when it has come to this item,
\* and nowhere before.
HostLandIsFlown ==
    [][intact = "host" /\ Landing
         => IF vehicle.index + 1 = LastLand(vehicle.items)
            THEN LandsHere(Current.at) ELSE pilot' = pilot]_vars

\* "When AUTO advances to a Land item on a VTOL model, take over with a
\* position-controlled qland AT THE ITEM'S COORDINATES."
LandsOnItem ==
    [][Landing => IF Current.cmd = "land" THEN LandsHere(Current.at)
                  ELSE pilot' = pilot]_vars
=============================================================================
