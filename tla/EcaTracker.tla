----------------------------- MODULE EcaTracker -----------------------------
(***************************************************************************)
(* Emission-control-area detection on the edge gateway:                    *)
(* lng-fleet-system/edge/src/eca.rs.  point_in_eca finds the first box of  *)
(* a fixed list that contains a position, ECATracker remembers the zone of *)
(* the last position, and check_transition turns a change of zone into an  *)
(* event for the shore side.                                               *)
(*                                                                         *)
(* A zone is its index in ECA_ZONES.  Coordinates are in half degrees, so  *)
(* that every corner of a box is an integer.                               *)
(***************************************************************************)
EXTENDS Integers, FiniteSets

CONSTANT Positions    \* positions the navigation poller may report: [lat, lon]

ASSUME PositionAssumption == Positions \subseteq [lat : Int, lon : Int]

VARIABLES
    lastZone,   \* last_zone, NoZone for usize::MAX
    position,   \* the position last checked: a set of one, empty before the first check
    event,      \* what the last check_transition returned
    open        \* history: zones the receiver of the events was told of as entered and not as left

ecaVars == <<lastZone, position, event, open>>

Box(minLat, maxLat, minLon, maxLon) ==
    [minLat |-> minLat, maxLat |-> maxLat, minLon |-> minLon, maxLon |-> maxLon]

ECA_ZONES == <<
    Box(106, 132, 16, 60),       \* Baltic Sea
    Box(96, 126, -24, 20),       \* North Sea
    Box(48, 120, -180, -100),    \* North American
    Box(16, 60, -200, -120),     \* US Caribbean
    Box(60, 92, -12, 72),        \* Mediterranean
    Box(97, 104, -12, 6) >>      \* English Channel

ZoneIds == 1 .. 6
EnglishChannel == 6
NoZone == 0

Contains(z, p) ==
    /\ p.lat >= ECA_ZONES[z].minLat /\ p.lat <= ECA_ZONES[z].maxLat
    /\ p.lon >= ECA_ZONES[z].minLon /\ p.lon <= ECA_ZONES[z].maxLon

(* Mutant: the last box that contains the position wins.                     *)
LastInEca(p) ==
    IF \E z \in ZoneIds : Contains(z, p)
    THEN CHOOSE z \in ZoneIds :
             Contains(z, p) /\ \A y \in ZoneIds : Contains(y, p) => y <= z
    ELSE NoZone

(* The first box in the order of the list wins.                              *)
PointInEca(p) ==
    IF \E z \in ZoneIds : Contains(z, p)
    THEN CHOOSE z \in ZoneIds :
             Contains(z, p) /\ \A y \in ZoneIds : Contains(y, p) => z <= y
    ELSE NoZone

Event == [type : {"Enter", "Exit"}, zone : ZoneIds]
NoEvent == [type |-> "None", zone |-> NoZone]

EcaTypeOK ==
    /\ lastZone \in ZoneIds \cup {NoZone}
    /\ position \in SUBSET Positions
    /\ event \in Event \cup {NoEvent}
    /\ open \in SUBSET ZoneIds

EcaInit ==
    /\ lastZone = NoZone
    /\ position = {}
    /\ event = NoEvent
    /\ open = {}

----------------------------------------------------------------------------
EnterZone(p) ==
    /\ lastZone = NoZone /\ PointInEca(p) # NoZone
    /\ lastZone' = PointInEca(p)
    /\ event' = [type |-> "Enter", zone |-> PointInEca(p)]
    /\ open' = open \cup {PointInEca(p)}

ExitZone(p) ==
    /\ lastZone # NoZone /\ PointInEca(p) = NoZone
    /\ lastZone' = NoZone
    /\ event' = [type |-> "Exit", zone |-> lastZone]
    /\ open' = open \ {lastZone}

(* Mutant: the store of the new zone is forgotten.                           *)
ChangeZoneWithoutStore(p) ==
    /\ lastZone # NoZone /\ PointInEca(p) \notin {NoZone, lastZone}
    /\ event' = [type |-> "Enter", zone |-> PointInEca(p)]
    /\ open' = open \cup {PointInEca(p)}
    /\ UNCHANGED lastZone

(* Mutant: the event of a change of zone is the exit from the old one.       *)
ChangeZoneExitOnly(p) ==
    /\ lastZone # NoZone /\ PointInEca(p) \notin {NoZone, lastZone}
    /\ lastZone' = PointInEca(p)
    /\ event' = [type |-> "Exit", zone |-> lastZone]
    /\ open' = open \ {lastZone}

(* From one zone straight into another: one call can return one event.       *)
ChangeZone(p) ==
    /\ lastZone # NoZone /\ PointInEca(p) \notin {NoZone, lastZone}
    /\ lastZone' = PointInEca(p)
    /\ event' = [type |-> "Enter", zone |-> PointInEca(p)]
    /\ open' = open \cup {PointInEca(p)}

SameZone(p) ==
    /\ PointInEca(p) = lastZone
    /\ event' = NoEvent
    /\ UNCHANGED <<lastZone, open>>

CheckTransition(p) ==
    /\ position' = {p}
    /\ EnterZone(p) \/ ExitZone(p) \/ ChangeZone(p) \/ SameZone(p)

EcaNext == \E p \in Positions : CheckTransition(p)

EcaSpec == EcaInit /\ [][EcaNext]_ecaVars
----------------------------------------------------------------------------
(* Whatever way the vessel takes, and however far apart two positions are,    *)
(* the tracker's zone is the zone of the last position (check_transition).    *)
TrackerFollowsPosition == \A p \in position : lastZone = PointInEca(p)

(* A receiver that replays the events always has the vessel's zone among the  *)
(* zones it believes open, also after overlapping boxes were crossed and      *)
(* re-entered, and holds none open that no event named.                       *)
ReceiverKnowsTheZone ==
    /\ lastZone # NoZone => lastZone \in open
    /\ event.type = "Exit" => event.zone \notin open

(* The box of the English Channel lies inside that of the North Sea, which    *)
(* comes first in ECA_ZONES: no position is ever reported in it.              *)
ChannelIsShadowed == EnglishChannel \notin open /\ lastZone # EnglishChannel

(* The comment on a change of zone: "Zone change: exit old, enter new".  The  *)
(* receiver should be told of the exit, and so know of one open zone at most. *)
OneZoneOpen == Cardinality(open) <= 1

EcaInv ==
    /\ EcaTypeOK /\ TrackerFollowsPosition
    /\ ReceiverKnowsTheZone /\ ChannelIsShadowed
=============================================================================
