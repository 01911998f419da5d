---------------------------- MODULE MCEcaTracker ----------------------------
(* One position for every combination of boxes that some position lies in:    *)
(* check_transition tells no other positions apart.  The grid runs over all   *)
(* corners of the boxes and the points half a degree beside them.             *)
EXTENDS EcaTracker

Edges(lo, hi) == UNION {{ECA_ZONES[z][lo], ECA_ZONES[z][hi]} : z \in ZoneIds}
Around(S) == {x + d : x \in S, d \in {-1, 0, 1}}
Grid == [lat : Around(Edges("minLat", "maxLat")), lon : Around(Edges("minLon", "maxLon"))]
Boxes(p) == {z \in ZoneIds : Contains(z, p)}
MCPositions == {CHOOSE p \in Grid : Boxes(p) = b : b \in {Boxes(p) : p \in Grid}}
=============================================================================
