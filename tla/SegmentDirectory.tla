-------------------------- MODULE SegmentDirectory --------------------------
(***************************************************************************)
(* What the registry walk promises to its callers (src/rs-walk.h): every   *)
(* segment that a node in the graph carries is listed once, under a door   *)
(* that is one of its nodes and a sink if it has one, and every listing,   *)
(* change of door and delisting is announced when it happens.              *)
(*                                                                         *)
(* Which of several equally good nodes is the door, and whether other      *)
(* changes are announced, is left open.                                    *)
(***************************************************************************)
EXTENDS Containers

CONSTANTS
  Ids,
  Segments,
  NULL

VARIABLES
  live,     \* id -> the segment it carries and whether it is a sink
  door,     \* segment -> the id of its door, for the segments listed
  event     \* the announcement of the last step

dirVars == <<live, door, event>>

Members(l, seg) == {id \in DOMAIN l : l[id].segment = seg}
Sinks(l, seg)   == {id \in Members(l, seg) : l[id].is_sink}
Best(l, seg)    == IF Sinks(l, seg) # {} THEN Sinks(l, seg) ELSE Members(l, seg)

Event(k, seg) == [kind |-> k, segment |-> seg]
Nothing       == Event("none", NULL)

(* The door a caller would see, and what it could do with it.              *)
Face(l, dr, seg) == [id |-> dr[seg], is_sink |-> l[dr[seg]].is_sink]

DirInit ==
  /\ live = [id \in {} |-> NULL]
  /\ door = [seg \in {} |-> NULL]
  /\ event = Nothing

(* A node tells that it carries seg, for the first time or again.          *)
Report(id, seg, is_sink) ==
  /\ id \in DOMAIN live => live[id].segment = seg /\ (live[id].is_sink => is_sink)
  /\ live' = Insert(live, id, [segment |-> seg, is_sink |-> is_sink])
  /\ \E best \in Best(live', seg) : door' = Insert(door, seg, best)
  /\ IF seg \notin DOMAIN door THEN event' = Event("added", seg)
     ELSE \/ event' = Event("changed", seg)
          \/ event' = Nothing /\ Face(live', door', seg) = Face(live, door, seg)

(* A node leaves its segment to the other nodes that carry it.             *)
Leave(id) ==
  LET seg == live[id].segment
  IN  /\ id \in DOMAIN live
      /\ live' = Drop(live, id)
      /\ \E best \in Best(live', seg) : door' = Insert(door, seg, best)
      /\ event' = Event("changed", seg)

(* The last node of a segment leaves.                                      *)
LeaveLast(id) ==
  LET seg == live[id].segment
  IN  /\ id \in DOMAIN live
      /\ live' = Drop(live, id)
      /\ Members(live', seg) = {}
      /\ door' = Drop(door, seg)
      /\ event' = Event("removed", seg)

(* Something else happens in the graph.                                    *)
Quiet == event' = Nothing /\ UNCHANGED <<live, door>>

DirNext ==
  \/ \E id \in Ids, seg \in Segments, k \in BOOLEAN : Report(id, seg, k)
  \/ \E id \in Ids : Leave(id) \/ LeaveLast(id)
  \/ Quiet

DirSpec == DirInit /\ [][DirNext]_dirVars
=============================================================================
