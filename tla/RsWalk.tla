-------------------------------- MODULE RsWalk --------------------------------
(***************************************************************************)
(* The registry walk of src/rs-walk.c: which nodes of the graph are        *)
(* stagebox segments, and which node is each segment's door.               *)
(*                                                                         *)
(* Every entry point runs to its end on the one thread of the program, so  *)
(* rs_walk_global, rs_walk_info and rs_walk_remove are one action each.    *)
(* An object is named by what the code looks it up by: a Node by its id, a *)
(* Segment and its RsBox by the segment's name.  A Node* in a Segment's    *)
(* array is the id of the node, and dangles when the id is not in nodes.   *)
(***************************************************************************)
EXTENDS RsBox, Containers

CONSTANTS
  Ids,          \* PipeWire global ids; the server reuses them
  Segments,     \* segment names
  GlobalClasses,\* the media.class a registry global may carry, NULL for none
  Quirks        \* what the graph may do beyond the usual life of a node

(* "restamp": a live node publishes another segment name than its first;   *)
(* "promote": a node of a segment is known as a sink only later;           *)
(* "demote": a sink of a segment publishes another media.class;            *)
(* "overlap": a segment has two sinks at once.                             *)
ASSUME WalkAssumption ==
  /\ NULL \notin Segments
  /\ NULL \notin Ids
  /\ \A d \in With("segment") : d.segment \in Segments \cup {""}
  /\ Quirks \subseteq {"restamp", "promote", "demote", "overlap"}

VARIABLES
  nodes,        \* id -> Node, for the nodes that are bound
  segments,     \* segment name -> Segment, for the segments found
  boxes,        \* the array of boxes, each named by its segment
  signal        \* the callback the last entry point made, and for which box

vars == <<nodes, segments, boxes, signal>>

-----------------------------------------------------------------------------
(* Helpers of the code.                                                    *)

Known(id) == id \in DOMAIN nodes

(* Where a segment's array holds sinks.                                    *)
sinks_in(members, ns) == {i \in 1..Len(members) : ns[members[i]].is_sink}

(* Seeded fault: the first node, sink or not.                              *)
pick_door_first(members, ns) == IF members = <<>> THEN NULL ELSE members[1]

(* The first sink of a segment's array if it has one, else its first node. *)
pick_door(members, ns) ==
  IF members = <<>> THEN NULL
  ELSE IF sinks_in(members, ns) = {} THEN members[1]
  ELSE members[CHOOSE i \in sinks_in(members, ns) :
                 \A j \in sinks_in(members, ns) : i <= j]

new_node(class) == [media_class |-> class, segment |-> NULL, is_sink |-> FALSE]

Silent == [kind |-> "none", segment |-> NULL]

(* Seeded fault: changes are not announced.                                *)
Told_found(k, seg) == IF k = "changed" THEN Silent ELSE [kind |-> k, segment |-> seg]

Told(k, seg) == [kind |-> k, segment |-> seg]

-----------------------------------------------------------------------------
(* What an info makes of the node it comes from.                           *)

NodeBefore(id) == IF Known(id) THEN nodes[id] ELSE new_node(NULL)

(* Seeded fault: an empty segment name taken for a segment.                *)
InfoSegmentRaw(id, d) ==
  IF "segment" \in DOMAIN d THEN d.segment ELSE NodeBefore(id).segment

(* The segment named by the dict, else the one the node is known by.       *)
InfoSegment(id, d) ==
  IF "segment" \in DOMAIN d /\ d.segment # "" THEN d.segment
  ELSE NodeBefore(id).segment

(* The dict's media.class, else the global's, else what was known.         *)
InfoSink(id, d) ==
  LET mc == IF "class" \in DOMAIN d THEN d.class ELSE NodeBefore(id).media_class
  IN  IF mc = NULL THEN NodeBefore(id).is_sink ELSE mc = "Audio/Sink"

(* Seeded fault: the node is not told its segment.                         *)
NodeAfterForgetful(id, d) ==
  IF InfoSegment(id, d) = NULL THEN NodeBefore(id)
  ELSE [NodeBefore(id) EXCEPT !.is_sink = InfoSink(id, d)]

NodeAfter(id, d) ==
  LET n == NodeBefore(id)
  IN  IF InfoSegment(id, d) = NULL THEN n
      ELSE [n EXCEPT !.is_sink = InfoSink(id, d),
                     !.segment = IF @ = NULL THEN InfoSegment(id, d) ELSE @]

-----------------------------------------------------------------------------
Init ==
  /\ nodes = [id \in {} |-> new_node(NULL)]
  /\ segments = [s \in {} |-> [box |-> NULL, nodes |-> <<>>]]
  /\ boxes = <<>>
  /\ signal = Silent

(* rs_walk_global: remember the id and its class, decide nothing.          *)
WalkGlobal(id, class) ==
  /\ nodes' = IF Known(id) THEN nodes ELSE Insert(nodes, id, new_node(class))
  /\ signal' = Silent
  /\ UNCHANGED <<segments, boxes>>

(* rs_walk_info, for a node that is no segment's.                          *)
InfoOrdinary(id, d) ==
  /\ InfoSegment(id, d) = NULL
  /\ nodes' = Insert(nodes, id, NodeAfter(id, d))
  /\ signal' = Silent
  /\ UNCHANGED <<segments, boxes>>

(* rs_walk_info, for the first node of a segment.                          *)
InfoNewSegment(id, d) ==
  LET seg == InfoSegment(id, d)
      n   == NodeAfter(id, d)
  IN  /\ seg \notin DOMAIN segments \cup {NULL}
      /\ nodes' = Insert(nodes, id, n)
      /\ segments' = Insert(segments, seg,
           [box |-> update_from_dict(box_new(id, seg, n.is_sink), d),
            nodes |-> <<id>>])
      /\ boxes' = Append(boxes, seg)
      /\ signal' = Told("added", seg)

(* Seeded fault: whatever node speaks, the box takes it in.                *)
BoxAfterAny(box, id, d, members, ns) ==
  LET door == pick_door(members, ns)
  IN  update_from_dict(set_door(box, door, ns[door].is_sink), d)

(* The box after an info of its segment's node id: only the door is read.  *)
BoxAfter(box, id, d, members, ns) ==
  IF pick_door(members, ns) # id THEN box
  ELSE update_from_dict(set_door(box, id, ns[id].is_sink), d)

(* rs_walk_info, for a node of a segment that is already listed.           *)
InfoKnownSegment(id, d) ==
  LET seg     == InfoSegment(id, d)
      old     == segments[seg]
      members == AddOnce(old.nodes, id)
      box     == BoxAfter(old.box, id, d, members, nodes')
  IN  /\ seg \in DOMAIN segments
      /\ nodes' = Insert(nodes, id, NodeAfter(id, d))
      /\ segments' = [segments EXCEPT ![seg] = [box |-> box, nodes |-> members]]
      /\ signal' = IF box # old.box THEN Told("changed", seg) ELSE Silent
      /\ UNCHANGED boxes

WalkInfo(id, d) ==
  InfoOrdinary(id, d) \/ InfoNewSegment(id, d) \/ InfoKnownSegment(id, d)

-----------------------------------------------------------------------------
(* rs_walk_remove.                                                         *)

SegmentOf(id) == IF Known(id) THEN nodes[id].segment ELSE NULL

(* Seeded fault: any node takes the whole segment with it.                 *)
Rest_none(id) == <<>>

Rest(id) == RemoveFast(segments[SegmentOf(id)].nodes, id)

(* An id that is not bound, or whose node is no segment's.                 *)
RemoveOrdinary(id) ==
  /\ SegmentOf(id) \notin DOMAIN segments
  /\ nodes' = Drop(nodes, id)
  /\ signal' = Silent
  /\ UNCHANGED <<segments, boxes>>

(* The segment is still there on another node: the box is re-pointed.      *)
RemoveMember(id) ==
  LET seg  == SegmentOf(id)
      door == pick_door(Rest(id), nodes')
  IN  /\ seg \in DOMAIN segments
      /\ Rest(id) # <<>>
      /\ nodes' = Drop(nodes, id)
      /\ segments' = [segments EXCEPT ![seg] =
           [box |-> set_door(@.box, door, nodes'[door].is_sink), nodes |-> Rest(id)]]
      /\ signal' = Told("changed", seg)
      /\ UNCHANGED boxes

(* Seeded fault: the box stays in the array.                               *)
Unlisted_not(seg) == boxes

Unlisted(seg) == RemoveFast(boxes, seg)

(* The last node of the segment has left, and the box with it.             *)
RemoveLast(id) ==
  LET seg == SegmentOf(id)
  IN  /\ seg \in DOMAIN segments
      /\ Rest(id) = <<>>
      /\ nodes' = Drop(nodes, id)
      /\ segments' = Drop(segments, seg)
      /\ boxes' = Unlisted(seg)
      /\ signal' = Told("removed", seg)

WalkRemove(id) == RemoveOrdinary(id) \/ RemoveMember(id) \/ RemoveLast(id)

-----------------------------------------------------------------------------
(* What the graph does: the infos a node may send.                         *)

SinksOf(seg) == {id \in DOMAIN nodes : nodes[id].segment = seg /\ nodes[id].is_sink}

Publishes(id, d) ==
  /\ \/ "restamp" \in Quirks
     \/ NodeBefore(id).segment \in {NULL, InfoSegment(id, d)}
  /\ \/ NodeBefore(id).segment = NULL
     \/ NodeBefore(id).is_sink = InfoSink(id, d)
     \/ ~NodeBefore(id).is_sink /\ "promote" \in Quirks
     \/ NodeBefore(id).is_sink /\ "demote" \in Quirks
  /\ \/ "overlap" \in Quirks
     \/ ~InfoSink(id, d)
     \/ InfoSegment(id, d) = NULL
     \/ SinksOf(InfoSegment(id, d)) \subseteq {id}

Next ==
  \/ \E id \in Ids, class \in GlobalClasses : WalkGlobal(id, class)
  \/ \E id \in Ids, d \in Dicts : Publishes(id, d) /\ WalkInfo(id, d)
  \/ \E id \in Ids : WalkRemove(id)

Spec == Init /\ [][Next]_vars

-----------------------------------------------------------------------------
Node == [ media_class : GlobalClasses \cup {NULL},
          segment : Segments \cup {NULL}, is_sink : BOOLEAN ]

(* Every table has the shape the C types give it; a box knows the segment  *)
(* it was made for, and its door is an id.                                 *)
TypeOK ==
  /\ DOMAIN nodes \subseteq Ids
  /\ nodes \in [DOMAIN nodes -> Node]
  /\ DOMAIN segments \subseteq Segments
  /\ segments = [s \in DOMAIN segments |-> segments[s]]
  /\ \A s \in DOMAIN segments :
       segments[s] \in [box : Box(Ids, {s}), nodes : Seq(Ids)]
  /\ boxes \in Seq(Segments)
  /\ signal \in [kind : {"none", "added", "changed", "removed"},
                 segment : Segments \cup {NULL}]

(* The two tables agree.  A segment's array holds exactly the live nodes   *)
(* that know themselves to be of that segment, each once, and is never     *)
(* empty: no pointer in it outlives its node (rs-walk.c:20 calls them      *)
(* borrowed), and no node leaves without leaving its segment.              *)
MembersAgree ==
  \A s \in DOMAIN segments :
    /\ segments[s].nodes # <<>>
    /\ Distinct(segments[s].nodes)
    /\ Elements(segments[s].nodes) = {id \in DOMAIN nodes : nodes[id].segment = s}

(* A node that knows its segment is found in it; rs_walk_box never returns *)
(* NULL for such a node.                                                   *)
SegmentsListed ==
  \A id \in DOMAIN nodes :
    nodes[id].segment # NULL => nodes[id].segment \in DOMAIN segments

(* ONE SEGMENT IS ONE STAGEBOX: the array handed to the window and to      *)
(* --list holds every segment's box once and no other box.                 *)
OneBoxPerSegment == Distinct(boxes) /\ Elements(boxes) = DOMAIN segments

(* The door of a listed box is a live node of its segment, the box agrees  *)
(* with that node on whether it is a sink, and a sink always wins over a   *)
(* source: writes are never refused while the segment has a sink.          *)
DoorIsBest ==
  \A s \in DOMAIN segments :
    LET box == segments[s].box
    IN  /\ box.id \in DOMAIN nodes
        /\ nodes[box.id].segment = s
        /\ box.sink = nodes[box.id].is_sink
        /\ box.sink <=> SinksOf(s) # {}

-----------------------------------------------------------------------------
(* The nodes that carry a segment, as a caller of the walk would list them. *)
Carriers ==
  [id \in {i \in DOMAIN nodes : nodes[i].segment # NULL} |->
    [segment |-> nodes[id].segment, is_sink |-> nodes[id].is_sink]]

Directory == INSTANCE SegmentDirectory WITH
  live  <- Carriers,
  door  <- [s \in DOMAIN segments |-> segments[s].box.id],
  event <- signal

(* The walk keeps the promise of its header: every segment in the graph is *)
(* listed once under the best door it has, and no listing, change of door  *)
(* or delisting goes unannounced.                                          *)
WalkIsDirectory == Directory!DirSpec
=============================================================================
