----------------------------- MODULE RsWalkProofs -----------------------------
(***************************************************************************)
(* The walk of RsWalk keeps its tables consistent and its doors right, for *)
(* every set of ids, segments and dicts, while the graph neither renames a *)
(* live node's segment nor turns a live sink into something else.          *)
(***************************************************************************)
EXTENDS RsWalk, RsBoxProofs

-----------------------------------------------------------------------------
(* The door.                                                               *)

(* The position in the array of the node pick_door returns.                *)
DoorAt(members, ns, i) ==
  /\ i \in 1..Len(members)
  /\ \/ /\ ns[members[i]].is_sink
        /\ \A j \in 1..Len(members) : ns[members[j]].is_sink => i <= j
     \/ /\ i = 1
        /\ \A j \in 1..Len(members) : ~ ns[members[j]].is_sink

LEMMA PickDoorAt ==
  ASSUME NEW members \in Seq(Ids), members # <<>>, NEW ns
  PROVE  \E i \in 1..Len(members) :
           DoorAt(members, ns, i) /\ pick_door(members, ns) = members[i]
<1>. DEFINE sinks == sinks_in(members, ns)
<1>1. CASE sinks = {}
  <2>1. pick_door(members, ns) = members[1]
    BY <1>1 DEF pick_door
  <2>2. 1 \in 1..Len(members)
    OBVIOUS
  <2>. QED  BY <1>1, <2>1, <2>2 DEF DoorAt, sinks_in
<1>2. CASE sinks # {}
  <2>1. \E i \in sinks : \A j \in sinks : i <= j
    BY <1>2, FirstExists, sinks \subseteq Nat DEF sinks_in
  <2>2. pick_door(members, ns) = members[CHOOSE i \in sinks : \A j \in sinks : i <= j]
    BY <1>2 DEF pick_door
  <2>3. PICK i \in sinks : (\A j \in sinks : i <= j) /\ pick_door(members, ns) = members[i]
    BY <2>1, <2>2
  <2>. QED  BY <2>3 DEF DoorAt, sinks_in
<1>. QED  BY <1>1, <1>2

LEMMA DoorAtUnique ==
  ASSUME NEW members \in Seq(Ids), NEW ns, NEW i, NEW k,
         DoorAt(members, ns, i), DoorAt(members, ns, k)
  PROVE  i = k
  BY DEF DoorAt

(* The door is a node of the segment, and a sink if the segment has one.   *)
LEMMA PickDoorBest ==
  ASSUME NEW members \in Seq(Ids), members # <<>>, NEW ns
  PROVE  /\ pick_door(members, ns) \in Elements(members)
         /\ (\E x \in Elements(members) : ns[x].is_sink)
              => ns[pick_door(members, ns)].is_sink
<1>1. PICK i \in 1..Len(members) :
        DoorAt(members, ns, i) /\ pick_door(members, ns) = members[i]
  BY PickDoorAt
<1>. QED  BY <1>1 DEF DoorAt, Elements

(* The door depends on nothing but the nodes of the segment.               *)
LEMMA PickDoorLocal ==
  ASSUME NEW members, NEW ns, NEW ms,
         \A i \in 1..Len(members) : ns[members[i]] = ms[members[i]]
  PROVE  pick_door(members, ns) = pick_door(members, ms)
<1>1. sinks_in(members, ns) = sinks_in(members, ms)
  BY DEF sinks_in
<1>. QED  BY <1>1 DEF pick_door

(* A node that speaks takes the door or leaves it where it was: it never   *)
(* loses the door by speaking, and never gives it to a third node.         *)
LEMMA PickDoorMoves ==
  ASSUME NEW members \in Seq(Ids), members # <<>>, NEW x \in Ids,
         NEW ns, NEW ms,
         \A y \in Elements(members) \ {x} : ms[y] = ns[y],
         x \in Elements(members) /\ ns[x].is_sink => ms[x].is_sink,
         pick_door(AddOnce(members, x), ms) # x
  PROVE  /\ pick_door(AddOnce(members, x), ms) = pick_door(members, ns)
         /\ pick_door(members, ns) # x
<1>. DEFINE after == AddOnce(members, x)
<1>1. PICK i \in 1..Len(members) :
        DoorAt(members, ns, i) /\ pick_door(members, ns) = members[i]
  BY PickDoorAt
<1>2. /\ after \in Seq(Ids) /\ Len(members) <= Len(after)
      /\ \A j \in 1..Len(members) : after[j] = members[j]
      /\ \A j \in 1..Len(after) : j \notin 1..Len(members) => after[j] = x
  BY DEF AddOnce
<1>3. PICK k \in 1..Len(after) :
        DoorAt(after, ms, k) /\ pick_door(after, ms) = after[k]
  BY <1>2, PickDoorAt, after # <<>>
<1>4. after[k] # x /\ k \in 1..Len(members) /\ after[k] = members[k]
  BY <1>2, <1>3
<1>5. ms[members[k]] = ns[members[k]]
  BY <1>4 DEF Elements
<1>6. \A j \in 1..Len(members) : ns[members[j]].is_sink => ms[members[j]].is_sink
  <2>. TAKE j \in 1..Len(members)
  <2>1. CASE members[j] = x
    BY <2>1 DEF Elements
  <2>2. CASE members[j] # x
    BY <2>2 DEF Elements
  <2>. QED  BY <2>1, <2>2
<1>7. DoorAt(members, ns, k)
  <2>1. CASE ms[after[k]].is_sink
    BY <1>2, <1>3, <1>4, <1>5, <1>6, <2>1 DEF DoorAt
  <2>2. CASE ~ ms[after[k]].is_sink
    BY <1>2, <1>3, <1>4, <1>5, <1>6, <2>2 DEF DoorAt
  <2>. QED  BY <2>1, <2>2
<1>8. i = k
  BY <1>1, <1>7, DoorAtUnique
<1>. QED  BY <1>1, <1>3, <1>4, <1>8

-----------------------------------------------------------------------------
(* The inductive invariant.  MembersAgree alone is not inductive: that a   *)
(* node's departure cannot strand a pointer needs SegmentsListed, that the *)
(* box is right about its door needs to know that it is the one pick_door  *)
(* would pick, and that a box leaves the list when its segment does needs  *)
(* that it is listed once.                                                 *)

SegmentOK(s, g, ns) ==
  /\ g.nodes # <<>>
  /\ Distinct(g.nodes)
  /\ Elements(g.nodes) = {id \in DOMAIN ns : ns[id].segment = s}
  /\ g.box.id = pick_door(g.nodes, ns)
  /\ g.box.sink = ns[g.box.id].is_sink

SegmentsOK == \A s \in DOMAIN segments : SegmentOK(s, segments[s], nodes)

IInv == TypeOK /\ SegmentsOK /\ SegmentsListed /\ OneBoxPerSegment

(* A segment none of whose nodes changed is as it was.                     *)
LEMMA SegmentUntouched ==
  ASSUME NEW s, NEW g, NEW ns, NEW ms, g.nodes \in Seq(Ids),
         SegmentOK(s, g, ns),
         \A y \in Elements(g.nodes) : ms[y] = ns[y],
         {id \in DOMAIN ms : ms[id].segment = s} = {id \in DOMAIN ns : ns[id].segment = s}
  PROVE  SegmentOK(s, g, ms)
<1>1. pick_door(g.nodes, ms) = pick_door(g.nodes, ns)
  BY PickDoorLocal DEF Elements
<1>2. g.box.id \in Elements(g.nodes)
  BY PickDoorBest DEF SegmentOK
<1>. QED  BY <1>1, <1>2 DEF SegmentOK

(* What an info makes of a node is a node.                                 *)
LEMMA NodeAfterType ==
  ASSUME TypeOK, NEW id \in Ids, NEW d \in Dicts
  PROVE  /\ NodeBefore(id) \in Node
         /\ InfoSegment(id, d) \in Segments \cup {NULL}
         /\ InfoSink(id, d) \in BOOLEAN
         /\ NodeAfter(id, d) \in Node
         /\ InfoSegment(id, d) = NULL =>
              NodeBefore(id).segment = NULL /\ NodeAfter(id, d) = NodeBefore(id)
         /\ InfoSegment(id, d) # NULL => NodeAfter(id, d).is_sink = InfoSink(id, d)
<1>1. NodeBefore(id) \in Node
  BY DEF NodeBefore, TypeOK, Known, new_node, Node
<1>2. InfoSegment(id, d) \in Segments \cup {NULL}
  BY <1>1, WalkAssumption DEF InfoSegment, Node, With
<1>3. InfoSink(id, d) \in BOOLEAN
  BY <1>1 DEF InfoSink, Node
<1>4. NodeAfter(id, d) \in Node
  BY <1>1, <1>2, <1>3 DEF NodeAfter, Node
<1>5. InfoSegment(id, d) = NULL => NodeBefore(id).segment = NULL
  BY WalkAssumption DEF InfoSegment, With
<1>6. InfoSegment(id, d) # NULL => NodeAfter(id, d).is_sink = InfoSink(id, d)
  BY <1>1 DEF NodeAfter, Node
<1>. QED  BY <1>1, <1>2, <1>3, <1>4, <1>5, <1>6 DEF NodeAfter

(* The node table stays well typed when a node enters or leaves it.        *)
NodeTable(ns) == DOMAIN ns \subseteq Ids /\ ns \in [DOMAIN ns -> Node]

(* What one entry point makes of the node table: the node id enters it,    *)
(* changes in it or leaves it, and carries seg or nothing.                 *)
OneNode(ns, id, seg) ==
  \/ ns = Drop(nodes, id)
  \/ \E n \in Node : n.segment \in {NULL, seg} /\ ns = Insert(nodes, id, n)

LEMMA NodesType ==
  ASSUME TypeOK, NEW id \in Ids, NEW seg, NEW ns, OneNode(ns, id, seg)
  PROVE  NodeTable(ns)
<1>1. CASE ns = Drop(nodes, id)
  BY <1>1 DEF TypeOK, Drop, NodeTable
<1>2. CASE \E n \in Node : n.segment \in {NULL, seg} /\ ns = Insert(nodes, id, n)
  BY <1>2 DEF TypeOK, Insert, NodeTable
<1>. QED  BY <1>1, <1>2 DEF OneNode

(* No segment but the node's own is touched.                               *)
LEMMA OthersUntouched ==
  ASSUME IInv, NEW id \in Ids, NEW seg, SegmentOf(id) \in {NULL, seg},
         NEW ns, OneNode(ns, id, seg),
         NEW s \in DOMAIN segments \ {seg}
  PROVE  SegmentOK(s, segments[s], ns)
<1>1. s # NULL /\ segments[s].nodes \in Seq(Ids)
  BY WalkAssumption DEF IInv, TypeOK
<1>2. {i \in DOMAIN ns : ns[i].segment = s} = {i \in DOMAIN nodes : nodes[i].segment = s}
  <2>1. CASE ns = Drop(nodes, id)
    BY <1>1, <2>1 DEF Drop, SegmentOf, Known
  <2>2. CASE \E n \in Node : n.segment \in {NULL, seg} /\ ns = Insert(nodes, id, n)
    BY <1>1, <2>2 DEF Insert, SegmentOf, Known
  <2>. QED  BY <2>1, <2>2 DEF OneNode
<1>3. SegmentOK(s, segments[s], nodes)
  BY DEF IInv, SegmentsOK
<1>4. \A y \in Elements(segments[s].nodes) : y \in DOMAIN nodes /\ y # id
  BY <1>1, <1>3 DEF SegmentOK, SegmentOf, Known
<1>5. \A y \in Elements(segments[s].nodes) : ns[y] = nodes[y]
  BY <1>4 DEF OneNode, Insert, Drop
<1>. QED  BY <1>1, <1>2, <1>3, <1>5, SegmentUntouched

(* A node that carries no segment comes, speaks or goes: nothing listed    *)
(* depends on it.                                                          *)
LEMMA OrdinaryNode ==
  ASSUME IInv, NEW id \in Ids, SegmentOf(id) = NULL,
         OneNode(nodes', id, NULL),
         signal' = Silent, UNCHANGED <<segments, boxes>>
  PROVE  IInv'
<1>1. TypeOK'
  <2>1. DOMAIN nodes' \subseteq Ids /\ nodes' \in [DOMAIN nodes' -> Node]
    BY NodesType DEF IInv, NodeTable
  <2>2. signal' \in [kind : {"none", "added", "changed", "removed"},
                     segment : Segments \cup {NULL}]
    BY DEF Silent
  <2>. QED  BY <2>1, <2>2 DEF IInv, TypeOK
<1>2. SegmentsOK'
  <2>. SUFFICES ASSUME NEW s \in DOMAIN segments
                PROVE  SegmentOK(s, segments[s], nodes')
    BY DEF SegmentsOK
  <2>1. s # NULL
    BY WalkAssumption DEF IInv, TypeOK
  <2>. QED  BY <2>1, OthersUntouched
<1>3. SegmentsListed'
  <2>1. CASE nodes' = Drop(nodes, id)
    BY <2>1 DEF IInv, SegmentsListed, Drop
  <2>2. CASE \E n \in Node : n.segment = NULL /\ nodes' = Insert(nodes, id, n)
    BY <2>2 DEF IInv, SegmentsListed, Insert
  <2>. QED  BY <2>1, <2>2 DEF OneNode
<1>4. OneBoxPerSegment'
  BY DEF IInv, OneBoxPerSegment
<1>. QED  BY <1>1, <1>2, <1>3, <1>4 DEF IInv

-----------------------------------------------------------------------------
(* The graph, while a node keeps the segment it first published and a sink *)
(* stays a sink: the assumptions under which the walk is right.            *)
SteadyGraph == "restamp" \notin Quirks /\ "demote" \notin Quirks

(* An info of such a graph leaves its node in the segment it was in, and a *)
(* sink a sink.                                                            *)
LEMMA SteadyInfo ==
  ASSUME SteadyGraph, TypeOK, NEW id \in Ids, NEW d \in Dicts,
         Publishes(id, d), InfoSegment(id, d) # NULL
  PROVE  /\ InfoSegment(id, d) \in Segments
         /\ SegmentOf(id) \in {NULL, InfoSegment(id, d)}
         /\ NodeAfter(id, d) \in Node
         /\ NodeAfter(id, d).segment = InfoSegment(id, d)
         /\ Known(id) /\ nodes[id].segment = InfoSegment(id, d) /\ nodes[id].is_sink
              => NodeAfter(id, d).is_sink
         /\ OneNode(Insert(nodes, id, NodeAfter(id, d)), id, InfoSegment(id, d))
<1>1. NodeBefore(id).segment \in {NULL, InfoSegment(id, d)}
  BY DEF Publishes, SteadyGraph
<1>2. InfoSegment(id, d) \in Segments /\ NodeAfter(id, d) \in Node
  BY NodeAfterType
<1>3. SegmentOf(id) \in {NULL, InfoSegment(id, d)}
  BY <1>1 DEF SegmentOf, NodeBefore
<1>4. NodeAfter(id, d).segment = InfoSegment(id, d)
  BY <1>1, NodeAfterType DEF NodeAfter, Node
<1>5. ASSUME Known(id), nodes[id].segment = InfoSegment(id, d), nodes[id].is_sink
      PROVE  NodeAfter(id, d).is_sink
  <2>1. InfoSink(id, d) = NodeBefore(id).is_sink
    BY <1>5, NodeAfterType DEF Publishes, SteadyGraph, NodeBefore
  <2>. QED  BY <1>5, <2>1, NodeAfterType DEF NodeBefore
<1>. QED  BY <1>1, <1>2, <1>3, <1>4, <1>5 DEF OneNode

(* The nodes of a segment after one of them has entered or spoken.         *)
LEMMA MembersInsert ==
  ASSUME NEW id, NEW n, NEW seg, n.segment = seg, NEW ns
  PROVE  {i \in DOMAIN Insert(ns, id, n) : Insert(ns, id, n)[i].segment = seg}
           = {i \in DOMAIN ns : ns[i].segment = seg} \cup {id}
  BY DEF Insert

(* A listed segment is well typed and has a well typed box.                *)
LEMMA SegmentType ==
  ASSUME IInv, NEW s \in DOMAIN segments
  PROVE  /\ s \in Segments /\ s # NULL
         /\ segments[s].nodes \in Seq(Ids)
         /\ segments[s].box \in Box(Ids, {s})
         /\ SegmentOK(s, segments[s], nodes)
  BY WalkAssumption DEF IInv, TypeOK, SegmentsOK

(* The segment table stays well typed when a segment enters or leaves it.  *)
SegmentTable(sg) ==
  /\ DOMAIN sg \subseteq Segments
  /\ sg = [s \in DOMAIN sg |-> sg[s]]
  /\ \A s \in DOMAIN sg : sg[s] \in [box : Box(Ids, {s}), nodes : Seq(Ids)]

LEMMA SegmentTables ==
  ASSUME TypeOK, NEW seg \in Segments,
         NEW g \in [box : Box(Ids, {seg}), nodes : Seq(Ids)]
  PROVE  /\ SegmentTable(Insert(segments, seg, g))
         /\ SegmentTable(Drop(segments, seg))
         /\ SegmentTable([segments EXCEPT ![seg] = g])
<1>1. SegmentTable(segments)
  BY DEF TypeOK, SegmentTable
<1>2. SegmentTable(Insert(segments, seg, g))
  <2>. DEFINE sg == Insert(segments, seg, g)
  <2>1. /\ DOMAIN sg = DOMAIN segments \cup {seg}
        /\ sg = [s \in DOMAIN sg |-> sg[s]]
        /\ \A s \in DOMAIN sg : sg[s] = IF s = seg THEN g ELSE segments[s]
    BY DEF Insert
  <2>. HIDE DEF sg
  <2>2. ASSUME NEW s \in DOMAIN sg
        PROVE  sg[s] \in [box : Box(Ids, {s}), nodes : Seq(Ids)]
    <3>1. CASE s = seg
      BY <2>1, <3>1
    <3>2. CASE s # seg
      BY <1>1, <2>1, <3>2 DEF SegmentTable
    <3>. QED  BY <3>1, <3>2
  <2>3. DOMAIN sg \subseteq Segments
    BY <1>1, <2>1 DEF SegmentTable
  <2>4. SegmentTable(sg)
    BY <2>1, <2>2, <2>3 DEF SegmentTable
  <2>. QED  BY <2>4 DEF sg
<1>3. SegmentTable(Drop(segments, seg))
  <2>. DEFINE sg == Drop(segments, seg)
  <2>1. /\ DOMAIN sg = DOMAIN segments \ {seg}
        /\ sg = [s \in DOMAIN sg |-> sg[s]]
        /\ \A s \in DOMAIN sg : sg[s] = segments[s]
    BY DEF Drop
  <2>. HIDE DEF sg
  <2>2. SegmentTable(sg)
    BY <1>1, <2>1 DEF SegmentTable
  <2>. QED  BY <2>2 DEF sg
<1>4. SegmentTable([segments EXCEPT ![seg] = g])
  <2>. DEFINE sg == [segments EXCEPT ![seg] = g]
  <2>1. /\ DOMAIN sg = DOMAIN segments
        /\ sg = [s \in DOMAIN sg |-> sg[s]]
        /\ \A s \in DOMAIN sg : sg[s] = IF s = seg THEN g ELSE segments[s]
    BY <1>1 DEF SegmentTable
  <2>. HIDE DEF sg
  <2>2. ASSUME NEW s \in DOMAIN sg
        PROVE  sg[s] \in [box : Box(Ids, {s}), nodes : Seq(Ids)]
    <3>1. CASE s = seg
      BY <2>1, <3>1
    <3>2. CASE s # seg
      BY <1>1, <2>1, <3>2 DEF SegmentTable
    <3>. QED  BY <3>1, <3>2
  <2>3. SegmentTable(sg)
    BY <1>1, <2>1, <2>2 DEF SegmentTable
  <2>. QED  BY <2>3 DEF sg
<1>. QED  BY <1>2, <1>3, <1>4

LEMMA InfoOrdinaryStep ==
  ASSUME IInv, NEW id \in Ids, NEW d \in Dicts, InfoOrdinary(id, d)
  PROVE  IInv'
<1>1. /\ NodeAfter(id, d) \in Node
      /\ NodeAfter(id, d) = NodeBefore(id)
      /\ NodeBefore(id).segment = NULL
  BY NodeAfterType DEF InfoOrdinary, IInv
<1>2. SegmentOf(id) = NULL
  BY <1>1 DEF SegmentOf, NodeBefore
<1>3. OneNode(nodes', id, NULL)
  BY <1>1 DEF OneNode, InfoOrdinary
<1>. QED  BY <1>2, <1>3, OrdinaryNode DEF InfoOrdinary

LEMMA GlobalStep ==
  ASSUME IInv, NEW id \in Ids, NEW class \in GlobalClasses, WalkGlobal(id, class)
  PROVE  IInv'
<1>1. CASE Known(id)
  <2>1. UNCHANGED <<nodes, segments, boxes>> /\ signal' = Silent
    BY <1>1 DEF WalkGlobal
  <2>. QED
    BY <2>1 DEF IInv, TypeOK, Silent, SegmentsOK, SegmentsListed, OneBoxPerSegment
<1>2. CASE ~Known(id)
  <2>1. new_node(class) \in Node /\ new_node(class).segment = NULL
    BY DEF new_node, Node
  <2>2. OneNode(nodes', id, NULL)
    BY <1>2, <2>1 DEF WalkGlobal, OneNode
  <2>3. SegmentOf(id) = NULL
    BY <1>2 DEF SegmentOf
  <2>. QED  BY <2>2, <2>3, OrdinaryNode DEF WalkGlobal
<1>. QED  BY <1>1, <1>2

LEMMA RemoveOrdinaryStep ==
  ASSUME IInv, NEW id \in Ids, RemoveOrdinary(id)
  PROVE  IInv'
<1>1. SegmentOf(id) = NULL
  BY DEF RemoveOrdinary, SegmentOf, Known, IInv, SegmentsListed
<1>2. OneNode(nodes', id, NULL)
  BY DEF RemoveOrdinary, OneNode
<1>. QED  BY <1>1, <1>2, OrdinaryNode DEF RemoveOrdinary

(* The first node of a segment: the segment is listed under it.            *)
LEMMA InfoNewSegmentStep ==
  ASSUME SteadyGraph, IInv, NEW id \in Ids, NEW d \in Dicts,
         Publishes(id, d), InfoNewSegment(id, d)
  PROVE  IInv'
<1>. DEFINE seg == InfoSegment(id, d)
            n   == NodeAfter(id, d)
            box == update_from_dict(box_new(id, seg, n.is_sink), d)
            new == [box |-> box, nodes |-> <<id>>]
<1>1. /\ seg # NULL /\ seg \notin DOMAIN segments
      /\ nodes' = Insert(nodes, id, n)
      /\ segments' = Insert(segments, seg, new)
      /\ boxes' = Append(boxes, seg)
      /\ signal' = Told("added", seg)
  BY DEF InfoNewSegment
<1>2. /\ seg \in Segments /\ SegmentOf(id) \in {NULL, seg}
      /\ n \in Node /\ n.segment = seg
      /\ OneNode(nodes', id, seg)
  BY <1>1, SteadyInfo DEF IInv
<1>3. box \in Box(Ids, {seg}) /\ box.id = id /\ box.sink = n.is_sink
  <2>1. n.is_sink \in BOOLEAN
    BY <1>2 DEF Node
  <2>2. /\ box_new(id, seg, n.is_sink) \in Box(Ids, {seg})
        /\ box_new(id, seg, n.is_sink).id = id
        /\ box_new(id, seg, n.is_sink).sink = n.is_sink
    BY <2>1, NewBoxType
  <2>. QED  BY <2>2, UpdateType
<1>. HIDE DEF seg, n, box
<1>4. SegmentOK(seg, new, nodes')
  <2>1. Elements(<<id>>) = {id} /\ Distinct(<<id>>) /\ <<id>> # <<>>
    BY DEF Elements, Distinct
  <2>2. {i \in DOMAIN nodes : nodes[i].segment = seg} = {}
    BY <1>1 DEF IInv, SegmentsListed
  <2>3. {i \in DOMAIN nodes' : nodes'[i].segment = seg} = {id}
    BY <1>1, <1>2, <2>2, MembersInsert
  <2>4. nodes'[id] = n
    BY <1>1 DEF Insert
  <2>5. pick_door(<<id>>, nodes') \in Elements(<<id>>)
    BY <2>1, PickDoorBest, <<id>> \in Seq(Ids)
  <2>. QED  BY <1>3, <2>1, <2>3, <2>4, <2>5 DEF SegmentOK
<1>5. TypeOK'
  <2>1. DOMAIN nodes' \subseteq Ids /\ nodes' \in [DOMAIN nodes' -> Node]
    BY <1>2, NodesType DEF IInv, NodeTable
  <2>2. new \in [box : Box(Ids, {seg}), nodes : Seq(Ids)]
    BY <1>3
  <2>3. SegmentTable(segments')
    BY <1>1, <1>2, <2>2, SegmentTables DEF IInv
  <2>4. boxes' \in Seq(Segments)
    BY <1>1, <1>2 DEF IInv, TypeOK
  <2>5. signal' \in [kind : {"none", "added", "changed", "removed"},
                     segment : Segments \cup {NULL}]
    BY <1>1, <1>2 DEF Told
  <2>. QED  BY <2>1, <2>3, <2>4, <2>5 DEF TypeOK, SegmentTable
<1>6. SegmentsOK'
  <2>. SUFFICES ASSUME NEW s \in DOMAIN segments'
                PROVE  SegmentOK(s, segments'[s], nodes')
    BY DEF SegmentsOK
  <2>1. CASE s = seg
    BY <1>1, <1>4, <2>1 DEF Insert
  <2>2. CASE s # seg
    BY <1>1, <1>2, <2>2, OthersUntouched DEF Insert
  <2>. QED  BY <2>1, <2>2
<1>7. SegmentsListed'
  BY <1>1, <1>2 DEF SegmentsListed, IInv, Insert
<1>8. OneBoxPerSegment'
  BY <1>1, <1>2, AppendElements DEF OneBoxPerSegment, IInv, TypeOK, Insert
<1>. QED  BY <1>5, <1>6, <1>7, <1>8 DEF IInv

(* What is left to show when only the segment seg was changed.             *)
LEMMA OneSegmentChanged ==
  ASSUME IInv, NEW id \in Ids, NEW seg \in DOMAIN segments,
         SegmentOf(id) \in {NULL, seg}, OneNode(nodes', id, seg),
         NEW g \in [box : Box(Ids, {seg}), nodes : Seq(Ids)],
         segments' = [segments EXCEPT ![seg] = g],
         SegmentOK(seg, g, nodes'),
         signal' \in {Silent, Told("changed", seg)}, boxes' = boxes
  PROVE  IInv'
<1>. seg \in Segments
  BY SegmentType
<1>1. TypeOK'
  <2>1. NodeTable(nodes')
    BY NodesType DEF IInv
  <2>2. SegmentTable(segments')
    BY SegmentTables DEF IInv
  <2>3. signal' \in [kind : {"none", "added", "changed", "removed"},
                     segment : Segments \cup {NULL}]
    BY DEF Silent, Told
  <2>4. boxes' \in Seq(Segments)
    BY DEF IInv, TypeOK
  <2>. QED
    BY <2>1, <2>2, <2>3, <2>4 DEF TypeOK, NodeTable, SegmentTable
<1>2. DOMAIN segments' = DOMAIN segments
  OBVIOUS
<1>3. SegmentsOK'
  <2>. SUFFICES ASSUME NEW s \in DOMAIN segments
                PROVE  SegmentOK(s, segments'[s], nodes')
    BY <1>2 DEF SegmentsOK
  <2>1. segments'[s] = IF s = seg THEN g ELSE segments[s]
    OBVIOUS
  <2>2. s # seg => SegmentOK(s, segments[s], nodes')
    BY OthersUntouched
  <2>. QED  BY <2>1, <2>2
<1>4. SegmentsListed'
  <2>1. CASE nodes' = Drop(nodes, id)
    BY <1>2, <2>1 DEF IInv, SegmentsListed, Drop
  <2>2. CASE \E n \in Node : n.segment \in {NULL, seg} /\ nodes' = Insert(nodes, id, n)
    BY <1>2, <2>2 DEF IInv, SegmentsListed, Insert
  <2>. QED  BY <2>1, <2>2 DEF OneNode
<1>5. OneBoxPerSegment'
  BY <1>2 DEF IInv, OneBoxPerSegment
<1>. QED  BY <1>1, <1>3, <1>4, <1>5 DEF IInv

(* A node of a listed segment speaks: it takes the door, keeps it, or      *)
(* leaves it where it was.                                                 *)
LEMMA InfoKnownSegmentStep ==
  ASSUME SteadyGraph, IInv, NEW id \in Ids, NEW d \in Dicts,
         Publishes(id, d), InfoKnownSegment(id, d)
  PROVE  IInv'
<1>. DEFINE seg     == InfoSegment(id, d)
            n       == NodeAfter(id, d)
            old     == segments[seg]
            members == AddOnce(old.nodes, id)
            box     == BoxAfter(old.box, id, d, members, nodes')
            new     == [box |-> box, nodes |-> members]
<1>1. /\ seg \in DOMAIN segments
      /\ nodes' = Insert(nodes, id, n)
      /\ segments' = [segments EXCEPT ![seg] = new]
      /\ signal' \in {Silent, Told("changed", seg)}
      /\ boxes' = boxes
  BY DEF InfoKnownSegment
<1>2. /\ old.nodes \in Seq(Ids)
      /\ old.box \in Box(Ids, {seg})
      /\ SegmentOK(seg, old, nodes)
      /\ seg # NULL
  BY <1>1, SegmentType
<1>3. /\ SegmentOf(id) \in {NULL, seg}
      /\ n \in Node /\ n.segment = seg
      /\ Known(id) /\ nodes[id].segment = seg /\ nodes[id].is_sink => n.is_sink
      /\ OneNode(nodes', id, seg)
  BY <1>1, <1>2, SteadyInfo DEF IInv
<1>. HIDE DEF seg, n
<1>4. /\ members \in Seq(Ids)
      /\ Elements(members) = Elements(old.nodes) \cup {id}
      /\ Distinct(members)
      /\ members # <<>>
  <2>1. /\ members \in Seq(Ids)
        /\ Elements(members) = Elements(old.nodes) \cup {id}
        /\ Distinct(members)
    BY <1>2, AddOnceElements DEF SegmentOK
  <2>. QED  BY <2>1, ElementsEmpty
<1>5. Elements(members) = {i \in DOMAIN nodes' : nodes'[i].segment = seg}
  BY <1>1, <1>2, <1>3, <1>4, MembersInsert DEF SegmentOK
<1>6. nodes'[id] = n /\ n.is_sink \in BOOLEAN
  BY <1>1, <1>3 DEF Insert, Node
<1>7. /\ box \in Box(Ids, {seg})
      /\ box.id = pick_door(members, nodes')
      /\ box.sink = nodes'[box.id].is_sink
  <2>1. CASE pick_door(members, nodes') = id
    <3>. DEFINE pointed == set_door(old.box, id, nodes'[id].is_sink)
    <3>1. /\ pointed \in Box(Ids, {seg})
          /\ pointed.id = id /\ pointed.sink = n.is_sink
      BY <1>2, <1>6, SetDoorType
    <3>2. box = update_from_dict(pointed, d)
      BY <2>1 DEF BoxAfter
    <3>. HIDE DEF pointed, box, members
    <3>3. box \in Box(Ids, {seg}) /\ box.id = id /\ box.sink = n.is_sink
      BY <3>1, <3>2, UpdateType
    <3>. QED  BY <1>6, <2>1, <3>3
  <2>2. CASE pick_door(members, nodes') # id
    <3>1. box = old.box
      BY <2>2 DEF BoxAfter
    <3>2. \A y \in Elements(old.nodes) \ {id} : nodes'[y] = nodes[y]
      BY <1>1, <1>2 DEF Insert, SegmentOK
    <3>3. id \in Elements(old.nodes) /\ nodes[id].is_sink => nodes'[id].is_sink
      BY <1>2, <1>3, <1>6 DEF SegmentOK, Known
    <3>4. /\ pick_door(members, nodes') = pick_door(old.nodes, nodes)
          /\ pick_door(old.nodes, nodes) # id
      BY <1>2, <2>2, <3>2, <3>3, PickDoorMoves DEF SegmentOK
    <3>5. pick_door(old.nodes, nodes) \in Elements(old.nodes)
      BY <1>2, PickDoorBest DEF SegmentOK
    <3>. QED  BY <1>2, <3>1, <3>2, <3>4, <3>5 DEF SegmentOK
  <2>. QED  BY <2>1, <2>2
<1>. HIDE DEF box, members
<1>8. SegmentOK(seg, new, nodes')
  BY <1>4, <1>5, <1>7 DEF SegmentOK
<1>9. new \in [box : Box(Ids, {seg}), nodes : Seq(Ids)]
  BY <1>4, <1>7
<1>. HIDE DEF new
<1>. QED  BY <1>1, <1>3, <1>8, <1>9, OneSegmentChanged

(* The nodes left in a segment when the node id leaves.                    *)
LEMMA RestElements ==
  ASSUME IInv, NEW id \in Ids, SegmentOf(id) \in DOMAIN segments
  PROVE  /\ Rest(id) \in Seq(Ids)
         /\ Distinct(Rest(id))
         /\ Elements(Rest(id))
              = {i \in DOMAIN Drop(nodes, id) : Drop(nodes, id)[i].segment = SegmentOf(id)}
<1>1. /\ segments[SegmentOf(id)].nodes \in Seq(Ids)
      /\ SegmentOK(SegmentOf(id), segments[SegmentOf(id)], nodes)
  BY SegmentType
<1>2. /\ Rest(id) \in Seq(Ids)
      /\ Distinct(Rest(id))
      /\ Elements(Rest(id)) = Elements(segments[SegmentOf(id)].nodes) \ {id}
  BY <1>1, RemoveFastElements DEF Rest, SegmentOK
<1>3. Elements(segments[SegmentOf(id)].nodes)
        = {i \in DOMAIN nodes : nodes[i].segment = SegmentOf(id)}
  BY <1>1 DEF SegmentOK
<1>4. {i \in DOMAIN Drop(nodes, id) : Drop(nodes, id)[i].segment = SegmentOf(id)}
        = {i \in DOMAIN nodes : nodes[i].segment = SegmentOf(id)} \ {id}
  BY DEF Drop
<1>. QED  BY <1>2, <1>3, <1>4

LEMMA RemoveMemberStep ==
  ASSUME IInv, NEW id \in Ids, RemoveMember(id)
  PROVE  IInv'
<1>. DEFINE seg  == SegmentOf(id)
            door == pick_door(Rest(id), nodes')
            box  == set_door(segments[seg].box, door, nodes'[door].is_sink)
            new  == [box |-> box, nodes |-> Rest(id)]
<1>1. /\ seg \in DOMAIN segments
      /\ Rest(id) # <<>>
      /\ nodes' = Drop(nodes, id)
      /\ segments' = [segments EXCEPT ![seg] = new]
      /\ signal' = Told("changed", seg)
      /\ boxes' = boxes
  BY DEF RemoveMember
<1>2. /\ Rest(id) \in Seq(Ids)
      /\ Distinct(Rest(id))
      /\ Elements(Rest(id)) = {i \in DOMAIN nodes' : nodes'[i].segment = seg}
  BY <1>1, RestElements
<1>3. OneNode(nodes', id, seg) /\ NodeTable(nodes')
  BY <1>1, NodesType DEF OneNode, IInv
<1>4. door \in Ids /\ nodes'[door].is_sink \in BOOLEAN
  <2>1. door \in Elements(Rest(id))
    BY <1>1, <1>2, PickDoorBest
  <2>. QED  BY <1>2, <1>3, <2>1 DEF NodeTable, Node
<1>5. box \in Box(Ids, {seg}) /\ box.id = door /\ box.sink = nodes'[door].is_sink
  <2>1. segments[seg].box \in Box(Ids, {seg})
    BY <1>1, SegmentType
  <2>. HIDE DEF door, seg
  <2>. QED  BY <1>4, <2>1, SetDoorType
<1>. HIDE DEF box
<1>6. SegmentOK(seg, new, nodes')
  BY <1>1, <1>2, <1>5 DEF SegmentOK
<1>7. new \in [box : Box(Ids, {seg}), nodes : Seq(Ids)]
  BY <1>2, <1>5
<1>. HIDE DEF new, seg
<1>. QED  BY <1>1, <1>3, <1>6, <1>7, OneSegmentChanged DEF seg

LEMMA RemoveLastStep ==
  ASSUME IInv, NEW id \in Ids, RemoveLast(id)
  PROVE  IInv'
<1>. DEFINE seg == SegmentOf(id)
<1>1. /\ seg \in DOMAIN segments
      /\ Rest(id) = <<>>
      /\ nodes' = Drop(nodes, id)
      /\ segments' = Drop(segments, seg)
      /\ boxes' = RemoveFast(boxes, seg)
      /\ signal' = Told("removed", seg)
  BY DEF RemoveLast, Unlisted
<1>2. {i \in DOMAIN nodes' : nodes'[i].segment = seg} = {}
  BY <1>1, RestElements, ElementsEmpty
<1>3. OneNode(nodes', id, seg) /\ seg \in Segments
  BY <1>1, SegmentType DEF OneNode
<1>4. /\ boxes' \in Seq(Segments)
      /\ Elements(boxes') = Elements(boxes) \ {seg}
      /\ Distinct(boxes')
  BY <1>1, RemoveFastElements DEF IInv, TypeOK, OneBoxPerSegment
<1>5. DOMAIN segments' = DOMAIN segments \ {seg}
      /\ \A s \in DOMAIN segments' : segments'[s] = segments[s]
  BY <1>1 DEF Drop
<1>6. TypeOK'
  <2>1. NodeTable(nodes')
    BY <1>3, NodesType DEF IInv
  <2>2. segments[seg] \in [box : Box(Ids, {seg}), nodes : Seq(Ids)]
    BY <1>1 DEF IInv, TypeOK
  <2>3. SegmentTable(segments')
    BY <1>1, <1>3, <2>2, SegmentTables DEF IInv
  <2>. QED
    BY <1>1, <1>3, <1>4, <2>1, <2>3 DEF TypeOK, NodeTable, SegmentTable, Told
<1>7. SegmentsOK'
  <2>. SUFFICES ASSUME NEW s \in DOMAIN segments'
                PROVE  SegmentOK(s, segments'[s], nodes')
    BY DEF SegmentsOK
  <2>. QED  BY <1>3, <1>5, OthersUntouched
<1>8. SegmentsListed'
  BY <1>1, <1>2, <1>5 DEF SegmentsListed, IInv, Drop
<1>9. OneBoxPerSegment'
  BY <1>4, <1>5 DEF OneBoxPerSegment, IInv
<1>. QED  BY <1>6, <1>7, <1>8, <1>9 DEF IInv

-----------------------------------------------------------------------------
LEMMA InitInv == Init => IInv
<1>. SUFFICES ASSUME Init  PROVE IInv
  OBVIOUS
<1>1. TypeOK
  BY DEF Init, TypeOK, Silent
<1>2. SegmentsOK /\ SegmentsListed /\ OneBoxPerSegment
  BY DEF Init, SegmentsOK, SegmentsListed, OneBoxPerSegment, Elements, Distinct
<1>. QED  BY <1>1, <1>2 DEF IInv

LEMMA NextInv == SteadyGraph /\ IInv /\ [Next]_vars => IInv'
<1>. SUFFICES ASSUME SteadyGraph, IInv, [Next]_vars  PROVE IInv'
  OBVIOUS
<1>1. ASSUME NEW id \in Ids, NEW class \in GlobalClasses, WalkGlobal(id, class)
      PROVE  IInv'
  BY <1>1, GlobalStep
<1>2. ASSUME NEW id \in Ids, NEW d \in Dicts, Publishes(id, d), InfoOrdinary(id, d)
      PROVE  IInv'
  BY <1>2, InfoOrdinaryStep
<1>3. ASSUME NEW id \in Ids, NEW d \in Dicts, Publishes(id, d), InfoNewSegment(id, d)
      PROVE  IInv'
  BY <1>3, InfoNewSegmentStep
<1>4. ASSUME NEW id \in Ids, NEW d \in Dicts, Publishes(id, d), InfoKnownSegment(id, d)
      PROVE  IInv'
  BY <1>4, InfoKnownSegmentStep
<1>5. ASSUME NEW id \in Ids, RemoveOrdinary(id)  PROVE  IInv'
  BY <1>5, RemoveOrdinaryStep
<1>6. ASSUME NEW id \in Ids, RemoveMember(id)  PROVE  IInv'
  BY <1>6, RemoveMemberStep
<1>7. ASSUME NEW id \in Ids, RemoveLast(id)  PROVE  IInv'
  BY <1>7, RemoveLastStep
<1>8. CASE UNCHANGED vars
  BY <1>8 DEF vars, IInv, TypeOK, SegmentsOK, SegmentsListed, OneBoxPerSegment
<1>. QED
  BY <1>1, <1>2, <1>3, <1>4, <1>5, <1>6, <1>7, <1>8 DEF Next, WalkInfo, WalkRemove

(* The invariant holds in every state the walk can reach in such a graph.  *)
THEOREM WalkInvariant ==
  ASSUME SteadyGraph
  PROVE  Spec => []IInv
<1>1. Init => IInv
  BY InitInv
<1>2. IInv /\ [Next]_vars => IInv'
  BY NextInv
<1>. QED  BY <1>1, <1>2, PTL DEF Spec

(* Every table of the walk keeps its shape, and every box the segment it   *)
(* was made for.                                                           *)
THEOREM WalkTypeCorrect ==
  ASSUME SteadyGraph
  PROVE  Spec => []TypeOK
<1>1. IInv => TypeOK
  BY DEF IInv
<1>. QED  BY <1>1, WalkInvariant, PTL

(* rs-walk.c:20, "Node*, borrowed from `nodes`": no array of a segment     *)
(* outlives a node of it, and no node leaves without leaving its segment.  *)
THEOREM WalkMembersAgree ==
  ASSUME SteadyGraph
  PROVE  Spec => []MembersAgree
<1>1. IInv => MembersAgree
  BY DEF IInv, SegmentsOK, SegmentOK, MembersAgree
<1>. QED  BY <1>1, WalkInvariant, PTL

(* rs_walk_box finds the segment of every node that knows one.             *)
THEOREM WalkSegmentsListed ==
  ASSUME SteadyGraph
  PROVE  Spec => []SegmentsListed
<1>1. IInv => SegmentsListed
  BY DEF IInv
<1>. QED  BY <1>1, WalkInvariant, PTL

(* ONE SEGMENT IS ONE STAGEBOX, for rs_walk_boxes and so for the sidebar.  *)
THEOREM WalkOneBoxPerSegment ==
  ASSUME SteadyGraph
  PROVE  Spec => []OneBoxPerSegment
<1>1. IInv => OneBoxPerSegment
  BY DEF IInv
<1>. QED  BY <1>1, WalkInvariant, PTL

(* rs_walk_info and rs_walk_remove leave every box on a live node of its   *)
(* segment, on a sink whenever there is one: a write goes to no id that    *)
(* has left, and is refused only while the segment has no sink.            *)
THEOREM WalkDoorIsBest ==
  ASSUME SteadyGraph
  PROVE  Spec => []DoorIsBest
<1>1. IInv => DoorIsBest
  <2>. SUFFICES ASSUME IInv, NEW s \in DOMAIN segments
                PROVE  /\ segments[s].box.id \in DOMAIN nodes
                       /\ nodes[segments[s].box.id].segment = s
                       /\ segments[s].box.sink = nodes[segments[s].box.id].is_sink
                       /\ segments[s].box.sink <=> SinksOf(s) # {}
    BY DEF DoorIsBest
  <2>1. /\ segments[s].nodes \in Seq(Ids)
        /\ SegmentOK(s, segments[s], nodes)
    BY SegmentType
  <2>2. /\ segments[s].box.id \in Elements(segments[s].nodes)
        /\ (\E x \in Elements(segments[s].nodes) : nodes[x].is_sink)
             => nodes[segments[s].box.id].is_sink
    BY <2>1, PickDoorBest DEF SegmentOK
  <2>3. segments[s].box.id \in DOMAIN nodes /\ nodes[segments[s].box.id].segment = s
    BY <2>1, <2>2 DEF SegmentOK
  <2>4. segments[s].box.sink = nodes[segments[s].box.id].is_sink
    BY <2>1 DEF SegmentOK
  <2>5. ASSUME SinksOf(s) # {}  PROVE  nodes[segments[s].box.id].is_sink
    BY <2>1, <2>2, <2>5 DEF SegmentOK, SinksOf
  <2>6. ASSUME nodes[segments[s].box.id].is_sink  PROVE  SinksOf(s) # {}
    BY <2>3, <2>6 DEF SinksOf
  <2>7. nodes[segments[s].box.id].is_sink \in BOOLEAN
    BY <2>3 DEF IInv, TypeOK, Node
  <2>. QED  BY <2>3, <2>4, <2>5, <2>6, <2>7
<1>. QED  BY <1>1, WalkInvariant, PTL
-----------------------------------------------------------------------------
(* The callbacks, whatever the nodes of the graph do.                      *)

BoxesOf(sg) == [s \in DOMAIN sg |-> sg[s].box]

(* The callback of an entry point is all that has changed in the boxes.    *)
Announced ==
  \/ signal'.kind = "none" /\ BoxesOf(segments') = BoxesOf(segments)
  \/ /\ signal'.kind \in {"added", "changed"}
     /\ BoxesOf(segments')
          = Insert(BoxesOf(segments), signal'.segment, segments'[signal'.segment].box)
  \/ /\ signal'.kind = "removed"
     /\ BoxesOf(segments') = Drop(BoxesOf(segments), signal'.segment)

LEMMA UntouchedAnnounced ==
  ASSUME signal' = Silent, UNCHANGED segments
  PROVE  Announced
  BY DEF Announced, Silent, BoxesOf

LEMMA GlobalAnnounced ==
  ASSUME NEW id, NEW class, WalkGlobal(id, class)
  PROVE  Announced
  BY UntouchedAnnounced DEF WalkGlobal

(* A new segment is announced as one.                                      *)
LEMMA NewSegmentAnnounced ==
  ASSUME NEW id, NEW d, InfoNewSegment(id, d)
  PROVE  Announced
<1>1. PICK g : /\ segments' = Insert(segments, InfoSegment(id, d), g)
               /\ signal' = Told("added", InfoSegment(id, d))
  BY DEF InfoNewSegment
<1>2. PICK seg : seg = InfoSegment(id, d)
  OBVIOUS
<1>3. segments' = Insert(segments, seg, g) /\ signal' = Told("added", seg)
  BY <1>1, <1>2
<1>4. BoxesOf(segments') = Insert(BoxesOf(segments), seg, segments'[seg].box)
  BY <1>3 DEF BoxesOf, Insert
<1>. QED  BY <1>3, <1>4 DEF Announced, Told

(* A segment's record is replaced: it is announced unless its box is the   *)
(* one it was.                                                             *)
LEMMA ReplacedAnnounced ==
  ASSUME NEW seg \in DOMAIN segments, NEW g,
         segments' = [segments EXCEPT ![seg] = g],
         signal' = Told("changed", seg) \/ (signal' = Silent /\ g.box = segments[seg].box)
  PROVE  Announced
<1>1. BoxesOf(segments') = Insert(BoxesOf(segments), seg, segments'[seg].box)
  BY DEF BoxesOf, Insert
<1>2. CASE signal' = Told("changed", seg)
  BY <1>1, <1>2 DEF Announced, Told
<1>3. CASE signal' = Silent /\ g.box = segments[seg].box
  <2>1. BoxesOf(segments') = BoxesOf(segments)
    BY <1>3 DEF BoxesOf
  <2>. QED  BY <1>3, <2>1 DEF Announced, Silent
<1>. QED  BY <1>2, <1>3

LEMMA KnownSegmentAnnounced ==
  ASSUME NEW id, NEW d, InfoKnownSegment(id, d)
  PROVE  Announced
<1>. DEFINE seg     == InfoSegment(id, d)
            members == AddOnce(segments[seg].nodes, id)
            g       == [box |-> BoxAfter(segments[seg].box, id, d, members, nodes'),
                        nodes |-> members]
<1>1. /\ seg \in DOMAIN segments
      /\ segments' = [segments EXCEPT ![seg] = g]
      /\ signal' = IF g.box # segments[seg].box THEN Told("changed", seg) ELSE Silent
  BY DEF InfoKnownSegment
<1>. HIDE DEF g, seg
<1>. QED  BY <1>1, ReplacedAnnounced

LEMMA InfoAnnounced ==
  ASSUME NEW id, NEW d, WalkInfo(id, d)
  PROVE  Announced
<1>1. CASE InfoOrdinary(id, d)
  BY <1>1, UntouchedAnnounced DEF InfoOrdinary
<1>2. CASE InfoNewSegment(id, d)
  BY <1>2, NewSegmentAnnounced
<1>3. CASE InfoKnownSegment(id, d)
  BY <1>3, KnownSegmentAnnounced
<1>. QED  BY <1>1, <1>2, <1>3 DEF WalkInfo

LEMMA RemoveAnnounced ==
  ASSUME NEW id, WalkRemove(id)
  PROVE  Announced
<1>1. CASE RemoveOrdinary(id)
  BY <1>1, UntouchedAnnounced DEF RemoveOrdinary
<1>2. CASE RemoveMember(id)
  <2>1. PICK seg, g :
          /\ seg \in DOMAIN segments
          /\ segments' = [segments EXCEPT ![seg] = g] /\ signal' = Told("changed", seg)
    BY <1>2 DEF RemoveMember
  <2>. QED  BY <2>1, ReplacedAnnounced
<1>3. CASE RemoveLast(id)
  <2>1. PICK seg : segments' = Drop(segments, seg) /\ signal' = Told("removed", seg)
    BY <1>3 DEF RemoveLast
  <2>2. BoxesOf(segments') = Drop(BoxesOf(segments), seg)
    BY <2>1 DEF BoxesOf, Drop
  <2>. QED  BY <2>1, <2>2 DEF Announced, Told
<1>. QED  BY <1>1, <1>2, <1>3 DEF WalkRemove

=============================================================================
