--------------------------- MODULE RsDirectoryProofs ---------------------------
(***************************************************************************)
(* The walk of RsWalk implements the directory of SegmentDirectory, for    *)
(* every set of ids, segments and dicts, under the assumptions of          *)
(* RsWalkProofs: each entry point of rs-walk.c is one of the directory's   *)
(* steps, with the callback it makes as that step's announcement.  And the *)
(* listener of RsWalkAudit, who goes by those callbacks alone, sees what   *)
(* the walk holds.                                                         *)
(***************************************************************************)
EXTENDS RsWalkAudit, RsWalkProofs

-----------------------------------------------------------------------------
(* The two abstract tables as functions of the concrete ones.              *)

CarriersOf(ns) ==
  [id \in {i \in DOMAIN ns : ns[i].segment # NULL} |->
    [segment |-> ns[id].segment, is_sink |-> ns[id].is_sink]]

DoorsOf(sg) == [s \in DOMAIN sg |-> sg[s].box.id]

(* A node that carries a segment enters the directory or speaks in it.     *)
LEMMA CarriersInsert ==
  ASSUME NEW ns, NEW id, NEW n, n.segment # NULL
  PROVE  CarriersOf(Insert(ns, id, n))
           = Insert(CarriersOf(ns), id, [segment |-> n.segment, is_sink |-> n.is_sink])
<1>. DEFINE ms == Insert(ns, id, n)
<1>1. /\ DOMAIN ms = DOMAIN ns \cup {id}
      /\ \A x \in DOMAIN ms : ms[x] = IF x = id THEN n ELSE ns[x]
  BY DEF Insert
<1>. HIDE DEF ms
<1>2. {i \in DOMAIN ms : ms[i].segment # NULL}
        = {i \in DOMAIN ns : ns[i].segment # NULL} \cup {id}
  BY <1>1
<1>3. CarriersOf(ms)
        = Insert(CarriersOf(ns), id, [segment |-> n.segment, is_sink |-> n.is_sink])
  BY <1>1, <1>2 DEF CarriersOf, Insert
<1>. QED  BY <1>3 DEF ms

(* One that carries none is not in the directory.                          *)
LEMMA CarriersIgnore ==
  ASSUME NEW ns, NEW id, NEW n, n.segment = NULL,
         id \in DOMAIN ns => ns[id].segment = NULL
  PROVE  CarriersOf(Insert(ns, id, n)) = CarriersOf(ns)
<1>. DEFINE ms == Insert(ns, id, n)
<1>1. /\ DOMAIN ms = DOMAIN ns \cup {id}
      /\ \A x \in DOMAIN ms : ms[x] = IF x = id THEN n ELSE ns[x]
  BY DEF Insert
<1>. HIDE DEF ms
<1>2. {i \in DOMAIN ms : ms[i].segment # NULL} = {i \in DOMAIN ns : ns[i].segment # NULL}
  BY <1>1
<1>3. CarriersOf(ms) = CarriersOf(ns)
  BY <1>1, <1>2 DEF CarriersOf
<1>. QED  BY <1>3 DEF ms

(* A node that leaves the walk leaves the directory, if it was in it.      *)
LEMMA CarriersDrop ==
  ASSUME NEW ns, NEW id
  PROVE  /\ CarriersOf(Drop(ns, id)) = Drop(CarriersOf(ns), id)
         /\ (id \in DOMAIN ns => ns[id].segment = NULL)
              => CarriersOf(Drop(ns, id)) = CarriersOf(ns)
<1>. DEFINE ms == Drop(ns, id)
<1>1. /\ DOMAIN ms = DOMAIN ns \ {id}
      /\ \A x \in DOMAIN ms : ms[x] = ns[x]
  BY DEF Drop
<1>. HIDE DEF ms
<1>2. {i \in DOMAIN ms : ms[i].segment # NULL}
        = {i \in DOMAIN ns : ns[i].segment # NULL} \ {id}
  BY <1>1
<1>3. CarriersOf(ms) = Drop(CarriersOf(ns), id)
  BY <1>1, <1>2 DEF CarriersOf, Drop
<1>4. ASSUME id \in DOMAIN ns => ns[id].segment = NULL
      PROVE  CarriersOf(ms) = CarriersOf(ns)
  BY <1>1, <1>2, <1>4 DEF CarriersOf
<1>. QED  BY <1>3, <1>4 DEF ms

(* A segment of the walk has its door among the best of its carriers.      *)
LEMMA DoorAmongBest ==
  ASSUME NEW ns, NEW s, s # NULL, NEW g, g.nodes \in Seq(Ids), SegmentOK(s, g, ns)
  PROVE  /\ g.box.id \in Directory!Best(CarriersOf(ns), s)
         /\ g.box.id \in DOMAIN CarriersOf(ns)
         /\ CarriersOf(ns)[g.box.id].is_sink = g.box.sink
<1>. DEFINE C == CarriersOf(ns)
<1>1. Elements(g.nodes) = Directory!Members(C, s)
  BY DEF SegmentOK, CarriersOf, Directory!Members
<1>2. \A id \in Elements(g.nodes) : id \in DOMAIN C /\ C[id].is_sink = ns[id].is_sink
  BY DEF SegmentOK, CarriersOf
<1>3. /\ g.box.id \in Elements(g.nodes)
      /\ (\E x \in Elements(g.nodes) : ns[x].is_sink) => ns[g.box.id].is_sink
  BY PickDoorBest DEF SegmentOK
<1>. HIDE DEF C
<1>4. g.box.id \in Directory!Best(C, s)
  BY <1>1, <1>2, <1>3 DEF Directory!Best, Directory!Sinks
<1>5. C[g.box.id].is_sink = g.box.sink
  BY <1>2, <1>3 DEF SegmentOK
<1>. QED  BY <1>2, <1>3, <1>4, <1>5 DEF C

-----------------------------------------------------------------------------
(* What the refinement maps to, in the words of the two functions.         *)
LEMMA Mapping ==
  /\ Carriers = CarriersOf(nodes) /\ Carriers' = CarriersOf(nodes')
  /\ [s \in DOMAIN segments |-> segments[s].box.id] = DoorsOf(segments)
  /\ [s \in DOMAIN segments |-> segments[s].box.id]' = DoorsOf(segments')
  BY DEF Carriers, CarriersOf, DoorsOf

(* The abstract specification's containers are those of the walk.          *)
LEMMA SameContainers ==
  ASSUME NEW f, NEW k, NEW v
  PROVE  Directory!Insert(f, k, v) = Insert(f, k, v) /\ Directory!Drop(f, k) = Drop(f, k)
  BY DEF Directory!Insert, Insert, Directory!Drop, Drop

(* A directory step in which the graph does something else.                *)
LEMMA QuietStep ==
  ASSUME signal' = Silent, CarriersOf(nodes') = CarriersOf(nodes),
         segments' = segments
  PROVE  Directory!Quiet
<1>1. DoorsOf(segments') = DoorsOf(segments)
  OBVIOUS
<1>. QED  BY <1>1, Mapping DEF Directory!Quiet, Directory!Nothing, Directory!Event, Silent

(* An entry point that touches no segment is one of them.                  *)
LEMMA OrdinaryIsQuiet ==
  ASSUME IInv, NEW id \in Ids, SegmentOf(id) = NULL,
         OneNode(nodes', id, NULL), signal' = Silent, UNCHANGED segments
  PROVE  Directory!Quiet
<1>1. id \in DOMAIN nodes => nodes[id].segment = NULL
  BY DEF SegmentOf, Known
<1>2. CarriersOf(nodes') = CarriersOf(nodes)
  BY <1>1, CarriersDrop, CarriersIgnore DEF OneNode
<1>. QED  BY <1>2, QuietStep

LEMMA GlobalIsQuiet ==
  ASSUME IInv, NEW id \in Ids, NEW class \in GlobalClasses, WalkGlobal(id, class)
  PROVE  Directory!Quiet
<1>1. CASE Known(id)
  BY <1>1, QuietStep DEF WalkGlobal
<1>2. CASE ~Known(id)
  <2>1. new_node(class) \in Node /\ new_node(class).segment = NULL
    BY DEF new_node, Node
  <2>2. OneNode(nodes', id, NULL) /\ SegmentOf(id) = NULL
    BY <1>2, <2>1 DEF WalkGlobal, OneNode, SegmentOf
  <2>. QED  BY <2>2, OrdinaryIsQuiet DEF WalkGlobal
<1>. QED  BY <1>1, <1>2

LEMMA InfoOrdinaryIsQuiet ==
  ASSUME IInv, NEW id \in Ids, NEW d \in Dicts, InfoOrdinary(id, d)
  PROVE  Directory!Quiet
<1>1. /\ NodeAfter(id, d) \in Node
      /\ NodeAfter(id, d) = NodeBefore(id)
      /\ NodeBefore(id).segment = NULL
  BY NodeAfterType DEF InfoOrdinary, IInv
<1>2. SegmentOf(id) = NULL /\ OneNode(nodes', id, NULL)
  BY <1>1 DEF SegmentOf, NodeBefore, OneNode, InfoOrdinary
<1>. QED  BY <1>2, OrdinaryIsQuiet DEF InfoOrdinary

LEMMA RemoveOrdinaryIsQuiet ==
  ASSUME IInv, NEW id \in Ids, RemoveOrdinary(id)
  PROVE  Directory!Quiet
<1>1. SegmentOf(id) = NULL
  BY DEF RemoveOrdinary, SegmentOf, Known, IInv, SegmentsListed
<1>2. OneNode(nodes', id, NULL)
  BY DEF RemoveOrdinary, OneNode
<1>. QED  BY <1>1, <1>2, OrdinaryIsQuiet DEF RemoveOrdinary

-----------------------------------------------------------------------------
(* A node of a segment speaks.  What it says of itself is what the         *)
(* directory lets a node report: its segment, and that it is a sink if it  *)
(* was one.                                                                *)
LEMMA MayReport ==
  ASSUME SteadyGraph, IInv, NEW id \in Ids, NEW d \in Dicts,
         Publishes(id, d), InfoSegment(id, d) # NULL
  PROVE  /\ InfoSegment(id, d) \in Segments
         /\ NodeAfter(id, d).is_sink \in BOOLEAN
         /\ id \in DOMAIN CarriersOf(nodes) =>
              /\ CarriersOf(nodes)[id].segment = InfoSegment(id, d)
              /\ CarriersOf(nodes)[id].is_sink => NodeAfter(id, d).is_sink
         /\ CarriersOf(Insert(nodes, id, NodeAfter(id, d)))
              = Insert(CarriersOf(nodes), id,
                       [segment |-> InfoSegment(id, d), is_sink |-> NodeAfter(id, d).is_sink])
<1>. DEFINE seg == InfoSegment(id, d)
            n   == NodeAfter(id, d)
<1>1. /\ seg \in Segments /\ SegmentOf(id) \in {NULL, seg}
      /\ n \in Node /\ n.segment = seg
      /\ Known(id) /\ nodes[id].segment = seg /\ nodes[id].is_sink => n.is_sink
  BY SteadyInfo DEF IInv
<1>. HIDE DEF seg, n
<1>2. seg # NULL
  BY <1>1, WalkAssumption
<1>3. id \in DOMAIN CarriersOf(nodes) =>
        /\ CarriersOf(nodes)[id].segment = seg
        /\ CarriersOf(nodes)[id].is_sink => n.is_sink
  BY <1>1 DEF CarriersOf, SegmentOf, Known
<1>4. CarriersOf(Insert(nodes, id, n))
        = Insert(CarriersOf(nodes), id, [segment |-> seg, is_sink |-> n.is_sink])
  BY <1>1, <1>2, CarriersInsert
<1>5. n.is_sink \in BOOLEAN
  BY <1>1 DEF Node
<1>. QED  BY <1>1, <1>3, <1>4, <1>5 DEF seg, n

(* What makes a step of the walk a report of the directory.                *)
LEMMA ReportStep ==
  ASSUME NEW id \in Ids, NEW seg \in Segments, NEW k \in BOOLEAN, NEW best,
         id \in DOMAIN CarriersOf(nodes) =>
           /\ CarriersOf(nodes)[id].segment = seg
           /\ CarriersOf(nodes)[id].is_sink => k,
         CarriersOf(nodes') = Insert(CarriersOf(nodes), id, [segment |-> seg, is_sink |-> k]),
         DoorsOf(segments') = Insert(DoorsOf(segments), seg, best),
         best \in Directory!Best(CarriersOf(nodes'), seg),
         \/ seg \notin DOMAIN segments /\ signal' = Told("added", seg)
         \/ /\ seg \in DOMAIN segments
            /\ \/ signal' = Told("changed", seg)
               \/ /\ signal' = Silent
                  /\ best = segments[seg].box.id
                  /\ CarriersOf(nodes')[best].is_sink = CarriersOf(nodes)[best].is_sink
  PROVE  Directory!Report(id, seg, k)
<1>1. /\ Carriers' = Directory!Insert(Carriers, id, [segment |-> seg, is_sink |-> k])
      /\ DoorsOf(segments') = Directory!Insert(DoorsOf(segments), seg, best)
  BY SameContainers, Mapping
<1>2. /\ DOMAIN DoorsOf(segments) = DOMAIN segments
      /\ seg \in DOMAIN segments => DoorsOf(segments)[seg] = segments[seg].box.id
      /\ DoorsOf(segments')[seg] = best
  BY DEF DoorsOf, Insert
<1>3. IF seg \notin DOMAIN DoorsOf(segments) THEN signal' = Directory!Event("added", seg)
      ELSE \/ signal' = Directory!Event("changed", seg)
           \/ /\ signal' = Directory!Nothing
              /\ Directory!Face(CarriersOf(nodes'), DoorsOf(segments'), seg)
                   = Directory!Face(CarriersOf(nodes), DoorsOf(segments), seg)
  BY <1>2 DEF Told, Silent, Directory!Event, Directory!Nothing, Directory!Face
<1>. QED  BY <1>1, <1>3, Mapping DEF Directory!Report

(* Its segment is new: it is listed under that node.                       *)
LEMMA InfoNewSegmentReports ==
  ASSUME SteadyGraph, IInv, IInv', NEW id \in Ids, NEW d \in Dicts,
         Publishes(id, d), InfoNewSegment(id, d)
  PROVE  \E seg \in Segments, k \in BOOLEAN : Directory!Report(id, seg, k)
<1>1. /\ InfoSegment(id, d) # NULL /\ InfoSegment(id, d) \notin DOMAIN segments
      /\ nodes' = Insert(nodes, id, NodeAfter(id, d))
      /\ signal' = Told("added", InfoSegment(id, d))
      /\ \E g : segments' = Insert(segments, InfoSegment(id, d), g)
  BY DEF InfoNewSegment
<1>2. PICK seg, k, g :
        /\ seg \in Segments /\ k \in BOOLEAN
        /\ seg = InfoSegment(id, d) /\ k = NodeAfter(id, d).is_sink
        /\ segments' = Insert(segments, seg, g)
  BY <1>1, MayReport
<1>3. /\ id \in DOMAIN CarriersOf(nodes) =>
           /\ CarriersOf(nodes)[id].segment = seg
           /\ CarriersOf(nodes)[id].is_sink => k
      /\ CarriersOf(nodes') = Insert(CarriersOf(nodes), id, [segment |-> seg, is_sink |-> k])
  BY <1>1, <1>2, MayReport
<1>4. seg # NULL /\ seg \in DOMAIN segments' /\ segments'[seg] = g
  BY <1>1, <1>2 DEF Insert
<1>5. DoorsOf(segments') = Insert(DoorsOf(segments), seg, g.box.id)
  BY <1>2 DEF DoorsOf, Insert
<1>6. g.nodes \in Seq(Ids) /\ SegmentOK(seg, g, nodes')
  BY <1>4 DEF IInv, TypeOK, SegmentsOK
<1>7. g.box.id \in Directory!Best(CarriersOf(nodes'), seg)
  BY <1>4, <1>6, DoorAmongBest
<1>. QED  BY <1>1, <1>2, <1>3, <1>5, <1>7, ReportStep

(* Its segment is listed: it takes the door, keeps it or leaves it where   *)
(* it was, and when nothing is said of it nothing has changed.             *)
LEMMA InfoKnownSegmentReports ==
  ASSUME SteadyGraph, IInv, IInv', NEW id \in Ids, NEW d \in Dicts,
         Publishes(id, d), InfoKnownSegment(id, d)
  PROVE  \E seg \in Segments, k \in BOOLEAN : Directory!Report(id, seg, k)
<1>1. /\ InfoSegment(id, d) \in DOMAIN segments
      /\ nodes' = Insert(nodes, id, NodeAfter(id, d))
      /\ \E g : /\ segments' = [segments EXCEPT ![InfoSegment(id, d)] = g]
                /\ signal' = IF g.box # segments[InfoSegment(id, d)].box
                             THEN Told("changed", InfoSegment(id, d)) ELSE Silent
  <2>. DEFINE old == segments[InfoSegment(id, d)]
              members == AddOnce(old.nodes, id)
              g == [box |-> BoxAfter(old.box, id, d, members, nodes'), nodes |-> members]
  <2>1. /\ InfoSegment(id, d) \in DOMAIN segments
        /\ nodes' = Insert(nodes, id, NodeAfter(id, d))
        /\ segments' = [segments EXCEPT ![InfoSegment(id, d)] = g]
        /\ signal' = IF g.box # old.box THEN Told("changed", InfoSegment(id, d)) ELSE Silent
    BY DEF InfoKnownSegment
  <2>. HIDE DEF g
  <2>. QED  BY <2>1
<1>2. InfoSegment(id, d) # NULL
  BY <1>1, SegmentType
<1>3. PICK seg, k, g :
        /\ seg \in Segments /\ k \in BOOLEAN
        /\ seg = InfoSegment(id, d) /\ k = NodeAfter(id, d).is_sink
        /\ segments' = [segments EXCEPT ![seg] = g]
        /\ signal' = IF g.box # segments[seg].box THEN Told("changed", seg) ELSE Silent
  BY <1>1, <1>2, MayReport
<1>4. /\ id \in DOMAIN CarriersOf(nodes) =>
           /\ CarriersOf(nodes)[id].segment = seg
           /\ CarriersOf(nodes)[id].is_sink => k
      /\ CarriersOf(nodes') = Insert(CarriersOf(nodes), id, [segment |-> seg, is_sink |-> k])
  BY <1>1, <1>2, <1>3, MayReport
<1>5. seg \in DOMAIN segments /\ seg \in DOMAIN segments' /\ segments'[seg] = g
  BY <1>1, <1>3
<1>6. DoorsOf(segments') = Insert(DoorsOf(segments), seg, g.box.id)
  BY <1>3, <1>5 DEF DoorsOf, Insert
<1>7. g.nodes \in Seq(Ids) /\ SegmentOK(seg, g, nodes')
  BY <1>5 DEF IInv, TypeOK, SegmentsOK
<1>8. /\ g.box.id \in Directory!Best(CarriersOf(nodes'), seg)
      /\ CarriersOf(nodes')[g.box.id].is_sink = g.box.sink
  BY <1>2, <1>3, <1>7, DoorAmongBest
<1>9. CarriersOf(nodes)[segments[seg].box.id].is_sink = segments[seg].box.sink
  <2>1. seg # NULL /\ segments[seg].nodes \in Seq(Ids) /\ SegmentOK(seg, segments[seg], nodes)
    BY <1>5, SegmentType
  <2>. QED  BY <2>1, DoorAmongBest
<1>. QED  BY <1>3, <1>4, <1>5, <1>6, <1>8, <1>9, ReportStep

-----------------------------------------------------------------------------
(* A node that carries a segment leaves.                                   *)
LEMMA Leaves ==
  ASSUME IInv, NEW id \in Ids, SegmentOf(id) \in DOMAIN segments, nodes' = Drop(nodes, id)
  PROVE  /\ id \in DOMAIN CarriersOf(nodes)
         /\ CarriersOf(nodes)[id].segment = SegmentOf(id)
         /\ CarriersOf(nodes') = Drop(CarriersOf(nodes), id)
<1>1. SegmentOf(id) # NULL
  BY SegmentType
<1>2. id \in DOMAIN nodes /\ nodes[id].segment # NULL /\ SegmentOf(id) = nodes[id].segment
  BY <1>1 DEF SegmentOf, Known
<1>. QED  BY <1>2, CarriersDrop DEF CarriersOf

(* The other nodes of the segment stay: the door is one of the best left,  *)
(* and the change is announced.                                            *)
LEMMA RemoveMemberLeaves ==
  ASSUME IInv, IInv', NEW id \in Ids, RemoveMember(id)
  PROVE  Directory!Leave(id)
<1>1. /\ SegmentOf(id) \in DOMAIN segments
      /\ nodes' = Drop(nodes, id)
      /\ signal' = Told("changed", SegmentOf(id))
      /\ \E g : segments' = [segments EXCEPT ![SegmentOf(id)] = g]
  BY DEF RemoveMember
<1>2. PICK seg, g :
        seg = SegmentOf(id) /\ segments' = [segments EXCEPT ![seg] = g]
  BY <1>1
<1>3. seg # NULL /\ seg \in DOMAIN segments /\ seg \in DOMAIN segments' /\ segments'[seg] = g
  BY <1>1, <1>2, SegmentType
<1>4. DoorsOf(segments') = Insert(DoorsOf(segments), seg, g.box.id)
  BY <1>2, <1>3 DEF DoorsOf, Insert
<1>5. g.nodes \in Seq(Ids) /\ SegmentOK(seg, g, nodes')
  BY <1>3 DEF IInv, TypeOK, SegmentsOK
<1>6. g.box.id \in Directory!Best(CarriersOf(nodes'), seg)
  BY <1>3, <1>5, DoorAmongBest
<1>7. /\ id \in DOMAIN Carriers /\ Carriers[id].segment = seg
      /\ Carriers' = Directory!Drop(Carriers, id)
  BY <1>1, <1>2, Leaves, Mapping, SameContainers
<1>8. /\ DoorsOf(segments') = Directory!Insert(DoorsOf(segments), seg, g.box.id)
      /\ signal' = Directory!Event("changed", seg)
  BY <1>1, <1>2, <1>4, SameContainers DEF Told, Directory!Event
<1>. QED  BY <1>6, <1>7, <1>8, Mapping DEF Directory!Leave

(* It was the last: the segment is delisted, and that is announced.        *)
LEMMA RemoveLastLeaves ==
  ASSUME IInv, NEW id \in Ids, RemoveLast(id)
  PROVE  Directory!LeaveLast(id)
<1>1. /\ SegmentOf(id) \in DOMAIN segments /\ Rest(id) = <<>>
      /\ nodes' = Drop(nodes, id)
      /\ signal' = Told("removed", SegmentOf(id))
      /\ segments' = Drop(segments, SegmentOf(id))
  BY DEF RemoveLast
<1>2. PICK seg : seg = SegmentOf(id)
  OBVIOUS
<1>3. {i \in DOMAIN nodes' : nodes'[i].segment = seg} = {}
  BY <1>1, <1>2, RestElements, ElementsEmpty
<1>4. Directory!Members(CarriersOf(nodes'), seg) = {}
  BY <1>3 DEF Directory!Members, CarriersOf
<1>5. DoorsOf(segments') = Directory!Drop(DoorsOf(segments), seg)
  <2>1. DoorsOf(segments') = Drop(DoorsOf(segments), seg)
    BY <1>1, <1>2 DEF DoorsOf, Drop
  <2>. QED  BY <2>1, SameContainers
<1>6. /\ id \in DOMAIN Carriers /\ Carriers[id].segment = seg
      /\ Carriers' = Directory!Drop(Carriers, id)
  BY <1>1, <1>2, Leaves, Mapping, SameContainers
<1>7. signal' = Directory!Event("removed", seg)
  BY <1>1, <1>2 DEF Told, Directory!Event
<1>. QED  BY <1>4, <1>5, <1>6, <1>7, Mapping DEF Directory!LeaveLast

-----------------------------------------------------------------------------
(* Nothing is listed before anything was found.                            *)
LEMMA DirectoryInit == Init => Directory!DirInit
<1>. SUFFICES ASSUME Init  PROVE Directory!DirInit
  OBVIOUS
<1>1. Carriers = [id \in {} |-> NULL]
  BY DEF Init, Carriers
<1>2. [s \in DOMAIN segments |-> segments[s].box.id] = [seg \in {} |-> NULL]
  BY DEF Init
<1>3. signal = Directory!Nothing
  BY DEF Init, Silent, Directory!Nothing, Directory!Event
<1>. QED  BY <1>1, <1>2, <1>3 DEF Directory!DirInit

(* Every entry point is a step of the directory.                           *)
LEMMA DirectoryNext ==
  SteadyGraph /\ IInv /\ IInv' /\ [Next]_vars => [Directory!DirNext]_(Directory!dirVars)
<1>. SUFFICES ASSUME SteadyGraph, IInv, IInv', [Next]_vars
              PROVE  Directory!DirNext \/ UNCHANGED Directory!dirVars
  OBVIOUS
<1>1. ASSUME NEW id \in Ids, NEW class \in GlobalClasses, WalkGlobal(id, class)
      PROVE  Directory!DirNext
  BY <1>1, GlobalIsQuiet DEF Directory!DirNext
<1>2. ASSUME NEW id \in Ids, NEW d \in Dicts, Publishes(id, d), WalkInfo(id, d)
      PROVE  Directory!DirNext
  <2>1. CASE InfoOrdinary(id, d)
    BY <2>1, InfoOrdinaryIsQuiet DEF Directory!DirNext
  <2>2. CASE InfoNewSegment(id, d)
    BY <1>2, <2>2, InfoNewSegmentReports DEF Directory!DirNext
  <2>3. CASE InfoKnownSegment(id, d)
    BY <1>2, <2>3, InfoKnownSegmentReports DEF Directory!DirNext
  <2>. QED  BY <1>2, <2>1, <2>2, <2>3 DEF WalkInfo
<1>3. ASSUME NEW id \in Ids, WalkRemove(id)
      PROVE  Directory!DirNext
  <2>1. CASE RemoveOrdinary(id)
    BY <2>1, RemoveOrdinaryIsQuiet DEF Directory!DirNext
  <2>2. CASE RemoveMember(id)
    BY <2>2, RemoveMemberLeaves DEF Directory!DirNext
  <2>3. CASE RemoveLast(id)
    BY <2>3, RemoveLastLeaves DEF Directory!DirNext
  <2>. QED  BY <1>3, <2>1, <2>2, <2>3 DEF WalkRemove
<1>4. CASE UNCHANGED vars
  BY <1>4 DEF vars, Directory!dirVars, Carriers
<1>. QED  BY <1>1, <1>2, <1>3, <1>4 DEF Next

(* rs-walk.h: what the walk does is what its header promises of it.  Every *)
(* segment in the graph is listed once under the best door it has, and no  *)
(* listing, change of door or delisting goes unannounced.                  *)
THEOREM WalkImplementsDirectory ==
  ASSUME SteadyGraph
  PROVE  Spec => WalkIsDirectory
<1>1. Init => Directory!DirInit
  BY DirectoryInit
<1>2. IInv /\ IInv' /\ [Next]_vars => [Directory!DirNext]_(Directory!dirVars)
  BY DirectoryNext
<1>. QED
  BY <1>1, <1>2, WalkInvariant, PTL DEF Spec, WalkIsDirectory, Directory!DirSpec

-----------------------------------------------------------------------------
(* The listener of the walk, whatever the nodes of the graph do: nothing   *)
(* is assumed of Quirks here.                                              *)

(* What was announced is what the listener reads.                          *)
LEMMA ListenerFollows ==
  ASSUME ListenerIsCurrent, Announced, Listen
  PROVE  ListenerIsCurrent'
<1>1. view = BoxesOf(segments)
  BY DEF ListenerIsCurrent, BoxesOf
<1>2. view' = BoxesOf(segments')
  <2>1. CASE signal'.kind = "none"
    BY <1>1, <2>1 DEF Announced, Listen, on_box_signal
  <2>2. CASE signal'.kind \in {"added", "changed"}
    BY <1>1, <2>2 DEF Announced, Listen, on_box_signal
  <2>3. CASE signal'.kind = "removed"
    BY <1>1, <2>3 DEF Announced, Listen, on_box_signal
  <2>. QED  BY <2>1, <2>2, <2>3 DEF Announced
<1>. QED  BY <1>2 DEF ListenerIsCurrent, BoxesOf

(* rs-walk.h: a listener that reads a box only when told of it shows what  *)
(* the walk holds, for every graph and whatever its nodes publish.         *)
THEOREM AuditListenerIsCurrent == AuditSpec => []ListenerIsCurrent
<1>1. AuditInit => ListenerIsCurrent
  BY DEF AuditInit, Init, ListenerIsCurrent
<1>2. ListenerIsCurrent /\ [AuditNext]_auditVars => ListenerIsCurrent'
  <2>. SUFFICES ASSUME ListenerIsCurrent, [AuditNext]_auditVars
                PROVE  ListenerIsCurrent'
    OBVIOUS
  <2>1. ASSUME NEW id \in Ids, NEW class \in GlobalClasses, AuditGlobal(id, class)
        PROVE  ListenerIsCurrent'
    BY <2>1, GlobalAnnounced, ListenerFollows DEF AuditGlobal
  <2>2. ASSUME NEW id \in Ids, NEW d \in Dicts, AuditInfo(id, d)
        PROVE  ListenerIsCurrent'
    BY <2>2, InfoAnnounced, ListenerFollows DEF AuditInfo
  <2>3. ASSUME NEW id \in Ids, AuditRemove(id)
        PROVE  ListenerIsCurrent'
    BY <2>3, RemoveAnnounced, ListenerFollows DEF AuditRemove
  <2>4. CASE UNCHANGED auditVars
    BY <2>4 DEF auditVars, ListenerIsCurrent
  <2>. QED  BY <2>1, <2>2, <2>3, <2>4 DEF AuditNext
<1>. QED  BY <1>1, <1>2, PTL DEF AuditSpec

-----------------------------------------------------------------------------
(* The box and its door.  A graph in which every segment has one sink at   *)
(* a time, that is known as a sink from the start and tells all at once:   *)
(* the box of that sink is what the sink alone would make.                 *)
PlainGraph == SteadyGraph /\ "promote" \notin Quirks /\ "overlap" \notin Quirks

(* Two boxes that show the same.                                           *)
Alike(b, c) ==
  /\ b.badge = c.badge /\ b.link = c.link /\ b.caps = c.caps /\ b.refused = c.refused
  /\ b.channels = c.channels /\ b.base = c.base
  /\ b.sens_max = c.sens_max /\ b.sens_max_published = c.sens_max_published
  /\ b.readback = c.readback /\ b.cells = c.cells

(* They still do when both take the same dict.                             *)
LEMMA AlikeMerge ==
  ASSUME NEW ids, NEW segs, NEW other, NEW b \in Box(ids, segs), NEW c \in Box(ids, other),
         Alike(b, c), NEW d
  PROVE  Alike(update_from_dict(b, d), update_from_dict(c, d))
<1>1. /\ update_from_dict(b, d).badge = take_str(b.badge, d, "badge")
      /\ update_from_dict(b, d).link = take_str(b.link, d, "link")
      /\ update_from_dict(b, d).caps = take_str(b.caps, d, "caps")
      /\ update_from_dict(b, d).refused = take_str(b.refused, d, "refused")
      /\ update_from_dict(b, d).channels = take_int(b.channels, d, "channels")
      /\ update_from_dict(b, d).base = take(b.base, d, "base", base_parse(d.base))
      /\ update_from_dict(b, d).sens_max
           = take(b.sens_max, d, "sens_max", sens_max_parse(d.sens_max))
      /\ update_from_dict(b, d).sens_max_published
           = take(b.sens_max_published, d, "sens_max", TRUE)
      /\ update_from_dict(b, d).readback = take(b.readback, d, "asserted", TRUE)
      /\ update_from_dict(b, d).cells = take_cells(b.cells, d)
  BY DEF update_from_dict, Box
<1>2. /\ update_from_dict(c, d).badge = take_str(c.badge, d, "badge")
      /\ update_from_dict(c, d).link = take_str(c.link, d, "link")
      /\ update_from_dict(c, d).caps = take_str(c.caps, d, "caps")
      /\ update_from_dict(c, d).refused = take_str(c.refused, d, "refused")
      /\ update_from_dict(c, d).channels = take_int(c.channels, d, "channels")
      /\ update_from_dict(c, d).base = take(c.base, d, "base", base_parse(d.base))
      /\ update_from_dict(c, d).sens_max
           = take(c.sens_max, d, "sens_max", sens_max_parse(d.sens_max))
      /\ update_from_dict(c, d).sens_max_published
           = take(c.sens_max_published, d, "sens_max", TRUE)
      /\ update_from_dict(c, d).readback = take(c.readback, d, "asserted", TRUE)
      /\ update_from_dict(c, d).cells = take_cells(c.cells, d)
  BY DEF update_from_dict, Box
<1>. QED  BY <1>1, <1>2 DEF Alike

(* A dict that tells all leaves nothing of what was there before.          *)
LEMMA AlikeFull ==
  ASSUME NEW ids, NEW segs, NEW other, NEW b \in Box(ids, segs), NEW c \in Box(ids, other),
         NEW d, BoxKeys \subseteq DOMAIN d, d.channels # NotDecimal
  PROVE  Alike(update_from_dict(b, d), update_from_dict(c, d))
<1>1. /\ "badge" \in DOMAIN d /\ "link" \in DOMAIN d /\ "caps" \in DOMAIN d
      /\ "refused" \in DOMAIN d /\ "channels" \in DOMAIN d /\ "base" \in DOMAIN d
      /\ "sens_max" \in DOMAIN d /\ "asserted" \in DOMAIN d
  BY DEF BoxKeys
<1>2. /\ update_from_dict(b, d).badge = d.badge /\ update_from_dict(c, d).badge = d.badge
      /\ update_from_dict(b, d).link = d.link /\ update_from_dict(c, d).link = d.link
      /\ update_from_dict(b, d).caps = d.caps /\ update_from_dict(c, d).caps = d.caps
      /\ update_from_dict(b, d).refused = d.refused
      /\ update_from_dict(c, d).refused = d.refused
  BY <1>1 DEF update_from_dict, Box, take_str
<1>3. /\ update_from_dict(b, d).channels = ToInt(d.channels[1])
      /\ update_from_dict(c, d).channels = ToInt(d.channels[1])
  BY <1>1 DEF update_from_dict, Box, take_int
<1>4. /\ update_from_dict(b, d).base = base_parse(d.base)
      /\ update_from_dict(c, d).base = base_parse(d.base)
      /\ update_from_dict(b, d).sens_max = sens_max_parse(d.sens_max)
      /\ update_from_dict(c, d).sens_max = sens_max_parse(d.sens_max)
      /\ update_from_dict(b, d).sens_max_published = TRUE
      /\ update_from_dict(c, d).sens_max_published = TRUE
      /\ update_from_dict(b, d).readback = TRUE
      /\ update_from_dict(c, d).readback = TRUE
      /\ update_from_dict(b, d).cells = asserted_parse(d.asserted, N_CELLS)
      /\ update_from_dict(c, d).cells = asserted_parse(d.asserted, N_CELLS)
  BY <1>1 DEF update_from_dict, Box, take, take_cells
<1>. QED  BY <1>2, <1>3, <1>4 DEF Alike

(* Pointing a box at its door changes nothing it shows.                    *)
LEMMA AlikeOnDoor ==
  ASSUME NEW ids, NEW segs, NEW b \in Box(ids, segs), NEW c, Alike(b, c), NEW id, NEW sink
  PROVE  Alike(set_door(b, id, sink), c)
  BY DEF Alike, set_door, Box

(* A box is all it shows, with its door and its segment.                   *)
LEMMA AlikeIsDoor ==
  ASSUME NEW ids, NEW segs, NEW other, NEW b \in Box(ids, segs), NEW c \in Box(ids, other),
         Alike(b, c)
  PROVE  b = set_door([c EXCEPT !.segment = b.segment], b.id, b.sink)
<1>. DEFINE e == set_door([c EXCEPT !.segment = b.segment], b.id, b.sink)
<1>1. e \in Box(ids, segs)
  BY DEF set_door, Box
<1>2. e.id = b.id /\ e.segment = b.segment /\ e.sink = b.sink
  BY DEF set_door, Box
<1>3. Alike(e, c)
  BY DEF set_door, Box, Alike
<1>. HIDE DEF e
<1>4. e = b
  BY <1>1, <1>2, <1>3 DEF Alike, Box
<1>. QED  BY <1>4 DEF e

(* The box of a segment that has a sink, against what its door has said.   *)
SinkBoxOK(box, sd) == box.sink => box.id \in DOMAIN sd /\ Alike(box, sd[box.id])

SinkBoxes == \A s \in DOMAIN segments : SinkBoxOK(segments[s].box, said)

OneSinkEach ==
  \A i, j \in DOMAIN nodes :
    /\ nodes[i].is_sink /\ nodes[j].is_sink
    /\ nodes[i].segment # NULL /\ nodes[i].segment = nodes[j].segment
    => i = j

SaidOK == \A id \in DOMAIN said : id \in Ids /\ said[id] \in Box(Ids, {NULL})

AuditInv == IInv /\ SaidOK /\ OneSinkEach /\ SinkBoxes

(* What an info makes of the node's own word.                              *)
LEMMA SaidAfter ==
  ASSUME SaidOK, NEW id \in Ids, NEW d \in Dicts,
         said' = Insert(said, id, update_from_dict(Said(id), d))
  PROVE  SaidOK' /\ Said(id) \in Box(Ids, {NULL})
<1>1. Said(id) \in Box(Ids, {NULL})
  BY NewBoxType DEF Said, SaidOK
<1>2. update_from_dict(Said(id), d) \in Box(Ids, {NULL})
  BY <1>1, UpdateType
<1>. HIDE DEF Said
<1>. QED  BY <1>1, <1>2 DEF SaidOK, Insert

(* A segment's box is on another node than the one that comes or goes, and *)
(* what that one says is nothing to it.                                    *)
LEMMA SinkBoxElsewhere ==
  ASSUME NEW box, NEW id, NEW sd, NEW td, SinkBoxOK(box, sd), box.id # id,
         td = Drop(sd, id) \/ \E w : td = Insert(sd, id, w)
  PROVE  SinkBoxOK(box, td)
  BY DEF SinkBoxOK, Insert, Drop

(* The door of a listed segment is one of its nodes.                       *)
LEMMA DoorIsMember ==
  ASSUME NEW s, NEW g, NEW ns, g.nodes \in Seq(Ids), SegmentOK(s, g, ns)
  PROVE  /\ g.box.id \in DOMAIN ns /\ ns[g.box.id].segment = s
         /\ g.box.sink = ns[g.box.id].is_sink
         /\ \A i \in DOMAIN ns : ns[i].segment = s /\ ns[i].is_sink => ns[g.box.id].is_sink
<1>1. /\ g.box.id \in Elements(g.nodes)
      /\ (\E x \in Elements(g.nodes) : ns[x].is_sink) => ns[g.box.id].is_sink
  BY PickDoorBest DEF SegmentOK
<1>. QED  BY <1>1 DEF SegmentOK

(* The box of a segment none of whose nodes spoke is still its door's.     *)
LEMMA OtherBoxes ==
  ASSUME IInv, SinkBoxes, NEW id \in Ids, NEW s \in DOMAIN segments, SegmentOf(id) # s,
         NEW td, td = Drop(said, id) \/ \E w : td = Insert(said, id, w)
  PROVE  SinkBoxOK(segments[s].box, td)
<1>1. s # NULL /\ segments[s].nodes \in Seq(Ids) /\ SegmentOK(s, segments[s], nodes)
  BY SegmentType
<1>2. segments[s].box.id # id
  BY <1>1, DoorIsMember DEF SegmentOf, Known
<1>. QED  BY <1>2, SinkBoxElsewhere DEF SinkBoxes

-----------------------------------------------------------------------------
(* No segment comes to have two sinks.                                     *)
LEMMA OneSinkAfterInfo ==
  ASSUME PlainGraph, IInv, OneSinkEach, NEW id \in Ids, NEW d \in Dicts, Publishes(id, d),
         nodes' = Insert(nodes, id, NodeAfter(id, d))
  PROVE  OneSinkEach'
<1>. DEFINE n == NodeAfter(id, d)
<1>1. n.segment # NULL /\ n.is_sink => SinksOf(n.segment) \subseteq {id}
  <2>. SUFFICES ASSUME n.segment # NULL, n.is_sink  PROVE SinksOf(n.segment) \subseteq {id}
    OBVIOUS
  <2>1. InfoSegment(id, d) # NULL
    BY NodeAfterType DEF IInv
  <2>2. n.segment = InfoSegment(id, d) /\ InfoSink(id, d)
    BY <2>1, SteadyInfo, NodeAfterType DEF PlainGraph, IInv
  <2>. QED  BY <2>1, <2>2 DEF Publishes, PlainGraph
<1>2. /\ DOMAIN nodes' = DOMAIN nodes \cup {id}
      /\ nodes'[id] = n
      /\ \A i \in DOMAIN nodes' \ {id} : i \in DOMAIN nodes /\ nodes'[i] = nodes[i]
  BY DEF Insert
<1>. HIDE DEF n
<1>. SUFFICES ASSUME NEW i \in DOMAIN nodes', NEW j \in DOMAIN nodes',
                     nodes'[i].is_sink, nodes'[j].is_sink,
                     nodes'[i].segment # NULL, nodes'[i].segment = nodes'[j].segment
              PROVE  i = j
  BY DEF OneSinkEach
<1>3. CASE i # id /\ j # id
  BY <1>2, <1>3 DEF OneSinkEach
<1>4. CASE i = id /\ j # id
  BY <1>1, <1>2, <1>4 DEF SinksOf
<1>5. CASE i # id /\ j = id
  BY <1>1, <1>2, <1>5 DEF SinksOf
<1>. QED  BY <1>3, <1>4, <1>5

(* Every info but of a segment's own nodes leaves its box alone.           *)
LEMMA OrdinaryInfoKeeps ==
  ASSUME IInv, SinkBoxes, NEW id \in Ids, NEW d \in Dicts, InfoOrdinary(id, d),
         said' = Insert(said, id, update_from_dict(Said(id), d))
  PROVE  SinkBoxes'
<1>1. SegmentOf(id) = NULL
  BY NodeAfterType DEF InfoOrdinary, IInv, SegmentOf, NodeBefore
<1>2. segments' = segments
  BY DEF InfoOrdinary
<1>3. \A s \in DOMAIN segments : SinkBoxOK(segments[s].box, said')
  BY <1>1, SegmentType, OtherBoxes
<1>. QED  BY <1>2, <1>3 DEF SinkBoxes

(* An info that first makes a sink known tells all.                        *)
LEMMA FirstSinkTellsAll ==
  ASSUME PlainGraph, SinksTellAll, IInv, NEW id \in Ids, NEW d \in Dicts, Publishes(id, d),
         SegmentOf(id) = NULL, InfoSegment(id, d) # NULL, NodeAfter(id, d).is_sink
  PROVE  BoxKeys \subseteq DOMAIN d /\ d.channels # NotDecimal
<1>1. NodeBefore(id).segment = NULL
  BY DEF SegmentOf, NodeBefore, new_node
<1>2. "segment" \in DOMAIN d /\ d.segment # ""
  BY <1>1 DEF InfoSegment
<1>3. InfoSink(id, d)
  BY NodeAfterType DEF IInv
<1>4. "class" \in DOMAIN d => d.class \in {NULL, "Audio/Sink"}
  BY <1>3 DEF InfoSink
<1>. QED  BY <1>2, <1>4 DEF SinksTellAll

(* The first node of a segment: its box is made of what the node says.     *)
LEMMA NewSegmentKeeps ==
  ASSUME PlainGraph, SinksTellAll, IInv, SaidOK, SinkBoxes,
         NEW id \in Ids, NEW d \in Dicts, Publishes(id, d), InfoNewSegment(id, d),
         said' = Insert(said, id, update_from_dict(Said(id), d))
  PROVE  SinkBoxes'
<1>. DEFINE seg == InfoSegment(id, d)
            n   == NodeAfter(id, d)
            new == box_new(id, seg, n.is_sink)
            box == update_from_dict(new, d)
<1>1. /\ seg # NULL /\ seg \notin DOMAIN segments
      /\ segments' = Insert(segments, seg, [box |-> box, nodes |-> <<id>>])
  BY DEF InfoNewSegment
<1>2. n \in Node /\ SegmentOf(id) \in {NULL, seg} /\ seg \in Segments
  BY <1>1, SteadyInfo DEF IInv, PlainGraph
<1>3. SegmentOf(id) = NULL
  BY <1>1, <1>2 DEF IInv, SegmentsListed, SegmentOf, Known
<1>4. new \in Box(Ids, {seg}) /\ new.id = id /\ new.sink = n.is_sink
  BY <1>2, NewBoxType DEF Node
<1>5. Said(id) \in Box(Ids, {NULL}) /\ said'[id] = update_from_dict(Said(id), d)
      /\ id \in DOMAIN said'
  BY SaidAfter DEF Insert
<1>6. n.is_sink => BoxKeys \subseteq DOMAIN d /\ d.channels # NotDecimal
  BY <1>1, <1>3, FirstSinkTellsAll
<1>. HIDE DEF seg, n, new
<1>7. box.id = id /\ box.sink = n.is_sink
  BY <1>4, UpdateType
<1>8. box.sink => Alike(box, said'[id])
  BY <1>4, <1>5, <1>6, <1>7, AlikeFull
<1>. HIDE DEF box
<1>9. SinkBoxOK(box, said')
  BY <1>5, <1>7, <1>8 DEF SinkBoxOK
<1>10. \A s \in DOMAIN segments : SinkBoxOK(segments[s].box, said')
  BY <1>3, SegmentType, OtherBoxes
<1>. QED  BY <1>1, <1>9, <1>10 DEF SinkBoxes, Insert

(* A node of a listed segment speaks: the box takes it in if the node is   *)
(* the door, and a sink's box is then what the sink alone would make.      *)
LEMMA KnownSegmentKeeps ==
  ASSUME PlainGraph, SinksTellAll, AuditInv,
         NEW id \in Ids, NEW d \in Dicts, Publishes(id, d), InfoKnownSegment(id, d),
         said' = Insert(said, id, update_from_dict(Said(id), d))
  PROVE  SinkBoxes'
<1>. DEFINE seg     == InfoSegment(id, d)
            n       == NodeAfter(id, d)
            old     == segments[seg]
            members == AddOnce(old.nodes, id)
            box     == BoxAfter(old.box, id, d, members, nodes')
<1>1. /\ seg \in DOMAIN segments
      /\ nodes' = Insert(nodes, id, n)
      /\ segments' = [segments EXCEPT ![seg] = [box |-> box, nodes |-> members]]
  BY DEF InfoKnownSegment
<1>2. /\ old.nodes \in Seq(Ids) /\ old.box \in Box(Ids, {seg})
      /\ SegmentOK(seg, old, nodes) /\ seg # NULL
  BY <1>1, SegmentType DEF AuditInv
<1>3. /\ SegmentOf(id) \in {NULL, seg} /\ n \in Node /\ n.segment = seg
      /\ Known(id) /\ nodes[id].segment = seg /\ nodes[id].is_sink => n.is_sink
  BY <1>1, <1>2, SteadyInfo DEF AuditInv, IInv, PlainGraph
<1>4. nodes'[id] = n /\ n.is_sink \in BOOLEAN
  BY <1>1, <1>3 DEF Insert, Node
<1>5. /\ old.box.id \in DOMAIN nodes /\ nodes[old.box.id].segment = seg
      /\ old.box.sink = nodes[old.box.id].is_sink
      /\ \A i \in DOMAIN nodes :
           nodes[i].segment = seg /\ nodes[i].is_sink => nodes[old.box.id].is_sink
  BY <1>2, DoorIsMember
<1>6. Said(id) \in Box(Ids, {NULL}) /\ said'[id] = update_from_dict(Said(id), d)
      /\ id \in DOMAIN said'
  BY SaidAfter DEF Insert, AuditInv
<1>7. SinkBoxOK(old.box, said)
  BY <1>1 DEF AuditInv, SinkBoxes
<1>8. SegmentOf(id) = NULL /\ n.is_sink => BoxKeys \subseteq DOMAIN d /\ d.channels # NotDecimal
  BY <1>2, FirstSinkTellsAll DEF AuditInv
<1>9. SegmentOf(id) = seg /\ n.is_sink => Known(id) /\ nodes[id].segment = seg /\ nodes[id].is_sink
  <2>. SUFFICES ASSUME SegmentOf(id) = seg, n.is_sink
                PROVE  Known(id) /\ nodes[id].segment = seg /\ nodes[id].is_sink
    OBVIOUS
  <2>1. Known(id) /\ nodes[id].segment = seg
    BY <1>2 DEF SegmentOf
  <2>2. InfoSink(id, d) /\ NodeBefore(id) = nodes[id] /\ nodes[id] \in Node
    BY <1>2, <2>1, NodeAfterType DEF AuditInv, IInv, NodeBefore
  <2>. QED  BY <1>2, <2>1, <2>2 DEF Publishes, PlainGraph, SteadyGraph, Node
<1>. HIDE DEF seg, n, old
<1>10. SinkBoxOK(box, said')
  <2>1. CASE pick_door(members, nodes') = id
    <3>. DEFINE pointed == set_door(old.box, id, n.is_sink)
    <3>1. box = update_from_dict(pointed, d)
      BY <1>4, <2>1 DEF BoxAfter
    <3>2. pointed \in Box(Ids, {seg}) /\ pointed.id = id /\ pointed.sink = n.is_sink
      BY <1>2, <1>4, SetDoorType
    <3>3. box.id = id /\ box.sink = n.is_sink
      <4>. HIDE DEF pointed, box
      <4>. QED  BY <3>1, <3>2, UpdateType
    <3>4. ASSUME n.is_sink, SegmentOf(id) = NULL  PROVE Alike(box, said'[id])
      <4>. HIDE DEF pointed, box
      <4>. QED  BY <1>6, <1>8, <3>1, <3>2, <3>4, AlikeFull
    <3>5. ASSUME n.is_sink, SegmentOf(id) = seg  PROVE Alike(box, said'[id])
      <4>1. old.box.id = id /\ old.box.sink
        BY <1>2, <1>5, <1>9, <3>5 DEF AuditInv, OneSinkEach, Known
      <4>2. id \in DOMAIN said /\ Alike(old.box, Said(id))
        BY <1>7, <4>1 DEF SinkBoxOK, Said
      <4>3. Alike(pointed, Said(id))
        BY <1>2, <4>2, AlikeOnDoor
      <4>. HIDE DEF pointed, box
      <4>. QED  BY <1>6, <3>1, <3>2, <4>3, AlikeMerge
    <3>. HIDE DEF box
    <3>. QED  BY <1>3, <1>6, <3>3, <3>4, <3>5 DEF SinkBoxOK
  <2>2. CASE pick_door(members, nodes') # id
    <3>1. box = old.box
      BY <2>2 DEF BoxAfter
    <3>2. \A y \in Elements(old.nodes) \ {id} : nodes'[y] = nodes[y]
      BY <1>1, <1>2 DEF Insert, SegmentOK
    <3>3. id \in Elements(old.nodes) /\ nodes[id].is_sink => nodes'[id].is_sink
      BY <1>2, <1>3, <1>4 DEF SegmentOK, Known
    <3>4. old.box.id # id
      BY <1>2, <2>2, <3>2, <3>3, PickDoorMoves DEF SegmentOK
    <3>. HIDE DEF box
    <3>. QED  BY <1>7, <3>1, <3>4, SinkBoxElsewhere
  <2>. QED  BY <2>1, <2>2
<1>11. \A s \in DOMAIN segments \ {seg} : SinkBoxOK(segments[s].box, said')
  BY <1>3, SegmentType, OtherBoxes DEF AuditInv
<1>. HIDE DEF box, members
<1>. QED  BY <1>1, <1>10, <1>11 DEF SinkBoxes

-----------------------------------------------------------------------------
(* A node leaves.  Its segment is re-pointed at one that is no sink, or    *)
(* keeps the sink it had.                                                  *)
LEMMA RemoveMemberKeeps ==
  ASSUME AuditInv, IInv', NEW id \in Ids, RemoveMember(id), said' = Drop(said, id)
  PROVE  SinkBoxes'
<1>. DEFINE seg  == SegmentOf(id)
            old  == segments[seg]
            door == pick_door(Rest(id), nodes')
            box  == set_door(old.box, door, nodes'[door].is_sink)
            new  == [box |-> box, nodes |-> Rest(id)]
<1>1. /\ seg \in DOMAIN segments
      /\ nodes' = Drop(nodes, id)
      /\ segments' = [segments EXCEPT ![seg] = new]
  BY DEF RemoveMember
<1>2. /\ old.nodes \in Seq(Ids) /\ old.box \in Box(Ids, {seg})
      /\ SegmentOK(seg, old, nodes) /\ seg # NULL
  BY <1>1, SegmentType DEF AuditInv
<1>3. /\ old.box.id \in DOMAIN nodes /\ nodes[old.box.id].segment = seg
      /\ old.box.sink = nodes[old.box.id].is_sink
      /\ \A i \in DOMAIN nodes :
           nodes[i].segment = seg /\ nodes[i].is_sink => nodes[old.box.id].is_sink
  BY <1>2, DoorIsMember
<1>4. SinkBoxOK(old.box, said)
  BY <1>1 DEF AuditInv, SinkBoxes
<1>5. /\ box.id \in DOMAIN nodes' /\ nodes'[box.id].segment = seg
      /\ box.sink = nodes'[box.id].is_sink
  <2>1. seg \in DOMAIN segments' /\ segments'[seg].box = box
    BY <1>1
  <2>2. segments'[seg].nodes \in Seq(Ids) /\ SegmentOK(seg, segments'[seg], nodes')
    BY <2>1 DEF IInv, TypeOK, SegmentsOK
  <2>. HIDE DEF box
  <2>. QED  BY <2>1, <2>2, DoorIsMember
<1>6. box = set_door(old.box, box.id, box.sink)
  BY <1>2 DEF set_door, Box
<1>. HIDE DEF box, old, seg
<1>7. box.id \in DOMAIN nodes /\ box.id # id /\ nodes'[box.id] = nodes[box.id]
  BY <1>1, <1>5 DEF Drop
<1>8. SinkBoxOK(box, said')
  <2>. SUFFICES ASSUME box.sink
                PROVE  box.id \in DOMAIN said' /\ Alike(box, said'[box.id])
    BY DEF SinkBoxOK
  <2>1. old.box.id = box.id /\ old.box.sink
    BY <1>2, <1>3, <1>5, <1>7 DEF AuditInv, OneSinkEach
  <2>2. box.id \in DOMAIN said /\ Alike(old.box, said[box.id])
    BY <1>4, <2>1 DEF SinkBoxOK
  <2>3. Alike(box, said[box.id])
    BY <1>2, <1>6, <2>2, AlikeOnDoor
  <2>. QED  BY <1>7, <2>2, <2>3 DEF Drop
<1>9. \A s \in DOMAIN segments \ {seg} : SinkBoxOK(segments[s].box, said')
  BY OtherBoxes DEF AuditInv, seg
<1>. HIDE DEF new
<1>10. segments'[seg].box = box
  BY <1>1 DEF new
<1>. QED  BY <1>1, <1>8, <1>9, <1>10 DEF SinkBoxes

(* No segment is re-pointed.                                               *)
LEMMA RemoveOthersKeeps ==
  ASSUME AuditInv, NEW id \in Ids, RemoveOrdinary(id) \/ RemoveLast(id),
         said' = Drop(said, id)
  PROVE  SinkBoxes'
<1>1. \A s \in DOMAIN segments' :
        s \in DOMAIN segments /\ SegmentOf(id) # s /\ segments'[s] = segments[s]
  BY DEF RemoveOrdinary, RemoveLast, Drop
<1>2. \A s \in DOMAIN segments' : SinkBoxOK(segments'[s].box, said')
  BY <1>1, OtherBoxes DEF AuditInv
<1>. QED  BY <1>2 DEF SinkBoxes

-----------------------------------------------------------------------------
(* One lemma per entry point.                                              *)
LEMMA AuditGlobalStep ==
  ASSUME AuditInv, NEW id \in Ids, NEW class \in GlobalClasses, AuditGlobal(id, class)
  PROVE  AuditInv'
<1>1. IInv'
  BY GlobalStep DEF AuditInv, AuditGlobal
<1>2. OneSinkEach'
  BY DEF AuditInv, OneSinkEach, AuditGlobal, WalkGlobal, Insert, new_node
<1>3. SinkBoxes' /\ SaidOK'
  BY DEF AuditInv, SinkBoxes, SaidOK, AuditGlobal, WalkGlobal
<1>. QED  BY <1>1, <1>2, <1>3 DEF AuditInv

LEMMA AuditInfoStep ==
  ASSUME PlainGraph, SinksTellAll, AuditInv, NEW id \in Ids, NEW d \in Dicts, AuditInfo(id, d)
  PROVE  AuditInv'
<1>1. /\ Publishes(id, d) /\ WalkInfo(id, d)
      /\ said' = Insert(said, id, update_from_dict(Said(id), d))
      /\ IInv /\ SaidOK /\ OneSinkEach /\ SinkBoxes /\ SteadyGraph
  BY DEF AuditInfo, AuditInv, PlainGraph
<1>2. SaidOK'
  BY <1>1, SaidAfter
<1>3. OneSinkEach'
  <2>1. nodes' = Insert(nodes, id, NodeAfter(id, d))
    BY <1>1 DEF WalkInfo, InfoOrdinary, InfoNewSegment, InfoKnownSegment
  <2>. QED  BY <1>1, <2>1, OneSinkAfterInfo
<1>4. CASE InfoOrdinary(id, d)
  BY <1>1, <1>2, <1>3, <1>4, InfoOrdinaryStep, OrdinaryInfoKeeps DEF AuditInv
<1>5. CASE InfoNewSegment(id, d)
  BY <1>1, <1>2, <1>3, <1>5, InfoNewSegmentStep, NewSegmentKeeps DEF AuditInv
<1>6. CASE InfoKnownSegment(id, d)
  BY <1>1, <1>2, <1>3, <1>6, InfoKnownSegmentStep, KnownSegmentKeeps DEF AuditInv
<1>. QED  BY <1>1, <1>4, <1>5, <1>6 DEF WalkInfo

LEMMA AuditRemoveStep ==
  ASSUME AuditInv, NEW id \in Ids, AuditRemove(id)
  PROVE  AuditInv'
<1>1. /\ WalkRemove(id) /\ said' = Drop(said, id)
      /\ IInv /\ SaidOK /\ OneSinkEach /\ SinkBoxes
  BY DEF AuditRemove, AuditInv
<1>2. SaidOK'
  BY <1>1 DEF SaidOK, Drop
<1>3. OneSinkEach'
  <2>1. nodes' = Drop(nodes, id)
    BY <1>1 DEF WalkRemove, RemoveOrdinary, RemoveMember, RemoveLast
  <2>. QED  BY <1>1, <2>1 DEF OneSinkEach, Drop
<1>4. IInv'
  BY <1>1, RemoveOrdinaryStep, RemoveMemberStep, RemoveLastStep DEF WalkRemove
<1>5. SinkBoxes'
  BY <1>1, <1>4, RemoveMemberKeeps, RemoveOthersKeeps DEF WalkRemove, AuditInv
<1>. QED  BY <1>2, <1>3, <1>4, <1>5 DEF AuditInv

(* A box that offers a write shows what its door has said.                 *)
LEMMA SinkBoxReads == AuditInv => ReadsFromItsDoor
<1>. SUFFICES ASSUME AuditInv, NEW s \in DOMAIN segments,
                     box_availability(segments[s].box) = "ok"
              PROVE  segments[s].box = Door(segments[s].box)
  BY DEF ReadsFromItsDoor
<1>. DEFINE box == segments[s].box
<1>1. box \in Box(Ids, {s})
  BY SegmentType DEF AuditInv
<1>. HIDE DEF box
<1>2. box.sink
  BY <1>1, AvailabilityOk DEF box
<1>3. box.id \in DOMAIN said /\ Alike(box, said[box.id])
  BY <1>2 DEF AuditInv, SinkBoxes, SinkBoxOK, box
<1>4. said[box.id] \in Box(Ids, {NULL})
  BY <1>3 DEF AuditInv, SaidOK
<1>5. box = Door(box)
  BY <1>1, <1>3, <1>4, AlikeIsDoor DEF Door
<1>. QED  BY <1>5 DEF box

(* rs-box.h:59, "a box reads from its door and from nothing else": where   *)
(* each segment has one sink at a time that tells all of itself from the   *)
(* start, no preamp is addressed by another node's base and no control     *)
(* shows what the source beside the door, or a door that has left, said.   *)
THEOREM AuditReadsFromItsDoor ==
  ASSUME PlainGraph, SinksTellAll
  PROVE  AuditSpec => []ReadsFromItsDoor
<1>1. AuditInit => AuditInv
  <2>1. AuditInit => IInv
    BY InitInv DEF AuditInit
  <2>. QED
    BY <2>1 DEF AuditInit, Init, AuditInv, SaidOK, OneSinkEach, SinkBoxes
<1>2. AuditInv /\ [AuditNext]_auditVars => AuditInv'
  <2>. SUFFICES ASSUME AuditInv, [AuditNext]_auditVars  PROVE AuditInv'
    OBVIOUS
  <2>1. CASE UNCHANGED auditVars
    BY <2>1 DEF auditVars, AuditInv, IInv, TypeOK, SegmentsOK, SegmentsListed,
                OneBoxPerSegment, SaidOK, OneSinkEach, SinkBoxes
  <2>. QED  BY <2>1, AuditGlobalStep, AuditInfoStep, AuditRemoveStep DEF AuditNext
<1>3. AuditInv => ReadsFromItsDoor
  BY SinkBoxReads
<1>. QED  BY <1>1, <1>2, <1>3, PTL DEF AuditSpec
=============================================================================
