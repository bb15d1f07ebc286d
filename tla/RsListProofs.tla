------------------------------ MODULE RsListProofs -----------------------------
(***************************************************************************)
(* `--list` finds every node that is there all the time, for any number of *)
(* nodes, any changes of the graph around them and any order of the events *)
(* of several nodes.                                                       *)
(*                                                                         *)
(* A roundtrip is a message that goes through both queues, so what has to  *)
(* be shown is what is in front of it: a node that was there is bound      *)
(* before the first roundtrip is over, and its info is in before the       *)
(* second is.                                                              *)
(*                                                                         *)
(* What is printed of it is what the daemon asserts, by what the list      *)
(* parser and the lookup return, and where the sort puts it.               *)
(***************************************************************************)
EXTENDS RsList, RsPwProofs

-----------------------------------------------------------------------------
(* How far the client has got with a node that was there when it began.    *)

(* Its global comes before the answer to the first roundtrip.              *)
ToBind(x) ==
  /\ sync_seq = 1 /\ x \notin DOMAIN entries
  /\ \E k \in 1..Len(events) :
       /\ events[k].ev = "global" /\ events[k].id = x
       /\ \A j \in 1..k : events[j].ev # "done"

(* It is asked for before the second roundtrip is.                         *)
BindSent(x) ==
  /\ sync_seq < 3 /\ x \in DOMAIN entries
  /\ \A j \in 1..Len(events) : events[j] # Done(2)
  /\ \E k \in 1..Len(requests) :
       /\ requests[k] = Bind(x, entries[x])
       /\ \A j \in 1..k : requests[j] # Sync(2)

(* What it publishes comes before the answer to the second roundtrip.      *)
InfoSent(x) ==
  /\ sync_seq < 3 /\ x \in DOMAIN entries
  /\ \E k \in 1..Len(events) :
       /\ events[k] = Info(entries[x], graph[x])
       /\ \A j \in 1..k : events[j] # Done(2)

(* The walk has been told what it publishes.                               *)
Shown(x) ==
  /\ x \in DOMAIN nodes
  /\ LET d   == graph[x]
         seg == Carried(d)
     IN  seg # NULL =>
           /\ nodes[x].segment = seg
           /\ IsSink(d) => update_from_dict(segments[seg].box, d) = segments[seg].box

Reached(x) == ToBind(x) \/ BindSent(x) \/ InfoSent(x) \/ Shown(x)

(* It says one thing all the time, and nobody else is its segment's sink.  *)
DoorOf(x, seg) == seg # NULL /\ IsDoor(graph[x], seg)

SaysItself(x) ==
  \A k \in 1..Len(events) :
    events[k].ev = "info" /\ events[k].props # NULL =>
      /\ x \in DOMAIN entries /\ entries[x] = events[k].proxy => events[k].props = graph[x]
      /\ \A seg : DoorOf(x, seg) /\ IsDoor(events[k].props, seg)
           => x \in DOMAIN entries /\ entries[x] = events[k].proxy

OnlyDoor(x) ==
  \A y \in DOMAIN nodes : \A seg :
    DoorOf(x, seg) /\ y # x /\ nodes[y].segment = seg
      => nodes[y].media_class # "Audio/Sink"

Stays(x) == /\ x \in DOMAIN graph /\ ~Leaving(x)
            /\ SaysItself(x) /\ OnlyDoor(x)

-----------------------------------------------------------------------------
(* The roundtrips that are counted, and those that are under way.          *)
Counted ==
  /\ sync_seq \in 1..3 /\ rounds_left \in 0..3
  /\ rounds_left = 4 - sync_seq \/ (rounds_left = 0 /\ sync_seq = 3)

SyncsAsked ==
  /\ \A k \in 1..Len(requests) : requests[k].op = "sync" => requests[k].seq <= sync_seq
  /\ \A k \in 1..Len(events) : events[k].ev = "done" => events[k].seq <= sync_seq

ListInv ==
  /\ PwInv /\ Counted /\ SyncsAsked
  /\ Writes = {}
  /\ \A x \in settled : Stays(x) /\ Reached(x)

(* Once the list is printed nothing happens any more, and the array of     *)
(* boxes is in another order.                                              *)
Listed == printed # <<>> /\ ListIsComplete

-----------------------------------------------------------------------------
(* What the walk knows of a node that stays.                               *)

(* A sink it has heard is its box's door.                                  *)
StaysDoor(x) ==
  \A seg : DoorOf(x, seg) /\ x \in DOMAIN nodes /\ nodes[x].segment = seg
             => seg \in DOMAIN segments /\ segments[seg].box.id = x

LEMMA StaysIsDoor ==
  ASSUME NEW x
  PROVE  IInv /\ SinkIsClass /\ KnownIsThere /\ SameNodes /\ Stays(x) => StaysDoor(x)
<1>. SUFFICES ASSUME IInv, SinkIsClass, KnownIsThere, SameNodes, Stays(x),
                     NEW seg, DoorOf(x, seg), x \in DOMAIN nodes, nodes[x].segment = seg
              PROVE  seg \in DOMAIN segments /\ segments[seg].box.id = x
  BY DEF StaysDoor
<1>1. seg # NULL /\ IsSink(graph[x])
  BY DEF DoorOf, IsDoor
<1>2. nodes[x].is_sink
  BY <1>1 DEF SinkIsClass, KnownIsThere, SameNodes, Stays, IsSink
<1>3. seg \in DOMAIN segments
  BY <1>1 DEF IInv, SegmentsListed
<1>4. ASSUME NEW y \in DOMAIN nodes, nodes[y].segment = seg, nodes[y].is_sink
      PROVE  y = x
  BY <1>4 DEF Stays, OnlyDoor, SinkIsClass
<1>5. segments[seg].nodes \in Seq(Ids) /\ SegmentOK(seg, segments[seg], nodes)
  BY <1>3, SegmentType
<1>. QED  BY <1>2, <1>3, <1>4, <1>5, OnlySinkIsDoor

(* What another node does leaves shown what x says.                        *)
LEMMA ShownKept ==
  ASSUME PwInv, PwInv', NEW x, StaysDoor(x), StaysDoor(x)',
         x \in DOMAIN graph, graph'[x] = graph[x], Shown(x),
         UNCHANGED vars \/ \E y \in Ids : y # x /\ Elsewhere(y)
  PROVE  Shown(x)'
<1>. DEFINE d   == graph[x]
            seg == Carried(d)
<1>1. CASE UNCHANGED vars
  BY <1>1 DEF Shown, vars
<1>2. CASE \E y \in Ids : y # x /\ Elsewhere(y)
  <2>1. PICK y \in Ids : y # x /\ Elsewhere(y)
    BY <1>2
  <2>2. x \in DOMAIN nodes
    BY DEF Shown
  <2>3. x \in DOMAIN nodes' /\ nodes'[x] = nodes[x]
    BY <2>1, <2>2
       DEF Elsewhere, WalkGlobal, WalkInfo, InfoOrdinary, InfoNewSegment, InfoKnownSegment,
           WalkRemove, RemoveOrdinary, RemoveMember, RemoveLast, Insert, Drop
  <2>4. ASSUME seg # NULL
        PROVE  /\ nodes'[x].segment = seg
               /\ IsSink(d) => update_from_dict(segments'[seg].box, d) = segments'[seg].box
    <3>1. nodes'[x].segment = seg
      BY <2>3, <2>4 DEF Shown
    <3>2. ASSUME IsSink(d)
          PROVE  update_from_dict(segments'[seg].box, d) = segments'[seg].box
      <4>1. DoorOf(x, seg) /\ DoorOf(x, seg)'
        BY <2>4, <3>2 DEF DoorOf, IsDoor
      <4>2. /\ seg \in DOMAIN segments
            /\ seg \in DOMAIN segments' /\ segments'[seg].box.id = x
        BY <2>2, <2>3, <2>4, <3>1, <4>1 DEF StaysDoor, Shown
      <4>3. /\ update_from_dict(segments[seg].box, d) = segments[seg].box
            /\ segments[seg].box \in Box(Ids, {seg}) /\ x \in Ids /\ d \in Dicts
        BY <2>2, <2>4, <3>2, <4>2 DEF Shown, PwInv, IInv, TypeOK, Fed, Tables
      <4>4. CASE segments'[seg].box = segments[seg].box
        BY <4>3, <4>4
      <4>5. CASE \E sink \in BOOLEAN : segments'[seg].box = set_door(segments[seg].box, x, sink)
        BY <4>3, <4>5, MergeOnDoor
      <4>. QED  BY <2>1, <4>2, <4>4, <4>5, BoxElsewhere DEF PwInv
    <3>. QED  BY <3>1, <3>2
  <2>. QED  BY <2>3, <2>4 DEF Shown
<1>. QED  BY <1>1, <1>2

(* Once the walk is told what x says it shows.                             *)
LEMMA ShownOnce ==
  ASSUME PwInv, PwInv', NEW x \in Ids, StaysDoor(x)', x \in DOMAIN graph, graph' = graph,
         x \in DOMAIN nodes, ~Leaving(x)', WalkInfo(x, graph[x])
  PROVE  Shown(x)'
<1>. DEFINE d   == graph[x]
            seg == Carried(d)
<1>1. d \in Dicts
  BY DEF PwInv, Fed, Tables
<1>2. /\ nodes' = Insert(nodes, x, NodeAfter(x, d))
      /\ x \in DOMAIN nodes' /\ nodes'[x] = NodeAfter(x, d)
  BY DEF WalkInfo, InfoOrdinary, InfoNewSegment, InfoKnownSegment, Insert
<1>3. ASSUME seg # NULL
      PROVE  /\ nodes'[x].segment = seg
             /\ IsSink(d) => update_from_dict(segments'[seg].box, d) = segments'[seg].box
  <2>1. InfoSegment(x, d) = seg
    BY <1>3 DEF InfoSegment, Carried
  <2>2. NodeBefore(x) \in Node
    BY <1>1, NodeAfterType DEF PwInv, IInv
  <2>3. nodes'[x].segment # NULL
    BY <1>2, <1>3, <2>1, <2>2 DEF NodeAfter, Node
  <2>4. Kept(nodes'[x].segment, Carried(graph'[x]))
    BY <1>2 DEF PwInv, Fed, Feed, KnownIsThere, SameNodes
  <2>5. nodes'[x].segment = seg
    BY <2>3, <2>4 DEF Kept
  <2>6. ASSUME IsSink(d)
        PROVE  update_from_dict(segments'[seg].box, d) = segments'[seg].box
    <3>1. DoorOf(x, seg)'
      BY <1>3, <2>6 DEF DoorOf, IsDoor
    <3>2. seg \in DOMAIN segments' /\ segments'[seg].box.id = x
      BY <1>2, <2>5, <3>1 DEF StaysDoor
    <3>. QED  BY <1>1, <1>3, <3>2, BoxTold DEF PwInv
  <2>. QED  BY <2>5, <2>6
<1>. QED  BY <1>2, <1>3 DEF Shown

-----------------------------------------------------------------------------
(* The server puts more behind what is under way.                          *)

(* Nothing it says is of the end of x, and nobody but x speaks for x.      *)
StillTells(x, u) ==
  \A e \in Elements(u) :
    /\ e # Gone(x)
    /\ e.ev = "info" /\ e.props # NULL =>
         /\ x \in DOMAIN entries /\ entries[x] = e.proxy => e.props = graph[x]
         /\ \A seg : DoorOf(x, seg) /\ IsDoor(e.props, seg)
              => x \in DOMAIN entries /\ entries[x] = e.proxy

LEMMA StaysBehind ==
  ASSUME Tables, NEW x, Stays(x), NEW u \in Seq(Event), events' = events \o u,
         StillTells(x, u), UNCHANGED <<nodes, entries>>,
         x \in DOMAIN graph', graph'[x] = graph[x]
  PROVE  Stays(x)'
<1>1. /\ \A k \in 1..Len(events') :
           \/ k \in 1..Len(events) /\ events'[k] = events[k]
           \/ events'[k] \in Elements(u)
      /\ \A e : Queued(e)' <=> Queued(e) \/ e \in Elements(u)
  BY Behind DEF Tables
<1>2. ~Leaving(x)'
  BY <1>1 DEF Stays, Leaving, StillTells, Gone
<1>3. \A seg : DoorOf(x, seg)' <=> DoorOf(x, seg)
  BY DEF DoorOf
<1>4. SaysItself(x)'
  <2>. SUFFICES ASSUME NEW k \in 1..Len(events'),
                       events'[k].ev = "info", events'[k].props # NULL
                PROVE  /\ x \in DOMAIN entries /\ entries[x] = events'[k].proxy
                            => events'[k].props = graph[x]
                       /\ \A seg : DoorOf(x, seg) /\ IsDoor(events'[k].props, seg)
                            => x \in DOMAIN entries /\ entries[x] = events'[k].proxy
    BY <1>3 DEF SaysItself
  <2>1. CASE k \in 1..Len(events) /\ events'[k] = events[k]
    BY <2>1 DEF Stays, SaysItself
  <2>2. CASE events'[k] \in Elements(u)
    BY <2>2 DEF StillTells
  <2>. QED  BY <1>1, <2>1, <2>2
<1>5. OnlyDoor(x)'
  BY <1>3 DEF Stays, OnlyDoor
<1>. QED  BY <1>2, <1>4, <1>5 DEF Stays

LEMMA UpTo == \A n \in Nat : \A k \in 1..n : \A j \in 1..k : j \in 1..n
  OBVIOUS

LEMMA ReachedBehind ==
  ASSUME Tables, NEW x, NEW u \in Seq(Event), events' = events \o u,
         UNCHANGED <<entries, sync_seq>>, graph'[x] = graph[x]
  PROVE  /\ ToBind(x) => ToBind(x)'
         /\ InfoSent(x) => InfoSent(x)'
         /\ BindSent(x) /\ Done(2) \notin Elements(u) /\ requests' = requests => BindSent(x)'
<1>1. /\ \A k \in 1..Len(events) : k \in 1..Len(events') /\ events'[k] = events[k]
      /\ \A k \in 1..Len(events') :
           \/ k \in 1..Len(events) /\ events'[k] = events[k]
           \/ events'[k] \in Elements(u)
  BY Behind DEF Tables
<1>2. \A k \in 1..Len(events) : \A j \in 1..k : j \in 1..Len(events)
  <2>1. Len(events) \in Nat
    BY DEF Tables
  <2>. QED  BY <2>1, UpTo
<1>3. ASSUME ToBind(x)  PROVE ToBind(x)'
  <2>1. PICK k \in 1..Len(events) :
          /\ events[k].ev = "global" /\ events[k].id = x
          /\ \A j \in 1..k : events[j].ev # "done"
    BY <1>3 DEF ToBind
  <2>2. /\ k \in 1..Len(events')
        /\ events'[k].ev = "global" /\ events'[k].id = x
        /\ \A j \in 1..k : events'[j].ev # "done"
    BY <1>1, <1>2, <2>1
  <2>. QED  BY <1>3, <2>2 DEF ToBind
<1>4. ASSUME InfoSent(x)  PROVE InfoSent(x)'
  <2>1. PICK k \in 1..Len(events) :
          /\ events[k] = Info(entries[x], graph[x])
          /\ \A j \in 1..k : events[j] # Done(2)
    BY <1>4 DEF InfoSent
  <2>2. /\ k \in 1..Len(events')
        /\ events'[k] = Info(entries[x], graph[x])
        /\ \A j \in 1..k : events'[j] # Done(2)
    BY <1>1, <1>2, <2>1
  <2>. QED  BY <1>4, <2>2 DEF InfoSent, Info, Done
<1>5. ASSUME BindSent(x), Done(2) \notin Elements(u), requests' = requests
      PROVE  BindSent(x)'
  BY <1>1, <1>5 DEF BindSent, Bind, Done, Sync
<1>. QED  BY <1>3, <1>4, <1>5

LEMMA AskedBehind ==
  ASSUME Tables, SyncsAsked, NEW u \in Seq(Event), events' = events \o u,
         \A e \in Elements(u) : e.ev = "done" => e.seq <= sync_seq,
         \A k \in 1..Len(requests') : \E j \in 1..Len(requests) : requests'[k] = requests[j],
         sync_seq' = sync_seq
  PROVE  SyncsAsked'
<1>1. \A k \in 1..Len(events') :
        \/ k \in 1..Len(events) /\ events'[k] = events[k]
        \/ events'[k] \in Elements(u)
  BY Behind DEF Tables
<1>2. \A k \in 1..Len(events') : events'[k].ev = "done" => events'[k].seq <= sync_seq
  BY <1>1 DEF SyncsAsked
<1>3. \A k \in 1..Len(requests') : requests'[k].op = "sync" => requests'[k].seq <= sync_seq
  BY DEF SyncsAsked
<1>. QED  BY <1>2, <1>3 DEF SyncsAsked

-----------------------------------------------------------------------------
(* The graph changes around a node that stays.                             *)

LEMMA GraphSpeaks ==
  ASSUME Fed, GraphChanges
  PROVE  \E u \in Seq(Event) :
           /\ events' = events \o u
           /\ \A e \in Elements(u) : e.ev # "done"
           /\ \A x \in DOMAIN graph :
                x \in DOMAIN graph' /\ graph'[x] = graph[x] => StillTells(x, u)
<1>1. /\ Tables /\ SameNodes /\ Feed /\ Bindings /\ events \in Seq(Event)
      /\ DOMAIN graph \subseteq Ids /\ graph \in [DOMAIN graph -> Dicts]
  BY DEF Fed, Tables
<1>2. ASSUME NEW id \in Ids, NEW d \in NodeDicts, NodeAppears(id, d)
      PROVE  \E u \in Seq(Event) :
               /\ events' = events \o u
               /\ \A e \in Elements(u) : e.ev = "global"
  <2>. DEFINE u == <<Global(id, MediaClass(d))>>
  <2>1. Global(id, MediaClass(d)) \in Event
    BY ClassAssumption DEF Event, Global
  <2>2. u \in Seq(Event) /\ events' = events \o u
    BY <1>1, <1>2, <2>1 DEF NodeAppears
  <2>3. Elements(u) = {Global(id, MediaClass(d))}
    BY DEF Elements
  <2>. HIDE DEF u
  <2>4. \A e \in Elements(u) : e.ev = "global"
    BY <2>3 DEF Global
  <2>. QED  BY <2>2, <2>4
<1>3. ASSUME NEW id \in Ids, NEW d \in Dicts \cup {NULL}, NEW o \in InSomeOrder(BoundTo(id)),
             events' = events \o [k \in 1..Len(o) |-> Info(o[k], d)]
      PROVE  \E u \in Seq(Event) :
               /\ events' = events \o u
               /\ \A e \in Elements(u) : e.ev = "info" /\ e.proxy \in BoundTo(id) /\ e.props = d
  <2>. DEFINE u == [k \in 1..Len(o) |-> Info(o[k], d)]
  <2>1. u \in Seq(Event) /\ Elements(u) = {Info(p, d) : p \in BoundTo(id)}
    BY <1>1, ToldEach, ZenonT(30)
  <2>2. \A p : Info(p, d).ev = "info" /\ Info(p, d).proxy = p /\ Info(p, d).props = d
    BY DEF Info
  <2>. HIDE DEF u
  <2>3. \A e \in Elements(u) : e.ev = "info" /\ e.proxy \in BoundTo(id) /\ e.props = d
    BY <2>1, <2>2
  <2>. QED  BY <1>3, <2>1, <2>3 DEF u
<1>4. CASE \E id \in Ids, d \in NodeDicts : NodeAppears(id, d)
  <2>1. PICK u \in Seq(Event) : events' = events \o u /\ \A e \in Elements(u) : e.ev = "global"
    BY <1>2, <1>4
  <2>2. \A x : StillTells(x, u)
    BY <2>1 DEF StillTells, Gone
  <2>. QED  BY <2>1, <2>2
<1>5. CASE \E id \in Ids, d \in NodeDicts : NodePublishes(id, d)
  <2>1. PICK id \in Ids, d \in NodeDicts : NodePublishes(id, d)
    BY <1>5
  <2>2. /\ d \in Dicts
        /\ id \in DOMAIN graph /\ d # graph[id]
        /\ graph' = Insert(graph, id, d) /\ OneSink(Insert(graph, id, d))
    BY <2>1, PwAssumption DEF NodePublishes, Stamp
  <2>3. PICK o \in InSomeOrder(BoundTo(id)) :
          events' = events \o [k \in 1..Len(o) |-> Info(o[k], d)]
    BY <2>1 DEF NodePublishes, Stamp
  <2>4. PICK u \in Seq(Event) :
          /\ events' = events \o u
          /\ \A e \in Elements(u) : e.ev = "info" /\ e.proxy \in BoundTo(id) /\ e.props = d
    BY <1>3, <2>2, <2>3
  <2>5. ASSUME NEW x \in DOMAIN graph, x \in DOMAIN graph', graph'[x] = graph[x]
        PROVE  StillTells(x, u)
    <3>1. x # id /\ id \in DOMAIN graph' /\ graph'[id] = d /\ OneSink(graph')
      BY <2>2, <2>5 DEF Insert
    <3>2. \A e \in Elements(u) : ~(x \in DOMAIN entries /\ entries[x] = e.proxy)
      BY <1>1, <2>4, <3>1, BoundToOne
    <3>3. ASSUME NEW seg, DoorOf(x, seg), IsDoor(d, seg)
          PROVE  FALSE
      BY <2>5, <3>1, <3>3 DEF OneSink, DoorOf, IsDoor
    <3>. QED  BY <2>4, <3>2, <3>3 DEF StillTells, Gone
  <2>. QED  BY <2>4, <2>5
<1>6. CASE \E id \in Ids : NodeStirs(id)
  <2>1. PICK id \in Ids : NodeStirs(id)
    BY <1>6
  <2>2. PICK o \in InSomeOrder(BoundTo(id)) :
          events' = events \o [k \in 1..Len(o) |-> Info(o[k], NULL)]
    BY <2>1 DEF NodeStirs
  <2>3. PICK u \in Seq(Event) :
          events' = events \o u /\ \A e \in Elements(u) : e.ev = "info" /\ e.props = NULL
    BY <1>3, <2>2
  <2>4. \A x : StillTells(x, u)
    BY <2>3 DEF StillTells, Gone
  <2>. QED  BY <2>3, <2>4
<1>7. CASE \E id \in Ids : NodeLeaves(id)
  <2>1. PICK id \in Ids : NodeLeaves(id)
    BY <1>7
  <2>2. PICK u \in Seq(Event) :
          /\ events' = events \o u
          /\ Elements(u) = {Gone(id)} \cup {Removed(p) : p \in BoundTo(id)}
    BY <1>1, <2>1, LeavesTell
  <2>3. \A e \in Elements(u) : e.ev \in {"gone", "removed"} /\ (e.ev = "gone" => e.id = id)
    <3>1. \A p : Removed(p).ev = "removed"
      BY DEF Removed
    <3>2. Gone(id).ev = "gone" /\ Gone(id).id = id
      BY DEF Gone
    <3>3. \A e \in Elements(u) : e = Gone(id) \/ \E p \in BoundTo(id) : e = Removed(p)
      BY <2>2
    <3>. QED  BY <3>1, <3>2, <3>3
  <2>4. id \notin DOMAIN graph'
    BY <2>1 DEF NodeLeaves, Drop
  <2>5. \A x \in DOMAIN graph' : StillTells(x, u)
    BY <2>3, <2>4 DEF StillTells, Gone
  <2>. QED  BY <2>2, <2>3, <2>5
<1>. QED  BY <1>4, <1>5, <1>6, <1>7 DEF GraphChanges

LEMMA ListGraphStep ==
  ASSUME ListInv, GraphChanges, UNCHANGED <<rounds_left, sync_seq>>,
         settled' = {id \in settled : id \in DOMAIN graph' /\ graph'[id] = graph[id]}
  PROVE  /\ Counted' /\ SyncsAsked' /\ Writes' = {}
         /\ \A x \in settled' : Stays(x)' /\ (PwInv' => Reached(x)')
<1>1. /\ PwInv /\ Fed /\ IInv /\ Tables /\ UNCHANGED <<vars, requests, entries>>
  BY DEF ListInv, PwInv, Fed, GraphChanges, NodeAppears, NodePublishes, NodeStirs, NodeLeaves
<1>2. PICK u \in Seq(Event) :
        /\ events' = events \o u
        /\ \A e \in Elements(u) : e.ev # "done"
        /\ \A x \in DOMAIN graph :
             x \in DOMAIN graph' /\ graph'[x] = graph[x] => StillTells(x, u)
  BY <1>1, GraphSpeaks
<1>3. Counted' /\ Writes' = {}
  BY <1>1 DEF ListInv, Counted, Writes
<1>4. SyncsAsked'
  BY <1>1, <1>2, AskedBehind DEF ListInv
<1>5. ASSUME NEW x \in settled'
      PROVE  Stays(x)' /\ (PwInv' => Reached(x)')
  <2>1. /\ Stays(x) /\ Reached(x) /\ x \in DOMAIN graph
        /\ x \in DOMAIN graph' /\ graph'[x] = graph[x]
    BY <1>5 DEF ListInv, Stays
  <2>2. Stays(x)'
    BY <1>1, <1>2, <2>1, StaysBehind DEF vars
  <2>3. Done(2) \notin Elements(u)
    BY <1>2 DEF Done
  <2>4. Shown(x) => Shown(x)'
    BY <1>1, <2>1 DEF Shown, vars
  <2>5. Reached(x)'
    BY <1>1, <1>2, <2>1, <2>3, <2>4, ReachedBehind DEF Reached
  <2>. QED  BY <2>2, <2>5
<1>. QED  BY <1>3, <1>4, <1>5

-----------------------------------------------------------------------------
(* The server takes a request of --list, which is a bind or a sync.        *)

LEMMA ServedSpeaks ==
  ASSUME Fed, Writes = {}, Serve
  PROVE  \E u \in Seq(Event) :
           /\ events' = events \o u /\ graph' = graph
           /\ \/ requests[1].op = "sync" /\ u = <<Done(requests[1].seq)>>
              \/ /\ requests[1].op = "bind" /\ requests[1].proxy \notin Held /\ u = <<>>
              \/ \E id \in Ids, p \in Proxies :
                   /\ requests[1] = Bind(id, p)
                   /\ id \in DOMAIN entries /\ entries[id] = p
                   /\ \A y \in DOMAIN entries : entries[y] = p => y = id
                   /\ \/ id \in DOMAIN graph /\ u = <<Info(p, graph[id])>>
                      \/ id \notin DOMAIN graph /\ u = <<Removed(p)>>
<1>1. /\ Tables /\ Bindings /\ events \in Seq(Event) /\ requests \in Seq(Request)
      /\ requests # <<>> /\ requests' = Tail(requests)
      /\ DOMAIN graph \subseteq Ids /\ graph \in [DOMAIN graph -> Dicts]
  BY DEF Fed, Tables, Serve
<1>. DEFINE r == requests[1]
<1>2. r = Head(requests) /\ r \in Request /\ 1 \in 1..Len(requests)
  BY <1>1, RequestTaken
<1>3. ServeBind(r) \/ ServeSync(r)
  <2>1. r.op # "write"
    BY <1>2 DEF Writes
  <2>. QED  BY <1>2, <2>1 DEF Serve, ServeWrite
<1>. HIDE DEF r
<1>4. CASE ServeSync(r)
  <2>. DEFINE u == <<Done(r.seq)>>
  <2>1. r.op = "sync" /\ events' = Append(events, Done(r.seq)) /\ graph' = graph
    BY <1>4 DEF ServeSync
  <2>2. r.seq \in Nat
    BY <1>2, <2>1 DEF Request, WriteRequest
  <2>3. Done(r.seq) \in Event
    BY <2>2 DEF Event, Done
  <2>4. u \in Seq(Event) /\ events' = events \o u
    BY <1>1, <2>1, <2>3
  <2>. QED  BY <2>1, <2>4 DEF r
<1>5. CASE ServeBind(r) /\ r.proxy \notin Held
  <2>1. r.op = "bind" /\ events' = events /\ graph' = graph
    BY <1>5 DEF ServeBind
  <2>. QED  BY <1>1, <1>5, <2>1, NothingSaid DEF r
<1>6. CASE ServeBind(r) /\ r.proxy \in Held
  <2>1. r = Bind(r.id, r.proxy) /\ r.id \in Ids /\ r.proxy \in Proxies /\ graph' = graph
    <3>1. r.op = "bind" /\ graph' = graph
      BY <1>6 DEF ServeBind
    <3>. QED  BY <1>2, <3>1 DEF Request, WriteRequest, Bind
  <2>. DEFINE id == r.id
              p  == r.proxy
  <2>2. id \in DOMAIN entries /\ entries[id] = p
    BY <1>1, <1>2, <1>6, <2>1 DEF Bindings, BindsToCome, r
  <2>3. \A y \in DOMAIN entries : entries[y] = p => y = id
    BY <1>1, <2>1, <2>2, PwAssumption DEF Bindings, OneEntry
  <2>4. CASE id \in DOMAIN graph
    <3>. DEFINE u == <<Info(p, graph[id])>>
    <3>1. events' = Append(events, Info(p, graph[id]))
      BY <1>6, <2>4 DEF ServeBind
    <3>2. Info(p, graph[id]) \in Event
      BY <1>1, <2>1, <2>4 DEF Event, Info
    <3>3. u \in Seq(Event) /\ events' = events \o u
      BY <1>1, <3>1, <3>2
    <3>. QED  BY <2>1, <2>2, <2>3, <2>4, <3>3 DEF r
  <2>5. CASE id \notin DOMAIN graph
    <3>. DEFINE u == <<Removed(p)>>
    <3>1. events' = Append(events, Removed(p))
      BY <1>6, <2>5 DEF ServeBind
    <3>2. Removed(p) \in Event
      BY <2>1 DEF Event, Removed
    <3>3. u \in Seq(Event) /\ events' = events \o u
      BY <1>1, <3>1, <3>2
    <3>. QED  BY <2>1, <2>2, <2>3, <2>5, <3>3 DEF r
  <2>. QED  BY <2>4, <2>5
<1>. QED  BY <1>3, <1>4, <1>5, <1>6

LEMMA ListServeStep ==
  ASSUME ListInv, Serve, UNCHANGED <<rounds_left, sync_seq, settled>>
  PROVE  /\ Counted' /\ SyncsAsked' /\ Writes' = {}
         /\ \A x \in settled' : Stays(x)' /\ Reached(x)'
<1>1. /\ PwInv /\ Fed /\ IInv /\ Tables /\ Bindings /\ Feed /\ SameNodes
      /\ UNCHANGED <<vars, entries>>
      /\ requests \in Seq(Request) /\ requests # <<>> /\ requests' = Tail(requests)
  BY DEF ListInv, PwInv, Fed, Tables, Serve
<1>2. /\ RequestsLeft(1) /\ 1 \in 1..Len(requests) /\ requests[1] \in Request
      /\ \A k \in 1..Len(requests') : k + 1 \in 1..Len(requests) /\ requests'[k] = requests[k + 1]
      /\ \A k \in 1..Len(requests) :
           k # 1 => k - 1 \in 1..Len(requests') /\ requests'[k - 1] = requests[k]
  BY <1>1, RequestTaken, TailElements DEF RequestsLeft
<1>3. PICK u \in Seq(Event) :
        /\ events' = events \o u /\ graph' = graph
        /\ \/ requests[1].op = "sync" /\ u = <<Done(requests[1].seq)>>
           \/ /\ requests[1].op = "bind" /\ requests[1].proxy \notin Held /\ u = <<>>
           \/ \E id \in Ids, p \in Proxies :
                /\ requests[1] = Bind(id, p)
                /\ id \in DOMAIN entries /\ entries[id] = p
                /\ \A y \in DOMAIN entries : entries[y] = p => y = id
                /\ \/ id \in DOMAIN graph /\ u = <<Info(p, graph[id])>>
                   \/ id \notin DOMAIN graph /\ u = <<Removed(p)>>
  BY <1>1, ServedSpeaks DEF ListInv
<1>4. /\ \A e : u = <<e>> => Elements(u) = {e}
      /\ u = <<>> => Elements(u) = {}
  BY DEF Elements
<1>5. Counted' /\ Writes' = {}
  BY <1>2 DEF ListInv, Counted, Writes
<1>6. SyncsAsked'
  <2>1. \A e \in Elements(u) : e.ev = "done" => e.seq <= sync_seq
    <3>1. CASE requests[1].op = "sync" /\ u = <<Done(requests[1].seq)>>
      BY <1>2, <1>4, <3>1 DEF ListInv, SyncsAsked, Done
    <3>2. CASE u = <<>>
      BY <1>4, <3>2
    <3>3. CASE \E p, d : u = <<Info(p, d)>> \/ u = <<Removed(p)>>
      BY <1>4, <3>3 DEF Info, Removed
    <3>. QED  BY <1>3, <3>1, <3>2, <3>3
  <2>2. \A k \in 1..Len(requests') : \E j \in 1..Len(requests) : requests'[k] = requests[j]
    BY <1>2
  <2>. QED  BY <1>1, <1>3, <2>1, <2>2, AskedBehind DEF ListInv
<1>7. ASSUME NEW x \in settled'
      PROVE  Stays(x)' /\ Reached(x)'
  <2>1. /\ Stays(x) /\ Reached(x) /\ x \in DOMAIN graph
        /\ x \in DOMAIN graph' /\ graph'[x] = graph[x]
    BY <1>3, <1>7 DEF ListInv, Stays
  <2>2. StillTells(x, u)
    <3>1. CASE u = <<>> \/ (\E s : u = <<Done(s)>>) \/ (\E p : u = <<Removed(p)>>)
      BY <1>4, <3>1 DEF StillTells, Done, Removed, Gone
    <3>2. ASSUME NEW id \in DOMAIN entries, NEW p, id \in DOMAIN graph, entries[id] = p,
                 \A y \in DOMAIN entries : entries[y] = p => y = id,
                 u = <<Info(p, graph[id])>>
          PROVE  StillTells(x, u)
      <4>1. \A e \in Elements(u) : /\ e.ev = "info" /\ e.proxy = p /\ e.props = graph[id]
                                   /\ e # Gone(x)
        BY <1>4, <3>2 DEF Info, Gone
      <4>2. ASSUME NEW seg, DoorOf(x, seg), IsDoor(graph[id], seg)
            PROVE  id = x
        BY <1>1, <2>1, <3>2, <4>2 DEF DoorOf, IsDoor, Feed, OneSink
      <4>. QED  BY <3>2, <4>1, <4>2 DEF StillTells
    <3>. QED  BY <1>3, <3>1, <3>2
  <2>3. Stays(x)'
    BY <1>1, <1>3, <2>1, <2>2, StaysBehind DEF vars
  <2>4. Shown(x) => Shown(x)'
    BY <1>1, <2>1 DEF Shown, vars
  <2>5. ASSUME BindSent(x)
        PROVE  BindSent(x)' \/ InfoSent(x)'
    <3>1. PICK k \in 1..Len(requests) :
            /\ requests[k] = Bind(x, entries[x])
            /\ \A j \in 1..k : requests[j] # Sync(2)
      BY <2>5 DEF BindSent
    <3>2. /\ x \in DOMAIN entries /\ sync_seq < 3 /\ \A j \in 1..Len(events) : events[j] # Done(2)
          /\ requests[k] \in Request /\ requests[1] # Sync(2)
      BY <1>1, <2>5, <3>1 DEF BindSent
    <3>3. entries[x] \in Held
      <4>1. requests[k].op = "bind" /\ requests[k].proxy = entries[x]
        BY <3>1 DEF Bind
      <4>2. entries[x] \in Proxies
        BY <3>2, <4>1 DEF Request, WriteRequest
      <4>. QED  BY <3>2, <4>2, PwAssumption DEF Held
    <3>4. CASE k # 1
      <4>1. Done(2) \notin Elements(u)
        <5>1. CASE requests[1].op = "sync" /\ u = <<Done(requests[1].seq)>>
          <6>1. requests[1] = Sync(requests[1].seq)
            BY <1>2, <5>1 DEF Request, WriteRequest, Sync
          <6>2. requests[1].seq # 2
            BY <3>2, <6>1
          <6>. QED  BY <1>4, <5>1, <6>2 DEF Done
        <5>2. CASE u = <<>>
          BY <1>4, <5>2
        <5>3. CASE \E p, d : u = <<Info(p, d)>> \/ u = <<Removed(p)>>
          BY <1>4, <5>3 DEF Info, Removed, Done
        <5>. QED  BY <1>3, <5>1, <5>2, <5>3
      <4>2. \A j \in 1..Len(events') : events'[j] # Done(2)
        <5>1. \A j \in 1..Len(events') :
                \/ j \in 1..Len(events) /\ events'[j] = events[j]
                \/ events'[j] \in Elements(u)
          BY <1>1, <1>3, Behind DEF Tables
        <5>. QED  BY <3>2, <4>1, <5>1
      <4>3. k - 1 \in 1..Len(requests') /\ requests'[k - 1] = Bind(x, entries[x])
        BY <1>2, <3>1, <3>4
      <4>4. ASSUME NEW j \in 1..(k - 1)
            PROVE  requests'[j] # Sync(2)
        <5>1. j \in 1..Len(requests') /\ j + 1 \in 1..k
          BY <3>1, <4>3
        <5>. QED  BY <1>2, <3>1, <5>1
      <4>. QED  BY <1>1, <3>2, <4>2, <4>3, <4>4 DEF BindSent, Bind, Sync, Done
    <3>5. CASE k = 1
      <4>1. /\ requests[1].op = "bind" /\ requests[1].id = x
            /\ requests[1].proxy = entries[x]
        BY <3>1, <3>5 DEF Bind
      <4>2. \A id, p : requests[1] = Bind(id, p) => id = x /\ p = entries[x]
        BY <4>1 DEF Bind
      <4>3. u = <<Info(entries[x], graph[x])>>
        BY <1>3, <2>1, <3>3, <4>1, <4>2
      <4>4. PICK i \in 1..Len(events') : i > Len(events) /\ events'[i] = Info(entries[x], graph[x])
        BY <1>1, <1>3, <1>4, <4>3, Behind DEF Tables
      <4>5. \A j \in 1..Len(events') : events'[j] # Done(2)
        <5>1. Info(entries[x], graph[x]) # Done(2)
          BY DEF Info, Done
        <5>. QED  BY <1>1, <1>3, <1>4, <3>2, <4>3, <5>1, Behind DEF Tables
      <4>6. \A j \in 1..i : events'[j] # Done(2)
        <5>1. events' \in Seq(Event)
          BY <1>1, <1>3, Behind DEF Tables
        <5>2. Len(events') \in Nat
          BY <5>1
        <5>. QED  BY <4>5, <5>2, UpTo
      <4>. QED  BY <1>1, <1>3, <3>2, <4>4, <4>6 DEF InfoSent, Info, Done
    <3>. QED  BY <3>4, <3>5
  <2>6. Reached(x)'
    BY <1>1, <1>3, <2>1, <2>4, <2>5, ReachedBehind DEF Reached
  <2>. QED  BY <2>3, <2>6
<1>. QED  BY <1>5, <1>6, <1>7

-----------------------------------------------------------------------------
(* The client takes an event.                                              *)

(* The entry of x stays, and if x gets one, no info that is under way is   *)
(* for its proxy.                                                          *)
EntryStays(x) ==
  /\ x \in DOMAIN entries => x \in DOMAIN entries' /\ entries'[x] = entries[x]
  /\ x \in DOMAIN entries' \ DOMAIN entries =>
       \A k \in 1..Len(events) : events[k].ev = "info" => events[k].proxy # entries'[x]

LEMMA StaysTaken ==
  ASSUME Tables, NEW x, Stays(x), events # <<>>, events' = Tail(events), graph' = graph,
         EntryStays(x), OnlyDoor(x)'
  PROVE  Stays(x)'
<1>1. /\ \A k \in 1..Len(events') : k + 1 \in 1..Len(events) /\ events'[k] = events[k + 1]
      /\ \A e : Queued(e)' => Queued(e)
  BY Taken DEF Tables
<1>2. ~Leaving(x)'
  BY <1>1 DEF Stays, Leaving, Gone
<1>3. \A seg : DoorOf(x, seg)' <=> DoorOf(x, seg)
  BY DEF DoorOf
<1>4. SaysItself(x)'
  <2>. SUFFICES ASSUME NEW k \in 1..Len(events'),
                       events'[k].ev = "info", events'[k].props # NULL
                PROVE  /\ x \in DOMAIN entries' /\ entries'[x] = events'[k].proxy
                            => events'[k].props = graph[x]
                       /\ \A seg : DoorOf(x, seg) /\ IsDoor(events'[k].props, seg)
                            => x \in DOMAIN entries' /\ entries'[x] = events'[k].proxy
    BY <1>3 DEF SaysItself
  <2>. DEFINE e == events'[k]
  <2>1. k + 1 \in 1..Len(events) /\ e = events[k + 1]
    BY <1>1
  <2>2. /\ x \in DOMAIN entries /\ entries[x] = e.proxy => e.props = graph[x]
        /\ \A seg : DoorOf(x, seg) /\ IsDoor(e.props, seg)
             => x \in DOMAIN entries /\ entries[x] = e.proxy
    BY <2>1 DEF Stays, SaysItself
  <2>3. x \in DOMAIN entries' \ DOMAIN entries => e.proxy # entries'[x]
    BY <2>1 DEF EntryStays
  <2>. HIDE DEF e
  <2>4. /\ x \in DOMAIN entries' /\ entries'[x] = e.proxy => e.props = graph[x]
        /\ \A seg : DoorOf(x, seg) /\ IsDoor(e.props, seg)
             => x \in DOMAIN entries' /\ entries'[x] = e.proxy
    BY <2>2, <2>3 DEF EntryStays
  <2>. QED  BY <2>4 DEF e
<1>. QED  BY <1>2, <1>4 DEF Stays

(* Only the answer to the roundtrip it waits for takes the client on.      *)
LEMMA ReachedTaken ==
  ASSUME Tables, NEW x, events # <<>>, events' = Tail(events), graph' = graph,
         \A k \in 1..Len(requests) : k \in 1..Len(requests') /\ requests'[k] = requests[k],
         sync_seq \in 1..3,
         \/ sync_seq' = sync_seq
         \/ events[1] = Done(sync_seq) /\ sync_seq' = sync_seq + 1
  PROVE  /\ ToBind(x) /\ x \notin DOMAIN entries'
              /\ ~(events[1].ev = "global" /\ events[1].id = x)
            => ToBind(x)'
         /\ BindSent(x) /\ EntryStays(x) => BindSent(x)'
         /\ InfoSent(x) /\ EntryStays(x) /\ events[1] # Info(entries[x], graph[x])
            => InfoSent(x)'
<1>1. /\ 1 \in 1..Len(events)
      /\ \A k \in 1..Len(events') : k + 1 \in 1..Len(events) /\ events'[k] = events[k + 1]
      /\ \A k \in 1..Len(events) :
           k # 1 => k - 1 \in 1..Len(events') /\ events'[k - 1] = events[k]
  BY TailElements DEF Tables
<1>2. sync_seq < 3 /\ events[1] # Done(2) => sync_seq' < 3
  OBVIOUS
<1>3. ASSUME ToBind(x), x \notin DOMAIN entries',
             ~(events[1].ev = "global" /\ events[1].id = x)
      PROVE  ToBind(x)'
  <2>1. PICK k \in 1..Len(events) :
          /\ events[k].ev = "global" /\ events[k].id = x
          /\ \A j \in 1..k : events[j].ev # "done"
    BY <1>3 DEF ToBind
  <2>2. k # 1 /\ k - 1 \in 1..Len(events') /\ events'[k - 1] = events[k]
    BY <1>1, <1>3, <2>1
  <2>3. \A j \in 1..(k - 1) : events'[j].ev # "done"
    <3>. TAKE j \in 1..(k - 1)
    <3>1. j \in 1..Len(events') /\ j + 1 \in 1..k
      BY <2>1, <2>2
    <3>. QED  BY <1>1, <2>1, <3>1
  <2>4. events[1] # Done(sync_seq)
    BY <2>1, <2>2 DEF Done
  <2>. QED  BY <1>3, <2>1, <2>2, <2>3, <2>4 DEF ToBind
<1>4. ASSUME BindSent(x), EntryStays(x)
      PROVE  BindSent(x)'
  <2>1. PICK k \in 1..Len(requests) :
          /\ requests[k] = Bind(x, entries[x])
          /\ \A j \in 1..k : requests[j] # Sync(2)
    BY <1>4 DEF BindSent
  <2>2. /\ sync_seq < 3 /\ x \in DOMAIN entries
        /\ \A j \in 1..Len(events) : events[j] # Done(2)
    BY <1>4 DEF BindSent
  <2>3. \A j \in 1..Len(events') : events'[j] # Done(2)
    BY <1>1, <2>2
  <2>4. x \in DOMAIN entries' /\ entries'[x] = entries[x]
    BY <1>4, <2>2 DEF EntryStays
  <2>5. \A j \in 1..k : j \in 1..Len(requests)
    <3>1. Len(requests) \in Nat
      BY DEF Tables
    <3>. QED  BY <3>1, UpTo
  <2>6. \A j \in 1..k : requests'[j] # Sync(2)
    BY <2>1, <2>5
  <2>. QED  BY <1>1, <1>2, <2>1, <2>2, <2>3, <2>4, <2>6 DEF BindSent, Bind, Done, Sync
<1>5. ASSUME InfoSent(x), EntryStays(x), events[1] # Info(entries[x], graph[x])
      PROVE  InfoSent(x)'
  <2>1. PICK k \in 1..Len(events) :
          /\ events[k] = Info(entries[x], graph[x])
          /\ \A j \in 1..k : events[j] # Done(2)
    BY <1>5 DEF InfoSent
  <2>2. k # 1 /\ k - 1 \in 1..Len(events') /\ events'[k - 1] = events[k]
    BY <1>1, <1>5, <2>1
  <2>3. \A j \in 1..(k - 1) : events'[j] # Done(2)
    <3>. TAKE j \in 1..(k - 1)
    <3>1. j \in 1..Len(events') /\ j + 1 \in 1..k
      BY <2>1, <2>2
    <3>. QED  BY <1>1, <2>1, <3>1
  <2>4. /\ sync_seq < 3 /\ x \in DOMAIN entries /\ events[1] # Done(2)
        /\ x \in DOMAIN entries' /\ entries'[x] = entries[x]
    BY <1>5, <2>1 DEF InfoSent, EntryStays
  <2>. QED  BY <1>2, <2>1, <2>2, <2>3, <2>4 DEF InfoSent, Info, Done
<1>. QED  BY <1>3, <1>4, <1>5

(* Nobody becomes another sink of the segment of x by what it is heard to  *)
(* say.                                                                    *)
LEMMA DoorsTaken ==
  ASSUME Fed, TypeOK, NEW x, Stays(x), events # <<>>, graph' = graph, NEW z \in Ids,
         \/ nodes' = nodes
         \/ \E class : nodes' = Insert(nodes, z, new_node(class))
         \/ /\ Heard(1, z) /\ events[1].props \in Dicts
            /\ nodes' = Insert(nodes, z, NodeAfter(z, events[1].props))
         \/ nodes' = Drop(nodes, z)
  PROVE  OnlyDoor(x)'
<1>. SUFFICES ASSUME NEW y \in DOMAIN nodes', NEW seg, DoorOf(x, seg), y # x,
                     nodes'[y].segment = seg
              PROVE  nodes'[y].media_class # "Audio/Sink"
  BY DEF OnlyDoor, DoorOf
<1>1. seg # NULL
  BY DEF DoorOf
<1>2. CASE y \in DOMAIN nodes /\ nodes'[y] = nodes[y]
  BY <1>2 DEF Stays, OnlyDoor
<1>3. ASSUME NEW class, nodes' = Insert(nodes, z, new_node(class))
      PROVE  nodes'[y].media_class # "Audio/Sink"
  <2>1. CASE y = z
    BY <1>1, <1>3, <2>1 DEF Insert, new_node
  <2>2. CASE y # z
    BY <1>2, <1>3, <2>2 DEF Insert
  <2>. QED  BY <2>1, <2>2
<1>4. CASE nodes' = Drop(nodes, z)
  BY <1>2, <1>4 DEF Drop
<1>5. ASSUME Heard(1, z), events[1].props \in Dicts,
             nodes' = Insert(nodes, z, NodeAfter(z, events[1].props))
      PROVE  nodes'[y].media_class # "Audio/Sink"
  <2>. DEFINE e == events[1]
              d == events[1].props
  <2>1. CASE y # z
    BY <1>2, <1>5, <2>1 DEF Insert
  <2>2. CASE y = z
    <3>1. /\ nodes'[y] = NodeAfter(y, d) /\ y \in DOMAIN nodes
          /\ NodeAfter(y, d).media_class = nodes[y].media_class
          /\ NodeAfter(y, d).segment \in {nodes[y].segment, Carried(d)}
      BY <1>5, <2>2, HeardIsPublished DEF Insert
    <3>2. CASE nodes[y].segment = seg
      BY <3>1, <3>2 DEF Stays, OnlyDoor
    <3>3. CASE nodes[y].segment # seg
      <4>1. Carried(d) = seg
        BY <3>1, <3>3
      <4>2. /\ 1 \in 1..Len(events) /\ e.ev = "info" /\ e.props # NULL
            /\ y \in DOMAIN entries /\ entries[y] = e.proxy
            /\ MediaClass(d) = nodes[y].media_class
        BY <1>5, <2>2 DEF Heard, Fed, Feed, HeardFits
      <4>3. ASSUME nodes[y].media_class = "Audio/Sink"
            PROVE  FALSE
        <5>1. IsDoor(d, seg)
          BY <4>1, <4>2, <4>3 DEF IsDoor, IsSink
        <5>2. x \in DOMAIN entries /\ entries[x] = e.proxy
          BY <4>2, <5>1 DEF Stays, SaysItself
        <5>3. e.proxy # NULL
          <6>1. e \in Event
            BY <4>2 DEF Fed, Tables
          <6>. QED  BY <4>2, <6>1, PwAssumption DEF Event
        <5>. QED  BY <4>2, <5>2, <5>3 DEF Fed, Bindings, OneEntry
      <4>. QED  BY <3>1, <4>3
    <3>. QED  BY <3>2, <3>3
  <2>. QED  BY <2>1, <2>2
<1>6. CASE nodes' = nodes
  BY <1>2, <1>6
<1>. QED  BY <1>3, <1>4, <1>5, <1>6

(* What becomes of x when an event is dispatched.                          *)
Heeded(x) ==
  /\ OnlyDoor(x)' /\ EntryStays(x)
  /\ \A k \in 1..Len(requests) : k \in 1..Len(requests') /\ requests'[k] = requests[k]
  /\ x \in DOMAIN entries =>
       \/ WalkInfo(x, graph[x])
       \/ /\ events[1] # Info(entries[x], graph[x])
          /\ UNCHANGED vars \/ \E y \in Ids : y # x /\ Elsewhere(y)
  /\ x \notin DOMAIN entries =>
       \/ x \notin DOMAIN entries' /\ ~(events[1].ev = "global" /\ events[1].id = x)
       \/ x \in DOMAIN entries' /\ requests' = Append(requests, Bind(x, entries'[x]))

LEMMA GlobalHeeded ==
  ASSUME ~BINDS_FAIL, Fed, TypeOK, NEW x, Stays(x), events # <<>>, graph' = graph,
         on_registry_global(events[1])
  PROVE  Heeded(x)
<1>. DEFINE e == events[1]
<1>1. /\ e \in Event /\ e.ev = "global" /\ requests \in Seq(Request) /\ SameNodes
  BY Taken DEF Fed, Tables, on_registry_global
<1>2. e.id \in Ids /\ e.class \in GlobalClasses
  BY <1>1 DEF Event
<1>3. x \in DOMAIN entries => e # Info(entries[x], graph[x])
  BY <1>1 DEF Info
<1>4. CASE e.id \in DOMAIN entries
  <2>1. UNCHANGED <<vars, entries, requests>>
    BY <1>4 DEF on_registry_global
  <2>2. OnlyDoor(x)'
    BY <1>2, <2>1, DoorsTaken DEF vars
  <2>. QED  BY <1>3, <1>4, <2>1, <2>2 DEF Heeded, EntryStays
<1>5. CASE e.id \notin DOMAIN entries
  <2>1. WalkGlobal(e.id, e.class)
    BY <1>5 DEF on_registry_global
  <2>2. PICK p \in Proxies : /\ Fresh(p)
                             /\ entries' = Insert(entries, e.id, p)
                             /\ requests' = Append(requests, Bind(e.id, p))
    BY <1>5 DEF on_registry_global
  <2>3. nodes' = nodes \/ nodes' = Insert(nodes, e.id, new_node(e.class))
    BY <2>1 DEF WalkGlobal
  <2>4. OnlyDoor(x)'
    BY <1>2, <2>3, DoorsTaken
  <2>5. EntryStays(x)
    BY <1>5, <2>2 DEF EntryStays, Insert, Fresh
  <2>6. Bind(e.id, p) \in Request
    BY <1>2 DEF Bind, Request
  <2>7. \A k \in 1..Len(requests) : k \in 1..Len(requests') /\ requests'[k] = requests[k]
    BY <1>1, <2>2, <2>6
  <2>8. x \in DOMAIN entries => \E y \in Ids : y # x /\ Elsewhere(y)
    BY <1>2, <1>5, <2>1 DEF Elsewhere
  <2>9. x \notin DOMAIN entries =>
          \/ x \notin DOMAIN entries' /\ e.id # x
          \/ x \in DOMAIN entries' /\ requests' = Append(requests, Bind(x, entries'[x]))
    BY <2>2 DEF Insert
  <2>. QED  BY <1>3, <2>4, <2>5, <2>7, <2>8, <2>9 DEF Heeded
<1>. QED  BY <1>4, <1>5

LEMMA InfoHeeded ==
  ASSUME Fed, TypeOK, NEW x, Stays(x), events # <<>>, graph' = graph,
         on_node_info(events[1])
  PROVE  Heeded(x)
<1>. DEFINE e == events[1]
<1>1. /\ e \in Event /\ e.ev = "info" /\ 1 \in 1..Len(events) /\ Tables /\ Bindings
      /\ UNCHANGED <<entries, requests>>
  BY Taken DEF Fed, Tables, on_node_info
<1>2. e.proxy \in Proxies /\ e.props \in Dicts \cup {NULL}
  BY <1>1 DEF Event
<1>3. EntryStays(x) /\ (e.ev # "global")
  BY <1>1 DEF EntryStays
<1>4. x \in Ids /\ graph[x] \in Dicts /\ graph[x] # NULL
  BY <1>1, PwAssumption DEF Tables, Stays
<1>5. CASE UNCHANGED vars /\ (e.props = NULL \/ EntryOf(e.proxy) = {})
  <2>1. x \in DOMAIN entries => e # Info(entries[x], graph[x])
    BY <1>4, <1>5 DEF Info, EntryOf
  <2>2. OnlyDoor(x)'
    BY <1>4, <1>5, DoorsTaken DEF vars
  <2>. QED  BY <1>1, <1>3, <1>5, <2>1, <2>2 DEF Heeded
<1>6. CASE e.props # NULL /\ \E z \in EntryOf(e.proxy) : WalkInfo(z, e.props)
  <2>1. PICK z \in EntryOf(e.proxy) : WalkInfo(z, e.props)
    BY <1>6
  <2>2. z \in DOMAIN entries /\ entries[z] = e.proxy /\ z \in Ids /\ e.props \in Dicts
    BY <1>1, <1>2, <1>6, <2>1 DEF EntryOf, Tables
  <2>3. Heard(1, z)
    BY <1>1, <1>6, <2>2 DEF Heard, LeftBy
  <2>4. nodes' = Insert(nodes, z, NodeAfter(z, e.props))
    BY <2>1 DEF WalkInfo, InfoOrdinary, InfoNewSegment, InfoKnownSegment
  <2>5. OnlyDoor(x)'
    BY <2>2, <2>3, <2>4, DoorsTaken
  <2>6. CASE z = x
    <3>1. e.props = graph[x]
      BY <1>1, <1>6, <2>2, <2>6 DEF Stays, SaysItself
    <3>. QED  BY <1>1, <1>3, <2>1, <2>2, <2>5, <2>6, <3>1 DEF Heeded
  <2>7. CASE z # x
    <3>1. x \in DOMAIN entries => entries[x] # e.proxy
      BY <1>1, <1>2, <2>2, <2>7, PwAssumption DEF Bindings, OneEntry
    <3>2. x \in DOMAIN entries => e # Info(entries[x], graph[x])
      BY <3>1 DEF Info
    <3>3. \E y \in Ids : y # x /\ Elsewhere(y)
      BY <2>1, <2>2, <2>7 DEF Elsewhere
    <3>. QED  BY <1>1, <1>3, <2>5, <3>2, <3>3 DEF Heeded
  <2>. QED  BY <2>6, <2>7
<1>. QED  BY <1>5, <1>6 DEF on_node_info

LEMMA RemovedHeeded ==
  ASSUME Fed, TypeOK, NEW x, Stays(x), events # <<>>, graph' = graph,
         on_proxy_removed(events[1])
  PROVE  Heeded(x)
<1>. DEFINE e == events[1]
<1>1. /\ e \in Event /\ e.ev = "removed" /\ 1 \in 1..Len(events) /\ Tables /\ Bindings
      /\ UNCHANGED <<vars, requests>>
  BY Taken DEF Fed, Tables, on_proxy_removed
<1>2. e.proxy \in Proxies /\ e = Removed(e.proxy) /\ x \in Ids
  BY <1>1 DEF Event, Removed, Tables, Stays
<1>3. x \in DOMAIN entries => entries[x] # e.proxy
  <2>1. Queued(Removed(e.proxy))
    BY <1>1, <1>2 DEF Queued
  <2>. QED  BY <1>1, <1>2, <2>1 DEF Stays, Bindings, RemovedIsLeaving
<1>4. EntryStays(x) /\ (x \notin DOMAIN entries => x \notin DOMAIN entries')
  BY <1>3 DEF EntryStays, on_proxy_removed
<1>5. OnlyDoor(x)'
  BY <1>1, <1>2, DoorsTaken DEF vars
<1>6. x \in DOMAIN entries => e # Info(entries[x], graph[x])
  BY <1>1 DEF Info
<1>. QED  BY <1>1, <1>4, <1>5, <1>6 DEF Heeded

LEMMA GoneHeeded ==
  ASSUME Fed, TypeOK, NEW x, Stays(x), events # <<>>, graph' = graph,
         on_registry_global_remove(events[1])
  PROVE  Heeded(x)
<1>. DEFINE e == events[1]
<1>1. /\ e \in Event /\ e.ev = "gone" /\ 1 \in 1..Len(events) /\ Tables
      /\ UNCHANGED requests
  BY Taken DEF Fed, Tables, on_registry_global_remove
<1>2. e.id \in Ids /\ e = Gone(e.id)
  BY <1>1 DEF Event, Gone
<1>3. e.id # x
  BY <1>1, <1>2 DEF Stays, Leaving, Queued
<1>4. x \in DOMAIN entries => e # Info(entries[x], graph[x])
  BY <1>1 DEF Info
<1>5. CASE e.id \notin DOMAIN entries
  <2>1. UNCHANGED <<vars, entries>>
    BY <1>5 DEF on_registry_global_remove
  <2>2. OnlyDoor(x)'
    BY <1>2, <2>1, DoorsTaken DEF vars
  <2>. QED  BY <1>1, <1>4, <2>1, <2>2 DEF Heeded, EntryStays
<1>6. CASE e.id \in DOMAIN entries
  <2>1. WalkRemove(e.id) /\ entries' = Drop(entries, e.id)
    BY <1>6 DEF on_registry_global_remove
  <2>2. nodes' = Drop(nodes, e.id)
    BY <2>1 DEF WalkRemove, RemoveOrdinary, RemoveMember, RemoveLast
  <2>3. OnlyDoor(x)'
    BY <1>2, <2>2, DoorsTaken
  <2>4. EntryStays(x) /\ (x \notin DOMAIN entries => x \notin DOMAIN entries')
    BY <1>3, <2>1 DEF EntryStays, Drop
  <2>5. \E y \in Ids : y # x /\ Elsewhere(y)
    BY <1>2, <1>3, <2>1 DEF Elsewhere
  <2>. QED  BY <1>1, <1>4, <2>3, <2>4, <2>5 DEF Heeded
<1>. QED  BY <1>5, <1>6

LEMMA StaysDoorKept ==
  ASSUME NEW x
  PROVE  /\ PwInv /\ Stays(x) => StaysDoor(x)
         /\ (PwInv /\ Stays(x) => StaysDoor(x))'
<1>1. PwInv /\ Stays(x) => StaysDoor(x)
  BY StaysIsDoor DEF PwInv, Fed, Feed
<1>2. (PwInv /\ Stays(x) => StaysDoor(x))'
  BY <1>1, PTL
<1>. QED  BY <1>1, <1>2

LEMMA AskedTaken ==
  ASSUME Tables, SyncsAsked, events # <<>>, events' = Tail(events), sync_seq' >= sync_seq,
         sync_seq \in Nat, sync_seq' \in Nat,
         \A k \in 1..Len(requests') :
           \/ \E j \in 1..Len(requests) : requests'[k] = requests[j]
           \/ requests'[k].op = "sync" => requests'[k].seq <= sync_seq'
  PROVE  SyncsAsked'
<1>1. \A k \in 1..Len(events') :
        k + 1 \in 1..Len(events) /\ events'[k] = events[k + 1] /\ events[k + 1] \in Event
  BY Taken DEF Tables
<1>2. \A k \in 1..Len(events') : events'[k].ev = "done" => events'[k].seq <= sync_seq'
  <2>1. \A e \in Event : e.ev = "done" => e.seq \in Nat
    BY DEF Event
  <2>2. \A k \in 1..Len(events') : events'[k].ev = "done" =>
          events'[k].seq \in Nat /\ events'[k].seq <= sync_seq
    BY <1>1, <2>1 DEF SyncsAsked
  <2>. QED  BY <2>2
<1>3. \A k \in 1..Len(requests') : requests'[k].op = "sync" => requests'[k].seq <= sync_seq'
  <2>1. \A r \in Request : r.op = "sync" => r.seq \in Nat
    BY DEF Request, WriteRequest
  <2>2. \A j \in 1..Len(requests) : requests[j].op = "sync" =>
          requests[j].seq \in Nat /\ requests[j].seq <= sync_seq
    BY <2>1 DEF SyncsAsked, Tables
  <2>3. \A j \in 1..Len(requests) : requests[j].op = "sync" => requests[j].seq <= sync_seq'
    BY <2>2
  <2>. QED  BY <2>3
<1>. QED  BY <1>2, <1>3 DEF SyncsAsked

(* What the client asks for when it dispatches an event is a bind.         *)
LEMMA DispatchAsks ==
  ASSUME Tables, Dispatch
  PROVE  \A k \in 1..Len(requests') :
           \/ \E j \in 1..Len(requests) : requests'[k] = requests[j]
           \/ requests'[k].op = "bind"
<1>1. CASE requests' = requests
  BY <1>1
<1>2. ASSUME NEW id, NEW p, requests' = Append(requests, Bind(id, p))
      PROVE  \A k \in 1..Len(requests') :
               \/ \E j \in 1..Len(requests) : requests'[k] = requests[j]
               \/ requests'[k].op = "bind"
  <2>1. requests \in Seq(Request) /\ Bind(id, p).op = "bind"
    BY DEF Tables, Bind
  <2>2. \A k \in 1..Len(requests') :
          \/ k \in 1..Len(requests) /\ requests'[k] = requests[k]
          \/ requests'[k] = Bind(id, p)
    BY <1>2, <2>1
  <2>. QED  BY <2>1, <2>2
<1>. QED
  BY <1>1, <1>2 DEF Dispatch, on_registry_global, on_node_info, on_proxy_removed,
                    on_registry_global_remove

LEMMA DispatchHeeded ==
  ASSUME ~BINDS_FAIL, Fed, TypeOK, NEW x, Stays(x), Dispatch
  PROVE  Heeded(x)
<1>1. /\ events # <<>> /\ graph' = graph /\ Head(events) = events[1]
  BY Taken DEF Dispatch, Fed, Tables
<1>. QED
  BY <1>1, GlobalHeeded, InfoHeeded, RemovedHeeded, GoneHeeded DEF Dispatch

LEMMA ListDispatchStep ==
  ASSUME ~BINDS_FAIL, ListInv, PwInv', Dispatch, UNCHANGED <<rounds_left, sync_seq, settled>>
  PROVE  /\ Counted' /\ SyncsAsked' /\ Writes' = {}
         /\ \A x \in settled' : Stays(x)' /\ Reached(x)'
<1>1. /\ PwInv /\ Fed /\ IInv /\ TypeOK /\ Tables /\ SameNodes /\ Counted /\ SyncsAsked
      /\ events # <<>> /\ events' = Tail(events) /\ graph' = graph
      /\ requests \in Seq(Request)
  BY DEF ListInv, PwInv, Fed, IInv, Dispatch, Tables
<1>2. \A k \in 1..Len(requests') :
        \/ \E j \in 1..Len(requests) : requests'[k] = requests[j]
        \/ requests'[k].op = "bind"
  BY <1>1, DispatchAsks
<1>3. Counted' /\ Writes' = {}
  <2>1. \A j \in 1..Len(requests) : requests[j].op # "write"
    BY DEF ListInv, Writes
  <2>2. \A k \in 1..Len(requests') : requests'[k].op # "write"
    BY <1>2, <2>1
  <2>. QED  BY <1>1, <2>2 DEF Counted, Writes
<1>4. sync_seq \in 1..3
  BY <1>1 DEF Counted
<1>5. SyncsAsked'
  <2>1. sync_seq \in Nat /\ sync_seq' \in Nat /\ sync_seq' >= sync_seq
    BY <1>4
  <2>. QED  BY <1>1, <1>2, <2>1, AskedTaken
<1>6. ASSUME NEW x \in settled'
      PROVE  Stays(x)' /\ Reached(x)'
  <2>1. /\ Stays(x) /\ Reached(x) /\ x \in DOMAIN graph /\ x \in Ids
    BY <1>1, <1>6 DEF ListInv, Stays, Tables
  <2>2. Heeded(x)
    BY <1>1, <2>1, DispatchHeeded
  <2>3. Stays(x)'
    BY <1>1, <2>1, <2>2, StaysTaken DEF Heeded
  <2>4. StaysDoor(x) /\ StaysDoor(x)' /\ ~Leaving(x)'
    BY <1>1, <2>1, <2>3, StaysDoorKept DEF Stays
  <2>5. /\ ToBind(x) /\ x \notin DOMAIN entries'
             /\ ~(events[1].ev = "global" /\ events[1].id = x)
           => ToBind(x)'
        /\ BindSent(x) /\ EntryStays(x) => BindSent(x)'
        /\ InfoSent(x) /\ EntryStays(x) /\ events[1] # Info(entries[x], graph[x])
           => InfoSent(x)'
    BY <1>1, <1>4, <2>2, ReachedTaken DEF Heeded
  <2>6. CASE x \in DOMAIN entries /\ WalkInfo(x, graph[x])
    <3>1. x \in DOMAIN nodes
      BY <1>1, <2>6 DEF SameNodes
    <3>2. Shown(x)'
      BY <1>1, <2>1, <2>4, <2>6, <3>1, ShownOnce
    <3>. QED  BY <2>3, <3>2 DEF Reached
  <2>7. CASE /\ x \in DOMAIN entries /\ events[1] # Info(entries[x], graph[x])
             /\ UNCHANGED vars \/ \E y \in Ids : y # x /\ Elsewhere(y)
    <3>1. Shown(x) => Shown(x)'
      BY <1>1, <2>1, <2>4, <2>7, ShownKept
    <3>. QED  BY <2>1, <2>2, <2>3, <2>5, <2>7, <3>1 DEF Reached, Heeded, ToBind
  <2>8. CASE x \notin DOMAIN entries
    <3>1. ToBind(x)
      BY <1>1, <2>1, <2>8 DEF Reached, BindSent, InfoSent, Shown, SameNodes
    <3>2. CASE x \notin DOMAIN entries' /\ ~(events[1].ev = "global" /\ events[1].id = x)
      BY <2>3, <2>5, <3>1, <3>2 DEF Reached
    <3>3. CASE x \in DOMAIN entries' /\ requests' = Append(requests, Bind(x, entries'[x]))
      <4>1. sync_seq = 1 /\ sync_seq' = 1
        BY <3>1 DEF ToBind
      <4>2. \A k \in 1..Len(events') : events'[k] # Done(2)
        BY <1>5, <4>1 DEF SyncsAsked, Done
      <4>3. \A k \in 1..Len(requests') : requests'[k] # Sync(2)
        BY <1>5, <4>1 DEF SyncsAsked, Sync
      <4>. DEFINE n == Len(requests) + 1
      <4>4. n \in 1..Len(requests') /\ requests'[n] = Bind(x, entries'[x]) /\ Len(requests') \in Nat
        <5>1. Len(requests') = n
          BY <1>1, <3>3
        <5>. QED  BY <1>1, <3>3, <5>1
      <4>. HIDE DEF n
      <4>5. \A j \in 1..n : requests'[j] # Sync(2)
        BY <4>3, <4>4, UpTo
      <4>6. BindSent(x)'
        BY <3>3, <4>1, <4>2, <4>4, <4>5 DEF BindSent, Bind, Sync, Done
      <4>. QED  BY <2>3, <4>6 DEF Reached
    <3>. QED  BY <2>2, <2>8, <3>2, <3>3 DEF Heeded
  <2>. QED  BY <2>2, <2>6, <2>7, <2>8 DEF Heeded
<1>. QED  BY <1>3, <1>5, <1>6

-----------------------------------------------------------------------------
(* A roundtrip is over.                                                    *)

LEMMA ListDoneStep ==
  ASSUME ListInv, on_core_done, UNCHANGED settled
  PROVE  ListInv'
<1>1. /\ PwInv /\ Fed /\ IInv /\ Tables /\ SameNodes /\ Feed /\ Bindings
      /\ requests \in Seq(Request) /\ events \in Seq(Event)
      /\ events # <<>> /\ events' = Tail(events)
      /\ UNCHANGED <<vars, nodes, graph, resources, changes, entries>>
  BY DEF ListInv, PwInv, Fed, Tables, on_core_done, vars, serverVars
<1>2. Head(events) = events[1] /\ events[1] \in Event /\ events[1].ev = "done"
  BY <1>1, Taken DEF on_core_done
<1>3. events[1] = Done(events[1].seq)
  BY <1>2 DEF Event, Done
<1>4. sync_seq \in 1..3 /\ rounds_left \in 0..3
  BY DEF ListInv, Counted
<1>5. \/ /\ UNCHANGED <<requests, sync_seq>>
         /\ rounds_left' = rounds_left \/ (rounds_left' = 0 /\ sync_seq = 3)
      \/ /\ requests' = Append(requests, Sync(sync_seq + 1))
         /\ events[1] = Done(sync_seq)
         /\ sync_seq' = sync_seq + 1 /\ sync_seq' \in 1..3
         /\ rounds_left' = rounds_left - 1 /\ rounds_left' = 4 - sync_seq'
  <2>1. CASE Head(events).seq = sync_seq /\ Running
    <3>1. on_round /\ events[1] = Done(sync_seq)
      BY <1>2, <1>3, <2>1 DEF on_core_done
    <3>2. rounds_left = 4 - sync_seq
      BY <1>4, <2>1 DEF ListInv, Counted, Running
    <3>. QED  BY <1>4, <3>1, <3>2 DEF on_round
  <2>2. CASE ~(Head(events).seq = sync_seq /\ Running)
    BY <2>2 DEF on_core_done
  <2>. QED  BY <2>1, <2>2
<1>6. Sync(sync_seq + 1) \in Request /\ Sync(sync_seq + 1).op = "sync"
      /\ Sync(sync_seq + 1).seq = sync_seq + 1
  BY <1>4 DEF Request, Sync
<1>7. /\ requests' \in Seq(Request)
      /\ \A k \in 1..Len(requests) : k \in 1..Len(requests') /\ requests'[k] = requests[k]
      /\ \A k \in 1..Len(requests') :
           \/ k \in 1..Len(requests) /\ requests'[k] = requests[k]
           \/ requests'[k].op = "sync" /\ requests'[k].seq = sync_seq' /\ sync_seq' \in Nat
  <2>1. CASE requests' = requests
    BY <1>1, <2>1
  <2>2. CASE /\ requests' = Append(requests, Sync(sync_seq + 1))
             /\ sync_seq' = sync_seq + 1 /\ sync_seq' \in 1..3
    <3>1. \A k \in 1..Len(requests') :
            \/ k \in 1..Len(requests) /\ requests'[k] = requests[k]
            \/ requests'[k] = Sync(sync_seq + 1)
      BY <1>1, <1>6, <2>2
    <3>2. sync_seq' \in Nat
      BY <2>2
    <3>. QED  BY <1>1, <1>6, <2>2, <3>1, <3>2
  <2>. QED  BY <1>5, <2>1, <2>2
<1>8. Counted'
  BY <1>4, <1>5 DEF ListInv, Counted
<1>9. SyncsAsked'
  <2>1. sync_seq \in Nat /\ sync_seq' \in Nat /\ sync_seq' >= sync_seq
    BY <1>4, <1>5
  <2>2. \A k \in 1..Len(requests') :
          \/ \E j \in 1..Len(requests) : requests'[k] = requests[j]
          \/ requests'[k].op = "sync" => requests'[k].seq <= sync_seq'
    BY <1>7
  <2>. QED  BY <1>1, <2>1, <2>2, AskedTaken DEF ListInv
<1>10. Writes' = {}
  BY <1>7 DEF ListInv, Writes
<1>11. PwInv'
  <2>1. AsksNobody
    BY <1>7 DEF AsksNobody
  <2>2. EntriesLose
    BY <1>1, <1>2 DEF EntriesLose, Tables, Gone
  <2>3. BindingsLose
    BY <1>1 DEF BindingsLose, Tables, Bindings, BoundIsHeld
  <2>4. \A x \in DOMAIN nodes' : Follows(x)
    BY <1>1, <1>2 DEF Follows, SameNodes, Feed, SinkIsClass, Gone
  <2>5. IInv' /\ SameNodes'
    BY <1>1, WalkUntouched
  <2>6. Tables' /\ Feed' /\ Bindings'
    BY <1>1, <2>1, <2>2, <2>3, <2>4, <2>5, TakenAsking
  <2>7. WritesReachTheirSegment'
    BY <1>10 DEF WritesReachTheirSegment
  <2>. QED  BY <2>5, <2>6, <2>7 DEF PwInv, Fed
<1>12. ASSUME NEW x \in settled'
       PROVE  Stays(x)' /\ Reached(x)'
  <2>1. Stays(x) /\ Reached(x)
    BY <1>12 DEF ListInv
  <2>2. EntryStays(x)
    BY <1>1 DEF EntryStays
  <2>3. OnlyDoor(x)'
    BY <1>1, <2>1 DEF Stays, OnlyDoor, DoorOf
  <2>4. Stays(x)'
    BY <1>1, <2>1, <2>2, <2>3, StaysTaken
  <2>5. Shown(x) => Shown(x)'
    BY <1>1 DEF Shown, vars
  <2>6. /\ \A d : events[1] # Info(entries[x], d)
        /\ ~(events[1].ev = "global" /\ events[1].id = x)
    BY <1>2 DEF Info
  <2>7. \/ sync_seq' = sync_seq
        \/ events[1] = Done(sync_seq) /\ sync_seq' = sync_seq + 1
    BY <1>5
  <2>8. /\ ToBind(x) => ToBind(x)'
        /\ BindSent(x) => BindSent(x)'
        /\ InfoSent(x) => InfoSent(x)'
    BY <1>1, <1>4, <1>7, <2>2, <2>6, <2>7, ReachedTaken DEF ToBind
  <2>. QED  BY <2>1, <2>4, <2>5, <2>8 DEF Reached
<1>. QED  BY <1>8, <1>9, <1>10, <1>11, <1>12 DEF ListInv

LEMMA ListInitInv == ListInit => ListInv /\ printed = <<>>
<1>. SUFFICES ASSUME ListInit
              PROVE  ListInv /\ printed = <<>>
  OBVIOUS
<1>1. /\ Connected /\ requests = <<Sync(1)>> /\ sync_seq = 1 /\ rounds_left = 3
      /\ settled = DOMAIN graph /\ printed = <<>>
      /\ entries = [id \in {} |-> NULL]
  BY DEF ListInit, Rounds, Connected
<1>2. /\ Sync(1) \in Request /\ Sync(1).op = "sync" /\ Sync(1).seq = 1
      /\ requests \in Seq(Request)
      /\ \A k \in 1..Len(requests) : requests[k] = Sync(1)
  <2>1. Sync(1) \in Request /\ Sync(1).op = "sync" /\ Sync(1).seq = 1
    BY DEF Sync, Request
  <2>. QED  BY <1>1, <2>1
<1>3. PwInv /\ Init
  BY <1>1, <1>2, ConnectedInv
<1>4. Counted
  BY <1>1 DEF Counted
<1>5. PICK o \in InSomeOrder(DOMAIN graph) :
        events = [k \in 1..Len(o) |-> Global(o[k], MediaClass(graph[o[k]]))]
  BY <1>1 DEF Connected
<1>6. o \in Seq(DOMAIN graph) /\ Elements(o) = DOMAIN graph
  BY <1>3, FS_Subset, OrderedSeq, PwAssumption DEF PwInv, Fed, Tables
<1>7. /\ \A k \in 1..Len(events) : events[k].ev = "global" /\ events[k].id = o[k]
      /\ \A k \in 1..Len(o) : k \in 1..Len(events)
  <2>1. Len(o) \in Nat
    BY <1>6
  <2>2. Len(events) = Len(o)
    BY <1>5, <2>1
  <2>. QED  BY <1>5, <2>2 DEF Global
<1>8. SyncsAsked
  BY <1>1, <1>2, <1>7 DEF SyncsAsked
<1>9. Writes = {}
  BY <1>2 DEF Writes
<1>10. ASSUME NEW x \in settled
       PROVE  Stays(x) /\ Reached(x)
  <2>1. DOMAIN entries = {} /\ DOMAIN nodes = {}
    BY <1>1, <1>3 DEF Init
  <2>2. Stays(x)
    BY <1>1, <1>7, <2>1, <1>10
       DEF Stays, Leaving, Queued, Gone, SaysItself, OnlyDoor
  <2>3. PICK k \in 1..Len(o) : o[k] = x
    BY <1>1, <1>6, <1>10 DEF Elements
  <2>4. k \in 1..Len(events) /\ events[k].ev = "global" /\ events[k].id = x
    BY <1>7, <2>3
  <2>5. \A j \in 1..k : events[j].ev # "done"
    <3>1. Len(events) \in Nat
      BY <1>3 DEF PwInv, Fed, Tables
    <3>. QED  BY <1>7, <2>4, <3>1, UpTo
  <2>6. ToBind(x)
    BY <1>1, <2>1, <2>4, <2>5 DEF ToBind
  <2>. QED  BY <2>2, <2>6 DEF Reached
<1>. QED  BY <1>1, <1>3, <1>4, <1>8, <1>9, <1>10 DEF ListInv

(* What the stages lead to.                                                *)
LEMMA ListInvComplete ==
  ASSUME ListInv
  PROVE  ListIsComplete
<1>. SUFFICES ASSUME sync_seq > 2 \/ ~Running
              PROVE  Complete
  BY DEF ListIsComplete
<1>1. sync_seq = 3
  BY DEF ListInv, Counted, Running
<1>2. /\ PwInv /\ IInv /\ SinkIsClass /\ KnownIsThere /\ SameNodes
  BY DEF ListInv, PwInv, Fed, Feed
<1>3. ASSUME NEW x \in settled
      PROVE  Stays(x) /\ Shown(x)
  BY <1>1, <1>3 DEF ListInv, Reached, ToBind, BindSent, InfoSent
<1>4. settled \subseteq DOMAIN nodes
  BY <1>3 DEF Shown
<1>5. ASSUME NEW x \in settled, Carried(graph[x]) # NULL
      PROVE  /\ Carried(graph[x]) \in DOMAIN segments
             /\ IsSink(graph[x]) =>
                  /\ segments[Carried(graph[x])].box.id = x
                  /\ update_from_dict(segments[Carried(graph[x])].box, graph[x])
                       = segments[Carried(graph[x])].box
  <2>. DEFINE seg == Carried(graph[x])
  <2>1. /\ Stays(x) /\ x \in DOMAIN nodes /\ nodes[x].segment = seg
        /\ IsSink(graph[x]) => update_from_dict(segments[seg].box, graph[x]) = segments[seg].box
    BY <1>3, <1>5 DEF Shown
  <2>2. seg \in DOMAIN segments
    BY <1>2, <1>5, <2>1 DEF IInv, SegmentsListed
  <2>3. StaysDoor(x)
    BY <1>2, <2>1, StaysIsDoor
  <2>4. IsSink(graph[x]) => segments[seg].box.id = x
    BY <1>5, <2>1, <2>3 DEF StaysDoor, DoorOf, IsDoor
  <2>. QED  BY <2>1, <2>2, <2>4
<1>. QED  BY <1>4, <1>5 DEF Complete

LEMMA ListNextInv ==
  ASSUME ~BINDS_FAIL, SteadyGraph, ListInv, printed = <<>>, [ListNext]_listVars
  PROVE  (ListInv /\ printed = <<>>)' \/ Listed'
<1>1. PwInv /\ AnswersFit
  BY DEF ListInv, AnswersFit
<1>2. CASE Graph
  <2>1. GraphChanges /\ UNCHANGED <<rounds_left, sync_seq, printed>>
        /\ settled' = {id \in settled : id \in DOMAIN graph' /\ graph'[id] = graph[id]}
    BY <1>2 DEF Graph
  <2>2. PwInv'
    BY <1>1, <2>1, PwNextInv DEF PwNext
  <2>. QED  BY <2>1, <2>2, ListGraphStep DEF ListInv
<1>3. CASE Served
  <2>1. Serve /\ UNCHANGED <<rounds_left, sync_seq, printed, settled>>
    BY <1>3 DEF Served
  <2>2. PwInv'
    BY <1>1, <2>1, PwNextInv DEF PwNext
  <2>. QED  BY <2>1, <2>2, ListServeStep DEF ListInv
<1>4. CASE Iterate
  <2>1. UNCHANGED <<settled, printed>>
    BY <1>4 DEF Iterate
  <2>2. CASE Dispatch /\ UNCHANGED <<rounds_left, sync_seq>>
    <3>1. PwInv'
      BY <1>1, <2>2, PwNextInv DEF PwNext
    <3>. QED  BY <2>1, <2>2, <3>1, ListDispatchStep DEF ListInv
  <2>3. CASE on_core_done
    BY <2>1, <2>3, ListDoneStep
  <2>. QED  BY <1>4, <2>2, <2>3 DEF Iterate
<1>5. CASE UNCHANGED <<pwVars, rounds_left, sync_seq, printed, settled>>
  <2>1. UNCHANGED <<nodes, segments, graph, requests, events, entries,
                    rounds_left, sync_seq, printed, settled>>
    BY <1>5 DEF pwVars, serverVars, vars
  <2>2. PwInv'
    BY <1>1, <1>5, PwNextInv
  <2>3. Counted' /\ SyncsAsked' /\ Writes' = {}
    BY <2>1 DEF ListInv, Counted, SyncsAsked, Writes
  <2>4. ASSUME NEW x \in settled'
        PROVE  Stays(x)' /\ Reached(x)'
    <3>1. Stays(x) /\ Reached(x)
      BY <2>1, <2>4 DEF ListInv
    <3>2. Stays(x)'
      BY <2>1, <3>1 DEF Stays, Leaving, Queued, SaysItself, OnlyDoor, DoorOf, Gone
    <3>3. /\ ToBind(x)' <=> ToBind(x)
          /\ BindSent(x)' <=> BindSent(x)
          /\ InfoSent(x)' <=> InfoSent(x)
          /\ Shown(x)' <=> Shown(x)
      BY <2>1 DEF ToBind, BindSent, InfoSent, Shown, Bind, Sync, Done, Info
    <3>. QED  BY <3>1, <3>2, <3>3 DEF Reached
  <2>. QED  BY <2>1, <2>2, <2>3, <2>4 DEF ListInv
<1>6. CASE PrintList
  <2>1. ListIsComplete
    BY ListInvComplete
  <2>2. /\ UNCHANGED <<nodes, segments, graph, sync_seq, rounds_left, settled>>
        /\ printed' # <<>> /\ ~Running
    BY <1>6 DEF PrintList, serverVars
  <2>. QED
    BY <2>1, <2>2 DEF Listed, ListIsComplete, Complete, Running
<1>7. CASE UNCHANGED listVars
  BY <1>5, <1>7 DEF listVars
<1>8. CASE on_core_error
  BY <1>5, <1>8 DEF on_core_error
<1>. QED  BY <1>2, <1>3, <1>4, <1>6, <1>7, <1>8 DEF ListNext

LEMMA ListedStays ==
  ASSUME Listed, [ListNext]_listVars
  PROVE  Listed'
<1>1. UNCHANGED listVars
  BY DEF Listed, ListNext, Graph, Served, Iterate, on_core_error, PrintList
<1>2. UNCHANGED <<nodes, segments, graph, rounds_left, sync_seq, printed, settled>>
  BY <1>1 DEF listVars, pwVars, serverVars, vars
<1>. QED  BY <1>2 DEF Listed, ListIsComplete, Complete, Running

(* rs-pw.h:54, two roundtrips in sequence: whatever else appears, changes  *)
(* or leaves meanwhile and however the daemon orders what it says of       *)
(* several nodes, after the second one every node that was there all the   *)
(* time is bound, and one that is a stagebox's sink is the door of its     *)
(* box, which shows what it publishes.  The list that is printed misses    *)
(* none of them.                                                           *)
THEOREM ListFindsAll ==
  ASSUME ~BINDS_FAIL, SteadyGraph
  PROVE  ListSpec => []ListIsComplete
<1>. DEFINE Found == (ListInv /\ printed = <<>>) \/ Listed
<1>1. ListInit => Found
  BY ListInitInv
<1>2. Found /\ [ListNext]_listVars => Found'
  BY ListNextInv, ListedStays
<1>3. Found => ListIsComplete
  BY ListInvComplete DEF Listed
<1>. QED  BY <1>1, <1>2, <1>3, PTL DEF ListSpec

-----------------------------------------------------------------------------
(* What the list says.                                                     *)

(* An input of a box that shows its door's dict reads the one value the    *)
(* dict asserts of it, or that it is unset.                                *)
LEMMA SaidIsRead ==
  ASSUME NamesOnce, NEW seg, NEW b \in Box(Ids, {seg}), NEW d \in Dicts,
         {"base", "asserted"} \subseteq DOMAIN d, update_from_dict(b, d) = b,
         NEW i \in Nat \ {0}, NEW p \in Params
  PROVE  \/ Said(d, i, p) = {} /\ box_asserted(b, i, p) = -1
         \/ \E v \in Byte : Said(d, i, p) = {v} /\ box_asserted(b, i, p) = v
<1>. DEFINE list  == d.asserted
            base  == base_parse(d.base)
            ch    == base + i - 1
            cells == b.cells
<1>1. /\ b.base = base /\ b.readback /\ cells = asserted_parse(list, N_CELLS)
      /\ base \in Bases
  <2>1. /\ update_from_dict(b, d).base = base_parse(d.base)
        /\ update_from_dict(b, d).readback
        /\ update_from_dict(b, d).cells = asserted_parse(list, N_CELLS)
    BY DEF update_from_dict, take, take_cells, Box
  <2>2. b.base \in Bases
    BY DEF Box
  <2>. QED  BY <2>1, <2>2
<1>2. list \in Seq(AnyCell)
  BY BoxAssumption
<1>3. \A j, k \in formed(list) :
        list[j].ch = list[k].ch /\ list[j].param = list[k].param => j = k
  BY DEF NamesOnce, With
<1>4. \A k \in formed(list) :
        /\ list[k].ch \in 0..(MAX_CH - 1) /\ list[k].value \in Byte
        /\ ParamNames[list[k].param + 1] = p <=> list[k].param = param_from_name(p)
  <2>1. \A k \in formed(list) : CellOK(list[k])
    BY DEF formed
  <2>. QED  BY <2>1, ParamNamed DEF CellOK
<1>. DEFINE spoken == {k \in formed(list) : base >= 0 /\ list[k].ch = ch
                                              /\ list[k].param = param_from_name(p)}
<1>5. Said(d, i, p) = {list[k].value : k \in spoken}
  BY <1>4 DEF Said
<1>6. CASE ~(box_wire_ch(b, i) >= 0)
  <2>1. ~(base >= 0 /\ ch \in 0..(MAX_CH - 1))
    BY <1>1, <1>6, HeadampAssumption DEF box_wire_ch, wire_ch, Bases
  <2>2. spoken = {}
    BY <1>4, <2>1
  <2>. HIDE DEF spoken
  <2>3. Said(d, i, p) = {}
    BY <1>5, <2>2
  <2>. QED  BY <1>6, <2>3 DEF box_asserted
<1>7. CASE box_wire_ch(b, i) >= 0
  <2>1. box_wire_ch(b, i) = ch /\ base >= 0 /\ ch \in 0..(MAX_CH - 1)
    BY <1>1, <1>7, HeadampAssumption DEF box_wire_ch, wire_ch, Bases
  <2>2. box_asserted(b, i, p) = cell_lookup(cells, ch, p)
    BY <1>1, <2>1 DEF box_asserted
  <2>3. /\ cells \in Seq(AnyCell)
        /\ \A k \in 1..Len(cells) : \E j \in formed(list) : cells[k] = list[j]
        /\ \A j \in formed(list) : \E k \in 1..Len(cells) : cells[k] = list[j]
    BY <1>1, <1>2, <1>3, AllParsed
  <2>. HIDE DEF list, base, ch, cells
  <2>4. CASE cells_of(cells, ch, p) = {}
    <3>1. ASSUME NEW k \in spoken
          PROVE  FALSE
      <4>1. PICK l \in 1..Len(cells) : cells[l] = list[k]
        BY <2>3, <3>1
      <4>2. l \in cells_of(cells, ch, p)
        BY <3>1, <4>1 DEF cells_of
      <4>. QED  BY <2>4, <4>2
    <3>2. spoken = {}
      BY <3>1
    <3>. HIDE DEF spoken
    <3>3. Said(d, i, p) = {}
      BY <1>5, <3>2
    <3>. QED  BY <2>2, <2>4, <3>3 DEF cell_lookup
  <2>5. CASE cells_of(cells, ch, p) # {}
    <3>1. PICK l \in cells_of(cells, ch, p) : cell_lookup(cells, ch, p) = cells[l].value
      BY <2>3, <2>5, LookupCell
    <3>2. l \in 1..Len(cells) /\ cells[l].ch = ch /\ cells[l].param = param_from_name(p)
      BY <3>1 DEF cells_of
    <3>3. PICK j \in formed(list) : cells[l] = list[j]
      BY <2>3, <3>2
    <3>4. j \in spoken
      BY <2>1, <3>2, <3>3
    <3>5. \A k \in spoken : k = j
      BY <1>3, <3>2, <3>3
    <3>6. Said(d, i, p) = {list[j].value}
      BY <1>5, <3>4, <3>5
    <3>. QED  BY <1>4, <2>2, <3>1, <3>3, <3>6
  <2>. QED  BY <2>4, <2>5
<1>. QED  BY <1>6, <1>7

(* The lines of a box that shows its door's dict say what the dict says.   *)
LEMMA LinesSaid ==
  ASSUME NamesOnce, SinksTellInputs, NEW seg, NEW b \in Box(Ids, {seg}), NEW d \in Dicts,
         seg # NULL, Carried(d) = seg, IsSink(d), b.sink, update_from_dict(b, d) = b
  PROVE  Prints(print_box(b), d)
<1>. DEFINE line == print_box(b)
<1>1. /\ {"channels", "base", "asserted", "sens_max"} \subseteq DOMAIN d
      /\ d.channels # NotDecimal /\ d.channels[1] \in 0..(INT_SPAN \div 2 - 1)
      /\ \A k \in formed(d.asserted) :
           ParamNames[d.asserted[k].param + 1] = "sens"
             => d.asserted[k].value <= sens_max_parse(d.sens_max)
  BY DEF SinksTellInputs
<1>2. d.segment = seg /\ b.segment = seg
  BY DEF Carried, Box
<1>3. b.channels = d.channels[1] /\ b.sens_max = sens_max_parse(d.sens_max)
  <2>1. /\ update_from_dict(b, d).channels = ToInt(d.channels[1])
        /\ update_from_dict(b, d).sens_max = sens_max_parse(d.sens_max)
    BY <1>1 DEF update_from_dict, take, take_int, Box
  <2>. QED  BY <1>1, <2>1, CountFits
<1>4. b.sens_max \in 1..255
  BY DEF Box, Ceilings
<1>5. d.channels[1] \in Nat
  BY <1>1
<1>6. /\ line.segment = b.segment /\ line.sink_door = b.sink
      /\ line.inputs = [i \in 1..d.channels[1] |->
           [ wire_channel |-> box_wire_ch(b, i),
             phantom |-> onoff(box_asserted(b, i, "phantom")),
             pad     |-> onoff(box_asserted(b, i, "pad")),
             sens    |-> sens_str(box_asserted(b, i, "sens"), box_asserted(b, i, "pad"),
                                  b.sens_max) ]]
  BY <1>3 DEF print_box
<1>7. Len(line.inputs) = d.channels[1]
  BY <1>5, <1>6
<1>8. ASSUME NEW i \in 1..d.channels[1]
      PROVE  LET now == line.inputs[i]
             IN  /\ \A p \in {"phantom", "pad"} :
                      now[p] = IF Said(d, i, p) = {} THEN "dash"
                               ELSE IF Said(d, i, p) = {0} THEN "off" ELSE "on"
                 /\ now.sens = <<>> <=> Said(d, i, "sens") = {}
                 /\ \A v \in Said(d, i, "sens") :
                      now.sens = <<v, (IF Said(d, i, "pad") \subseteq {0} THEN -10 ELSE 10) - v>>
  <2>. DEFINE now == line.inputs[i]
              read(p) == box_asserted(b, i, p)
  <2>1. i \in Nat \ {0}
    BY <1>5
  <2>2. \A p \in Params :
          \/ Said(d, i, p) = {} /\ read(p) = -1
          \/ \E v \in Byte : Said(d, i, p) = {v} /\ read(p) = v
    BY <1>1, <2>1, SaidIsRead, ZenonT(30)
  <2>3. /\ now.phantom = onoff(read("phantom")) /\ now.pad = onoff(read("pad"))
        /\ now.sens = sens_str(read("sens"), read("pad"), b.sens_max)
    BY <1>6
  <2>4. \A v \in Said(d, i, "sens") : v \in Byte /\ v <= b.sens_max
    <3>1. \A v \in Said(d, i, "sens") : v <= sens_max_parse(d.sens_max)
      BY <1>1 DEF Said
    <3>. QED  BY <1>3, <2>2, <3>1 DEF Params
  <2>. HIDE DEF now, read
  <2>5. ASSUME NEW p \in {"phantom", "pad"}
        PROVE  onoff(read(p)) = IF Said(d, i, p) = {} THEN "dash"
                                ELSE IF Said(d, i, p) = {0} THEN "off" ELSE "on"
    <3>1. CASE Said(d, i, p) = {} /\ read(p) = -1
      BY <3>1 DEF onoff
    <3>2. ASSUME NEW v \in Byte, Said(d, i, p) = {v}, read(p) = v
          PROVE  onoff(read(p)) = IF Said(d, i, p) = {} THEN "dash"
                                  ELSE IF Said(d, i, p) = {0} THEN "off" ELSE "on"
      BY <3>2 DEF onoff, Byte
    <3>. QED  BY <2>2, <3>1, <3>2 DEF Params
  <2>6. read("pad") > 0 <=> ~(Said(d, i, "pad") \subseteq {0})
    <3>1. CASE Said(d, i, "pad") = {} /\ read("pad") = -1
      BY <3>1
    <3>2. ASSUME NEW v \in Byte, Said(d, i, "pad") = {v}, read("pad") = v
          PROVE  read("pad") > 0 <=> ~(Said(d, i, "pad") \subseteq {0})
      BY <3>2 DEF Byte
    <3>. QED  BY <2>2, <3>1, <3>2 DEF Params
  <2>7. Said(d, i, "sens") = {} /\ read("sens") = -1 => now.sens = <<>>
    BY <2>3 DEF sens_str
  <2>8. ASSUME NEW v \in Byte, Said(d, i, "sens") = {v}, read("sens") = v
        PROVE  now.sens = <<v, (IF Said(d, i, "pad") \subseteq {0} THEN -10 ELSE 10) - v>>
    <3>1. sens_clamp(v, b.sens_max) = v
      BY <1>4, <2>4, <2>8 DEF sens_clamp, ceiling, Byte
    <3>2. sens_dbu(v, read("pad") > 0, b.sens_max)
            = (IF Said(d, i, "pad") \subseteq {0} THEN -10 ELSE 10) - v
      BY <2>6, <3>1 DEF sens_dbu, SENS_REF_DBU, SENS_STEP_DB, PAD_DB, Byte
    <3>3. ~(v < 0)
      BY DEF Byte
    <3>. QED  BY <2>3, <2>8, <3>2, <3>3 DEF sens_str
  <2>9. /\ now.sens = <<>> <=> Said(d, i, "sens") = {}
        /\ \A v \in Said(d, i, "sens") :
             now.sens = <<v, (IF Said(d, i, "pad") \subseteq {0} THEN -10 ELSE 10) - v>>
    <3>1. CASE Said(d, i, "sens") = {} /\ read("sens") = -1
      BY <2>7, <3>1
    <3>2. ASSUME NEW v \in Byte, Said(d, i, "sens") = {v}, read("sens") = v
          PROVE  /\ now.sens = <<>> <=> Said(d, i, "sens") = {}
                 /\ \A w \in Said(d, i, "sens") :
                      now.sens = <<w, (IF Said(d, i, "pad") \subseteq {0} THEN -10 ELSE 10) - w>>
      <4>1. now.sens = <<v, (IF Said(d, i, "pad") \subseteq {0} THEN -10 ELSE 10) - v>>
        BY <2>8, <3>2
      <4>2. now.sens # <<>> /\ Said(d, i, "sens") # {}
        BY <3>2, <4>1
      <4>. QED  BY <3>2, <4>1, <4>2
    <3>. QED  BY <2>2, <3>1, <3>2 DEF Params
  <2>10. \A p \in {"phantom", "pad"} : now[p] = onoff(read(p))
    BY <2>3
  <2>. QED  BY <2>5, <2>9, <2>10 DEF now
<1>9. \A i \in 1..Len(line.inputs) :
        /\ \A p \in {"phantom", "pad"} :
             line.inputs[i][p] = IF Said(d, i, p) = {} THEN "dash"
                                 ELSE IF Said(d, i, p) = {0} THEN "off" ELSE "on"
        /\ line.inputs[i].sens = <<>> <=> Said(d, i, "sens") = {}
        /\ \A v \in Said(d, i, "sens") :
             line.inputs[i].sens
               = <<v, (IF Said(d, i, "pad") \subseteq {0} THEN -10 ELSE 10) - v>>
  BY <1>7, <1>8
<1>10. line.segment = d.segment /\ line.sink_door /\ Len(line.inputs) = d.channels[1]
  BY <1>2, <1>6, <1>7
<1>. QED  BY <1>9, <1>10 DEF Prints

(* The array printed holds every box of the walk once, in order.           *)
LEMMA ListInOrder ==
  ASSUME IInv, boxes' \in Sorted(boxes)
  PROVE  /\ Len(boxes') = Len(boxes) /\ Len(boxes) \in Nat
         /\ \A k \in 1..Len(boxes) : boxes'[k] \in DOMAIN segments
         /\ \A seg \in DOMAIN segments : \E k \in 1..Len(boxes) : boxes'[k] = seg
         /\ \A k, l \in 1..Len(boxes) : k < l => by_segment(boxes'[k], boxes'[l])
<1>1. /\ boxes \in Seq(Segments) /\ Len(boxes) \in Nat
      /\ Distinct(boxes) /\ Elements(boxes) = DOMAIN segments
      /\ DOMAIN segments \subseteq Segments
  BY DEF IInv, TypeOK, OneBoxPerSegment
<1>2. PICK p \in Bijection(1..Len(boxes), 1..Len(boxes)) :
        /\ \A k, l \in 1..Len(boxes) : k < l => ~by_segment(boxes[p[l]], boxes[p[k]])
        /\ boxes' = [k \in 1..Len(boxes) |-> boxes[p[k]]]
  BY DEF Sorted
<1>3. /\ \A k \in 1..Len(boxes) : p[k] \in 1..Len(boxes)
      /\ \A k, l \in 1..Len(boxes) : p[k] = p[l] => k = l
      /\ \A j \in 1..Len(boxes) : \E k \in 1..Len(boxes) : p[k] = j
  BY <1>2 DEF Bijection, Injection, Surjection, IsInjective
<1>4. /\ Len(boxes') = Len(boxes)
      /\ \A k \in 1..Len(boxes) : boxes'[k] = boxes[p[k]]
  BY <1>1, <1>2
<1>5. /\ \A j \in 1..Len(boxes) : boxes[j] \in DOMAIN segments
      /\ \A seg \in DOMAIN segments : \E j \in 1..Len(boxes) : boxes[j] = seg
  BY <1>1 DEF Elements
<1>6. ASSUME NEW a \in Segments, NEW b \in Segments, a # b
      PROVE  by_segment(a, b) \/ by_segment(b, a)
  <2>1. \A x \in Segments : \E i \in 1..Len(Alphabet) : Alphabet[i] = x
    BY ListAssumption DEF Elements
  <2>2. \A x \in Segments : /\ PlaceOf(Alphabet, x) \in 1..Len(Alphabet)
                            /\ Alphabet[PlaceOf(Alphabet, x)] = x
    BY <2>1 DEF PlaceOf
  <2>3. PlaceOf(Alphabet, a) # PlaceOf(Alphabet, b)
    BY <1>6, <2>2
  <2>. QED  BY <2>2, <2>3 DEF by_segment
<1>7. ASSUME NEW k \in 1..Len(boxes), NEW l \in 1..Len(boxes), k < l
      PROVE  by_segment(boxes'[k], boxes'[l])
  <2>1. p[k] # p[l]
    BY <1>1, <1>3, <1>7
  <2>2. boxes[p[k]] # boxes[p[l]]
    BY <1>1, <1>3, <2>1 DEF Distinct
  <2>3. boxes[p[k]] \in Segments /\ boxes[p[l]] \in Segments
    BY <1>1, <1>3, <1>5
  <2>4. ~by_segment(boxes[p[l]], boxes[p[k]])
    BY <1>2, <1>7
  <2>. QED  BY <1>4, <1>6, <2>2, <2>3, <2>4
<1>8. \A k \in 1..Len(boxes) : boxes'[k] \in DOMAIN segments
  BY <1>3, <1>4, <1>5
<1>9. ASSUME NEW seg \in DOMAIN segments
      PROVE  \E k \in 1..Len(boxes) : boxes'[k] = seg
  <2>1. PICK j \in 1..Len(boxes) : boxes[j] = seg
    BY <1>5
  <2>2. PICK k \in 1..Len(boxes) : p[k] = j
    BY <1>3
  <2>. QED  BY <1>4, <2>1, <2>2
<1>. QED  BY <1>1, <1>4, <1>7, <1>8, <1>9

(* What is printed is true of the nodes that were there all along.         *)
LEMMA PrintedIsTrue ==
  ASSUME NamesOnce, SinksTellInputs, ListInv, PrintList
  PROVE  ListIsTrue'
<1>1. /\ PwInv /\ IInv /\ SinkIsClass /\ KnownIsThere /\ SameNodes /\ Tables
  BY DEF ListInv, PwInv, Fed, Feed
<1>2. /\ ~Running /\ boxes' \in Sorted(boxes)
      /\ UNCHANGED <<segments, nodes, graph, settled>>
  BY DEF PrintList, serverVars
<1>3. Complete
  BY <1>2, ListInvComplete DEF ListIsComplete
<1>. PICK list : list = [k \in 1..Len(boxes') |-> print_box(segments[boxes'[k]].box)]
  OBVIOUS
<1>4. Len(printed') = 1 /\ printed'[1].list = list
  BY DEF PrintList
<1>5. /\ Len(boxes') = Len(boxes) /\ Len(boxes) \in Nat
      /\ \A k \in 1..Len(boxes) : boxes'[k] \in DOMAIN segments
      /\ \A seg \in DOMAIN segments : \E k \in 1..Len(boxes) : boxes'[k] = seg
      /\ \A k, l \in 1..Len(boxes) : k < l => by_segment(boxes'[k], boxes'[l])
  BY <1>1, <1>2, ListInOrder
<1>6. /\ Len(list) = Len(boxes)
      /\ \A k \in 1..Len(boxes) : list[k] = print_box(segments[boxes'[k]].box)
  BY <1>5
<1>7. \A k \in 1..Len(boxes) : list[k].segment = boxes'[k]
  <2>1. \A seg \in DOMAIN segments : segments[seg].box.segment = seg
    BY <1>1, SegmentType DEF Box
  <2>. QED  BY <1>5, <1>6, <2>1 DEF print_box
<1>8. ASSUME NEW k \in 1..Len(list), NEW l \in 1..Len(list), k < l
      PROVE  by_segment(list[k].segment, list[l].segment)
  <2>1. k \in 1..Len(boxes) /\ l \in 1..Len(boxes)
    BY <1>6, <1>8
  <2>2. by_segment(boxes'[k], boxes'[l])
    BY <1>5, <1>8, <2>1
  <2>3. list[k].segment = boxes'[k] /\ list[l].segment = boxes'[l]
    BY <1>7, <2>1
  <2>. QED  BY <2>2, <2>3
<1>9. ASSUME NEW x \in settled, Carried(graph[x]) # NULL, IsSink(graph[x])
      PROVE  \E k \in 1..Len(list) : Prints(list[k], graph[x])
  <2>. DEFINE d   == graph[x]
              seg == Carried(d)
              b   == segments[seg].box
  <2>1. /\ seg \in DOMAIN segments /\ b.id = x /\ update_from_dict(b, d) = b
        /\ x \in DOMAIN nodes
    BY <1>3, <1>9 DEF Complete
  <2>2. b \in Box(Ids, {seg}) /\ seg # NULL /\ SegmentOK(seg, segments[seg], nodes)
    BY <1>1, <2>1, SegmentType
  <2>3. Stays(x)
    BY <1>9 DEF ListInv
  <2>4. x \in DOMAIN graph /\ d \in Dicts
    BY <1>1, <2>3 DEF Stays, Tables
  <2>5. nodes[x].segment = seg
    <3>1. segments[seg].nodes \in Seq(Ids)
      BY <1>1, <2>1, SegmentType
    <3>2. x \in Elements(segments[seg].nodes)
      BY <2>1, <2>2, <3>1, PickDoorBest DEF SegmentOK
    <3>. QED  BY <2>2, <3>2 DEF SegmentOK
  <2>6. b.sink
    BY <1>1, <1>9, <2>1, <2>2, <2>3, <2>5
       DEF SinkIsClass, KnownIsThere, SameNodes, Stays, IsSink, SegmentOK
  <2>7. PICK k \in 1..Len(boxes) : boxes'[k] = seg
    BY <1>5, <2>1
  <2>8. Prints(print_box(b), d)
    <3>1. Carried(d) = seg /\ IsSink(d)
      BY <1>9
    <3>. HIDE DEF d, seg, b
    <3>. QED  BY <2>1, <2>2, <2>4, <2>6, <3>1, LinesSaid
  <2>. QED  BY <1>6, <2>7, <2>8
<1>10. settled' = settled /\ graph' = graph
  BY <1>2
<1>11. ASSUME NEW m \in 1..Len(printed')
       PROVE  /\ \A j, k \in 1..Len(printed'[m].list) :
                   j < k => by_segment(printed'[m].list[j].segment, printed'[m].list[k].segment)
              /\ \A id \in settled' :
                   Carried(graph'[id]) # NULL /\ IsSink(graph'[id]) =>
                     \E k \in 1..Len(printed'[m].list) : Prints(printed'[m].list[k], graph'[id])
  <2>1. printed'[m].list = list
    BY <1>4
  <2>. QED  BY <1>8, <1>9, <1>10, <2>1
<1>. QED  BY <1>11, Zenon DEF ListIsTrue

(* rs-list.c:18 and rs-list.c:137: for any number of nodes and whatever    *)
(* the graph does meanwhile, a stagebox's sink that was there all along is *)
(* in the printed list, once and in its place, and every line of it says   *)
(* of an input what the daemon asserts of that input, and a dash where it  *)
(* asserts nothing.                                                        *)
THEOREM ListTellsTheTruth ==
  ASSUME ~BINDS_FAIL, SteadyGraph, NamesOnce, SinksTellInputs
  PROVE  ListSpec => []ListIsTrue
<1>. DEFINE Found == (ListInv /\ printed = <<>>) \/ (Listed /\ ListIsTrue)
<1>1. ListInit => Found
  BY ListInitInv
<1>2. Found /\ [ListNext]_listVars => Found'
  <2>. SUFFICES ASSUME Found, [ListNext]_listVars
                PROVE  Found'
    OBVIOUS
  <2>1. CASE Listed /\ ListIsTrue
    <3>1. UNCHANGED listVars
      BY <2>1 DEF Listed, ListNext, Graph, Served, Iterate, on_core_error, PrintList
    <3>2. UNCHANGED <<printed, settled, graph>>
      BY <3>1 DEF listVars, pwVars, serverVars
    <3>3. ListIsTrue'
      BY <2>1, <3>2 DEF ListIsTrue
    <3>. QED  BY <2>1, <3>3, ListedStays
  <2>2. CASE ListInv /\ printed = <<>>
    <3>1. (ListInv /\ printed = <<>>)' \/ Listed'
      BY <2>2, ListNextInv
    <3>2. CASE PrintList
      <4>1. printed' # <<>>
        BY <3>2 DEF PrintList
      <4>. QED  BY <2>2, <3>1, <3>2, <4>1, PrintedIsTrue
    <3>3. CASE ~PrintList
      <4>1. printed' = printed
        BY <3>3 DEF ListNext, listVars, Graph, Served, Iterate, on_core_error
      <4>. QED  BY <2>2, <3>1, <4>1 DEF Listed
    <3>. QED  BY <3>2, <3>3
  <2>. QED  BY <2>1, <2>2
<1>3. Found => ListIsTrue
  BY DEF ListIsTrue
<1>. QED  BY <1>1, <1>2, <1>3, PTL DEF ListSpec
=============================================================================
