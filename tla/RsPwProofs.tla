------------------------------ MODULE RsPwProofs ------------------------------
(***************************************************************************)
(* The graph client of RsPw feeds its walk in order and writes to the door *)
(* it means, for any number of nodes and proxies, any order of the events  *)
(* of several nodes, and any daemon.                                       *)
(*                                                                         *)
(* What has to be shown is that the queues overtake nobody: an event or a  *)
(* request of a past life of an id never reaches the node that has the id  *)
(* now.  So the invariant speaks of the messages under way.                *)
(***************************************************************************)
EXTENDS RsPw, RsWalkProofs, FiniteSetTheorems

-----------------------------------------------------------------------------
(* The tables and the two queues have their shape.                         *)

Event ==
  [ev : {"global"}, id : Ids, class : GlobalClasses]
    \cup [ev : {"gone"}, id : Ids]
    \cup [ev : {"info"}, proxy : Proxies, props : Dicts \cup {NULL}]
    \cup [ev : {"removed"}, proxy : Proxies]
    \cup [ev : {"done"}, seq : Nat]

WriteRequest ==
  [op : {"write"}, proxy : Proxies, segment : Segments,
   key : (0..(MAX_CH - 1)) \X Params, value : Byte]

Request ==
  [op : {"bind"}, id : Ids, proxy : Proxies] \cup [op : {"sync"}, seq : Nat]
    \cup WriteRequest

Tables ==
  /\ DOMAIN graph \subseteq Ids /\ graph \in [DOMAIN graph -> Dicts]
  /\ DOMAIN entries \subseteq Ids /\ entries \in [DOMAIN entries -> Proxies \cup {NULL}]
  /\ DOMAIN resources \subseteq Proxies /\ resources \in [DOMAIN resources -> Ids]
  /\ events \in Seq(Event)
  /\ requests \in Seq(Request)
  /\ changes \in 0..MAX_CHANGES

(* The walk and the client know the same nodes.                            *)
SameNodes == DOMAIN nodes = DOMAIN entries

-----------------------------------------------------------------------------
(* What is under way to the client.                                        *)

Queued(e) == \E k \in 1..Len(events) : events[k] = e

(* The registry's word that x has left is under way, or comes before the   *)
(* event at k.                                                             *)
Leaving(x)   == Queued(Gone(x))
LeftBy(x, k) == \E j \in 1..Len(events) : j < k /\ events[j] = Gone(x)

(* The event at k is an info that the walk will be told as one of x.       *)
Heard(k, x) ==
  /\ k \in 1..Len(events)
  /\ events[k].ev = "info" /\ events[k].props # NULL
  /\ x \in DOMAIN entries /\ entries[x] = events[k].proxy
  /\ ~LeftBy(x, k)

(* A segment name that was given once is given again.                      *)
Kept(a, b) == a \in {NULL, b}

-----------------------------------------------------------------------------
(* The infos under way agree with the node they come from.                 *)

(* A global under way is of the node that has the id, unless that has left *)
(* and the registry says so later.                                         *)
GlobalsTell ==
  \A k \in 1..Len(events) :
    events[k].ev = "global" =>
      \/ \E j \in 1..Len(events) : j > k /\ events[j] = Gone(events[k].id)
      \/ /\ events[k].id \in DOMAIN graph
         /\ MediaClass(graph[events[k].id]) = events[k].class

(* A node the client knows and that is not leaving is the node in the      *)
(* graph, of the class and the segment the walk has of it.                 *)
KnownIsThere ==
  \A x \in DOMAIN entries :
    ~Leaving(x) => /\ x \in DOMAIN graph
                   /\ MediaClass(graph[x]) = nodes[x].media_class
                   /\ Kept(nodes[x].segment, Carried(graph[x]))

(* A sink of a segment is known by the class of its global.                *)
SinkIsClass ==
  \A x \in DOMAIN nodes :
    nodes[x].is_sink <=> (nodes[x].segment # NULL /\ nodes[x].media_class = "Audio/Sink")

(* What the walk will hear of a node fits what it has of it, and ends in   *)
(* what the node publishes now.                                            *)
HeardFits ==
  \A k \in 1..Len(events), x \in Ids :
    Heard(k, x) =>
      /\ MediaClass(events[k].props) = nodes[x].media_class
      /\ Kept(nodes[x].segment, Carried(events[k].props))
      /\ ~Leaving(x) => Kept(Carried(events[k].props), Carried(graph[x]))

HeardInOrder ==
  \A j, k \in 1..Len(events), x \in Ids :
    j < k /\ Heard(j, x) /\ Heard(k, x)
      => Kept(Carried(events[j].props), Carried(events[k].props))

(* Before the walk hears of another door of a segment, it is told that the *)
(* door it knows has left, and so it is with two doors it will hear of.    *)
OneDoorKnown ==
  \A k \in 1..Len(events), x, y \in Ids, seg \in Segments :
    /\ Heard(k, y) /\ IsDoor(events[k].props, seg)
    /\ x # y /\ x \in DOMAIN nodes
    /\ nodes[x].segment = seg /\ nodes[x].media_class = "Audio/Sink"
    => LeftBy(x, k)

OneDoorHeard ==
  \A j, k \in 1..Len(events), x, y \in Ids, seg \in Segments :
    /\ j < k /\ x # y
    /\ Heard(j, x) /\ IsDoor(events[j].props, seg)
    /\ Heard(k, y) /\ IsDoor(events[k].props, seg)
    => LeftBy(x, k)

Feed ==
  /\ OneSink(graph) /\ GlobalsTell /\ KnownIsThere /\ SinkIsClass
  /\ HeardFits /\ HeardInOrder /\ OneDoorKnown /\ OneDoorHeard

-----------------------------------------------------------------------------
(* The proxies.                                                            *)

(* A proxy is of one entry.                                                *)
OneEntry ==
  \A x, y \in DOMAIN entries : entries[x] # NULL /\ entries[x] = entries[y] => x = y

(* What the server has bound to a proxy is the node of the proxy's entry.  *)
BoundIsHeld ==
  \A p \in DOMAIN resources :
    /\ resources[p] \in DOMAIN entries /\ resources[p] \in DOMAIN graph
    /\ entries[resources[p]] = p

(* Nothing was said to or by a proxy whose bind has not reached the server. *)
Unspoken(p) ==
  /\ p \notin DOMAIN resources
  /\ \A k \in 1..Len(events) : events[k].ev \in {"info", "removed"} => events[k].proxy # p
  /\ \A k \in 1..Len(requests) : requests[k].op = "write" => requests[k].proxy # p

BindsOnce ==
  \A j, k \in 1..Len(requests), x, y \in Ids, p \in Proxies :
    requests[j] = Bind(x, p) /\ requests[k] = Bind(y, p) => j = k

(* The node of a bind under way is one the walk has yet to hear of.        *)
BindsToCome ==
  \A k \in 1..Len(requests), x \in Ids, p \in Proxies :
    requests[k] = Bind(x, p) /\ p \in Held =>
      /\ x \in DOMAIN entries /\ entries[x] = p
      /\ nodes[x].segment = NULL
      /\ Unspoken(p)

(* A proxy that is removed, or was, is of a node that is leaving.          *)
RemovedIsUnbound == \A p \in Proxies : Queued(Removed(p)) => p \notin DOMAIN resources

RemovedIsLeaving ==
  \A x \in DOMAIN entries :
    /\ entries[x] = NULL => Leaving(x)
    /\ \A p \in Proxies : entries[x] = p /\ Queued(Removed(p)) => Leaving(x)

(* A bind that reached a new node of an id while the client has yet to be  *)
(* told that the old one left: the walk hears nothing of it.               *)
LateBindIsMute ==
  \A p \in DOMAIN resources, x \in Ids :
    resources[p] = x /\ Leaving(x) =>
      /\ nodes[x].segment = NULL
      /\ \A k \in 1..Len(events) : ~Heard(k, x)

Bindings ==
  /\ OneEntry /\ BoundIsHeld /\ BindsOnce /\ BindsToCome
  /\ RemovedIsUnbound /\ RemovedIsLeaving /\ LateBindIsMute

Fed == Tables /\ SameNodes /\ Feed /\ Bindings

-----------------------------------------------------------------------------
(* The server puts events behind those that are under way.                 *)

LEMMA Behind ==
  ASSUME events \in Seq(Event), NEW u \in Seq(Event), events' = events \o u
  PROVE  /\ events' \in Seq(Event)
         /\ \A k \in 1..Len(events) : k \in 1..Len(events') /\ events'[k] = events[k]
         /\ \A k \in 1..Len(events') :
              k \notin 1..Len(events) => k > Len(events) /\ events'[k] \in Elements(u)
         /\ \A e \in Elements(u) :
              \E k \in 1..Len(events') : k > Len(events) /\ events'[k] = e
         /\ \A e : Queued(e)' <=> Queued(e) \/ e \in Elements(u)
<1>1. /\ events' \in Seq(Event)
      /\ \A k \in 1..Len(events) : k \in 1..Len(events') /\ events'[k] = events[k]
      /\ \A k \in 1..Len(events') :
           k \notin 1..Len(events) => k > Len(events) /\ events'[k] \in Elements(u)
      /\ \A e \in Elements(u) :
           \E k \in 1..Len(events') : k > Len(events) /\ events'[k] = e
      /\ Elements(events') = Elements(events) \cup Elements(u)
  BY JoinElements
<1>2. \A e : Queued(e) <=> e \in Elements(events)
  BY DEF Queued, Elements
<1>3. \A e : Queued(e)' <=> e \in Elements(events')
  BY DEF Queued, Elements
<1>. QED  BY <1>1, <1>2, <1>3

LEMMA BehindLeft ==
  ASSUME events \in Seq(Event), NEW u \in Seq(Event), events' = events \o u, NEW x
  PROVE  /\ \A k \in 1..Len(events) : LeftBy(x, k)' <=> LeftBy(x, k)
         /\ \A k \in 1..Len(events') :
              k \notin 1..Len(events) /\ Leaving(x) => LeftBy(x, k)'
         /\ Leaving(x) => Leaving(x)'
<1>. DEFINE n == Len(events)
            m == Len(events')
<1>1. /\ n \in Nat /\ m \in Nat
      /\ \A k \in 1..n : k \in 1..m /\ events'[k] = events[k]
      /\ \A k \in 1..m : k \notin 1..n => k > n
  BY Behind
<1>2. ASSUME NEW k \in 1..n  PROVE  LeftBy(x, k)' <=> LeftBy(x, k)
  <2>1. \A j \in 1..m : j < k => j \in 1..n
    BY <1>1
  <2>2. LeftBy(x, k)' <=> \E j \in 1..m : j < k /\ events'[j] = Gone(x)
    BY DEF LeftBy, Gone
  <2>3. LeftBy(x, k) <=> \E j \in 1..n : j < k /\ events[j] = Gone(x)
    BY DEF LeftBy
  <2>. HIDE DEF n, m
  <2>. QED  BY <1>1, <2>1, <2>2, <2>3
<1>3. ASSUME NEW k \in 1..m, k \notin 1..n, Leaving(x)  PROVE  LeftBy(x, k)'
  <2>1. PICK j \in 1..n : events[j] = Gone(x)
    BY <1>3 DEF Leaving, Queued
  <2>2. j \in 1..m /\ j < k /\ events'[j] = Gone(x)
    BY <1>1, <1>3, <2>1
  <2>. QED  BY <2>2 DEF LeftBy, Gone
<1>4. Leaving(x) => Leaving(x)'
  BY Behind DEF Leaving, Gone
<1>. QED  BY <1>2, <1>3, <1>4

(* What was to be heard still is; what is new is heard of nobody who is    *)
(* leaving.                                                                *)
LEMMA BehindHeard ==
  ASSUME events \in Seq(Event), NEW u \in Seq(Event), events' = events \o u,
         entries' = entries, NEW x
  PROVE  /\ \A k \in 1..Len(events) : Heard(k, x)' <=> Heard(k, x)
         /\ \A k \in 1..Len(events') :
              Heard(k, x)' /\ k \notin 1..Len(events)
                => /\ k > Len(events)
                   /\ events'[k] \in Elements(u)
                   /\ ~Leaving(x)
                   /\ x \in DOMAIN entries /\ entries[x] = events'[k].proxy
                   /\ events'[k].ev = "info" /\ events'[k].props # NULL
<1>1. ASSUME NEW k \in 1..Len(events)  PROVE  Heard(k, x)' <=> Heard(k, x)
  <2>1. k \in 1..Len(events') /\ events'[k] = events[k] /\ (LeftBy(x, k)' <=> LeftBy(x, k))
    BY Behind, BehindLeft
  <2>. QED  BY <2>1 DEF Heard
<1>2. ASSUME NEW k \in 1..Len(events'), Heard(k, x)', k \notin 1..Len(events)
      PROVE  /\ k > Len(events)
             /\ events'[k] \in Elements(u)
             /\ ~Leaving(x)
             /\ x \in DOMAIN entries /\ entries[x] = events'[k].proxy
             /\ events'[k].ev = "info" /\ events'[k].props # NULL
  BY <1>2, Behind, BehindLeft DEF Heard
<1>. QED  BY <1>1, <1>2

-----------------------------------------------------------------------------
(* The client takes the first event.                                       *)

LEMMA Taken ==
  ASSUME events \in Seq(Event), events # <<>>, events' = Tail(events)
  PROVE  /\ events' \in Seq(Event)
         /\ 1 \in 1..Len(events) /\ Head(events) = events[1] /\ events[1] \in Event
         /\ \A k \in 1..Len(events') : k + 1 \in 1..Len(events) /\ events'[k] = events[k + 1]
         /\ \A e : Queued(e)' => Queued(e)
         /\ \A e : Queued(e) /\ e # events[1] => Queued(e)'
<1>1. /\ events' \in Seq(Event)
      /\ 1 \in 1..Len(events) /\ Head(events) = events[1] /\ events[1] \in Event
      /\ \A k \in 1..Len(events') : k + 1 \in 1..Len(events) /\ events'[k] = events[k + 1]
      /\ \A k \in 1..Len(events) :
           k # 1 => k - 1 \in 1..Len(events') /\ events'[k - 1] = events[k]
  BY TailElements
<1>2. ASSUME NEW e, Queued(e)'  PROVE  Queued(e)
  BY <1>1, <1>2 DEF Queued
<1>3. ASSUME NEW e, Queued(e), e # events[1]  PROVE  Queued(e)'
  <2>1. PICK k \in 1..Len(events) : events[k] = e
    BY <1>3 DEF Queued
  <2>2. k - 1 \in 1..Len(events') /\ events'[k - 1] = e
    BY <1>1, <1>3, <2>1
  <2>. QED  BY <2>2 DEF Queued
<1>. QED  BY <1>1, <1>2, <1>3

LEMMA TakenLeft ==
  ASSUME events \in Seq(Event), events # <<>>, events' = Tail(events),
         NEW x, events[1] # Gone(x)
  PROVE  /\ \A k \in 1..Len(events') : LeftBy(x, k + 1) => LeftBy(x, k)'
         /\ Leaving(x) => Leaving(x)'
<1>1. ASSUME NEW k \in 1..Len(events'), LeftBy(x, k + 1)  PROVE  LeftBy(x, k)'
  <2>1. PICK j \in 1..Len(events) : j < k + 1 /\ events[j] = Gone(x)
    BY <1>1 DEF LeftBy
  <2>2. j # 1
    BY <2>1
  <2>3. j - 1 \in 1..Len(events') /\ events'[j - 1] = Gone(x)
    BY <2>1, <2>2, TailElements
  <2>4. j - 1 < k
    BY <2>1
  <2>. QED  BY <2>3, <2>4 DEF LeftBy, Gone
<1>2. Leaving(x) => Leaving(x)'
  BY Taken DEF Leaving, Gone
<1>. QED  BY <1>1, <1>2

(* What will be heard of a node that keeps its proxy would have been heard *)
(* before.                                                                 *)
LEMMA TakenHeard ==
  ASSUME events \in Seq(Event), events # <<>>, events' = Tail(events),
         NEW x, events[1] # Gone(x), x \in DOMAIN entries, entries'[x] = entries[x]
  PROVE  \A k \in 1..Len(events') : Heard(k, x)' => Heard(k + 1, x)
<1>. SUFFICES ASSUME NEW k \in 1..Len(events'), Heard(k, x)'
              PROVE  Heard(k + 1, x)
  OBVIOUS
<1>1. k + 1 \in 1..Len(events) /\ events'[k] = events[k + 1]
  BY Taken
<1>2. ~LeftBy(x, k + 1)
  BY TakenLeft DEF Heard
<1>. QED  BY <1>1, <1>2 DEF Heard

-----------------------------------------------------------------------------
(* The server's steps.                                                     *)

(* The node of x stays, with the class and the segment it had.             *)
GoesOn(x) ==
  /\ x \in DOMAIN graph'
  /\ MediaClass(graph'[x]) = MediaClass(graph[x])
  /\ Kept(Carried(graph[x]), Carried(graph'[x]))

(* What the server says while the graph changes: of a node that stays only *)
(* what it publishes now, and of a node that leaves that it does.          *)
TellsTrue(u) ==
  /\ \A x \in DOMAIN graph : Gone(x) \in Elements(u) \/ GoesOn(x)
  /\ \A e \in Elements(u), x \in DOMAIN entries :
       e.ev = "info" /\ e.props # NULL /\ entries[x] = e.proxy /\ ~Leaving(x)
         => /\ x \in DOMAIN graph' /\ e.props = graph'[x]
            /\ \A y : Gone(y) \notin Elements(u)
  /\ \A e \in Elements(u) :
       e.ev = "global" => /\ e.id \in DOMAIN graph'
                          /\ MediaClass(graph'[e.id]) = e.class
  /\ OneSink(graph')

LEMMA FeedGrows ==
  ASSUME Tables, SameNodes, Feed, NEW u \in Seq(Event), events' = events \o u,
         UNCHANGED <<nodes, entries>>, TellsTrue(u)
  PROVE  Feed'
<1>. DEFINE n == Len(events)
            m == Len(events')
<1>1. /\ events \in Seq(Event) /\ n \in Nat /\ m \in Nat
      /\ \A k \in 1..n : k \in 1..m /\ events'[k] = events[k]
      /\ \A k \in 1..m : k \notin 1..n => k > n /\ events'[k] \in Elements(u)
      /\ \A e \in Elements(u) : \E k \in 1..m : k > n /\ events'[k] = e
      /\ \A e : Queued(e)' <=> Queued(e) \/ e \in Elements(u)
  <2>1. events \in Seq(Event)
    BY DEF Tables
  <2>. QED  BY <2>1, Behind
<1>2. \A x : /\ \A k \in 1..n : LeftBy(x, k)' <=> LeftBy(x, k)
             /\ \A k \in 1..m : k \notin 1..n /\ Leaving(x) => LeftBy(x, k)'
             /\ ~Leaving(x)' => ~Leaving(x) /\ Gone(x) \notin Elements(u)
  BY <1>1, BehindLeft DEF Leaving, Gone
<1>3. \A x : /\ \A k \in 1..n : Heard(k, x)' <=> Heard(k, x)
             /\ \A k \in 1..m : Heard(k, x)' /\ k \notin 1..n
                  => /\ k > n /\ ~Leaving(x) /\ x \in DOMAIN entries
                     /\ x \in DOMAIN graph' /\ events'[k].props = graph'[x]
                     /\ \A y : Gone(y) \notin Elements(u)
  <2>. TAKE x
  <2>1. /\ \A k \in 1..n : Heard(k, x)' <=> Heard(k, x)
        /\ \A k \in 1..m :
             Heard(k, x)' /\ k \notin 1..n
               => /\ k > n
                  /\ events'[k] \in Elements(u)
                  /\ ~Leaving(x)
                  /\ x \in DOMAIN entries /\ entries[x] = events'[k].proxy
                  /\ events'[k].ev = "info" /\ events'[k].props # NULL
    BY <1>1, BehindHeard
  <2>. HIDE DEF n, m
  <2>. QED  BY <2>1 DEF TellsTrue
<1>4. DOMAIN entries \subseteq Ids /\ nodes' = nodes /\ entries' = entries
  BY DEF Tables
<1>. HIDE DEF n, m
(* Of a node that is not leaving the server's word and the walk's agree.   *)
<1>5. \A x \in DOMAIN entries :
        ~Leaving(x) /\ Gone(x) \notin Elements(u)
          => /\ GoesOn(x) /\ x \in DOMAIN graph
             /\ MediaClass(graph'[x]) = nodes[x].media_class
             /\ Kept(nodes[x].segment, Carried(graph'[x]))
  BY DEF Feed, KnownIsThere, TellsTrue, GoesOn, Kept
<1>6. OneSink(graph)'
  BY DEF TellsTrue
<1>7. GlobalsTell'
  <2>. SUFFICES ASSUME NEW k \in 1..m, events'[k].ev = "global"
                PROVE  \/ \E j \in 1..m : j > k /\ events'[j] = Gone(events'[k].id)
                       \/ /\ events'[k].id \in DOMAIN graph'
                          /\ MediaClass(graph'[events'[k].id]) = events'[k].class
    BY DEF GlobalsTell, Gone, m
  <2>1. CASE k \notin 1..n
    BY <1>1, <2>1 DEF TellsTrue
  <2>2. CASE k \in 1..n
    <3>. DEFINE x == events[k].id
    <3>1. events'[k] = events[k]
      BY <1>1, <2>2
    <3>2. CASE \E j \in 1..n : j > k /\ events[j] = Gone(x)
      BY <1>1, <3>1, <3>2
    <3>3. CASE x \in DOMAIN graph /\ MediaClass(graph[x]) = events[k].class
      <4>1. CASE Gone(x) \in Elements(u)
        <5>1. PICK j \in 1..m : j > n /\ events'[j] = Gone(x)
          BY <1>1, <4>1
        <5>2. j > k
          BY <1>1, <2>2, <5>1
        <5>. QED  BY <3>1, <5>1, <5>2
      <4>2. CASE GoesOn(x)
        BY <3>1, <3>3, <4>2 DEF GoesOn
      <4>. QED  BY <3>3, <4>1, <4>2 DEF TellsTrue
    <3>. QED  BY <2>2, <3>1, <3>2, <3>3 DEF Feed, GlobalsTell, n
  <2>. QED  BY <2>1, <2>2
<1>8. KnownIsThere'
  BY <1>2, <1>4, <1>5 DEF KnownIsThere, GoesOn
<1>9. SinkIsClass'
  BY <1>4 DEF Feed, SinkIsClass
<1>10. HeardFits'
  <2>. SUFFICES ASSUME NEW k \in 1..m, NEW x \in Ids, Heard(k, x)'
                PROVE  /\ MediaClass(events'[k].props) = nodes[x].media_class
                       /\ Kept(nodes[x].segment, Carried(events'[k].props))
                       /\ ~Leaving(x)' => Kept(Carried(events'[k].props), Carried(graph'[x]))
    BY <1>4 DEF HeardFits, m
  <2>1. CASE k \notin 1..n
    BY <1>3, <1>5, <2>1 DEF Kept
  <2>2. CASE k \in 1..n
    <3>1. /\ Heard(k, x) /\ events'[k] = events[k] /\ x \in DOMAIN entries
      BY <1>1, <1>3, <2>2 DEF Heard
    <3>2. /\ MediaClass(events[k].props) = nodes[x].media_class
          /\ Kept(nodes[x].segment, Carried(events[k].props))
          /\ ~Leaving(x) => Kept(Carried(events[k].props), Carried(graph[x]))
      BY <2>2, <3>1 DEF Feed, HeardFits, n
    <3>. QED  BY <1>2, <1>5, <3>1, <3>2 DEF GoesOn, Kept
  <2>. QED  BY <2>1, <2>2
<1>11. HeardInOrder'
  <2>. SUFFICES ASSUME NEW j \in 1..m, NEW k \in 1..m, NEW x \in Ids, j < k,
                       Heard(j, x)', Heard(k, x)'
                PROVE  Kept(Carried(events'[j].props), Carried(events'[k].props))
    BY DEF HeardInOrder, m
  <2>1. CASE j \notin 1..n
    <3>1. k \notin 1..n
      BY <1>1, <2>1
    <3>. QED  BY <1>3, <2>1, <3>1 DEF Kept
  <2>2. CASE j \in 1..n /\ k \notin 1..n
    <3>1. Heard(j, x) /\ events'[j] = events[j] /\ x \in DOMAIN entries
      BY <1>1, <1>3, <2>2 DEF Heard
    <3>2. ~Leaving(x) /\ events'[k].props = graph'[x] /\ Gone(x) \notin Elements(u)
      BY <1>3, <2>2
    <3>3. Kept(Carried(events[j].props), Carried(graph[x]))
      BY <2>2, <3>1, <3>2 DEF Feed, HeardFits, n
    <3>. QED  BY <1>5, <3>1, <3>2, <3>3 DEF GoesOn, Kept
  <2>3. CASE j \in 1..n /\ k \in 1..n
    <3>1. Heard(j, x) /\ events'[j] = events[j] /\ Heard(k, x) /\ events'[k] = events[k]
      BY <1>1, <1>3, <2>3
    <3>. QED  BY <2>3, <3>1 DEF Feed, HeardInOrder, n
  <2>. QED  BY <2>1, <2>2, <2>3
(* A new info of a door of a segment: another sink of the segment is not   *)
(* in the graph, so that the client is being told that it left.            *)
<1>12. ASSUME NEW k \in 1..m, NEW x \in Ids, NEW y \in Ids, NEW seg \in Segments,
              k \notin 1..n, Heard(k, y)', IsDoor(events'[k].props, seg), x # y,
              x \in DOMAIN entries,
              ~Leaving(x) => x \in DOMAIN graph /\ Carried(graph[x]) = seg /\ IsSink(graph[x])
       PROVE  LeftBy(x, k)'
  <2>1. y \in DOMAIN graph' /\ events'[k].props = graph'[y] /\ Gone(x) \notin Elements(u)
    BY <1>3, <1>12
  <2>2. seg # NULL
    BY WalkAssumption
  <2>3. ASSUME ~Leaving(x)  PROVE  FALSE
    <3>1. x \in DOMAIN graph' /\ Carried(graph'[x]) = seg /\ IsSink(graph'[x])
      BY <1>5, <1>12, <2>1, <2>2, <2>3 DEF GoesOn, Kept, IsSink
    <3>. QED  BY <1>6, <1>12, <2>1, <2>2, <3>1 DEF OneSink, IsDoor
  <2>. QED  BY <1>2, <1>12, <2>3
<1>13. OneDoorKnown'
  <2>. SUFFICES ASSUME NEW k \in 1..m, NEW x \in Ids, NEW y \in Ids, NEW seg \in Segments,
                       Heard(k, y)', IsDoor(events'[k].props, seg), x # y,
                       x \in DOMAIN nodes, nodes[x].segment = seg,
                       nodes[x].media_class = "Audio/Sink"
                PROVE  LeftBy(x, k)'
    BY <1>4 DEF OneDoorKnown, m
  <2>1. CASE k \notin 1..n
    <3>1. x \in DOMAIN entries /\ seg # NULL
      BY WalkAssumption DEF SameNodes
    <3>2. ~Leaving(x) => x \in DOMAIN graph /\ Carried(graph[x]) = seg /\ IsSink(graph[x])
      BY <3>1 DEF Feed, KnownIsThere, Kept, IsSink
    <3>. QED  BY <1>12, <2>1, <3>1, <3>2
  <2>2. CASE k \in 1..n
    <3>1. Heard(k, y) /\ events'[k] = events[k]
      BY <1>1, <1>3, <2>2
    <3>2. LeftBy(x, k)
      BY <2>2, <3>1 DEF Feed, OneDoorKnown, n
    <3>. QED  BY <1>2, <2>2, <3>2
  <2>. QED  BY <2>1, <2>2
<1>14. OneDoorHeard'
  <2>. SUFFICES ASSUME NEW j \in 1..m, NEW k \in 1..m, NEW x \in Ids, NEW y \in Ids,
                       NEW seg \in Segments, j < k, x # y,
                       Heard(j, x)', IsDoor(events'[j].props, seg),
                       Heard(k, y)', IsDoor(events'[k].props, seg)
                PROVE  LeftBy(x, k)'
    BY DEF OneDoorHeard, m
  <2>1. CASE j \notin 1..n
    <3>1. k \notin 1..n
      BY <1>1, <2>1
    <3>2. /\ x \in DOMAIN graph' /\ events'[j].props = graph'[x]
          /\ y \in DOMAIN graph' /\ events'[k].props = graph'[y]
      BY <1>3, <2>1, <3>1
    <3>. QED  BY <1>6, <3>2, WalkAssumption DEF OneSink, IsDoor
  <2>2. CASE j \in 1..n /\ k \notin 1..n
    <3>1. Heard(j, x) /\ events'[j] = events[j] /\ x \in DOMAIN entries
      BY <1>1, <1>3, <2>2 DEF Heard
    <3>2. /\ MediaClass(events[j].props) = nodes[x].media_class
          /\ ~Leaving(x) => Kept(Carried(events[j].props), Carried(graph[x]))
      BY <2>2, <3>1 DEF Feed, HeardFits, n
    <3>3. ~Leaving(x) => x \in DOMAIN graph /\ MediaClass(graph[x]) = nodes[x].media_class
      BY <3>1 DEF Feed, KnownIsThere
    <3>4. ~Leaving(x) => x \in DOMAIN graph /\ Carried(graph[x]) = seg /\ IsSink(graph[x])
      BY <3>1, <3>2, <3>3, WalkAssumption DEF Kept, IsDoor, IsSink
    <3>. QED  BY <1>12, <2>2, <3>1, <3>4
  <2>3. CASE j \in 1..n /\ k \in 1..n
    <3>1. Heard(j, x) /\ events'[j] = events[j] /\ Heard(k, y) /\ events'[k] = events[k]
      BY <1>1, <1>3, <2>3
    <3>2. LeftBy(x, k)
      BY <2>3, <3>1 DEF Feed, OneDoorHeard, n
    <3>. QED  BY <1>2, <2>3, <3>2
  <2>. QED  BY <2>1, <2>2, <2>3
<1>. QED
  BY <1>6, <1>7, <1>8, <1>9, <1>10, <1>11, <1>13, <1>14 DEF Feed

-----------------------------------------------------------------------------
(* The client's steps.                                                     *)

(* Nothing is heard of a node that was not going to be.                    *)
HearsNoMore == \A k \in 1..Len(events'), x \in Ids : Heard(k, x)' => Heard(k + 1, x)

(* A node keeps its class, and its segment but for what it is heard to     *)
(* say; a new one has the class of the node in the graph.                  *)
Follows(x) ==
  /\ events[1] # Gone(x)
  /\ nodes'[x].is_sink
       <=> (nodes'[x].segment # NULL /\ nodes'[x].media_class = "Audio/Sink")
  /\ \/ /\ x \in DOMAIN nodes
        /\ nodes'[x].media_class = nodes[x].media_class
        /\ \/ nodes'[x].segment = nodes[x].segment
           \/ Heard(1, x) /\ nodes'[x].segment = Carried(events[1].props)
     \/ /\ x \notin DOMAIN nodes
        /\ nodes'[x].segment = NULL
        /\ \/ Leaving(x)'
           \/ x \in DOMAIN graph /\ MediaClass(graph[x]) = nodes'[x].media_class

LEMMA FeedTaken ==
  ASSUME Tables, SameNodes, SameNodes', DOMAIN entries' \subseteq Ids, Feed,
         events # <<>>, events' = Tail(events), graph' = graph,
         HearsNoMore, \A x \in DOMAIN nodes' : Follows(x)
  PROVE  Feed'
<1>. DEFINE n == Len(events)
            m == Len(events')
<1>1. /\ n \in Nat /\ m \in Nat /\ 1 \in 1..n
      /\ \A k \in 1..m : k + 1 \in 1..n /\ events'[k] = events[k + 1] /\ k + 1 # 1
      /\ \A k \in 1..n : k # 1 => k - 1 \in 1..m /\ events'[k - 1] = events[k]
  <2>1. events \in Seq(Event)
    BY DEF Tables
  <2>. QED  BY <2>1, TailElements
<1>2. \A x \in DOMAIN entries' :
        /\ \A k \in 1..m : LeftBy(x, k + 1) => LeftBy(x, k)'
        /\ ~Leaving(x)' => ~Leaving(x)
  <2>1. events \in Seq(Event)
    BY DEF Tables
  <2>. TAKE x \in DOMAIN entries'
  <2>2. events[1] # Gone(x)
    BY DEF SameNodes, Follows
  <2>. QED  BY <2>1, <2>2, TakenLeft
<1>3. \A k \in 1..m, x \in Ids :
        Heard(k, x)' => /\ Heard(k + 1, x) /\ x \in DOMAIN entries'
                        /\ x \in DOMAIN nodes /\ x \in DOMAIN nodes'
  BY DEF HearsNoMore, Heard, SameNodes
<1>4. \A x \in DOMAIN nodes' : x \in DOMAIN entries' /\ x \in Ids
  BY DEF SameNodes
<1>. HIDE DEF n, m
(* What the walk knows of a node now it knew, or was going to hear.        *)
<1>5. \A x \in DOMAIN nodes' :
        nodes'[x].segment # NULL =>
          /\ x \in DOMAIN nodes
          /\ nodes'[x].media_class = nodes[x].media_class
          /\ \/ nodes'[x].segment = nodes[x].segment
             \/ Heard(1, x) /\ nodes'[x].segment = Carried(events[1].props)
  BY DEF Follows
<1>6. OneSink(graph)' /\ SinkIsClass'
  BY DEF Feed, SinkIsClass, OneSink, Follows
<1>7. GlobalsTell'
  <2>. SUFFICES ASSUME NEW k \in 1..m, events'[k].ev = "global"
                PROVE  \/ \E j \in 1..m : j > k /\ events'[j] = Gone(events'[k].id)
                       \/ /\ events'[k].id \in DOMAIN graph'
                          /\ MediaClass(graph'[events'[k].id]) = events'[k].class
    BY DEF GlobalsTell, Gone, m
  <2>1. k + 1 \in 1..n /\ events'[k] = events[k + 1]
    BY <1>1
  <2>2. CASE \E j \in 1..n : j > k + 1 /\ events[j] = Gone(events[k + 1].id)
    <3>1. PICK j \in 1..n : j > k + 1 /\ events[j] = Gone(events[k + 1].id)
      BY <2>2
    <3>2. m \in Nat /\ n \in Nat
      BY <1>1
    <3>3. j # 1 /\ j - 1 > k
      BY <3>1, <3>2
    <3>4. j - 1 \in 1..m /\ events'[j - 1] = events[j]
      BY <1>1, <3>3
    <3>. QED  BY <2>1, <3>1, <3>3, <3>4
  <2>. QED  BY <2>1, <2>2 DEF Feed, GlobalsTell, n
<1>8. KnownIsThere'
  <2>. SUFFICES ASSUME NEW x \in DOMAIN nodes', ~Leaving(x)'
                PROVE  /\ x \in DOMAIN graph
                       /\ MediaClass(graph[x]) = nodes'[x].media_class
                       /\ Kept(nodes'[x].segment, Carried(graph[x]))
    BY DEF KnownIsThere, SameNodes
  <2>1. CASE x \notin DOMAIN nodes
    BY <2>1 DEF Follows, Kept
  <2>2. CASE x \in DOMAIN nodes
    <3>1. /\ ~Leaving(x) /\ x \in DOMAIN entries /\ x \in Ids
          /\ nodes'[x].media_class = nodes[x].media_class
      BY <1>2, <1>4, <2>2 DEF SameNodes, Follows
    <3>2. /\ x \in DOMAIN graph /\ MediaClass(graph[x]) = nodes[x].media_class
          /\ Kept(nodes[x].segment, Carried(graph[x]))
      BY <3>1 DEF Feed, KnownIsThere
    <3>3. Heard(1, x) => Kept(Carried(events[1].props), Carried(graph[x]))
      BY <1>1, <3>1 DEF Feed, HeardFits, n
    <3>. QED  BY <2>2, <3>1, <3>2, <3>3 DEF Follows
  <2>. QED  BY <2>1, <2>2
<1>9. HeardFits'
  <2>. SUFFICES ASSUME NEW k \in 1..m, NEW x \in Ids, Heard(k, x)'
                PROVE  /\ MediaClass(events'[k].props) = nodes'[x].media_class
                       /\ Kept(nodes'[x].segment, Carried(events'[k].props))
                       /\ ~Leaving(x)' => Kept(Carried(events'[k].props), Carried(graph[x]))
    BY DEF HeardFits, m
  <2>1. /\ k + 1 \in 1..n /\ events'[k] = events[k + 1] /\ Heard(k + 1, x)
        /\ x \in DOMAIN entries' /\ x \in DOMAIN nodes /\ x \in DOMAIN nodes'
    BY <1>1, <1>3
  <2>2. /\ MediaClass(events[k + 1].props) = nodes[x].media_class
        /\ Kept(nodes[x].segment, Carried(events[k + 1].props))
        /\ ~Leaving(x) => Kept(Carried(events[k + 1].props), Carried(graph[x]))
    BY <2>1 DEF Feed, HeardFits, n
  <2>3. Heard(1, x) => Kept(Carried(events[1].props), Carried(events[k + 1].props))
    <3>1. 1 < k + 1
      BY <1>1
    <3>. QED  BY <1>1, <2>1, <3>1 DEF Feed, HeardInOrder, n
  <2>4. Kept(nodes'[x].segment, Carried(events[k + 1].props))
    BY <2>1, <2>2, <2>3 DEF Follows
  <2>. QED  BY <1>2, <2>1, <2>2, <2>4 DEF Follows
<1>10. HeardInOrder'
  <2>. SUFFICES ASSUME NEW j \in 1..m, NEW k \in 1..m, NEW x \in Ids, j < k,
                       Heard(j, x)', Heard(k, x)'
                PROVE  Kept(Carried(events'[j].props), Carried(events'[k].props))
    BY DEF HeardInOrder, m
  <2>1. j + 1 < k + 1
    OBVIOUS
  <2>2. /\ j + 1 \in 1..n /\ events'[j] = events[j + 1] /\ Heard(j + 1, x)
        /\ k + 1 \in 1..n /\ events'[k] = events[k + 1] /\ Heard(k + 1, x)
    BY <1>1, <1>3
  <2>. QED  BY <2>1, <2>2 DEF Feed, HeardInOrder, n
<1>11. OneDoorKnown'
  <2>. SUFFICES ASSUME NEW k \in 1..m, NEW x \in Ids, NEW y \in Ids, NEW seg \in Segments,
                       Heard(k, y)', IsDoor(events'[k].props, seg), x # y,
                       x \in DOMAIN nodes', nodes'[x].segment = seg,
                       nodes'[x].media_class = "Audio/Sink"
                PROVE  LeftBy(x, k)'
    BY DEF OneDoorKnown, m
  <2>1. k + 1 \in 1..n /\ events'[k] = events[k + 1] /\ Heard(k + 1, y)
    BY <1>1, <1>3
  <2>2. x \in DOMAIN nodes /\ nodes[x].media_class = "Audio/Sink" /\ seg # NULL
    BY <1>5, WalkAssumption
  <2>3. CASE nodes[x].segment = seg
    BY <1>2, <1>4, <2>1, <2>2, <2>3 DEF Feed, OneDoorKnown, n
  <2>4. CASE Heard(1, x) /\ seg = Carried(events[1].props)
    <3>1. IsDoor(events[1].props, seg)
      BY <1>1, <2>2, <2>4 DEF Feed, HeardFits, n, IsDoor, IsSink
    <3>2. 1 < k + 1
      BY <1>1
    <3>3. LeftBy(x, k + 1)
      BY <1>1, <2>1, <2>4, <3>1, <3>2 DEF Feed, OneDoorHeard, n
    <3>. QED  BY <1>2, <1>4, <3>3
  <2>. QED  BY <1>5, <2>2, <2>3, <2>4
<1>12. OneDoorHeard'
  <2>. SUFFICES ASSUME NEW j \in 1..m, NEW k \in 1..m, NEW x \in Ids, NEW y \in Ids,
                       NEW seg \in Segments, j < k, x # y,
                       Heard(j, x)', IsDoor(events'[j].props, seg),
                       Heard(k, y)', IsDoor(events'[k].props, seg)
                PROVE  LeftBy(x, k)'
    BY DEF OneDoorHeard, m
  <2>1. j + 1 < k + 1
    OBVIOUS
  <2>2. /\ j + 1 \in 1..n /\ events'[j] = events[j + 1] /\ Heard(j + 1, x)
        /\ k + 1 \in 1..n /\ events'[k] = events[k + 1] /\ Heard(k + 1, y)
        /\ x \in DOMAIN entries'
    BY <1>1, <1>3
  <2>3. LeftBy(x, k + 1)
    BY <2>1, <2>2 DEF Feed, OneDoorHeard, n
  <2>. QED  BY <1>2, <2>2, <2>3
<1>. QED
  BY <1>6, <1>7, <1>8, <1>9, <1>10, <1>11, <1>12 DEF Feed

-----------------------------------------------------------------------------
(* The proxies while the server speaks.                                    *)

StaysBound(p, x, u) ==
  /\ p \in DOMAIN resources /\ resources[p] = x
  /\ Gone(x) \notin Elements(u)

GetsBound(p, x, u) ==
  /\ Unspoken(p)
  /\ x \in DOMAIN entries /\ entries[x] = p
  /\ nodes[x].segment = NULL
  /\ Gone(x) \notin Elements(u)
  /\ \A k \in 1..Len(requests'), y \in Ids : requests'[k] # Bind(y, p)

(* The requests that are left, after the server took c of them.            *)
RequestsLeft(c) ==
  \A k \in 1..Len(requests') : k + c \in 1..Len(requests) /\ requests'[k] = requests[k + c]

(* The server speaks to no proxy whose bind it has yet to take, and        *)
(* removes none that it keeps or whose node stays.                         *)
SpeaksToBound(u) ==
  /\ \A p \in DOMAIN resources' : p \in Proxies /\ resources'[p] \in Ids
  /\ \A p \in DOMAIN resources', x \in Ids :
       resources'[p] = x =>
         /\ x \in DOMAIN graph' /\ Removed(p) \notin Elements(u)
         /\ StaysBound(p, x, u) \/ GetsBound(p, x, u)
  /\ \A e \in Elements(u), k \in 1..Len(requests'), x \in Ids, p \in Held :
       e.ev \in {"info", "removed"} /\ requests'[k] = Bind(x, p) => e.proxy # p
  /\ \A x \in DOMAIN entries, p \in Proxies :
       entries[x] = p /\ Removed(p) \in Elements(u) => Leaving(x) \/ Gone(x) \in Elements(u)

LEMMA BindingsGrow ==
  ASSUME Tables, Bindings, NEW u \in Seq(Event), events' = events \o u,
         UNCHANGED <<nodes, entries>>,
         NEW c \in {0, 1}, RequestsLeft(c), SpeaksToBound(u)
  PROVE  Bindings'
<1>. DEFINE n == Len(events)
            m == Len(events')
<1>1. events \in Seq(Event)
  BY DEF Tables
<1>2. /\ \A k \in 1..n : k \in 1..m /\ events'[k] = events[k]
      /\ \A k \in 1..m : k \notin 1..n => events'[k] \in Elements(u)
      /\ \A e : Queued(e)' <=> Queued(e) \/ e \in Elements(u)
  BY <1>1, Behind
<1>3. \A x : /\ Leaving(x)' <=> Leaving(x) \/ Gone(x) \in Elements(u)
             /\ \A k \in 1..m : Heard(k, x)'
                  => \/ k \in 1..n /\ Heard(k, x)
                     \/ k \notin 1..n /\ ~Leaving(x)
  BY <1>1, <1>2, BehindHeard DEF Leaving, Gone
<1>4. nodes' = nodes /\ entries' = entries /\ Held' = Held
  BY DEF Held
<1>5. \A k \in 1..Len(requests') : k + c \in 1..Len(requests) /\ requests'[k] = requests[k + c]
  BY DEF RequestsLeft
<1>6. DOMAIN entries \subseteq Ids /\ Held \subseteq Proxies
  BY DEF Tables, Held
<1>. HIDE DEF n, m
<1>7. OneEntry'
  BY <1>4 DEF Bindings, OneEntry
<1>8. BoundIsHeld'
  <2>. SUFFICES ASSUME NEW p \in DOMAIN resources', NEW x, x = resources'[p]
                PROVE  x \in DOMAIN entries /\ x \in DOMAIN graph' /\ entries[x] = p
    BY <1>4 DEF BoundIsHeld
  <2>1. x \in Ids /\ x \in DOMAIN graph' /\ (StaysBound(p, x, u) \/ GetsBound(p, x, u))
    BY DEF SpeaksToBound
  <2>. QED  BY <2>1 DEF Bindings, BoundIsHeld, StaysBound, GetsBound
<1>9. BindsOnce'
  <2>. SUFFICES ASSUME NEW j \in 1..Len(requests'), NEW k \in 1..Len(requests'),
                       NEW x \in Ids, NEW y \in Ids, NEW p \in Proxies,
                       requests'[j] = Bind(x, p), requests'[k] = Bind(y, p)
                PROVE  j = k
    BY DEF BindsOnce, Bind
  <2>1. j + c = k + c
    <3>1. BindsOnce
      BY DEF Bindings
    <3>2. /\ j + c \in 1..Len(requests) /\ requests[j + c] = Bind(x, p)
          /\ k + c \in 1..Len(requests) /\ requests[k + c] = Bind(y, p)
      BY <1>5
    <3>. QED  BY <3>1, <3>2 DEF BindsOnce
  <2>2. j \in Int /\ k \in Int /\ c \in Int
    OBVIOUS
  <2>. QED  BY <2>1, <2>2
<1>10. BindsToCome'
  <2>. SUFFICES ASSUME NEW k \in 1..Len(requests'), NEW x \in Ids, NEW p \in Held,
                       requests'[k] = Bind(x, p)
                PROVE  /\ x \in DOMAIN entries /\ entries[x] = p
                       /\ nodes[x].segment = NULL
                       /\ Unspoken(p)'
    BY <1>4 DEF BindsToCome, Bind
  <2>1. /\ x \in DOMAIN entries /\ entries[x] = p
        /\ nodes[x].segment = NULL /\ Unspoken(p)
    <3>1. k + c \in 1..Len(requests) /\ requests[k + c] = Bind(x, p)
      BY <1>5
    <3>. QED  BY <1>6, <3>1 DEF Bindings, BindsToCome
  <2>2. ASSUME p \in DOMAIN resources'  PROVE  FALSE
    <3>1. PICK y \in Ids : resources'[p] = y
      BY <2>2 DEF SpeaksToBound
    <3>2. StaysBound(p, y, u) \/ GetsBound(p, y, u)
      BY <2>2, <3>1 DEF SpeaksToBound
    <3>. QED  BY <2>1, <3>2 DEF StaysBound, GetsBound, Unspoken
  <2>3. ASSUME NEW j \in 1..m, events'[j].ev \in {"info", "removed"}
        PROVE  events'[j].proxy # p
    BY <1>2, <2>1, <2>3 DEF SpeaksToBound, Unspoken, n
  <2>4. ASSUME NEW j \in 1..Len(requests'), requests'[j].op = "write"
        PROVE  requests'[j].proxy # p
    BY <1>5, <2>1, <2>4 DEF Unspoken
  <2>. QED  BY <2>1, <2>2, <2>3, <2>4 DEF Unspoken, m
<1>11. RemovedIsUnbound'
  <2>. SUFFICES ASSUME NEW p \in Proxies, Queued(Removed(p))', p \in DOMAIN resources'
                PROVE  FALSE
    BY DEF RemovedIsUnbound, Removed
  <2>1. PICK x \in Ids : resources'[p] = x
    BY DEF SpeaksToBound
  <2>2. Removed(p) \notin Elements(u) /\ (StaysBound(p, x, u) \/ GetsBound(p, x, u))
    BY <2>1 DEF SpeaksToBound
  <2>3. Queued(Removed(p))
    BY <1>2, <2>2 DEF Removed
  <2>4. p \notin DOMAIN resources /\ ~Unspoken(p)
    BY <2>3 DEF Bindings, RemovedIsUnbound, Queued, Removed, Unspoken
  <2>. QED  BY <2>2, <2>4 DEF StaysBound, GetsBound
<1>12. RemovedIsLeaving'
  <2>. SUFFICES ASSUME NEW x \in DOMAIN entries
                PROVE  /\ entries[x] = NULL => Leaving(x)'
                       /\ \A p \in Proxies :
                            entries[x] = p /\ Queued(Removed(p))' => Leaving(x)'
    BY <1>4 DEF RemovedIsLeaving, Removed
  <2>. QED  BY <1>2, <1>3 DEF Bindings, RemovedIsLeaving, SpeaksToBound, Removed
<1>13. LateBindIsMute'
  <2>. SUFFICES ASSUME NEW p \in DOMAIN resources', NEW x \in Ids,
                       resources'[p] = x, Leaving(x)'
                PROVE  /\ nodes[x].segment = NULL
                       /\ \A k \in 1..m : ~Heard(k, x)'
    BY <1>4 DEF LateBindIsMute, m
  <2>1. CASE StaysBound(p, x, u)
    <3>1. Leaving(x) /\ x = resources[p] /\ p \in DOMAIN resources
      BY <1>3, <2>1 DEF StaysBound
    <3>2. nodes[x].segment = NULL /\ \A k \in 1..n : ~Heard(k, x)
      BY <3>1 DEF Bindings, LateBindIsMute, n
    <3>. QED  BY <1>3, <3>1, <3>2
  <2>2. CASE GetsBound(p, x, u)
    <3>1. Leaving(x) /\ nodes[x].segment = NULL /\ Unspoken(p) /\ entries[x] = p
      BY <1>3, <2>2 DEF GetsBound
    <3>2. \A k \in 1..n : ~Heard(k, x)
      BY <3>1 DEF Heard, Unspoken, n
    <3>. QED  BY <1>3, <3>1, <3>2
  <2>. QED  BY <2>1, <2>2 DEF SpeaksToBound
<1>. QED
  BY <1>7, <1>8, <1>9, <1>10, <1>11, <1>12, <1>13 DEF Bindings

-----------------------------------------------------------------------------
(* What is told of several proxies.                                        *)

LEMMA OrderedSeq ==
  ASSUME NEW S, IsFiniteSet(S), NEW o \in InSomeOrder(S)
  PROVE  o \in Seq(S) /\ Elements(o) = S
<1>1. Cardinality(S) \in Nat
  BY FS_CardinalityType
<1>2. o \in [1..Cardinality(S) -> S] /\ Elements(o) = S
  BY DEF InSomeOrder
<1>. QED  BY <1>1, <1>2

LEMMA ToldEach ==
  ASSUME Tables, NEW id, NEW o \in InSomeOrder(BoundTo(id)), NEW d \in Dicts \cup {NULL}
  PROVE  /\ [k \in 1..Len(o) |-> Info(o[k], d)] \in Seq(Event)
         /\ Elements([k \in 1..Len(o) |-> Info(o[k], d)]) = {Info(p, d) : p \in BoundTo(id)}
         /\ [k \in 1..Len(o) |-> Removed(o[k])] \in Seq(Event)
         /\ Elements([k \in 1..Len(o) |-> Removed(o[k])]) = {Removed(p) : p \in BoundTo(id)}
<1>. DEFINE S  == BoundTo(id)
            u1 == [k \in 1..Len(o) |-> Info(o[k], d)]
            u2 == [k \in 1..Len(o) |-> Removed(o[k])]
<1>1. S \subseteq Proxies
  BY DEF BoundTo, Tables
<1>2. o \in Seq(S) /\ Elements(o) = S
  <2>1. IsFiniteSet(S)
    BY <1>1, FS_Subset, PwAssumption
  <2>. QED  BY <2>1, OrderedSeq
<1>3. Len(o) \in Nat /\ \A k \in 1..Len(o) : o[k] \in S
  BY <1>2
<1>. HIDE DEF S
<1>4. \A p \in S : Info(p, d) \in Event /\ Removed(p) \in Event
  BY <1>1 DEF Event, Info, Removed
<1>5. u1 \in Seq(Event) /\ Len(u1) = Len(o) /\ \A k \in 1..Len(o) : u1[k] = Info(o[k], d)
  BY <1>3, <1>4
<1>6. u2 \in Seq(Event) /\ Len(u2) = Len(o) /\ \A k \in 1..Len(o) : u2[k] = Removed(o[k])
  BY <1>3, <1>4
<1>7. S = {o[k] : k \in 1..Len(o)}
  BY <1>2 DEF Elements
<1>. HIDE DEF u1, u2
<1>8. Elements(u1) = {Info(p, d) : p \in S}
  BY <1>5, <1>7 DEF Elements
<1>9. Elements(u2) = {Removed(p) : p \in S}
  BY <1>6, <1>7 DEF Elements
<1>. QED  BY <1>5, <1>6, <1>8, <1>9 DEF u1, u2, S


(* An entry point of the walk enters the node it is told of, or takes it   *)
(* out, and touches no other.                                              *)
LEMMA WalkDomains ==
  ASSUME NEW id
  PROVE  /\ \A class : WalkGlobal(id, class) => DOMAIN nodes' = DOMAIN nodes \cup {id}
         /\ \A d : WalkInfo(id, d) => DOMAIN nodes' = DOMAIN nodes \cup {id}
         /\ WalkRemove(id) => DOMAIN nodes' = DOMAIN nodes \ {id}
<1>1. ASSUME NEW class, WalkGlobal(id, class)
      PROVE  DOMAIN nodes' = DOMAIN nodes \cup {id}
  BY <1>1 DEF WalkGlobal, Known, Insert
<1>2. ASSUME NEW d, WalkInfo(id, d)
      PROVE  DOMAIN nodes' = DOMAIN nodes \cup {id}
  <2>1. nodes' = Insert(nodes, id, NodeAfter(id, d))
    BY <1>2 DEF WalkInfo, InfoOrdinary, InfoNewSegment, InfoKnownSegment
  <2>. QED  BY <2>1 DEF Insert
<1>3. ASSUME WalkRemove(id)
      PROVE  DOMAIN nodes' = DOMAIN nodes \ {id}
  <2>1. nodes' = Drop(nodes, id)
    BY <1>3 DEF WalkRemove, RemoveOrdinary, RemoveMember, RemoveLast
  <2>. QED  BY <2>1 DEF Drop
<1>. QED  BY <1>1, <1>2, <1>3

LEMMA UntouchedNodes ==
  ASSUME SameNodes, UNCHANGED <<nodes, entries>>
  PROVE  SameNodes'
  BY DEF SameNodes

(* The next event is dispatched.                                           *)
LEMMA DispatchNodes ==
  ASSUME ~BINDS_FAIL, SameNodes, Dispatch
  PROVE  SameNodes'
<1>1. PICK e : \/ on_registry_global(e) \/ on_node_info(e)
               \/ on_proxy_removed(e) \/ on_registry_global_remove(e)
  BY DEF Dispatch
<1>2. CASE on_registry_global(e)
  <2>1. CASE e.id \in DOMAIN entries
    BY <1>2, <2>1, UntouchedNodes DEF on_registry_global, vars
  <2>2. CASE e.id \notin DOMAIN entries
    <3>1. DOMAIN nodes' = DOMAIN nodes \cup {e.id}
      BY <1>2, <2>2, WalkDomains DEF on_registry_global
    <3>2. DOMAIN entries' = DOMAIN entries \cup {e.id}
      BY <1>2, <2>2 DEF on_registry_global, Insert
    <3>. QED  BY <3>1, <3>2 DEF SameNodes
  <2>. QED  BY <2>1, <2>2
<1>3. CASE on_node_info(e)
  <2>1. CASE UNCHANGED vars
    BY <1>3, <2>1, UntouchedNodes DEF on_node_info, vars
  <2>2. CASE \E id \in EntryOf(e.proxy) : WalkInfo(id, e.props)
    BY <1>3, <2>2, WalkDomains DEF on_node_info, EntryOf, SameNodes
  <2>. QED  BY <1>3, <2>1, <2>2 DEF on_node_info
<1>4. CASE on_proxy_removed(e)
  BY <1>4 DEF on_proxy_removed, vars, SameNodes
<1>5. CASE on_registry_global_remove(e)
  <2>1. CASE e.id \notin DOMAIN entries
    BY <1>5, <2>1, UntouchedNodes DEF on_registry_global_remove, vars
  <2>2. CASE e.id \in DOMAIN entries
    <3>1. DOMAIN nodes' = DOMAIN nodes \ {e.id}
      BY <1>5, <2>2, WalkDomains DEF on_registry_global_remove
    <3>2. DOMAIN entries' = DOMAIN entries \ {e.id}
      BY <1>5, <2>2 DEF on_registry_global_remove, Drop
    <3>. QED  BY <3>1, <3>2 DEF SameNodes
  <2>. QED  BY <2>1, <2>2
<1>. QED  BY <1>1, <1>2, <1>3, <1>4, <1>5

(* A node is bound to no proxy but that of its entry.                      *)
LEMMA BoundToOne ==
  ASSUME Tables, Bindings, NEW id \in Ids, NEW p \in BoundTo(id)
  PROVE  /\ p \in Proxies /\ p # NULL /\ p \in DOMAIN resources /\ resources[p] = id
         /\ id \in DOMAIN entries /\ entries[id] = p /\ p \in Held
         /\ \A x \in DOMAIN entries : entries[x] = p => x = id
         /\ \A k \in 1..Len(requests), x \in Ids : requests[k] # Bind(x, p)
<1>1. /\ p \in Proxies /\ p # NULL /\ p \in DOMAIN resources /\ resources[p] = id
  BY PwAssumption DEF BoundTo, Tables
<1>2. id \in DOMAIN entries /\ entries[id] = p
  BY <1>1 DEF Bindings, BoundIsHeld
<1>3. p \in Held
  BY <1>1, <1>2 DEF Held
<1>4. \A x \in DOMAIN entries : entries[x] = p => x = id
  BY <1>1, <1>2 DEF Bindings, OneEntry
<1>5. \A k \in 1..Len(requests), x \in Ids : requests[k] # Bind(x, p)
  BY <1>1, <1>3 DEF Bindings, BindsToCome, Unspoken
<1>. QED  BY <1>1, <1>2, <1>3, <1>4, <1>5

LEMMA AppearsStep ==
  ASSUME Fed, NEW id \in Ids, NEW d \in NodeDicts, NodeAppears(id, d)
  PROVE  Tables' /\ Feed' /\ Bindings'
<1>. DEFINE u == <<Global(id, MediaClass(d))>>
<1>1. /\ Tables /\ SameNodes /\ Feed /\ Bindings /\ events \in Seq(Event)
      /\ DOMAIN graph \subseteq Ids /\ graph \in [DOMAIN graph -> Dicts]
  BY DEF Fed, Tables
<1>2. /\ id \notin DOMAIN graph
      /\ graph' = Insert(graph, id, d) /\ OneSink(graph')
      /\ changes' \in 0..MAX_CHANGES
      /\ UNCHANGED <<nodes, resources, requests, entries>>
  BY <1>1, PwAssumption DEF NodeAppears, vars, Tables
<1>3. Global(id, MediaClass(d)) \in Event
  BY ClassAssumption DEF Event, Global
<1>4. u \in Seq(Event) /\ Elements(u) = {Global(id, MediaClass(d))} /\ events' = events \o u
  BY <1>1, <1>3 DEF NodeAppears, Elements
<1>. HIDE DEF u
<1>5. /\ DOMAIN graph' = DOMAIN graph \cup {id} /\ graph'[id] = d
      /\ \A x \in DOMAIN graph : graph'[x] = graph[x]
      /\ graph' \in [DOMAIN graph' -> Dicts]
  BY <1>1, <1>2, PwAssumption DEF Insert
<1>6. Tables'
  BY <1>1, <1>2, <1>4, <1>5, Behind DEF Tables
<1>7. \A e \in Elements(u) : /\ e.ev = "global" /\ e.id = id /\ e.class = MediaClass(d)
                             /\ \A y : e # Gone(y) /\ e # Removed(y)
  BY <1>4 DEF Global, Gone, Removed
<1>8. TellsTrue(u)
  BY <1>2, <1>5, <1>7 DEF TellsTrue, GoesOn, Kept
<1>9. Feed'
  BY <1>1, <1>2, <1>4, <1>8, FeedGrows
<1>10. RequestsLeft(0)
  BY <1>1, <1>2 DEF RequestsLeft, Tables
<1>11. SpeaksToBound(u)
  BY <1>1, <1>2, <1>5, <1>7
     DEF SpeaksToBound, StaysBound, Bindings, BoundIsHeld, Tables
<1>12. Bindings'
  BY <1>1, <1>2, <1>4, <1>10, <1>11, BindingsGrow
<1>. QED  BY <1>6, <1>9, <1>12

(* A node that keeps its class, and its segment once it has one, says what *)
(* it publishes now.                                                       *)
LEMMA StampStep ==
  ASSUME Fed, NEW id \in DOMAIN graph, NEW d \in Dicts, Stamp(id, d),
         MediaClass(d) = MediaClass(graph[id]), Kept(Carried(graph[id]), Carried(d)),
         OneSink(Insert(graph, id, d)),
         UNCHANGED <<nodes, resources, entries>>,
         NEW c \in {0, 1}, RequestsLeft(c)
  PROVE  /\ DOMAIN graph' \subseteq Ids /\ graph' \in [DOMAIN graph' -> Dicts]
         /\ events' \in Seq(Event)
         /\ Feed' /\ Bindings'
<1>1. /\ Tables /\ SameNodes /\ Feed /\ Bindings /\ events \in Seq(Event)
      /\ DOMAIN graph \subseteq Ids /\ graph \in [DOMAIN graph -> Dicts] /\ id \in Ids
  BY DEF Fed, Tables
<1>2. PICK o \in InSomeOrder(BoundTo(id)) :
        events' = events \o [k \in 1..Len(o) |-> Info(o[k], d)]
  BY DEF Stamp
<1>. DEFINE u == [k \in 1..Len(o) |-> Info(o[k], d)]
<1>3. /\ u \in Seq(Event) /\ Elements(u) = {Info(p, d) : p \in BoundTo(id)}
      /\ events' = events \o u
  BY <1>1, <1>2, ToldEach
<1>. HIDE DEF u
<1>4. graph' = Insert(graph, id, d) /\ OneSink(graph')
  BY DEF Stamp
<1>5. /\ DOMAIN graph' = DOMAIN graph /\ graph'[id] = d
      /\ \A x \in DOMAIN graph : x # id => graph'[x] = graph[x]
      /\ graph' \in [DOMAIN graph' -> Dicts]
  BY <1>1, <1>4 DEF Insert
<1>6. events' \in Seq(Event)
  BY <1>1, <1>3, Behind
<1>7. \A e \in Elements(u) :
        /\ e.ev = "info" /\ e.props = d
        /\ \A y : e # Gone(y) /\ e # Removed(y)
        /\ \A x \in DOMAIN entries : entries[x] = e.proxy => x = id
        /\ \A k \in 1..Len(requests), x \in Ids : requests[k] # Bind(x, e.proxy)
  <2>. TAKE e \in Elements(u)
  <2>1. PICK p \in BoundTo(id) : e = Info(p, d)
    BY <1>3
  <2>2. e.ev = "info" /\ e.props = d /\ e.proxy = p /\ \A y : e # Gone(y) /\ e # Removed(y)
    BY <2>1 DEF Info, Gone, Removed
  <2>. QED  BY <1>1, <2>2, BoundToOne
<1>8. TellsTrue(u)
  BY <1>4, <1>5, <1>7 DEF TellsTrue, GoesOn, Kept
<1>9. Feed'
  BY <1>1, <1>3, <1>8, FeedGrows
<1>10. SpeaksToBound(u)
  BY <1>1, <1>5, <1>7
     DEF SpeaksToBound, StaysBound, Bindings, BoundIsHeld, Tables, RequestsLeft
<1>11. Bindings'
  BY <1>1, <1>3, <1>10, BindingsGrow
<1>. QED  BY <1>1, <1>5, <1>6, <1>9, <1>11

LEMMA PublishesStep ==
  ASSUME Fed, NEW id \in Ids, NEW d \in NodeDicts, NodePublishes(id, d)
  PROVE  Tables' /\ Feed' /\ Bindings'
<1>1. /\ id \in DOMAIN graph /\ Stamp(id, d)
      /\ MediaClass(d) = MediaClass(graph[id]) /\ Kept(Carried(graph[id]), Carried(d))
      /\ OneSink(Insert(graph, id, d))
      /\ UNCHANGED <<nodes, resources, requests, entries>>
      /\ changes < MAX_CHANGES /\ changes' = changes + 1
  BY DEF NodePublishes, vars, Kept
<1>2. RequestsLeft(0)
  BY <1>1 DEF RequestsLeft, Fed, Tables
<1>3. d \in Dicts
  BY PwAssumption
<1>4. /\ DOMAIN graph' \subseteq Ids /\ graph' \in [DOMAIN graph' -> Dicts]
      /\ events' \in Seq(Event) /\ Feed' /\ Bindings'
  BY <1>1, <1>2, <1>3, StampStep
<1>. QED  BY <1>1, <1>4, PwAssumption DEF Fed, Tables

LEMMA StirsStep ==
  ASSUME Fed, NEW id \in Ids, NodeStirs(id)
  PROVE  Tables' /\ Feed' /\ Bindings'
<1>1. /\ Tables /\ SameNodes /\ Feed /\ Bindings /\ events \in Seq(Event)
  BY DEF Fed, Tables
<1>2. /\ UNCHANGED <<nodes, graph, resources, requests, entries>>
      /\ changes < MAX_CHANGES /\ changes' = changes + 1
  BY DEF NodeStirs, vars
<1>3. PICK o \in InSomeOrder(BoundTo(id)) :
        events' = events \o [k \in 1..Len(o) |-> Info(o[k], NULL)]
  BY DEF NodeStirs
<1>. DEFINE u == [k \in 1..Len(o) |-> Info(o[k], NULL)]
<1>4. /\ u \in Seq(Event) /\ Elements(u) = {Info(p, NULL) : p \in BoundTo(id)}
      /\ events' = events \o u
  BY <1>1, <1>3, ToldEach, NULL \in Dicts \cup {NULL}
<1>. HIDE DEF u
<1>5. \A e \in Elements(u) :
        /\ e.ev = "info" /\ e.props = NULL
        /\ \A y : e # Gone(y) /\ e # Removed(y)
        /\ \A k \in 1..Len(requests), x \in Ids : requests[k] # Bind(x, e.proxy)
  <2>. TAKE e \in Elements(u)
  <2>1. PICK p \in BoundTo(id) : e = Info(p, NULL)
    BY <1>4
  <2>2. /\ e.ev = "info" /\ e.props = NULL /\ e.proxy = p
        /\ \A y : e # Gone(y) /\ e # Removed(y)
    BY <2>1 DEF Info, Gone, Removed
  <2>. QED  BY <1>1, <2>2, BoundToOne
<1>6. OneSink(graph')
  BY <1>1, <1>2 DEF Feed
<1>7. TellsTrue(u)
  BY <1>2, <1>5, <1>6 DEF TellsTrue, GoesOn, Kept
<1>8. RequestsLeft(0)
  BY <1>1, <1>2 DEF RequestsLeft, Tables
<1>9. SpeaksToBound(u)
  BY <1>1, <1>2, <1>5 DEF SpeaksToBound, StaysBound, Bindings, BoundIsHeld, Tables
<1>10. Feed' /\ Bindings'
  BY <1>1, <1>2, <1>4, <1>7, <1>8, <1>9, FeedGrows, BindingsGrow
<1>11. Tables'
  BY <1>1, <1>2, <1>4, Behind, PwAssumption DEF Tables
<1>. QED  BY <1>10, <1>11

(* A node that leaves: the registry and its proxies are told.              *)
LEMMA LeavesTell ==
  ASSUME Tables, NEW id \in Ids, NodeLeaves(id)
  PROVE  \E u \in Seq(Event) :
           /\ events' = events \o u
           /\ Elements(u) = {Gone(id)} \cup {Removed(p) : p \in BoundTo(id)}
<1>1. PICK o \in InSomeOrder(BoundTo(id)) :
        \/ events' = events \o (<<Gone(id)>> \o [k \in 1..Len(o) |-> Removed(o[k])])
        \/ events' = events \o Append([k \in 1..Len(o) |-> Removed(o[k])], Gone(id))
  BY DEF NodeLeaves
<1>. DEFINE g == <<Gone(id)>>
            t == [k \in 1..Len(o) |-> Removed(o[k])]
<1>2. t \in Seq(Event) /\ Elements(t) = {Removed(p) : p \in BoundTo(id)}
  BY ToldEach
<1>. HIDE DEF t
<1>3. Gone(id) \in Event
  BY DEF Event, Gone
<1>4. g \in Seq(Event) /\ Elements(g) = {Gone(id)}
  BY <1>3 DEF Elements
<1>5. CASE events' = events \o (g \o t)
  <2>. HIDE DEF g
  <2>1. g \o t \in Seq(Event) /\ Elements(g \o t) = Elements(g) \cup Elements(t)
    BY <1>2, <1>4, JoinElements
  <2>. QED  BY <1>2, <1>4, <1>5, <2>1
<1>6. CASE events' = events \o Append(t, Gone(id))
  <2>1. /\ Append(t, Gone(id)) \in Seq(Event)
        /\ Elements(Append(t, Gone(id))) = Elements(t) \cup {Gone(id)}
    BY <1>2, <1>3, AppendElements
  <2>. QED  BY <1>2, <1>6, <2>1
<1>. QED  BY <1>1, <1>5, <1>6 DEF t

LEMMA LeavesStep ==
  ASSUME Fed, NEW id \in Ids, NodeLeaves(id)
  PROVE  Tables' /\ Feed' /\ Bindings'
<1>1. /\ Tables /\ SameNodes /\ Feed /\ Bindings /\ events \in Seq(Event)
      /\ DOMAIN graph \subseteq Ids /\ graph \in [DOMAIN graph -> Dicts]
  BY DEF Fed, Tables
<1>2. /\ UNCHANGED <<nodes, requests, entries>>
      /\ changes < MAX_CHANGES /\ changes' = changes + 1
      /\ graph' = Drop(graph, id)
      /\ resources' = [p \in DOMAIN resources \ BoundTo(id) |-> resources[p]]
  BY DEF NodeLeaves, vars
<1>3. PICK u \in Seq(Event) :
        /\ events' = events \o u
        /\ Elements(u) = {Gone(id)} \cup {Removed(p) : p \in BoundTo(id)}
  BY <1>1, LeavesTell
<1>4. /\ DOMAIN graph' = DOMAIN graph \ {id}
      /\ \A x \in DOMAIN graph' : graph'[x] = graph[x]
      /\ graph' \in [DOMAIN graph' -> Dicts]
  BY <1>1, <1>2 DEF Drop
<1>5. /\ \A e \in Elements(u) : e.ev \in {"gone", "removed"}
      /\ \A x : Gone(x) \in Elements(u) <=> x = id
      /\ \A p : Removed(p) \in Elements(u) <=> p \in BoundTo(id)
      /\ \A e \in Elements(u) : e.ev = "removed" => e.proxy \in BoundTo(id)
  <2>1. \A p : Removed(p).ev = "removed" /\ Removed(p).proxy = p
    BY DEF Removed
  <2>2. \A x : Gone(x).ev = "gone" /\ Gone(x).id = x
    BY DEF Gone
  <2>3. \A e \in Elements(u) : e = Gone(id) \/ \E p \in BoundTo(id) : e = Removed(p)
    BY <1>3
  <2>4. Gone(id) \in Elements(u) /\ \A p \in BoundTo(id) : Removed(p) \in Elements(u)
    BY <1>3
  <2>. QED  BY <2>1, <2>2, <2>3, <2>4
<1>6. OneSink(graph')
  BY <1>1, <1>4 DEF Feed, OneSink
<1>7. TellsTrue(u)
  BY <1>4, <1>5, <1>6 DEF TellsTrue, GoesOn, Kept
<1>8. RequestsLeft(0)
  BY <1>1, <1>2 DEF RequestsLeft, Tables
<1>9. SpeaksToBound(u)
  <2>1. \A p \in DOMAIN resources' :
          /\ p \in DOMAIN resources /\ p \notin BoundTo(id) /\ resources'[p] = resources[p]
          /\ resources[p] # id /\ p \in Proxies /\ resources[p] \in Ids
          /\ resources[p] \in DOMAIN graph
    BY <1>1, <1>2 DEF BoundTo, Tables, Bindings, BoundIsHeld
  <2>2. \A e \in Elements(u), k \in 1..Len(requests'), x \in Ids, p \in Held :
          e.ev \in {"info", "removed"} /\ requests'[k] = Bind(x, p) => e.proxy # p
    BY <1>1, <1>2, <1>5, BoundToOne
  <2>3. \A x \in DOMAIN entries, p \in Proxies :
          entries[x] = p /\ Removed(p) \in Elements(u) => Gone(x) \in Elements(u)
    BY <1>1, <1>5, BoundToOne
  <2>. QED  BY <1>4, <1>5, <2>1, <2>2, <2>3 DEF SpeaksToBound, StaysBound
<1>10. Feed' /\ Bindings'
  BY <1>1, <1>2, <1>3, <1>7, <1>8, <1>9, FeedGrows, BindingsGrow
<1>11. Tables'
  <2>1. DOMAIN resources' \subseteq Proxies /\ resources' \in [DOMAIN resources' -> Ids]
    BY <1>1, <1>2 DEF Tables
  <2>. QED  BY <1>1, <1>2, <1>3, <1>4, <2>1, Behind, PwAssumption DEF Tables
<1>. QED  BY <1>10, <1>11

-----------------------------------------------------------------------------
(* The server takes a request.                                             *)

(* What a daemon makes of a write under way is a dict a node may publish.  *)
AnswersFit ==
  \A k \in Writes, d \in Dicts :
    /\ "accept" \in ANSWERS => Accepting(d, requests[k]) \in Dicts
    /\ "refuse" \in ANSWERS => Refusing(d) \in Dicts

LEMMA RequestTaken ==
  ASSUME requests \in Seq(Request), requests # <<>>, requests' = Tail(requests)
  PROVE  /\ requests' \in Seq(Request) /\ RequestsLeft(1)
         /\ 1 \in 1..Len(requests) /\ Head(requests) = requests[1] /\ requests[1] \in Request
         /\ \A k \in 1..Len(requests') : k + 1 # 1
<1>1. /\ requests' \in Seq(Request)
      /\ 1 \in 1..Len(requests) /\ Head(requests) = requests[1] /\ requests[1] \in Request
      /\ \A k \in 1..Len(requests') : k + 1 \in 1..Len(requests) /\ requests'[k] = requests[k + 1]
  BY TailElements
<1>. QED  BY <1>1 DEF RequestsLeft

(* The server says nothing of a node or a proxy.                           *)
LEMMA QuietStep ==
  ASSUME Fed, NEW u \in Seq(Event), \A e \in Elements(u) : e.ev = "done",
         events' = events \o u, UNCHANGED <<nodes, entries, graph, resources>>,
         NEW c \in {0, 1}, RequestsLeft(c)
  PROVE  /\ events' \in Seq(Event) /\ Feed' /\ Bindings'
<1>1. /\ Tables /\ SameNodes /\ Feed /\ Bindings /\ events \in Seq(Event)
  BY DEF Fed, Tables
<1>2. \A e \in Elements(u) : e.ev = "done" /\ \A y : e # Gone(y) /\ e # Removed(y)
  BY DEF Gone, Removed
<1>3. OneSink(graph')
  BY <1>1 DEF Feed
<1>4. TellsTrue(u)
  BY <1>2, <1>3 DEF TellsTrue, GoesOn, Kept
<1>5. SpeaksToBound(u)
  BY <1>1, <1>2 DEF SpeaksToBound, StaysBound, Bindings, BoundIsHeld, Tables
<1>. QED  BY <1>1, <1>4, <1>5, Behind, FeedGrows, BindingsGrow

LEMMA NothingSaid ==
  ASSUME events \in Seq(Event)
  PROVE  /\ <<>> \in Seq(Event) /\ events = events \o <<>>
         /\ \A e \in Elements(<<>>) : e.ev = "done"
<1>1. <<>> \in Seq(Event) /\ events = events \o <<>>
  OBVIOUS
<1>2. Elements(<<>>) = {}
  BY <1>1, ElementsEmpty
<1>. QED  BY <1>1, <1>2

(* A bind is answered with the properties of the node that has the id now. *)
LEMMA ServeBindStep ==
  ASSUME Fed, requests # <<>>, requests' = Tail(requests), ServeBind(Head(requests)),
         UNCHANGED <<nodes, entries>>
  PROVE  /\ events' \in Seq(Event)
         /\ DOMAIN resources' \subseteq Proxies /\ resources' \in [DOMAIN resources' -> Ids]
         /\ Feed' /\ Bindings'
<1>. DEFINE r == Head(requests)
<1>1. /\ Tables /\ SameNodes /\ Feed /\ Bindings
      /\ events \in Seq(Event) /\ requests \in Seq(Request)
      /\ DOMAIN graph \subseteq Ids /\ graph \in [DOMAIN graph -> Dicts]
      /\ DOMAIN resources \subseteq Proxies /\ resources \in [DOMAIN resources -> Ids]
  BY DEF Fed, Tables
<1>2. /\ RequestsLeft(1) /\ 1 \in 1..Len(requests) /\ r = requests[1] /\ r \in Request
      /\ \A k \in 1..Len(requests') : k + 1 # 1
  BY <1>1, RequestTaken
<1>3. r = Bind(r.id, r.proxy) /\ r.id \in Ids /\ r.proxy \in Proxies
  <2>1. r.op = "bind"
    BY DEF ServeBind
  <2>. HIDE DEF r
  <2>. QED  BY <1>2, <2>1 DEF Request, WriteRequest, Bind
<1>4. graph' = graph
  BY DEF ServeBind
<1>5. CASE r.proxy \notin Held
  <2>1. resources' = resources /\ events' = events
    BY <1>5 DEF ServeBind
  <2>. QED  BY <1>1, <1>2, <1>4, <2>1, NothingSaid, QuietStep
<1>6. CASE r.proxy \in Held
  <2>. DEFINE p == r.proxy
              x == r.id
  <2>1. /\ x \in DOMAIN entries /\ entries[x] = p
        /\ nodes[x].segment = NULL /\ Unspoken(p)
    BY <1>1, <1>2, <1>3, <1>6 DEF Bindings, BindsToCome
  <2>2. \A y \in DOMAIN entries : entries[y] = p => y = x
    BY <1>1, <1>3, <2>1, PwAssumption DEF Bindings, OneEntry
  <2>3. \A k \in 1..Len(requests'), y \in Ids : requests'[k] # Bind(y, p)
    BY <1>1, <1>2, <1>3 DEF Bindings, BindsOnce, RequestsLeft
  <2>4. OneSink(graph')
    BY <1>1, <1>4 DEF Feed
  <2>5. CASE x \in DOMAIN graph
    <3>. DEFINE u == <<Info(p, graph[x])>>
    <3>1. resources' = Insert(resources, p, x) /\ events' = Append(events, Info(p, graph[x]))
      BY <1>6, <2>5 DEF ServeBind
    <3>2. Info(p, graph[x]) \in Event
      BY <1>1, <1>3, <2>5 DEF Event, Info
    <3>3. u \in Seq(Event) /\ Elements(u) = {Info(p, graph[x])} /\ events' = events \o u
      BY <1>1, <3>1, <3>2 DEF Elements
    <3>. HIDE DEF u
    <3>4. \A e \in Elements(u) :
            /\ e.ev = "info" /\ e.props = graph[x] /\ e.proxy = p
            /\ \A y : e # Gone(y) /\ e # Removed(y)
      BY <3>3 DEF Info, Gone, Removed
    <3>5. TellsTrue(u)
      BY <1>4, <2>2, <2>4, <2>5, <3>4 DEF TellsTrue, GoesOn, Kept
    <3>6. /\ DOMAIN resources' = DOMAIN resources \cup {p} /\ resources'[p] = x
          /\ \A q \in DOMAIN resources : q # p => resources'[q] = resources[q]
          /\ DOMAIN resources' \subseteq Proxies /\ resources' \in [DOMAIN resources' -> Ids]
      BY <1>1, <1>3, <3>1 DEF Insert
    <3>7. SpeaksToBound(u)
      <4>1. \A q \in DOMAIN resources', y \in Ids :
              resources'[q] = y =>
                /\ y \in DOMAIN graph' /\ Removed(q) \notin Elements(u)
                /\ StaysBound(q, y, u) \/ GetsBound(q, y, u)
        <5>. TAKE q \in DOMAIN resources', y \in Ids
        <5>1. CASE q = p
          BY <1>4, <2>1, <2>3, <2>5, <3>4, <3>6, <5>1 DEF GetsBound
        <5>2. CASE q # p
          BY <1>1, <1>4, <3>4, <3>6, <5>2 DEF StaysBound, Bindings, BoundIsHeld
        <5>. QED  BY <5>1, <5>2
      <4>2. \A e \in Elements(u), k \in 1..Len(requests'), y \in Ids, q \in Held :
              e.ev \in {"info", "removed"} /\ requests'[k] = Bind(y, q) => e.proxy # q
        BY <2>3, <3>4
      <4>. QED  BY <3>4, <3>6, <4>1, <4>2 DEF SpeaksToBound
    <3>8. Feed' /\ Bindings'
      BY <1>1, <1>2, <3>3, <3>5, <3>7, FeedGrows, BindingsGrow
    <3>. QED  BY <1>1, <3>3, <3>6, <3>8, Behind
  <2>6. CASE x \notin DOMAIN graph
    <3>. DEFINE u == <<Removed(p)>>
    <3>1. resources' = resources /\ events' = Append(events, Removed(p))
      BY <1>6, <2>6 DEF ServeBind
    <3>2. Removed(p) \in Event
      BY <1>3 DEF Event, Removed
    <3>3. u \in Seq(Event) /\ Elements(u) = {Removed(p)} /\ events' = events \o u
      BY <1>1, <3>1, <3>2 DEF Elements
    <3>. HIDE DEF u
    <3>4. \A e \in Elements(u) :
            /\ e.ev = "removed" /\ e.proxy = p
            /\ \A y : e # Gone(y)
            /\ \A q : e = Removed(q) => q = p
      BY <3>3 DEF Gone, Removed
    <3>5. TellsTrue(u)
      BY <1>4, <2>4, <3>4 DEF TellsTrue, GoesOn, Kept
    <3>6. Leaving(x)
      BY <1>1, <2>1, <2>6 DEF Feed, KnownIsThere
    <3>7. SpeaksToBound(u)
      <4>1. \A q \in DOMAIN resources', y \in Ids :
              resources'[q] = y =>
                /\ y \in DOMAIN graph' /\ Removed(q) \notin Elements(u)
                /\ StaysBound(q, y, u) \/ GetsBound(q, y, u)
        BY <1>1, <1>4, <2>1, <3>1, <3>4 DEF StaysBound, Bindings, BoundIsHeld, Unspoken
      <4>2. \A e \in Elements(u), k \in 1..Len(requests'), y \in Ids, q \in Held :
              e.ev \in {"info", "removed"} /\ requests'[k] = Bind(y, q) => e.proxy # q
        BY <2>3, <3>4
      <4>3. \A y \in DOMAIN entries, q \in Proxies :
              entries[y] = q /\ Removed(q) \in Elements(u) => Leaving(y)
        BY <2>2, <3>4, <3>6
      <4>. QED  BY <1>1, <3>1, <4>1, <4>2, <4>3 DEF SpeaksToBound
    <3>8. Feed' /\ Bindings'
      BY <1>1, <1>2, <3>3, <3>5, <3>7, FeedGrows, BindingsGrow
    <3>. QED  BY <1>1, <3>1, <3>3, <3>8, Behind
  <2>. QED  BY <2>5, <2>6
<1>. QED  BY <1>5, <1>6

(* A daemon's answer to a write changes neither class nor segment.         *)
LEMMA AnswerKeeps ==
  ASSUME NEW d, NEW key \in {"asserted", "refused"}, NEW v
  PROVE  /\ MediaClass(Insert(d, key, v)) = MediaClass(d)
         /\ Carried(Insert(d, key, v)) = Carried(d)
  BY DEF MediaClass, Carried, Insert

LEMMA ServeWriteStep ==
  ASSUME Fed, AnswersFit, requests # <<>>, requests' = Tail(requests),
         ServeWrite(Head(requests)), UNCHANGED <<nodes, entries>>
  PROVE  /\ DOMAIN graph' \subseteq Ids /\ graph' \in [DOMAIN graph' -> Dicts]
         /\ events' \in Seq(Event)
         /\ Feed' /\ Bindings'
<1>. DEFINE r == Head(requests)
<1>1. /\ Tables /\ SameNodes /\ Feed /\ Bindings
      /\ events \in Seq(Event) /\ requests \in Seq(Request)
      /\ DOMAIN graph \subseteq Ids /\ graph \in [DOMAIN graph -> Dicts]
  BY DEF Fed, Tables
<1>2. RequestsLeft(1) /\ r \in Request
  BY <1>1, RequestTaken
<1>3. 1 \in Writes /\ r = requests[1]
  <2>1. r.op = "write"
    BY DEF ServeWrite
  <2>. QED  BY <1>1, <2>1, RequestTaken DEF Writes
<1>4. resources' = resources
  BY DEF ServeWrite
<1>5. CASE UNCHANGED <<graph, events>>
  BY <1>1, <1>2, <1>4, <1>5, NothingSaid, QuietStep
<1>6. ASSUME NEW id \in Addressed(r), NEW d \in Dicts, Stamp(id, d),
             MediaClass(d) = MediaClass(graph[id]), Carried(d) = Carried(graph[id])
      PROVE  /\ DOMAIN graph' \subseteq Ids /\ graph' \in [DOMAIN graph' -> Dicts]
             /\ events' \in Seq(Event)
             /\ Feed' /\ Bindings'
  <2>1. id \in DOMAIN graph
    BY DEF Addressed
  <2>2. OneSink(Insert(graph, id, d))
    BY <1>1, <1>6, <2>1 DEF Feed, OneSink, IsDoor, IsSink, Insert
  <2>. QED  BY <1>2, <1>4, <1>6, <2>1, <2>2, StampStep DEF Kept
<1>7. CASE \E id \in Addressed(r) : "accept" \in ANSWERS /\ Stamp(id, Accepting(graph[id], r))
  <2>1. PICK id \in Addressed(r) :
          "accept" \in ANSWERS /\ Stamp(id, Accepting(graph[id], r))
    BY <1>7
  <2>2. graph[id] \in Dicts
    BY <1>1 DEF Addressed
  <2>3. Accepting(graph[id], r) \in Dicts
    BY <1>3, <2>1, <2>2 DEF AnswersFit
  <2>4. /\ MediaClass(Accepting(graph[id], r)) = MediaClass(graph[id])
        /\ Carried(Accepting(graph[id], r)) = Carried(graph[id])
    BY AnswerKeeps DEF Accepting
  <2>. QED  BY <1>6, <2>1, <2>3, <2>4
<1>8. CASE \E id \in Addressed(r) : "refuse" \in ANSWERS /\ Stamp(id, Refusing(graph[id]))
  <2>1. PICK id \in Addressed(r) : "refuse" \in ANSWERS /\ Stamp(id, Refusing(graph[id]))
    BY <1>8
  <2>2. graph[id] \in Dicts
    BY <1>1 DEF Addressed
  <2>3. Refusing(graph[id]) \in Dicts
    BY <1>3, <2>1, <2>2 DEF AnswersFit
  <2>4. /\ MediaClass(Refusing(graph[id])) = MediaClass(graph[id])
        /\ Carried(Refusing(graph[id])) = Carried(graph[id])
    BY AnswerKeeps DEF Refusing
  <2>. QED  BY <1>6, <2>1, <2>3, <2>4
<1>. QED  BY <1>5, <1>7, <1>8 DEF ServeWrite

LEMMA ServeStep ==
  ASSUME Fed, AnswersFit, Serve
  PROVE  Tables' /\ Feed' /\ Bindings'
<1>1. /\ Tables /\ requests # <<>> /\ requests' = Tail(requests)
      /\ UNCHANGED <<nodes, changes, entries>>
  BY DEF Serve, vars, Fed
<1>2. requests' \in Seq(Request) /\ RequestsLeft(1) /\ events \in Seq(Event)
  BY <1>1, RequestTaken DEF Tables
<1>3. CASE ServeBind(Head(requests))
  <2>1. graph' = graph
    BY <1>3 DEF ServeBind
  <2>. QED  BY <1>1, <1>2, <1>3, <2>1, ServeBindStep DEF Tables
<1>4. CASE ServeSync(Head(requests))
  <2>. DEFINE u == <<Done(Head(requests).seq)>>
  <2>1. /\ Head(requests).op = "sync" /\ UNCHANGED <<graph, resources>>
        /\ events' = Append(events, Done(Head(requests).seq))
    BY <1>4 DEF ServeSync
  <2>2. Head(requests) \in Request
    BY <1>1, RequestTaken DEF Tables
  <2>3. Done(Head(requests).seq) \in Event
    BY <2>1, <2>2 DEF Request, WriteRequest, Event, Done
  <2>4. /\ u \in Seq(Event) /\ events' = events \o u
        /\ \A e \in Elements(u) : e.ev = "done"
    BY <1>2, <2>1, <2>3 DEF Elements, Done
  <2>. HIDE DEF u
  <2>5. events' \in Seq(Event) /\ Feed' /\ Bindings'
    BY <1>1, <1>2, <2>1, <2>4, QuietStep
  <2>. QED  BY <1>1, <1>2, <2>1, <2>5 DEF Tables
<1>5. CASE ServeWrite(Head(requests))
  <2>1. resources' = resources
    BY <1>5 DEF ServeWrite
  <2>. QED  BY <1>1, <1>2, <1>5, <2>1, ServeWriteStep DEF Tables
<1>. QED  BY <1>3, <1>4, <1>5 DEF Serve

-----------------------------------------------------------------------------
(* The client takes an event.                                              *)

(* An entry may go, and the proxy of one that is removed.                  *)
EntriesLose ==
  /\ entries' = [x \in DOMAIN entries' |-> entries'[x]]
  /\ DOMAIN entries' \subseteq DOMAIN entries
  /\ \A x \in DOMAIN entries' :
       /\ events[1] # Gone(x)
       /\ \/ entries'[x] = entries[x]
          \/ entries'[x] = NULL /\ events[1] = Removed(entries[x])

(* What is still bound has its entry still.                                *)
BindingsLose ==
  /\ resources' = [p \in DOMAIN resources' |-> resources'[p]]
  /\ DOMAIN resources' \subseteq DOMAIN resources
  /\ \A p \in DOMAIN resources' :
       /\ resources'[p] = resources[p]
       /\ resources[p] \in DOMAIN entries' /\ entries'[resources[p]] = p

(* What the client asks for meanwhile is a roundtrip at most.              *)
AsksNobody ==
  /\ requests' \in Seq(Request)
  /\ \A k \in 1..Len(requests') :
       requests'[k].op # "sync" => k \in 1..Len(requests) /\ requests'[k] = requests[k]

LEMMA TakenAsking ==
  ASSUME Fed, SameNodes', events # <<>>, events' = Tail(events),
         UNCHANGED <<graph, changes>>, AsksNobody,
         EntriesLose, BindingsLose, \A x \in DOMAIN nodes' : Follows(x)
  PROVE  Tables' /\ Feed' /\ Bindings'
<1>. DEFINE m == Len(events')
<1>1. /\ Tables /\ SameNodes /\ Feed /\ Bindings /\ events \in Seq(Event)
      /\ DOMAIN entries \subseteq Ids /\ entries \in [DOMAIN entries -> Proxies \cup {NULL}]
      /\ DOMAIN resources \subseteq Proxies /\ resources \in [DOMAIN resources -> Ids]
  BY DEF Fed, Tables
<1>2. /\ events' \in Seq(Event) /\ events[1] \in Event
      /\ \A k \in 1..m : k + 1 \in 1..Len(events) /\ events'[k] = events[k + 1]
      /\ \A e : Queued(e)' => Queued(e)
      /\ \A e : Queued(e) /\ e # events[1] => Queued(e)'
  BY <1>1, Taken
<1>3. \A x \in DOMAIN entries' :
        /\ x \in DOMAIN entries /\ events[1] # Gone(x)
        /\ Leaving(x)' <=> Leaving(x)
        /\ x \in DOMAIN nodes /\ x \in DOMAIN nodes'
        /\ nodes'[x].segment = nodes[x].segment \/ Heard(1, x)
  <2>. TAKE x \in DOMAIN entries'
  <2>1. x \in DOMAIN entries /\ events[1] # Gone(x)
    BY DEF EntriesLose
  <2>2. Leaving(x)' <=> Leaving(x)
    BY <1>2, <2>1 DEF Leaving, Gone
  <2>3. x \in DOMAIN nodes /\ x \in DOMAIN nodes'
    BY <1>1, <2>1 DEF SameNodes
  <2>4. nodes'[x].segment = nodes[x].segment \/ Heard(1, x)
    BY <2>3 DEF Follows
  <2>. QED  BY <2>1, <2>2, <2>3, <2>4
<1>3a. \A k \in 1..Len(requests'), x \in Ids, p \in Proxies :
          requests'[k] = Bind(x, p) => k \in 1..Len(requests) /\ requests[k] = Bind(x, p)
  BY DEF AsksNobody, Bind
<1>4. Tables'
  <2>1. /\ DOMAIN entries' \subseteq Ids
        /\ \A x \in DOMAIN entries' : entries'[x] \in Proxies \cup {NULL}
    BY <1>1 DEF EntriesLose
  <2>2. entries' \in [DOMAIN entries' -> Proxies \cup {NULL}]
    BY <2>1 DEF EntriesLose
  <2>3. /\ DOMAIN resources' \subseteq Proxies
        /\ \A p \in DOMAIN resources' : resources'[p] \in Ids
    BY <1>1 DEF BindingsLose
  <2>4. resources' \in [DOMAIN resources' -> Ids]
    BY <2>3 DEF BindingsLose
  <2>. QED  BY <1>1, <1>2, <2>1, <2>2, <2>3, <2>4 DEF Tables, AsksNobody
<1>. HIDE DEF m
<1>5. HearsNoMore
  <2>. SUFFICES ASSUME NEW k \in 1..m, NEW x \in Ids, Heard(k, x)'
                PROVE  Heard(k + 1, x)
    BY DEF HearsNoMore, m
  <2>1. x \in DOMAIN entries' /\ entries'[x] = events'[k].proxy /\ events'[k].ev = "info"
    BY DEF Heard
  <2>2. events'[k] \in Event
    BY <1>1, <1>2
  <2>3. entries'[x] # NULL
    BY <2>1, <2>2, PwAssumption DEF Event
  <2>4. entries'[x] = entries[x]
    BY <2>1, <2>3 DEF EntriesLose
  <2>. QED  BY <1>1, <1>3, <2>1, <2>4, TakenHeard DEF m
<1>6. Feed'
  BY <1>1, <1>4, <1>5, FeedTaken DEF Tables
<1>7. OneEntry' /\ BoundIsHeld' /\ BindsOnce'
  <2>1. OneEntry'
    BY <1>1 DEF EntriesLose, Bindings, OneEntry
  <2>2. BoundIsHeld'
    BY <1>1 DEF BindingsLose, Bindings, BoundIsHeld
  <2>3. BindsOnce'
    BY <1>1, <1>3a DEF Bindings, BindsOnce
  <2>. QED  BY <2>1, <2>2, <2>3
<1>8. BindsToCome'
  <2>. SUFFICES ASSUME NEW k \in 1..Len(requests), NEW x \in Ids, NEW p \in Proxies,
                       requests[k] = Bind(x, p), p \in Held'
                PROVE  /\ x \in DOMAIN entries' /\ entries'[x] = p
                       /\ nodes'[x].segment = NULL
                       /\ Unspoken(p)'
    BY <1>3a DEF BindsToCome, Bind
  <2>1. p # NULL
    BY PwAssumption
  <2>2. PICK y \in DOMAIN entries' : entries'[y] = p
    BY DEF Held
  <2>3. y \in DOMAIN entries /\ entries[y] = p
    BY <2>1, <2>2 DEF EntriesLose
  <2>4. p \in Held
    BY <2>1, <2>3 DEF Held
  <2>5. x \in DOMAIN entries /\ entries[x] = p /\ nodes[x].segment = NULL /\ Unspoken(p)
    BY <1>1, <2>4 DEF Bindings, BindsToCome
  <2>6. x = y
    BY <1>1, <2>1, <2>3, <2>5 DEF Bindings, OneEntry
  <2>7. ~Heard(1, x)
    BY <2>5 DEF Heard, Unspoken
  <2>8. Unspoken(p)'
    <3>1. p \notin DOMAIN resources'
      BY <2>5 DEF Unspoken, BindingsLose
    <3>2. \A j \in 1..m : events'[j].ev \in {"info", "removed"} => events'[j].proxy # p
      BY <1>2, <2>5 DEF Unspoken
    <3>3. \A j \in 1..Len(requests') : requests'[j].op = "write" => requests'[j].proxy # p
      BY <2>5 DEF Unspoken, AsksNobody
    <3>. QED  BY <3>1, <3>2, <3>3 DEF Unspoken, m
  <2>. QED  BY <1>3, <2>2, <2>5, <2>6, <2>7, <2>8
<1>9. RemovedIsUnbound'
  BY <1>1, <1>2 DEF Bindings, RemovedIsUnbound, BindingsLose, Removed
<1>10. RemovedIsLeaving'
  <2>1. ASSUME NEW x \in DOMAIN entries', entries'[x] = NULL
        PROVE  Leaving(x)'
    <3>1. x \in DOMAIN entries /\ entries[x] \in Proxies \cup {NULL}
      BY <1>1, <1>3
    <3>2. entries[x] = NULL \/ events[1] = Removed(entries[x])
      BY <2>1 DEF EntriesLose
    <3>3. Queued(events[1])
      BY <1>1, Taken DEF Queued
    <3>4. Leaving(x)
      BY <1>1, <3>1, <3>2, <3>3 DEF Bindings, RemovedIsLeaving
    <3>. QED  BY <1>3, <3>4
  <2>2. ASSUME NEW x \in DOMAIN entries', NEW p \in Proxies,
               entries'[x] = p, Queued(Removed(p))'
        PROVE  Leaving(x)'
    <3>1. x \in DOMAIN entries /\ entries[x] = p
      BY <2>2, PwAssumption DEF EntriesLose
    <3>2. Queued(Removed(p))
      BY <1>2, <2>2 DEF Removed
    <3>3. Leaving(x)
      BY <1>1, <3>1, <3>2 DEF Bindings, RemovedIsLeaving
    <3>. QED  BY <1>3, <3>3
  <2>. QED  BY <2>1, <2>2 DEF RemovedIsLeaving, Removed
<1>11. LateBindIsMute'
  <2>. SUFFICES ASSUME NEW p \in DOMAIN resources', NEW x \in Ids,
                       resources'[p] = x, Leaving(x)'
                PROVE  nodes'[x].segment = NULL /\ \A k \in 1..m : ~Heard(k, x)'
    BY DEF LateBindIsMute, m
  <2>1. p \in DOMAIN resources /\ resources[p] = x /\ x \in DOMAIN entries'
    BY DEF BindingsLose
  <2>2. nodes[x].segment = NULL /\ \A k \in 1..Len(events) : ~Heard(k, x)
    BY <1>1, <1>3, <2>1 DEF Bindings, LateBindIsMute
  <2>3. 1 \in 1..Len(events)
    BY <1>1, Taken
  <2>. QED  BY <1>2, <1>3, <1>5, <2>1, <2>2, <2>3 DEF HearsNoMore, m
<1>. QED  BY <1>4, <1>6, <1>7, <1>8, <1>9, <1>10, <1>11 DEF Bindings

LEMMA TakenStep ==
  ASSUME Fed, SameNodes', events # <<>>, events' = Tail(events),
         UNCHANGED <<graph, changes, requests>>,
         EntriesLose, BindingsLose, \A x \in DOMAIN nodes' : Follows(x)
  PROVE  Tables' /\ Feed' /\ Bindings'
<1>1. AsksNobody
  BY DEF AsksNobody, Fed, Tables
<1>. QED  BY <1>1, TakenAsking

(* An info the walk is told is one a node of its graph may publish, and    *)
(* makes of the node what it says.                                         *)
LEMMA HeardIsPublished ==
  ASSUME Fed, TypeOK, events # <<>>, NEW x \in Ids, NEW d \in Dicts,
         Heard(1, x), d = events[1].props
  PROVE  /\ Publishes(x, d)
         /\ x \in DOMAIN nodes
         /\ NodeAfter(x, d).media_class = nodes[x].media_class
         /\ NodeAfter(x, d).segment \in {nodes[x].segment, Carried(d)}
         /\ NodeAfter(x, d).is_sink
              <=> /\ NodeAfter(x, d).segment # NULL
                  /\ NodeAfter(x, d).media_class = "Audio/Sink"
<1>1. /\ Tables /\ SameNodes /\ Feed /\ events \in Seq(Event)
  BY DEF Fed, Tables
<1>2. /\ x \in DOMAIN nodes /\ 1 \in 1..Len(events)
      /\ MediaClass(d) = nodes[x].media_class /\ Kept(nodes[x].segment, Carried(d))
  BY <1>1, Taken DEF Feed, HeardFits, Heard, SameNodes
<1>3. NodeBefore(x) = nodes[x]
  BY <1>2 DEF NodeBefore, Known
<1>4. /\ nodes[x] \in Node /\ InfoSink(x, d) \in BOOLEAN
      /\ InfoSegment(x, d) \in Segments \cup {NULL}
  BY <1>3, NodeAfterType
<1>5. nodes[x].is_sink <=> (nodes[x].segment # NULL /\ nodes[x].media_class = "Audio/Sink")
  BY <1>1, <1>2 DEF Feed, SinkIsClass
<1>6. InfoSegment(x, d) = Carried(d)
  BY <1>2, <1>3 DEF InfoSegment, Carried, Kept
<1>7. InfoSink(x, d) <=> nodes[x].media_class = "Audio/Sink"
  <2>1. InfoSink(x, d) = (IF nodes[x].media_class = NULL THEN nodes[x].is_sink
                          ELSE nodes[x].media_class = "Audio/Sink")
    BY <1>2, <1>3 DEF InfoSink, MediaClass
  <2>. QED  BY <1>5, <2>1, PwAssumption
<1>8. Publishes(x, d)
  <2>1. nodes[x].segment \in {NULL, InfoSegment(x, d)}
    BY <1>2, <1>6 DEF Kept
  <2>2. nodes[x].segment = NULL \/ nodes[x].is_sink = InfoSink(x, d)
    BY <1>4, <1>5, <1>7 DEF Node
  <2>3. ASSUME InfoSink(x, d), InfoSegment(x, d) # NULL,
               NEW y \in SinksOf(InfoSegment(x, d)), y # x
        PROVE  FALSE
    <3>1. /\ y \in DOMAIN nodes /\ nodes[y].is_sink
          /\ nodes[y].segment = InfoSegment(x, d)
      BY <2>3 DEF SinksOf
    <3>2. nodes[y].media_class = "Audio/Sink" /\ y \in Ids
      BY <1>1, <3>1 DEF Feed, SinkIsClass, TypeOK
    <3>3. IsDoor(events[1].props, InfoSegment(x, d))
      BY <1>2, <1>6, <1>7, <2>3 DEF IsDoor, IsSink
    <3>4. InfoSegment(x, d) \in Segments
      BY <1>4, <2>3
    <3>5. LeftBy(y, 1)
      BY <1>1, <1>2, <2>3, <3>1, <3>2, <3>3, <3>4 DEF Feed, OneDoorKnown
    <3>. QED  BY <3>5 DEF LeftBy
  <2>. QED  BY <1>3, <2>1, <2>2, <2>3 DEF Publishes
<1>9. /\ NodeAfter(x, d).media_class = nodes[x].media_class
      /\ InfoSegment(x, d) = NULL => NodeAfter(x, d) = nodes[x]
      /\ InfoSegment(x, d) # NULL =>
           /\ NodeAfter(x, d).is_sink = InfoSink(x, d)
           /\ NodeAfter(x, d).segment = Carried(d)
  <2>1. CASE InfoSegment(x, d) = NULL
    BY <1>3, <2>1 DEF NodeAfter
  <2>2. CASE InfoSegment(x, d) # NULL
    BY <1>2, <1>3, <1>4, <1>6, <2>2 DEF NodeAfter, Node, Kept
  <2>. QED  BY <2>1, <2>2
<1>. QED  BY <1>2, <1>5, <1>6, <1>7, <1>8, <1>9

(* The walk is not told, and no entry goes.                                *)
LEMMA IgnoredStep ==
  ASSUME Fed, events # <<>>, events' = Tail(events),
         UNCHANGED <<nodes, graph, changes, requests, entries, resources>>,
         \A x \in DOMAIN entries : events[1] # Gone(x)
  PROVE  Tables' /\ Feed' /\ Bindings'
<1>1. Tables /\ SameNodes /\ Feed /\ Bindings /\ SameNodes'
  BY DEF Fed, SameNodes
<1>2. EntriesLose
  BY <1>1 DEF EntriesLose, Tables
<1>3. BindingsLose
  BY <1>1 DEF BindingsLose, Tables, Bindings, BoundIsHeld
<1>4. \A x \in DOMAIN nodes' : Follows(x)
  BY <1>1 DEF Follows, SameNodes, Feed, SinkIsClass
<1>. QED  BY <1>1, <1>2, <1>3, <1>4, TakenStep

LEMMA InfoStep ==
  ASSUME Fed, IInv, events # <<>>, events' = Tail(events),
         UNCHANGED <<graph, changes>>, on_node_info(events[1])
  PROVE  /\ Tables' /\ Feed' /\ Bindings'
         /\ [Next]_vars
<1>1. /\ Tables /\ SameNodes /\ Feed /\ Bindings /\ events \in Seq(Event)
      /\ events[1].ev = "info" /\ UNCHANGED <<entries, requests, resources>>
  BY DEF Fed, Tables, on_node_info
<1>2. \A x : events[1] # Gone(x) /\ events[1] # Removed(x)
  BY <1>1 DEF Gone, Removed
<1>3. CASE UNCHANGED vars
  BY <1>1, <1>2, <1>3, IgnoredStep DEF vars
<1>4. CASE /\ events[1].props # NULL
           /\ \E x \in EntryOf(events[1].proxy) : WalkInfo(x, events[1].props)
  <2>1. PICK x \in EntryOf(events[1].proxy) : WalkInfo(x, events[1].props)
    BY <1>4
  <2>. DEFINE d == events[1].props
  <2>2. events[1] \in Event /\ 1 \in 1..Len(events)
    BY <1>1, Taken
  <2>3. d \in Dicts
    BY <1>1, <1>4, <2>2 DEF Event
  <2>4. x \in DOMAIN entries /\ entries[x] = events[1].proxy /\ x \in Ids
    BY <1>1, <2>1 DEF EntryOf, Tables
  <2>5. ~LeftBy(x, 1)
    BY DEF LeftBy
  <2>6. Heard(1, x)
    BY <1>1, <1>4, <2>2, <2>4, <2>5 DEF Heard
  <2>7. /\ Publishes(x, d)
        /\ x \in DOMAIN nodes
        /\ NodeAfter(x, d).media_class = nodes[x].media_class
        /\ NodeAfter(x, d).segment \in {nodes[x].segment, Carried(d)}
        /\ NodeAfter(x, d).is_sink
             <=> /\ NodeAfter(x, d).segment # NULL
                 /\ NodeAfter(x, d).media_class = "Audio/Sink"
    BY <2>3, <2>4, <2>6, HeardIsPublished DEF IInv
  <2>8. nodes' = Insert(nodes, x, NodeAfter(x, d))
    BY <2>1 DEF WalkInfo, InfoOrdinary, InfoNewSegment, InfoKnownSegment
  <2>9. Next
    BY <2>1, <2>3, <2>4, <2>7 DEF Next
  <2>. HIDE DEF d
  <2>10. /\ DOMAIN nodes' = DOMAIN nodes /\ nodes'[x] = NodeAfter(x, d)
         /\ \A y \in DOMAIN nodes : y # x => nodes'[y] = nodes[y]
    BY <2>7, <2>8 DEF Insert
  <2>11. SameNodes'
    BY <1>1, <2>10 DEF SameNodes
  <2>12. EntriesLose /\ BindingsLose
    BY <1>1, <1>2 DEF EntriesLose, BindingsLose, Tables, Bindings, BoundIsHeld
  <2>13. \A y \in DOMAIN nodes' : Follows(y)
    <3>. TAKE y \in DOMAIN nodes'
    <3>1. CASE y = x
      BY <1>2, <2>6, <2>7, <2>10, <3>1 DEF Follows, d
    <3>2. CASE y # x
      BY <1>1, <1>2, <2>10, <3>2 DEF Follows, Feed, SinkIsClass
    <3>. QED  BY <3>1, <3>2
  <2>14. Tables' /\ Feed' /\ Bindings'
    BY <1>1, <2>11, <2>12, <2>13, TakenStep
  <2>. QED  BY <2>9, <2>14
<1>. QED  BY <1>3, <1>4 DEF on_node_info

LEMMA RemovedStep ==
  ASSUME Fed, events # <<>>, events' = Tail(events),
         UNCHANGED <<graph, changes>>, on_proxy_removed(events[1])
  PROVE  /\ Tables' /\ Feed' /\ Bindings'
         /\ UNCHANGED vars
<1>. DEFINE p == events[1].proxy
<1>1. /\ Tables /\ SameNodes /\ Feed /\ Bindings /\ events \in Seq(Event)
      /\ events[1].ev = "removed" /\ UNCHANGED <<vars, requests, resources>>
      /\ entries' = [x \in DOMAIN entries |-> IF entries[x] = p THEN NULL ELSE entries[x]]
      /\ entries \in [DOMAIN entries -> Proxies \cup {NULL}]
  BY DEF Fed, Tables, on_proxy_removed
<1>2. events[1] \in Event /\ 1 \in 1..Len(events)
  BY <1>1, Taken
<1>3. p \in Proxies /\ events[1] = Removed(p)
  BY <1>1, <1>2 DEF Event, Removed
<1>. HIDE DEF p
<1>4. /\ \A x : events[1] # Gone(x)
      /\ Queued(Removed(p))
  BY <1>1, <1>2, <1>3 DEF Gone, Queued
<1>5. p \notin DOMAIN resources
  BY <1>1, <1>3, <1>4 DEF Bindings, RemovedIsUnbound
<1>6. SameNodes'
  BY <1>1 DEF SameNodes, vars
<1>7. EntriesLose
  BY <1>1, <1>3, <1>4 DEF EntriesLose
<1>8. BindingsLose
  BY <1>1, <1>5 DEF BindingsLose, Tables, Bindings, BoundIsHeld
<1>9. \A x \in DOMAIN nodes' : Follows(x)
  BY <1>1, <1>4 DEF Follows, vars, Feed, SinkIsClass
<1>. QED  BY <1>1, <1>6, <1>7, <1>8, <1>9, TakenStep

LEMMA GoneStep ==
  ASSUME Fed, events # <<>>, events' = Tail(events),
         UNCHANGED <<graph, changes>>, on_registry_global_remove(events[1])
  PROVE  /\ Tables' /\ Feed' /\ Bindings'
         /\ [Next]_vars
<1>. DEFINE x == events[1].id
<1>1. /\ Tables /\ SameNodes /\ Feed /\ Bindings /\ events \in Seq(Event)
      /\ events[1].ev = "gone" /\ requests' = requests
      /\ DOMAIN resources \subseteq Proxies /\ resources \in [DOMAIN resources -> Ids]
      /\ DOMAIN entries \subseteq Ids /\ entries \in [DOMAIN entries -> Proxies \cup {NULL}]
  BY DEF Fed, Tables, on_registry_global_remove
<1>2. events[1] \in Event /\ 1 \in 1..Len(events)
  BY <1>1, Taken
<1>3. x \in Ids /\ \A y : events[1] = Gone(y) => y = x
  BY <1>1, <1>2 DEF Event, Gone
<1>4. CASE x \notin DOMAIN entries
  <2>1. UNCHANGED <<vars, entries, resources>>
    BY <1>4 DEF on_registry_global_remove
  <2>. QED  BY <1>1, <1>3, <1>4, <2>1, IgnoredStep DEF vars
<1>5. CASE x \in DOMAIN entries
  <2>1. /\ WalkRemove(x) /\ entries' = Drop(entries, x)
        /\ resources' = Drop(resources, entries[x])
    BY <1>5 DEF on_registry_global_remove, Freed
  <2>2. nodes' = Drop(nodes, x)
    BY <2>1 DEF WalkRemove, RemoveOrdinary, RemoveMember, RemoveLast
  <2>3. Next
    BY <1>3, <2>1 DEF Next
  <2>. HIDE DEF x
  <2>4. /\ DOMAIN nodes' = DOMAIN nodes \ {x}
        /\ \A y \in DOMAIN nodes' : nodes'[y] = nodes[y]
    BY <2>2 DEF Drop
  <2>5. SameNodes'
    BY <1>1, <2>1, <2>4 DEF SameNodes, Drop
  <2>6. EntriesLose
    BY <1>1, <1>3, <2>1 DEF EntriesLose, Drop
  <2>7. BindingsLose
    BY <1>1, <2>1 DEF BindingsLose, Bindings, BoundIsHeld, Drop
  <2>8. \A y \in DOMAIN nodes' : Follows(y)
    BY <1>1, <1>3, <2>4 DEF Follows, Feed, SinkIsClass
  <2>9. Tables' /\ Feed' /\ Bindings'
    BY <1>1, <2>5, <2>6, <2>7, <2>8, TakenStep
  <2>. QED  BY <2>3, <2>9
<1>. QED  BY <1>4, <1>5

(* A node the client has yet to know gets a proxy nothing speaks of.       *)
LEMMA BoundStep ==
  ASSUME Fed, events # <<>>, events' = Tail(events),
         UNCHANGED <<graph, changes, resources>>,
         NEW x \in Ids, x \notin DOMAIN entries,
         NEW class, events[1] = Global(x, class),
         nodes' = Insert(nodes, x, new_node(class)),
         NEW p \in Proxies, Fresh(p),
         entries' = Insert(entries, x, p),
         requests' = Append(requests, Bind(x, p))
  PROVE  Tables' /\ Feed' /\ Bindings'
<1>. DEFINE m == Len(events')
            c == Len(requests)
<1>1. /\ Tables /\ SameNodes /\ Feed /\ Bindings /\ events \in Seq(Event)
      /\ DOMAIN entries \subseteq Ids /\ entries \in [DOMAIN entries -> Proxies \cup {NULL}]
      /\ requests \in Seq(Request) /\ p # NULL
  BY PwAssumption DEF Fed, Tables
<1>2. /\ events' \in Seq(Event) /\ 1 \in 1..Len(events)
      /\ \A k \in 1..m : k + 1 \in 1..Len(events) /\ events'[k] = events[k + 1]
      /\ \A e : Queued(e)' => Queued(e)
      /\ \A e : Queued(e) /\ e # events[1] => Queued(e)'
  BY <1>1, Taken
<1>3. /\ \A y : events[1] # Gone(y) /\ events[1] # Removed(y)
      /\ events[1].ev = "global" /\ events[1].id = x /\ events[1].class = class
  BY DEF Global, Gone, Removed
<1>4. /\ p \notin Held /\ p \notin DOMAIN resources
      /\ \A k \in 1..Len(events) : events[k].ev \in {"info", "removed"} => events[k].proxy # p
      /\ \A k \in 1..c : requests[k].op \in {"bind", "write"} => requests[k].proxy # p
  BY DEF Fresh
<1>5. /\ DOMAIN entries' = DOMAIN entries \cup {x} /\ entries'[x] = p
      /\ \A y \in DOMAIN entries : y # x /\ entries'[y] = entries[y] /\ entries[y] # p
      /\ entries' \in [DOMAIN entries' -> Proxies \cup {NULL}]
  <2>1. \A y \in DOMAIN entries : entries[y] # p
    BY <1>1, <1>4 DEF Held
  <2>. QED  BY <1>1, <2>1 DEF Insert
<1>6. /\ x \notin DOMAIN nodes /\ DOMAIN nodes' = DOMAIN nodes \cup {x}
      /\ nodes'[x] = new_node(class)
      /\ \A y \in DOMAIN nodes : nodes'[y] = nodes[y]
      /\ SameNodes'
  BY <1>1, <1>5 DEF SameNodes, Insert
<1>7. /\ requests' \in Seq(Request) /\ c \in Nat
      /\ \A k \in 1..c : k \in 1..Len(requests') /\ requests'[k] = requests[k]
      /\ \A k \in 1..Len(requests') : k \notin 1..c => k = c + 1 /\ requests'[k] = Bind(x, p)
  <2>1. Bind(x, p) \in Request
    BY DEF Request, Bind
  <2>. QED  BY <1>1, <2>1
<1>8. Tables'
  BY <1>1, <1>2, <1>5, <1>7 DEF Tables
<1>. HIDE DEF m, c
<1>9. \A k \in 1..m, y \in Ids : Heard(k, y)' => Heard(k + 1, y) /\ y \in DOMAIN entries
  <2>. SUFFICES ASSUME NEW k \in 1..m, NEW y \in Ids, Heard(k, y)'
                PROVE  Heard(k + 1, y) /\ y \in DOMAIN entries
    OBVIOUS
  <2>1. /\ y \in DOMAIN entries' /\ entries'[y] = events'[k].proxy
        /\ events'[k].ev = "info"
    BY DEF Heard
  <2>2. y # x
    BY <1>2, <1>4, <1>5, <2>1
  <2>3. y \in DOMAIN entries /\ entries'[y] = entries[y]
    BY <1>5, <2>1, <2>2
  <2>. QED  BY <1>1, <1>3, <2>3, TakenHeard DEF m
<1>10. HearsNoMore
  BY <1>9 DEF HearsNoMore, m
<1>11. \A y \in DOMAIN nodes' : Follows(y)
  <2>. TAKE y \in DOMAIN nodes'
  <2>1. CASE y = x
    <3>1. /\ nodes'[x].segment = NULL /\ nodes'[x].is_sink = FALSE
          /\ nodes'[x].media_class = class
      BY <1>6 DEF new_node
    <3>2. Leaving(x)' \/ (x \in DOMAIN graph /\ MediaClass(graph[x]) = class)
      <4>1. \/ \E j \in 1..Len(events) : j > 1 /\ events[j] = Gone(x)
            \/ x \in DOMAIN graph /\ MediaClass(graph[x]) = class
        BY <1>1, <1>2, <1>3 DEF Feed, GlobalsTell
      <4>2. (\E j \in 1..Len(events) : j > 1 /\ events[j] = Gone(x)) => Queued(Gone(x))
        BY DEF Queued
      <4>. QED  BY <1>2, <1>3, <4>1, <4>2 DEF Leaving, Gone
    <3>. QED  BY <1>3, <1>6, <2>1, <3>1, <3>2 DEF Follows
  <2>2. CASE y # x
    BY <1>1, <1>3, <1>6, <2>2 DEF Follows, Feed, SinkIsClass
  <2>. QED  BY <2>1, <2>2
<1>12. Feed'
  BY <1>1, <1>6, <1>8, <1>10, <1>11, FeedTaken DEF Tables
<1>13. OneEntry' /\ BoundIsHeld'
  <2>1. OneEntry'
    BY <1>1, <1>5 DEF Bindings, OneEntry
  <2>2. BoundIsHeld'
    BY <1>1, <1>5 DEF Bindings, BoundIsHeld
  <2>. QED  BY <2>1, <2>2
<1>14. BindsOnce'
  <2>. SUFFICES ASSUME NEW j \in 1..Len(requests'), NEW k \in 1..Len(requests'),
                       NEW y \in Ids, NEW z \in Ids, NEW q \in Proxies,
                       requests'[j] = Bind(y, q), requests'[k] = Bind(z, q)
                PROVE  j = k
    BY DEF BindsOnce, Bind
  <2>1. ASSUME NEW i \in 1..c, NEW w  PROVE  requests[i] # Bind(w, p)
    <3>1. Bind(w, p).op = "bind" /\ Bind(w, p).proxy = p
      BY DEF Bind
    <3>. QED  BY <1>4, <3>1
  <2>2. ASSUME NEW i \in 1..Len(requests'), NEW w, requests'[i] = Bind(w, q), i \notin 1..c
        PROVE  q = p
    BY <1>7, <2>2 DEF Bind
  <2>3. CASE j \in 1..c /\ k \in 1..c
    BY <1>1, <1>7, <2>3 DEF Bindings, BindsOnce, c
  <2>4. CASE j \notin 1..c \/ k \notin 1..c
    <3>1. q = p
      BY <2>2, <2>4
    <3>2. j \notin 1..c /\ k \notin 1..c
      BY <1>7, <2>1, <3>1
    <3>. QED  BY <1>7, <3>2
  <2>. QED  BY <2>3, <2>4
<1>15. \A q : Unspoken(q) => Unspoken(q)'
  <2>. SUFFICES ASSUME NEW q, Unspoken(q)  PROVE  Unspoken(q)'
    OBVIOUS
  <2>1. \A k \in 1..m : events'[k].ev \in {"info", "removed"} => events'[k].proxy # q
    BY <1>2 DEF Unspoken
  <2>2. \A k \in 1..Len(requests') : requests'[k].op = "write" => requests'[k].proxy # q
    <3>1. Bind(x, p).op # "write"
      BY DEF Bind
    <3>. QED  BY <1>7, <3>1 DEF Unspoken, c
  <2>. QED  BY <2>1, <2>2 DEF Unspoken, m
<1>16. BindsToCome'
  <2>. SUFFICES ASSUME NEW k \in 1..Len(requests'), NEW y \in Ids, NEW q \in Proxies,
                       requests'[k] = Bind(y, q), q \in Held'
                PROVE  /\ y \in DOMAIN entries' /\ entries'[y] = q
                       /\ nodes'[y].segment = NULL
                       /\ Unspoken(q)'
    BY DEF BindsToCome, Bind
  <2>1. CASE k \in 1..c
    <3>1. requests[k] = Bind(y, q)
      BY <1>7, <2>1
    <3>2. q # p
      BY <1>4, <2>1, <3>1 DEF Bind
    <3>3. q \in Held
      BY <1>5, <3>2 DEF Held
    <3>4. /\ y \in DOMAIN entries /\ entries[y] = q
          /\ nodes[y].segment = NULL /\ Unspoken(q)
      BY <1>1, <2>1, <3>1, <3>3 DEF Bindings, BindsToCome, c
    <3>. QED  BY <1>1, <1>5, <1>6, <1>15, <3>4 DEF SameNodes
  <2>2. CASE k \notin 1..c
    <3>1. y = x /\ q = p
      BY <1>7, <2>2 DEF Bind
    <3>2. Unspoken(p)
      BY <1>4 DEF Unspoken, c
    <3>. QED  BY <1>5, <1>6, <1>15, <3>1, <3>2 DEF new_node
  <2>. QED  BY <2>1, <2>2
<1>17. RemovedIsUnbound'
  BY <1>1, <1>2 DEF Bindings, RemovedIsUnbound, Removed
<1>19. ~Queued(Removed(p))'
  <2>. SUFFICES ASSUME Queued(Removed(p))  PROVE FALSE
    BY <1>2 DEF Removed
  <2>1. PICK k \in 1..Len(events) : events[k] = Removed(p)
    BY DEF Queued
  <2>. QED  BY <1>4, <2>1 DEF Removed
<1>20. RemovedIsLeaving'
  <2>. SUFFICES ASSUME NEW y \in DOMAIN entries'
                PROVE  /\ entries'[y] = NULL => Leaving(y)'
                       /\ \A q \in Proxies : entries'[y] = q /\ Queued(Removed(q))' => Leaving(y)'
    BY DEF RemovedIsLeaving, Removed
  <2>1. CASE y = x
    BY <1>1, <1>5, <1>19, <2>1 DEF Removed
  <2>2. CASE y # x
    <3>1. y \in DOMAIN entries /\ entries'[y] = entries[y]
      BY <1>5, <2>2
    <3>2. Leaving(y) => Leaving(y)'
      BY <1>2, <1>3 DEF Leaving, Gone
    <3>. QED  BY <1>1, <1>2, <3>1, <3>2 DEF Bindings, RemovedIsLeaving, Removed
  <2>. QED  BY <2>1, <2>2
<1>21. LateBindIsMute'
  <2>. SUFFICES ASSUME NEW q \in DOMAIN resources, NEW y \in Ids,
                       resources[q] = y, Leaving(y)'
                PROVE  nodes'[y].segment = NULL /\ \A k \in 1..m : ~Heard(k, y)'
    BY DEF LateBindIsMute, m
  <2>1. y \in DOMAIN entries
    BY <1>1 DEF Bindings, BoundIsHeld
  <2>2. nodes[y].segment = NULL /\ \A k \in 1..Len(events) : ~Heard(k, y)
    BY <1>1, <1>2 DEF Bindings, LateBindIsMute, Leaving, Gone
  <2>. QED  BY <1>1, <1>2, <1>6, <1>9, <2>1, <2>2 DEF SameNodes
<1>. QED  BY <1>8, <1>12, <1>13, <1>14, <1>16, <1>17, <1>20, <1>21 DEF Bindings

LEMMA GlobalTakenStep ==
  ASSUME ~BINDS_FAIL, Fed, events # <<>>, events' = Tail(events),
         UNCHANGED <<graph, changes>>, on_registry_global(events[1])
  PROVE  /\ Tables' /\ Feed' /\ Bindings'
         /\ [Next]_vars
<1>. DEFINE x == events[1].id
            class == events[1].class
<1>1. /\ SameNodes /\ events \in Seq(Event) /\ events[1].ev = "global"
  BY DEF Fed, Tables, on_registry_global
<1>2. events[1] \in Event
  BY <1>1, Taken
<1>3. x \in Ids /\ class \in GlobalClasses /\ events[1] = Global(x, class)
  BY <1>1, <1>2 DEF Event, Global
<1>4. CASE x \in DOMAIN entries
  <2>1. UNCHANGED <<vars, entries, requests, resources>>
    BY <1>4 DEF on_registry_global
  <2>2. \A y : events[1] # Gone(y)
    BY <1>1 DEF Gone
  <2>. QED  BY <2>1, <2>2, IgnoredStep DEF vars
<1>5. CASE x \notin DOMAIN entries
  <2>1. WalkGlobal(x, class) /\ UNCHANGED resources
    BY <1>5 DEF on_registry_global
  <2>2. PICK p \in Proxies : /\ Fresh(p)
                             /\ entries' = Insert(entries, x, p)
                             /\ requests' = Append(requests, Bind(x, p))
    BY <1>5 DEF on_registry_global
  <2>3. nodes' = Insert(nodes, x, new_node(class))
    BY <1>1, <1>5, <2>1 DEF WalkGlobal, Known, SameNodes
  <2>4. Next
    BY <1>3, <2>1 DEF Next
  <2>. HIDE DEF x, class
  <2>5. Tables' /\ Feed' /\ Bindings'
    BY <1>3, <1>5, <2>1, <2>2, <2>3, BoundStep
  <2>. QED  BY <2>4, <2>5
<1>. QED  BY <1>4, <1>5

(* The client's dispatch of one event: the walk makes a step of its own or *)
(* none.                                                                   *)
LEMMA DispatchStep ==
  ASSUME ~BINDS_FAIL, Fed, IInv, Dispatch
  PROVE  /\ Tables' /\ Feed' /\ Bindings'
         /\ [Next]_vars
<1>1. /\ events # <<>> /\ events' = Tail(events) /\ UNCHANGED <<graph, changes>>
      /\ Head(events) = events[1]
  BY Taken DEF Dispatch, Fed, Tables
<1>2. \/ on_registry_global(events[1]) \/ on_node_info(events[1])
      \/ on_proxy_removed(events[1]) \/ on_registry_global_remove(events[1])
  BY <1>1 DEF Dispatch
<1>. QED  BY <1>1, <1>2, GlobalTakenStep, InfoStep, RemovedStep, GoneStep

-----------------------------------------------------------------------------
(* The writes.                                                             *)

(* A step that writes nothing, leaves what is bound where it is and its    *)
(* node in its segment, and binds only what nobody has written to.         *)
LEMMA WritesKept ==
  ASSUME Tables, Bindings, WritesReachTheirSegment,
         \A k \in 1..Len(requests') :
           requests'[k].op = "write" => \E j \in 1..Len(requests) : requests[j] = requests'[k],
         \A p \in DOMAIN resources' :
           \/ Unspoken(p)
           \/ p \in DOMAIN resources /\ resources'[p] = resources[p],
         \A p \in DOMAIN resources' :
           LET x == resources'[p]
           IN  x \in DOMAIN graph =>
                 /\ MediaClass(graph'[x]) = MediaClass(graph[x])
                 /\ Kept(Carried(graph[x]), Carried(graph'[x]))
  PROVE  WritesReachTheirSegment'
<1>. SUFFICES ASSUME NEW k \in 1..Len(requests'), requests'[k].op = "write",
                     requests'[k].proxy \in DOMAIN resources'
              PROVE  IsDoor(graph'[resources'[requests'[k].proxy]], requests'[k].segment)
  BY DEF WritesReachTheirSegment, Writes
<1>1. PICK j \in 1..Len(requests) : requests[j] = requests'[k]
  OBVIOUS
<1>. DEFINE p == requests[j].proxy
            seg == requests[j].segment
            x == resources[p]
<1>2. requests[j].op = "write" /\ p = requests'[k].proxy /\ seg = requests'[k].segment
  BY <1>1
<1>3. seg \in Segments /\ seg # NULL
  <2>1. requests[j] \in Request
    BY DEF Tables
  <2>. QED  BY <1>2, <2>1, WalkAssumption DEF Request, WriteRequest
<1>4. p \in DOMAIN resources /\ resources'[p] = x
  BY <1>2 DEF Unspoken
<1>5. IsDoor(graph[x], seg)
  BY <1>2, <1>4 DEF WritesReachTheirSegment, Writes
<1>6. x \in DOMAIN graph
  BY <1>4 DEF Bindings, BoundIsHeld
<1>7. /\ MediaClass(graph'[x]) = MediaClass(graph[x])
      /\ Kept(Carried(graph[x]), Carried(graph'[x]))
  BY <1>2, <1>4, <1>6
<1>. QED  BY <1>2, <1>3, <1>4, <1>5, <1>7 DEF IsDoor, IsSink, Kept

(* What a graph change does to the nodes that stay.                        *)
LEMMA GraphChangeWrites ==
  ASSUME Fed, WritesReachTheirSegment, GraphChanges
  PROVE  WritesReachTheirSegment'
<1>1. Tables /\ Bindings /\ requests' = requests
  BY DEF Fed, GraphChanges, NodeAppears, NodePublishes, NodeStirs, NodeLeaves
<1>2. \A p \in DOMAIN resources' : p \in DOMAIN resources /\ resources'[p] = resources[p]
  BY <1>1 DEF GraphChanges, NodeAppears, NodePublishes, NodeStirs, NodeLeaves
<1>3. \A p \in DOMAIN resources' :
        LET x == resources'[p]
        IN  x \in DOMAIN graph =>
              /\ MediaClass(graph'[x]) = MediaClass(graph[x])
              /\ Kept(Carried(graph[x]), Carried(graph'[x]))
  <2>. SUFFICES ASSUME NEW p \in DOMAIN resources', NEW x \in DOMAIN graph, x = resources'[p]
                PROVE  /\ MediaClass(graph'[x]) = MediaClass(graph[x])
                       /\ Kept(Carried(graph[x]), Carried(graph'[x]))
    OBVIOUS
  <2>1. CASE \E id \in Ids, d \in NodeDicts : NodeAppears(id, d) \/ NodePublishes(id, d)
    BY <2>1 DEF NodeAppears, NodePublishes, Stamp, Insert, Kept
  <2>2. CASE \E id \in Ids : NodeStirs(id)
    BY <2>2 DEF NodeStirs, Kept
  <2>3. CASE \E id \in Ids : NodeLeaves(id)
    <3>1. PICK id \in Ids : NodeLeaves(id)
      BY <2>3
    <3>2. x # id
      BY <1>2, <3>1 DEF NodeLeaves, BoundTo
    <3>. QED  BY <3>1, <3>2 DEF NodeLeaves, Drop, Kept
  <2>. QED  BY <2>1, <2>2, <2>3 DEF GraphChanges
<1>. QED  BY <1>1, <1>2, <1>3, WritesKept

LEMMA ServeWrites ==
  ASSUME Fed, WritesReachTheirSegment, Serve
  PROVE  WritesReachTheirSegment'
<1>. DEFINE r == Head(requests)
<1>1. /\ Tables /\ Bindings /\ requests \in Seq(Request)
      /\ requests # <<>> /\ requests' = Tail(requests)
  BY DEF Fed, Tables, Serve
<1>2. /\ 1 \in 1..Len(requests) /\ r = requests[1] /\ r \in Request
      /\ \A k \in 1..Len(requests') : \E j \in 1..Len(requests) : requests[j] = requests'[k]
  BY <1>1, RequestTaken DEF RequestsLeft
<1>3. CASE ServeBind(r)
  <2>1. r.op = "bind" /\ graph' = graph
    BY <1>3 DEF ServeBind
  <2>2. r = Bind(r.id, r.proxy) /\ r.id \in Ids /\ r.proxy \in Proxies
    <3>. HIDE DEF r
    <3>. QED  BY <1>2, <2>1 DEF Request, WriteRequest, Bind
  <2>3. r.proxy \in Held => Unspoken(r.proxy)
    BY <1>1, <1>2, <2>2 DEF Bindings, BindsToCome
  <2>4. \A p \in DOMAIN resources' :
          Unspoken(p) \/ (p \in DOMAIN resources /\ resources'[p] = resources[p])
    BY <1>3, <2>3 DEF ServeBind, Insert
  <2>. HIDE DEF r
  <2>. QED  BY <1>1, <1>2, <2>1, <2>4, WritesKept DEF Kept
<1>4. CASE ServeSync(r)
  <2>1. UNCHANGED <<graph, resources>>
    BY <1>4 DEF ServeSync
  <2>. HIDE DEF r
  <2>. QED  BY <1>1, <1>2, <2>1, WritesKept DEF Kept
<1>5. CASE ServeWrite(r)
  <2>1. resources' = resources
    BY <1>5 DEF ServeWrite
  <2>2. \A x \in DOMAIN graph : /\ MediaClass(graph'[x]) = MediaClass(graph[x])
                                /\ Kept(Carried(graph[x]), Carried(graph'[x]))
    <3>1. CASE graph' = graph
      BY <3>1 DEF Kept
    <3>2. ASSUME NEW id \in DOMAIN graph, NEW d, graph' = Insert(graph, id, d),
                 MediaClass(d) = MediaClass(graph[id]), Carried(d) = Carried(graph[id])
          PROVE  \A x \in DOMAIN graph : /\ MediaClass(graph'[x]) = MediaClass(graph[x])
                                         /\ Kept(Carried(graph[x]), Carried(graph'[x]))
      BY <3>2 DEF Insert, Kept
    <3>3. \A id : /\ MediaClass(Accepting(graph[id], r)) = MediaClass(graph[id])
                  /\ Carried(Accepting(graph[id], r)) = Carried(graph[id])
                  /\ MediaClass(Refusing(graph[id])) = MediaClass(graph[id])
                  /\ Carried(Refusing(graph[id])) = Carried(graph[id])
      BY AnswerKeeps DEF Accepting, Refusing
    <3>4. \/ graph' = graph
          \/ \E id \in DOMAIN graph : \/ graph' = Insert(graph, id, Accepting(graph[id], r))
                                      \/ graph' = Insert(graph, id, Refusing(graph[id]))
      BY <1>5 DEF ServeWrite, Stamp, Addressed
    <3>. QED  BY <3>1, <3>2, <3>3, <3>4
  <2>. HIDE DEF r
  <2>. QED  BY <1>1, <1>2, <2>1, <2>2, WritesKept
<1>. QED  BY <1>3, <1>4, <1>5 DEF Serve

LEMMA DispatchWrites ==
  ASSUME Fed, WritesReachTheirSegment, Dispatch
  PROVE  WritesReachTheirSegment'
<1>1. Tables /\ Bindings /\ requests \in Seq(Request) /\ graph' = graph
  BY DEF Fed, Tables, Dispatch
<1>2. \A p \in DOMAIN resources' : p \in DOMAIN resources /\ resources'[p] = resources[p]
  BY <1>1 DEF Dispatch, on_registry_global, on_node_info, on_proxy_removed,
              on_registry_global_remove, Freed, Drop
<1>3. requests' = requests \/ \E x, p : requests' = Append(requests, Bind(x, p))
  BY DEF Dispatch, on_registry_global, on_node_info, on_proxy_removed,
         on_registry_global_remove
<1>4. \A k \in 1..Len(requests') :
        requests'[k].op = "write" => \E j \in 1..Len(requests) : requests[j] = requests'[k]
  <2>1. ASSUME NEW x, NEW p, requests' = Append(requests, Bind(x, p))
        PROVE  \A k \in 1..Len(requests') :
                 requests'[k].op = "write" =>
                   k \in 1..Len(requests) /\ requests[k] = requests'[k]
    <3>1. Bind(x, p).op # "write"
      BY DEF Bind
    <3>. QED  BY <1>1, <2>1, <3>1
  <2>. QED  BY <1>3, <2>1
<1>. QED  BY <1>1, <1>2, <1>4, WritesKept DEF Kept

(* A write goes to the door of its segment: the walk knows no door by the  *)
(* id of a node that has left, unless it is about to be told, and to the   *)
(* proxy of such a node nothing is bound any more.                         *)
LEMMA WriteStep ==
  ASSUME Fed, IInv, WritesReachTheirSegment,
         NEW seg \in Segments, NEW input, NEW p, NEW v, write_headamp(seg, input, p, v)
  PROVE  Tables' /\ Feed' /\ Bindings' /\ WritesReachTheirSegment'
<1>. DEFINE box == segments[seg].box
            x   == box.id
            q   == entries[x]
            pod == build_headamp(box_wire_ch(box, input), p, v)
            r   == Write(q, seg, pod[1], pod[2])
            c   == Len(requests)
<1>1. /\ Tables /\ SameNodes /\ Feed /\ Bindings
      /\ events \in Seq(Event) /\ requests \in Seq(Request)
      /\ entries \in [DOMAIN entries -> Proxies \cup {NULL}]
  BY DEF Fed, Tables
<1>2. /\ seg \in DOMAIN segments
      /\ write_outcome(HasProxy(x), box, input, p, v) = "sent"
      /\ requests' = Append(requests, r)
      /\ UNCHANGED <<nodes, graph, resources, changes, events, entries>>
  BY DEF write_headamp, vars, serverVars
<1>3. HasProxy(x) /\ box.sink /\ pod # NoKey
  BY <1>2 DEF write_outcome
<1>4. /\ nodes[x].segment = seg /\ nodes[x].is_sink /\ seg # NULL
  <2>1. SegmentOK(seg, segments[seg], nodes) /\ seg # NULL /\ segments[seg].nodes \in Seq(Ids)
    BY <1>2, SegmentType
  <2>2. x \in Elements(segments[seg].nodes)
    BY <2>1, PickDoorBest DEF SegmentOK
  <2>. QED  BY <1>3, <2>1, <2>2 DEF SegmentOK
<1>5. x \in DOMAIN entries /\ q \in Proxies /\ q # NULL /\ x \in DOMAIN nodes /\ x \in Ids
  BY <1>1, <1>3 DEF HasProxy, SameNodes, Tables
<1>6. r \in WriteRequest /\ r.op = "write" /\ r.proxy = q /\ r.segment = seg
  <2>1. pod = <<param_key(box_wire_ch(box, input), p), v>> /\ v \in Byte
    BY <1>3 DEF build_headamp
  <2>2. param_key(box_wire_ch(box, input), p) \in (0..(MAX_CH - 1)) \X Params
    BY <1>3 DEF build_headamp, param_key
  <2>. HIDE DEF box
  <2>. QED  BY <1>5, <2>1, <2>2 DEF WriteRequest, Write
<1>. HIDE DEF box, x, q, pod, r
<1>7. /\ requests' \in Seq(Request) /\ c \in Nat
      /\ \A k \in 1..c : k \in 1..Len(requests') /\ requests'[k] = requests[k]
      /\ \A k \in 1..Len(requests') : k \notin 1..c => requests'[k] = r
  <2>1. r \in Request
    BY <1>6 DEF Request
  <2>. QED  BY <1>1, <1>2, <2>1
<1>8. Tables'
  BY <1>1, <1>2, <1>7 DEF Tables
<1>9. Feed'
  <2>1. <<>> \in Seq(Event) /\ events' = events \o <<>> /\ Elements(<<>>) = {}
    <3>1. Elements(<<>>) = {}
      BY <<>> \in Seq(Event), ElementsEmpty
    <3>. QED  BY <1>1, <1>2, <3>1, NothingSaid
  <2>2. TellsTrue(<<>>)
    BY <1>1, <1>2, <2>1 DEF TellsTrue, GoesOn, Kept, Feed, OneSink
  <2>. QED  BY <1>1, <1>2, <2>1, <2>2, FeedGrows
<1>. HIDE DEF c
<1>10. \A k \in 1..Len(requests') : \A y, w : requests'[k] = Bind(y, w)
         => k \in 1..c /\ requests[k] = Bind(y, w)
  <2>. SUFFICES ASSUME NEW k \in 1..Len(requests'), NEW y, NEW w, requests'[k] = Bind(y, w)
                PROVE  k \in 1..c /\ requests[k] = Bind(y, w)
    OBVIOUS
  <2>1. Bind(y, w).op # "write"
    BY DEF Bind
  <2>. QED  BY <1>6, <1>7, <2>1
<1>11. Bindings'
  <2>1. OneEntry' /\ BoundIsHeld'
    BY <1>1, <1>2 DEF Bindings, OneEntry, BoundIsHeld
  <2>2. BindsOnce'
    BY <1>1, <1>10 DEF Bindings, BindsOnce, Bind, c
  <2>3. BindsToCome'
    <3>. SUFFICES ASSUME NEW k \in 1..Len(requests'), NEW y \in Ids, NEW w \in Proxies,
                         requests'[k] = Bind(y, w), w \in Held'
                  PROVE  /\ y \in DOMAIN entries' /\ entries'[y] = w
                         /\ nodes'[y].segment = NULL
                         /\ Unspoken(w)'
      BY DEF BindsToCome, Bind
    <3>1. k \in 1..c /\ requests[k] = Bind(y, w) /\ w \in Held
      BY <1>2, <1>10 DEF Held
    <3>2. /\ y \in DOMAIN entries /\ entries[y] = w
          /\ nodes[y].segment = NULL /\ Unspoken(w)
      BY <1>1, <3>1 DEF Bindings, BindsToCome, c
    <3>3. w # q
      BY <1>1, <1>4, <1>5, <3>2 DEF Bindings, OneEntry, q
    <3>4. Unspoken(w)'
      BY <1>2, <1>6, <1>7, <3>2, <3>3 DEF Unspoken, c
    <3>. QED  BY <1>2, <3>2, <3>4
  <2>4. RemovedIsUnbound' /\ RemovedIsLeaving'
    BY <1>1, <1>2
       DEF Bindings, RemovedIsUnbound, RemovedIsLeaving, Queued, Leaving, Removed, Gone
  <2>5. LateBindIsMute'
    BY <1>1, <1>2 DEF Bindings, LateBindIsMute, Queued, Leaving, Gone, Heard, LeftBy
  <2>. QED  BY <2>1, <2>2, <2>3, <2>4, <2>5 DEF Bindings
<1>12. WritesReachTheirSegment'
  <2>. SUFFICES ASSUME NEW k \in 1..Len(requests'), requests'[k].op = "write",
                       requests'[k].proxy \in DOMAIN resources
                PROVE  IsDoor(graph[resources[requests'[k].proxy]], requests'[k].segment)
    BY <1>2 DEF WritesReachTheirSegment, Writes
  <2>1. CASE k \in 1..c
    BY <1>7, <2>1 DEF WritesReachTheirSegment, Writes, c
  <2>2. CASE k \notin 1..c
    <3>1. requests'[k] = r /\ q \in DOMAIN resources
      BY <1>6, <1>7, <2>2
    <3>2. resources[q] = x
      BY <1>1, <1>5, <3>1 DEF Bindings, BoundIsHeld, OneEntry, q
    <3>3. ~Leaving(x)
      BY <1>1, <1>4, <1>5, <3>1, <3>2 DEF Bindings, LateBindIsMute
    <3>4. /\ MediaClass(graph[x]) = nodes[x].media_class
          /\ Kept(seg, Carried(graph[x]))
      BY <1>1, <1>4, <1>5, <3>3 DEF Feed, KnownIsThere
    <3>5. nodes[x].media_class = "Audio/Sink"
      BY <1>1, <1>4, <1>5 DEF Feed, SinkIsClass
    <3>. QED  BY <1>4, <1>6, <3>1, <3>2, <3>4, <3>5 DEF Kept, IsDoor, IsSink
  <2>. QED  BY <2>1, <2>2
<1>. QED  BY <1>8, <1>9, <1>11, <1>12

-----------------------------------------------------------------------------
(* The invariant of the client: the walk's own, and that of what it is fed *)
(* and of what it writes.                                                  *)

PwInv == IInv /\ Fed /\ WritesReachTheirSegment

LEMMA ConnectedInv ==
  ASSUME Connected, requests \in Seq(Request),
         \A k \in 1..Len(requests) : requests[k].op = "sync"
  PROVE  PwInv /\ Init
<1>1. /\ Init /\ graph \in Sessions /\ changes = 0
      /\ resources = [p \in {} |-> NULL] /\ entries = [id \in {} |-> NULL]
  BY DEF Connected
<1>2. PICK o \in InSomeOrder(DOMAIN graph) :
        events = [k \in 1..Len(o) |-> Global(o[k], MediaClass(graph[o[k]]))]
  BY DEF Connected
<1>3. /\ DOMAIN graph \subseteq Ids /\ graph \in [DOMAIN graph -> NodeDicts]
      /\ graph \in [DOMAIN graph -> Dicts] /\ OneSink(graph)
  <2>1. PICK ids \in SUBSET Ids : graph \in [ids -> NodeDicts]
    BY <1>1 DEF Sessions
  <2>. QED  BY <1>1, <2>1, PwAssumption DEF Sessions
<1>4. o \in Seq(DOMAIN graph)
  BY <1>3, FS_Subset, OrderedSeq, PwAssumption
<1>5. /\ events \in Seq(Event)
      /\ \A k \in 1..Len(events) :
           /\ events[k].ev = "global" /\ events[k].id \in DOMAIN graph
           /\ events[k].class = MediaClass(graph[events[k].id])
  <2>1. ASSUME NEW k \in 1..Len(o)
        PROVE  Global(o[k], MediaClass(graph[o[k]])) \in Event
    <3>1. o[k] \in DOMAIN graph /\ graph[o[k]] \in NodeDicts
      BY <1>3, <1>4
    <3>. QED  BY <1>3, <3>1, ClassAssumption DEF Global, Event
  <2>2. events \in Seq(Event) /\ Len(events) = Len(o)
    BY <1>2, <1>4, <2>1
  <2>. QED  BY <1>2, <1>4, <2>2 DEF Global
<1>6. \A k \in 1..Len(events) : \A y : events[k] # Removed(y) /\ events[k] # Gone(y)
  BY <1>5 DEF Removed, Gone
<1>7. Tables
  BY <1>1, <1>3, <1>5, PwAssumption DEF Tables
<1>8. SameNodes /\ DOMAIN nodes = {} /\ DOMAIN entries = {} /\ DOMAIN resources = {}
  BY <1>1 DEF Init, SameNodes
<1>9. Feed
  BY <1>3, <1>5, <1>8
     DEF Feed, GlobalsTell, KnownIsThere, SinkIsClass, HeardFits, HeardInOrder,
         OneDoorKnown, OneDoorHeard, Heard
<1>10. Bindings
  <2>1. \A k \in 1..Len(requests), x \in Ids, p \in Proxies : requests[k] # Bind(x, p)
    BY DEF Bind
  <2>2. BindsOnce /\ BindsToCome
    BY <2>1 DEF BindsOnce, BindsToCome
  <2>. QED  BY <1>1, <1>6, <1>8, <2>2
     DEF Bindings, OneEntry, BoundIsHeld, RemovedIsUnbound, RemovedIsLeaving,
         LateBindIsMute, Queued
<1>11. WritesReachTheirSegment
  BY <1>8 DEF WritesReachTheirSegment
<1>. QED  BY <1>1, <1>7, <1>8, <1>9, <1>10, <1>11, InitInv DEF PwInv, Fed

LEMMA PwInitInv == PwInit => PwInv /\ Init
  BY ConnectedInv DEF PwInit

(* A step that leaves the walk alone.                                      *)
LEMMA WalkUntouched ==
  ASSUME IInv, SameNodes, UNCHANGED <<vars, entries>>
  PROVE  IInv' /\ SameNodes' /\ [Next]_vars
<1>1. SameNodes' /\ [Next]_vars
  BY UntouchedNodes DEF vars
<1>2. TypeOK'
  BY DEF IInv, TypeOK, vars
<1>3. SegmentsOK' /\ SegmentsListed' /\ OneBoxPerSegment'
  BY DEF IInv, SegmentsOK, SegmentsListed, OneBoxPerSegment, vars
<1>. QED  BY <1>1, <1>2, <1>3 DEF IInv

LEMMA PwNextInv ==
  ASSUME ~BINDS_FAIL, SteadyGraph, AnswersFit, PwInv, [PwNext]_pwVars
  PROVE  PwInv' /\ [Next]_vars
<1>1. IInv /\ Fed /\ SameNodes /\ WritesReachTheirSegment
  BY DEF PwInv, Fed
<1>2. CASE GraphChanges
  <2>1. UNCHANGED <<vars, entries>>
    BY <1>2 DEF GraphChanges, NodeAppears, NodePublishes, NodeStirs, NodeLeaves
  <2>2. Tables' /\ Feed' /\ Bindings'
    BY <1>1, <1>2, AppearsStep, PublishesStep, StirsStep, LeavesStep DEF GraphChanges
  <2>3. WritesReachTheirSegment'
    BY <1>1, <1>2, GraphChangeWrites
  <2>. QED  BY <1>1, <2>1, <2>2, <2>3, WalkUntouched DEF PwInv, Fed
<1>3. CASE Serve
  <2>1. UNCHANGED <<vars, entries>>
    BY <1>3 DEF Serve
  <2>2. Tables' /\ Feed' /\ Bindings' /\ WritesReachTheirSegment'
    BY <1>1, <1>3, ServeStep, ServeWrites
  <2>. QED  BY <1>1, <2>1, <2>2, WalkUntouched DEF PwInv, Fed
<1>4. CASE Dispatch
  <2>1. Tables' /\ Feed' /\ Bindings' /\ [Next]_vars /\ WritesReachTheirSegment'
    BY <1>1, <1>4, DispatchStep, DispatchWrites
  <2>2. SameNodes'
    BY <1>1, <1>4, DispatchNodes
  <2>3. IInv'
    BY <1>1, <2>1, NextInv
  <2>. QED  BY <2>1, <2>2, <2>3 DEF PwInv, Fed
<1>5. CASE WriteHeadamp
  <2>1. UNCHANGED <<vars, entries>>
    BY <1>5 DEF WriteHeadamp, write_headamp
  <2>2. Tables' /\ Feed' /\ Bindings' /\ WritesReachTheirSegment'
    BY <1>1, <1>5, WriteStep DEF WriteHeadamp
  <2>. QED  BY <1>1, <2>1, <2>2, WalkUntouched DEF PwInv, Fed
<1>6. CASE UNCHANGED pwVars
  <2>1. UNCHANGED <<vars, graph, resources, changes, requests, events, entries>>
    BY <1>6 DEF pwVars, serverVars
  <2>2. Tables' /\ requests \in Seq(Request) /\ events \in Seq(Event) /\ UNCHANGED <<nodes, entries>>
    BY <1>1, <2>1 DEF Fed, Tables, vars
  <2>3. RequestsLeft(0)
    BY <2>1, <2>2 DEF RequestsLeft
  <2>4. Feed' /\ Bindings'
    BY <1>1, <2>1, <2>2, <2>3, NothingSaid, QuietStep
  <2>5. WritesReachTheirSegment'
    BY <1>1, <2>1 DEF WritesReachTheirSegment, Writes
  <2>. QED  BY <1>1, <2>1, <2>2, <2>4, <2>5, WalkUntouched DEF PwInv, Fed
<1>. QED  BY <1>2, <1>3, <1>4, <1>5, <1>6 DEF PwNext

-----------------------------------------------------------------------------
(* What the writes under way set.  It is decided where a write is made:    *)
(* build_headamp lets a value through that its parameter can have, and no  *)
(* request under way is changed.                                           *)
Asked == {[key |-> requests[k].key, value |-> requests[k].value] : k \in Writes}

LEMMA AskedFit ==
  ASSUME NEW params, AnswersPublish(params), Asked \subseteq Settings(params)
  PROVE  AnswersFit
<1>. SUFFICES ASSUME NEW k \in Writes, NEW d \in Dicts
              PROVE  /\ "accept" \in ANSWERS => Accepting(d, requests[k]) \in Dicts
                     /\ "refuse" \in ANSWERS => Refusing(d) \in Dicts
  BY DEF AnswersFit
<1>. DEFINE r == [key |-> requests[k].key, value |-> requests[k].value]
<1>1. r \in Settings(params)
  BY DEF Asked
<1>2. Accepting(d, requests[k]) = Accepting(d, r)
  BY DEF Accepting
<1>. HIDE DEF r
<1>. QED  BY <1>1, <1>2 DEF AnswersPublish

LEMMA NothingNewAsked ==
  ASSUME \A k \in 1..Len(requests') :
           requests'[k].op = "write" => \E j \in 1..Len(requests) : requests[j] = requests'[k]
  PROVE  Asked' \subseteq Asked
<1>1. \A k \in Writes' : \E j \in Writes : requests[j] = requests'[k]
  BY DEF Writes
<1>. QED  BY <1>1 DEF Asked

LEMMA OthersAskNothing ==
  ASSUME Tables, GraphChanges \/ Serve \/ Dispatch
  PROVE  Asked' \subseteq Asked
<1>1. requests \in Seq(Request)
  BY DEF Tables
<1>2. CASE GraphChanges
  <2>1. requests' = requests
    BY <1>2 DEF GraphChanges, NodeAppears, NodePublishes, NodeStirs, NodeLeaves
  <2>. QED  BY <2>1, NothingNewAsked
<1>3. CASE Serve
  <2>1. \A k \in 1..Len(requests') : \E j \in 1..Len(requests) : requests[j] = requests'[k]
    BY <1>1, <1>3, RequestTaken DEF Serve, RequestsLeft
  <2>. QED  BY <2>1, NothingNewAsked
<1>4. CASE Dispatch
  <2>1. requests' = requests \/ \E x, p : requests' = Append(requests, Bind(x, p))
    BY <1>4 DEF Dispatch, on_registry_global, on_node_info, on_proxy_removed,
                on_registry_global_remove
  <2>2. ASSUME NEW x, NEW p, requests' = Append(requests, Bind(x, p))
        PROVE  \A k \in 1..Len(requests') :
                 requests'[k].op = "write" =>
                   k \in 1..Len(requests) /\ requests[k] = requests'[k]
    <3>1. Bind(x, p).op # "write"
      BY DEF Bind
    <3>. QED  BY <1>1, <2>2, <3>1
  <2>. QED  BY <2>1, <2>2, NothingNewAsked
<1>. QED  BY <1>2, <1>3, <1>4

LEMMA WriteAsks ==
  ASSUME Tables, NEW params,
         NEW seg, NEW input, NEW p \in params, NEW v, write_headamp(seg, input, p, v)
  PROVE  Asked' \subseteq Asked \cup Settings(params)
<1>. DEFINE box == segments[seg].box
            ch  == box_wire_ch(box, input)
            pod == build_headamp(ch, p, v)
            r   == Write(entries[box.id], seg, pod[1], pod[2])
<1>1. requests \in Seq(Request) /\ requests' = Append(requests, r) /\ pod # NoKey
  BY DEF Tables, write_headamp, write_outcome
<1>2. /\ pod = <<param_key(ch, p), v>> /\ v \in Byte
      /\ param_key(ch, p) = <<ch, p>> /\ ch \in 0..(MAX_CH - 1)
  <2>. HIDE DEF ch
  <2>. QED  BY <1>1 DEF build_headamp, param_key
<1>3. r.key = <<ch, p>> /\ r.value = v
  BY <1>2 DEF Write
<1>4. [key |-> r.key, value |-> r.value] \in Settings(params)
  <2>. HIDE DEF ch, r
  <2>. QED  BY <1>1, <1>2, <1>3 DEF Settings
<1>. HIDE DEF r
<1>5. \A k \in 1..Len(requests') :
        requests'[k] = r \/ (k \in 1..Len(requests) /\ requests'[k] = requests[k])
  BY <1>1
<1>. QED  BY <1>4, <1>5 DEF Asked, Writes

LEMMA PwAnswersFit ==
  ASSUME ~BINDS_FAIL, SteadyGraph, AnswersPublish({"pad"})
  PROVE  PwSpec => [](PwInv /\ AnswersFit)
<1>. DEFINE AsksPads == Asked \subseteq Settings({"pad"})
<1>1. PwInit => PwInv /\ AsksPads
  <2>1. PwInit => AsksPads
    BY DEF PwInit, Asked, Writes
  <2>. QED  BY <2>1, PwInitInv
<1>2. PwInv /\ AsksPads => AnswersFit
  BY AskedFit
<1>3. PwInv /\ AsksPads /\ [PwNext]_pwVars => AsksPads'
  <2>. SUFFICES ASSUME PwInv, AsksPads, [PwNext]_pwVars  PROVE AsksPads'
    OBVIOUS
  <2>1. Tables
    BY DEF PwInv, Fed
  <2>2. CASE GraphChanges \/ Serve \/ Dispatch
    BY <2>1, <2>2, OthersAskNothing
  <2>3. CASE WriteHeadamp
    BY <2>1, <2>3, WriteAsks DEF WriteHeadamp
  <2>4. CASE UNCHANGED pwVars
    BY <2>4 DEF pwVars, Asked, Writes
  <2>. QED  BY <2>2, <2>3, <2>4 DEF PwNext
<1>4. PwInv /\ AnswersFit /\ [PwNext]_pwVars => PwInv'
  BY PwNextInv
<1>. QED  BY <1>1, <1>2, <1>3, <1>4, PTL DEF PwSpec

-----------------------------------------------------------------------------
(* The box of a segment that has one sink.                                 *)

LEMMA OnlySinkIsDoor ==
  ASSUME NEW seg, NEW g, NEW ns, g.nodes \in Seq(Ids), SegmentOK(seg, g, ns),
         NEW x \in DOMAIN ns, ns[x].segment = seg, ns[x].is_sink,
         \A y \in DOMAIN ns : ns[y].segment = seg /\ ns[y].is_sink => y = x
  PROVE  g.box.id = x
<1>1. /\ pick_door(g.nodes, ns) \in Elements(g.nodes)
      /\ (\E y \in Elements(g.nodes) : ns[y].is_sink) => ns[pick_door(g.nodes, ns)].is_sink
  BY PickDoorBest DEF SegmentOK
<1>. QED  BY <1>1 DEF SegmentOK

(* What happens to the box of a segment whose door is x and stays x when   *)
(* another node appears, says something or leaves.                         *)
Elsewhere(y) ==
  \/ \E class : WalkGlobal(y, class)
  \/ \E e \in Dicts : WalkInfo(y, e)
  \/ WalkRemove(y)

LEMMA BoxElsewhere ==
  ASSUME IInv, IInv', NEW x, NEW y \in Ids, y # x, Elsewhere(y),
         NEW seg \in DOMAIN segments, seg \in DOMAIN segments',
         segments'[seg].box.id = x
  PROVE  \/ segments'[seg].box = segments[seg].box
         \/ \E sink \in BOOLEAN : segments'[seg].box = set_door(segments[seg].box, x, sink)
<1>. DEFINE b == segments[seg].box
            c == segments'[seg].box
<1>1. /\ b \in Box(Ids, {seg}) /\ c \in Box(Ids, {seg})
      /\ segments = [s \in DOMAIN segments |-> segments[s]]
  BY DEF IInv, TypeOK
<1>2. CASE UNCHANGED segments
  BY <1>2
<1>3. ASSUME NEW e \in Dicts, InfoNewSegment(y, e)
      PROVE  c = b
  BY <1>1, <1>3 DEF InfoNewSegment, Insert
<1>4. ASSUME NEW e \in Dicts, InfoKnownSegment(y, e)
      PROVE  c = b
  <2>. DEFINE old == segments[InfoSegment(y, e)]
              ms  == AddOnce(old.nodes, y)
  <2>1. /\ InfoSegment(y, e) \in DOMAIN segments
        /\ segments' = [segments EXCEPT ![InfoSegment(y, e)] =
                          [box |-> BoxAfter(old.box, y, e, ms, nodes'), nodes |-> ms]]
    BY <1>4 DEF InfoKnownSegment
  <2>2. CASE InfoSegment(y, e) # seg
    BY <1>1, <2>1, <2>2
  <2>3. CASE InfoSegment(y, e) = seg
    <3>1. c = BoxAfter(b, y, e, ms, nodes')
      BY <1>1, <2>1, <2>3
    <3>2. nodes' = Insert(nodes, y, NodeAfter(y, e))
      BY <1>4 DEF InfoKnownSegment
    <3>3. NodeAfter(y, e) \in Node
      BY NodeAfterType DEF IInv
    <3>4. nodes'[y].is_sink \in BOOLEAN
      BY <3>2, <3>3 DEF Insert, Node
    <3>5. update_from_dict(set_door(b, y, nodes'[y].is_sink), e).id = y
      BY <1>1, <3>4, SetDoorType, UpdateType
    <3>. QED  BY <3>1, <3>5 DEF BoxAfter
  <2>. QED  BY <2>2, <2>3
<1>5. ASSUME RemoveMember(y)
      PROVE  c = b \/ \E sink \in BOOLEAN : c = set_door(b, x, sink)
  <2>. DEFINE door == pick_door(Rest(y), nodes')
              sink == nodes'[door].is_sink
              s    == SegmentOf(y)
  <2>1. /\ s \in DOMAIN segments
        /\ segments' = [segments EXCEPT ![s] =
                          [box |-> set_door(@.box, door, sink), nodes |-> Rest(y)]]
    BY <1>5 DEF RemoveMember
  <2>2. CASE s # seg
    BY <1>1, <2>1, <2>2
  <2>3. CASE s = seg
    <3>1. c = set_door(b, door, sink)
      BY <1>1, <2>1, <2>3
    <3>2. c.id = door /\ c.sink = sink
      BY <1>1, <3>1 DEF set_door, Box
    <3>3. sink \in BOOLEAN
      BY <1>1, <3>2 DEF Box
    <3>. QED  BY <3>1, <3>2, <3>3
  <2>. QED  BY <2>2, <2>3
<1>6. ASSUME RemoveLast(y)
      PROVE  c = b
  BY <1>1, <1>6 DEF RemoveLast, Drop
<1>. QED
  BY <1>2, <1>3, <1>4, <1>5, <1>6
     DEF Elsewhere, WalkGlobal, WalkInfo, InfoOrdinary, WalkRemove, RemoveOrdinary

(* ... and when x says d itself.                                           *)
LEMMA BoxTold ==
  ASSUME IInv, IInv', NEW x \in Ids, NEW d \in Dicts, WalkInfo(x, d),
         NEW seg, seg # NULL, Carried(d) = seg,
         seg \in DOMAIN segments', segments'[seg].box.id = x
  PROVE  update_from_dict(segments'[seg].box, d) = segments'[seg].box
<1>. DEFINE c == segments'[seg].box
            n == NodeAfter(x, d)
<1>1. /\ InfoSegment(x, d) = seg /\ seg \in Segments
      /\ segments = [s \in DOMAIN segments |-> segments[s]]
      /\ SegmentOK(seg, segments'[seg], nodes')
  BY DEF InfoSegment, Carried, IInv, TypeOK, SegmentsOK
<1>2. n \in Node /\ n.is_sink \in BOOLEAN
  BY NodeAfterType DEF IInv, Node
<1>3. CASE InfoNewSegment(x, d)
  <2>1. c = update_from_dict(box_new(x, seg, n.is_sink), d)
    BY <1>1, <1>3 DEF InfoNewSegment, Insert
  <2>2. box_new(x, seg, n.is_sink) \in Box(Ids, {seg})
    BY <1>2, NewBoxType
  <2>. QED  BY <2>1, <2>2, MergeTwice
<1>4. CASE InfoKnownSegment(x, d)
  <2>. DEFINE old == segments[seg]
              ms  == AddOnce(old.nodes, x)
  <2>1. /\ seg \in DOMAIN segments
        /\ segments' = [segments EXCEPT ![seg] =
                          [box |-> BoxAfter(old.box, x, d, ms, nodes'), nodes |-> ms]]
        /\ nodes' = Insert(nodes, x, n)
    BY <1>1, <1>4 DEF InfoKnownSegment
  <2>2. segments'[seg].nodes = ms /\ c = BoxAfter(old.box, x, d, ms, nodes')
    BY <1>1, <2>1
  <2>3. pick_door(ms, nodes') = x
    BY <1>1, <2>2 DEF SegmentOK
  <2>4. c = update_from_dict(set_door(old.box, x, n.is_sink), d)
    BY <2>1, <2>2, <2>3 DEF BoxAfter, Insert
  <2>5. set_door(old.box, x, n.is_sink) \in Box(Ids, {seg})
    BY <1>2, <2>1, SetDoorType DEF IInv, TypeOK
  <2>. QED  BY <2>4, <2>5, MergeTwice
<1>. QED  BY <1>1, <1>3, <1>4 DEF WalkInfo, InfoOrdinary

-----------------------------------------------------------------------------
(* The client keeps its invariant, and makes the walk do nothing the walk  *)
(* would not do for a graph of its own: rs-pw.c around rs-walk.c, whatever *)
(* the daemon's queues delay.                                              *)
THEOREM PwInvariant ==
  ASSUME ~BINDS_FAIL, SteadyGraph, AnswersPublish({"pad"})
  PROVE  PwSpec => []PwInv
<1>. QED  BY PwAnswersFit, PTL

(* rs_pw keeps its tables in shape, and the daemon keeps nothing for the   *)
(* client that no entry holds: node_entry_free leaks no proxy.             *)
THEOREM PwTypeCorrect ==
  ASSUME ~BINDS_FAIL, SteadyGraph, AnswersPublish({"pad"})
  PROVE  PwSpec => []PwType
<1>1. PwInv => PwType
  <2>. SUFFICES ASSUME PwInv  PROVE PwType
    OBVIOUS
  <2>1. Tables /\ Bindings
    BY DEF PwInv, Fed
  <2>2. \A p \in DOMAIN resources : p \in Held /\ resources[p] \in DOMAIN graph
    BY <2>1, PwAssumption DEF Bindings, BoundIsHeld, Held, Tables
  <2>3. resources \in [DOMAIN resources -> DOMAIN graph]
    BY <2>1, <2>2 DEF Tables
  <2>. QED  BY <2>1, <2>2, <2>3 DEF PwType, Tables
<1>. QED  BY <1>1, PwInvariant, PTL

(* rs_pw_write_headamp: a write on its way reaches a sink of the segment   *)
(* it was made for or nobody, never a node that took over the door's id.   *)
THEOREM PwWritesReachTheirSegment ==
  ASSUME ~BINDS_FAIL, SteadyGraph, AnswersPublish({"pad"})
  PROVE  PwSpec => []WritesReachTheirSegment
<1>1. PwInv => WritesReachTheirSegment
  BY DEF PwInv
<1>. QED  BY <1>1, PwInvariant, PTL

(* "That stagebox has left the graph." is said of a door that has: when    *)
(* its entry has no proxy, the registry's word of it is on its way.        *)
THEOREM PwLeftHasLeft ==
  ASSUME ~BINDS_FAIL, SteadyGraph, AnswersPublish({"pad"})
  PROVE  PwSpec => []LeftHasLeft
<1>1. PwInv => LeftHasLeft
  <2>. SUFFICES ASSUME PwInv, NEW s \in DOMAIN segments, ~HasProxy(segments[s].box.id)
                PROVE  Leaving(segments[s].box.id)
    BY DEF LeftHasLeft, Leaving, Queued
  <2>. DEFINE x == segments[s].box.id
  <2>1. IInv /\ SameNodes /\ Bindings
    BY DEF PwInv, Fed
  <2>2. SegmentOK(s, segments[s], nodes) /\ segments[s].nodes \in Seq(Ids)
    BY <2>1, SegmentType
  <2>3. x \in Elements(segments[s].nodes)
    BY <2>2, PickDoorBest DEF SegmentOK
  <2>4. x \in DOMAIN entries
    BY <2>1, <2>2, <2>3 DEF SegmentOK, SameNodes
  <2>. QED  BY <2>1, <2>4 DEF HasProxy, Bindings, RemovedIsLeaving
<1>. QED  BY <1>1, PwInvariant, PTL

(* on_node_info, on_registry_global and on_registry_global_remove tell the *)
(* walk a life of each node in its order: over any connection the walk     *)
(* behaves as its own specification has it, so what is proved of RsWalk    *)
(* holds of the walk inside the client.                                    *)
THEOREM PwFeedsTheWalk ==
  ASSUME ~BINDS_FAIL, SteadyGraph, AnswersPublish({"pad"})
  PROVE  PwSpec => WalkIsFedInOrder
<1>1. PwInit => Init
  BY PwInitInv
<1>2. PwInv /\ AnswersFit /\ [PwNext]_pwVars => [Next]_vars
  BY PwNextInv
<1>. QED  BY <1>1, <1>2, PwAnswersFit, PTL DEF PwSpec, Spec, WalkIsFedInOrder

(* So in the client too every segment of the graph the walk knows of is    *)
(* listed once, under the best door it has.                                *)
THEOREM PwDoorIsBest ==
  ASSUME ~BINDS_FAIL, SteadyGraph, AnswersPublish({"pad"})
  PROVE  PwSpec => [](OneBoxPerSegment /\ DoorIsBest)
<1>. QED
  BY PwFeedsTheWalk, WalkDoorIsBest, WalkOneBoxPerSegment, PTL DEF WalkIsFedInOrder

(* rs-pw.h: the number of nodes the walk counts is the number of binds the *)
(* client holds, as long as pw_registry_bind does not fail.                *)
THEOREM PwBoundIsBound ==
  ASSUME ~BINDS_FAIL
  PROVE  PwSpec => []BoundIsBound
<1>1. PwInit => SameNodes
  BY DEF PwInit, Connected, Init, SameNodes
<1>2. SameNodes /\ [PwNext]_pwVars => SameNodes'
  <2>. SUFFICES ASSUME SameNodes, [PwNext]_pwVars
                PROVE  SameNodes'
    OBVIOUS
  <2>1. CASE GraphChanges
    BY <2>1, UntouchedNodes
       DEF GraphChanges, NodeAppears, NodePublishes, NodeStirs, NodeLeaves, vars
  <2>2. CASE Serve
    BY <2>2, UntouchedNodes DEF Serve, vars
  <2>3. CASE Dispatch
    BY <2>3, DispatchNodes
  <2>4. CASE WriteHeadamp
    BY <2>4, UntouchedNodes DEF WriteHeadamp, write_headamp, vars
  <2>5. CASE UNCHANGED pwVars
    BY <2>5, UntouchedNodes DEF pwVars, vars
  <2>. QED  BY <2>1, <2>2, <2>3, <2>4, <2>5 DEF PwNext
<1>3. SameNodes => BoundIsBound
  BY DEF SameNodes, BoundIsBound, n_bound_nodes
<1>. QED  BY <1>1, <1>2, <1>3, PTL DEF PwSpec
=============================================================================
