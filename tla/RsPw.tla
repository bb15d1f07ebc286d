--------------------------------- MODULE RsPw ---------------------------------
(***************************************************************************)
(* The graph client of src/rs-pw.c around the walk of RsWalk: every node   *)
(* is bound, the server's events are dispatched one at a time, and a       *)
(* head-amp cell is written to a box's door.                               *)
(*                                                                         *)
(* The server is the PipeWire daemon as rs-pw.c relies on it.  Requests    *)
(* reach it in order and later, its events come back in order and later,   *)
(* and in between the graph may be another one: a node may have left, and  *)
(* its id may belong to a new node.  A proxy stands for one bind.          *)
(***************************************************************************)
EXTENDS RsWalk, FiniteSets

CONSTANTS
  Proxies,      \* as many proxies as are alive at once in the model
  NodeDicts,    \* the full property dicts a node comes with or publishes itself
  BINDS_FAIL,   \* whether pw_registry_bind may return NULL
  ANSWERS,      \* what a daemon may make of a write: "drop", "accept", "refuse"
  MAX_CHANGES,  \* bound: how often the graph changes
  MAX_WRITES    \* bound: how many writes are under way at once

ASSUME PwAssumption ==
  /\ NodeDicts \subseteq Dicts
  /\ NULL \notin Proxies \cup {"Audio/Sink"}
  /\ NULL \notin Dicts
  /\ IsFiniteSet(Ids) /\ IsFiniteSet(Proxies)
  /\ BINDS_FAIL \in BOOLEAN
  /\ ANSWERS \subseteq {"drop", "accept", "refuse"}
  /\ MAX_CHANGES \in Nat /\ MAX_WRITES \in Nat

VARIABLES
  graph,        \* server: id -> the properties of the node
  resources,    \* server: proxy -> the id of the node it is bound to
  changes,      \* how often the graph has changed
  requests,     \* from the client to the server, in order
  events,       \* from the server to the client, in order
  entries       \* id -> the proxy of its NodeEntry, NULL once it is destroyed

serverVars == <<graph, resources, changes>>
pwVars     == <<vars, serverVars, requests, events, entries>>

-----------------------------------------------------------------------------
(* The messages.                                                           *)

Global(id, class)  == [ev |-> "global", id |-> id, class |-> class]
Gone(id)           == [ev |-> "gone", id |-> id]
Info(p, d)         == [ev |-> "info", proxy |-> p, props |-> d]
Removed(p)         == [ev |-> "removed", proxy |-> p]
Done(seq)          == [ev |-> "done", seq |-> seq]

Bind(id, p)        == [op |-> "bind", id |-> id, proxy |-> p]
Sync(seq)          == [op |-> "sync", seq |-> seq]
Write(p, seg, key, value) ==
  [op |-> "write", proxy |-> p, segment |-> seg, key |-> key, value |-> value]

-----------------------------------------------------------------------------
(* The server.                                                             *)

MediaClass(d) == IF "class" \in DOMAIN d THEN d.class ELSE NULL
Carried(d)    == IF "segment" \in DOMAIN d /\ d.segment # "" THEN d.segment ELSE NULL
IsSink(d)     == MediaClass(d) = "Audio/Sink"
IsDoor(d, seg) == Carried(d) = seg /\ IsSink(d)

(* A global tells the class its node has.                                  *)
ASSUME ClassAssumption == \A d \in NodeDicts : MediaClass(d) \in GlobalClasses

(* A master has one sink for a segment.                                    *)
OneSink(g) ==
  \A i, j \in DOMAIN g :
    (Carried(g[i]) # NULL /\ IsDoor(g[i], Carried(g[i])) /\ IsDoor(g[j], Carried(g[i])))
      => i = j

BoundTo(id) == {p \in DOMAIN resources : resources[p] = id}

(* The members of a set in any order, which is the server's to choose.     *)
InSomeOrder(S) == {o \in [1..Cardinality(S) -> S] : Elements(o) = S}

NodeAppears(id, d) ==
  /\ changes < MAX_CHANGES
  /\ id \notin DOMAIN graph
  /\ OneSink(Insert(graph, id, d))
  /\ graph' = Insert(graph, id, d)
  /\ changes' = changes + 1
  /\ events' = Append(events, Global(id, MediaClass(d)))
  /\ UNCHANGED <<vars, resources, requests, entries>>

(* A node's new properties, and the info of them to who is bound to it.    *)
Stamp(id, d) ==
  /\ graph' = Insert(graph, id, d)
  /\ \E o \in InSomeOrder(BoundTo(id)) :
       events' = events \o [k \in 1..Len(o) |-> Info(o[k], d)]

(* The 200 ms timer, a role swap or an assertion: a node keeps its class,  *)
(* and its segment once it has one.                                        *)
NodePublishes(id, d) ==
  /\ changes < MAX_CHANGES
  /\ id \in DOMAIN graph /\ d # graph[id]
  /\ MediaClass(d) = MediaClass(graph[id])
  /\ Carried(graph[id]) \in {NULL, Carried(d)}
  /\ OneSink(Insert(graph, id, d))
  /\ Stamp(id, d)
  /\ changes' = changes + 1
  /\ UNCHANGED <<vars, resources, requests, entries>>

(* An info about something else than the properties carries none.         *)
NodeStirs(id) ==
  /\ changes < MAX_CHANGES
  /\ BoundTo(id) # {}
  /\ changes' = changes + 1
  /\ \E o \in InSomeOrder(BoundTo(id)) :
       events' = events \o [k \in 1..Len(o) |-> Info(o[k], NULL)]
  /\ UNCHANGED <<vars, graph, resources, requests, entries>>

(* A node leaves: its proxies and the registry are told, in either order.  *)
NodeLeaves(id) ==
  /\ changes < MAX_CHANGES
  /\ id \in DOMAIN graph
  /\ graph' = Drop(graph, id)
  /\ resources' = [p \in DOMAIN resources \ BoundTo(id) |-> resources[p]]
  /\ changes' = changes + 1
  /\ \E o \in InSomeOrder(BoundTo(id)) :
       LET told == [k \in 1..Len(o) |-> Removed(o[k])]
       IN  \/ events' = events \o (<<Gone(id)>> \o told)
           \/ events' = events \o Append(told, Gone(id))
  /\ UNCHANGED <<vars, requests, entries>>

(* The server takes the next request.  What it says to a proxy that the    *)
(* client has destroyed meanwhile nobody hears, so it is left out.         *)
Held == {entries[id] : id \in DOMAIN entries} \ {NULL}

ServeBind(r) ==
  /\ r.op = "bind"
  /\ UNCHANGED graph
  /\ IF r.proxy \notin Held THEN UNCHANGED <<resources, events>>
     ELSE IF r.id \in DOMAIN graph
     THEN /\ resources' = Insert(resources, r.proxy, r.id)
          /\ events' = Append(events, Info(r.proxy, graph[r.id]))
     ELSE /\ events' = Append(events, Removed(r.proxy))
          /\ UNCHANGED resources

ServeSync(r) ==
  /\ r.op = "sync"
  /\ events' = Append(events, Done(r.seq))
  /\ UNCHANGED <<graph, resources>>

(* The daemon's table of head-amp cells with one of them set.              *)
Shadow(cells, cell) ==
  LET same == {k \in 1..Len(cells) : cells[k].ch = cell.ch /\ cells[k].param = cell.param}
  IN  IF same = {} THEN Append(cells, cell)
      ELSE [k \in 1..Len(cells) |-> IF k \in same THEN cell ELSE cells[k]]

Accepting(d, r) ==
  LET cell == [ch |-> r.key[1], param |-> param_from_name(r.key[2]), value |-> r.value]
      now  == IF "asserted" \in DOMAIN d THEN d.asserted ELSE <<>>
  IN  Insert(Insert(d, "asserted", Shadow(now, cell)), "refused", "none")

Refusing(d) == Insert(d, "refused", "out-of-range")

(* The node a request still reaches through its proxy.                     *)
Addressed(r) == {id \in DOMAIN graph : r.proxy \in BoundTo(id)}

(* rs-pw.c:391, a daemon drops what it does not like and says nothing, or  *)
(* it publishes what it asserts now, or why it does not.                   *)
ServeWrite(r) ==
  /\ r.op = "write"
  /\ UNCHANGED resources
  /\ \/ /\ "drop" \in ANSWERS \/ Addressed(r) = {}
        /\ UNCHANGED <<graph, events>>
     \/ \E id \in Addressed(r) :
          \/ "accept" \in ANSWERS /\ Stamp(id, Accepting(graph[id], r))
          \/ "refuse" \in ANSWERS /\ Stamp(id, Refusing(graph[id]))

(* Where the daemon answers writes of these parameters, what it makes of   *)
(* them is a dict a node may publish.                                      *)
Settings(params) ==
  {r \in [key : (0..(MAX_CH - 1)) \X params, value : Byte] :
     build_headamp(r.key[1], r.key[2], r.value) # NoKey}

AnswersPublish(params) ==
  \A d \in Dicts, r \in Settings(params) :
    /\ "accept" \in ANSWERS => Accepting(d, r) \in Dicts
    /\ "refuse" \in ANSWERS => Refusing(d) \in Dicts

Serve ==
  /\ requests # <<>>
  /\ requests' = Tail(requests)
  /\ LET r == Head(requests) IN ServeBind(r) \/ ServeSync(r) \/ ServeWrite(r)
  /\ UNCHANGED <<vars, changes, entries>>

-----------------------------------------------------------------------------
(* The client.                                                             *)

(* A proxy that nothing alive still speaks of.                             *)
Fresh(p) ==
  /\ p \notin Held \cup DOMAIN resources
  /\ \A i \in 1..Len(events) : events[i].ev \in {"info", "removed"} => events[i].proxy # p
  /\ \A i \in 1..Len(requests) :
       requests[i].op \in {"bind", "write"} => requests[i].proxy # p

(* The entry an event of a proxy is for.                                   *)
EntryOf(p) == {id \in DOMAIN entries : entries[id] = p}

HasProxy(id) == id \in DOMAIN entries /\ entries[id] # NULL

(* on_registry_global: bind every node, once.                              *)
on_registry_global(e) ==
  /\ e.ev = "global"
  /\ IF e.id \in DOMAIN entries THEN UNCHANGED <<vars, entries, requests, resources>>
     ELSE /\ WalkGlobal(e.id, e.class)
          /\ UNCHANGED resources
          /\ \/ \E p \in Proxies :
                  /\ Fresh(p) /\ p = CHOOSE q \in Proxies : Fresh(q)
                  /\ entries' = Insert(entries, e.id, p)
                  /\ requests' = Append(requests, Bind(e.id, p))
             \/ BINDS_FAIL /\ UNCHANGED <<entries, requests>>

(* on_node_info: the walk is told of every info that has properties.       *)
on_node_info(e) ==
  /\ e.ev = "info"
  /\ IF e.props = NULL \/ EntryOf(e.proxy) = {} THEN UNCHANGED vars
     ELSE \E id \in EntryOf(e.proxy) : WalkInfo(id, e.props)
  /\ UNCHANGED <<entries, requests, resources>>

(* Seeded fault: the entry goes with the proxy.                            *)
on_proxy_removed_whole(e) ==
  /\ e.ev = "removed"
  /\ entries' = [id \in {i \in DOMAIN entries : entries[i] # e.proxy} |-> entries[id]]
  /\ UNCHANGED <<vars, requests, resources>>

(* on_proxy_removed: the proxy goes, the entry waits for the registry.     *)
on_proxy_removed(e) ==
  /\ e.ev = "removed"
  /\ entries' = [id \in DOMAIN entries |->
                   IF entries[id] = e.proxy THEN NULL ELSE entries[id]]
  /\ UNCHANGED <<vars, requests, resources>>

(* Seeded fault: the proxy of the entry is not destroyed with it.          *)
Freed_not(id) == resources

(* node_entry_free: the daemon gives up what was bound to the proxy.       *)
Freed(id) == Drop(resources, entries[id])

(* on_registry_global_remove: the walk is told, the proxy is destroyed.    *)
on_registry_global_remove(e) ==
  /\ e.ev = "gone"
  /\ IF e.id \notin DOMAIN entries THEN UNCHANGED <<vars, entries, resources>>
     ELSE /\ WalkRemove(e.id)
          /\ entries' = Drop(entries, e.id)
          /\ resources' = Freed(e.id)
  /\ UNCHANGED requests

(* on_pw_readable: the next event is dispatched.                           *)
Dispatch ==
  /\ events # <<>>
  /\ events' = Tail(events)
  /\ LET e == Head(events)
     IN  \/ on_registry_global(e) \/ on_node_info(e)
         \/ on_proxy_removed(e) \/ on_registry_global_remove(e)
  /\ UNCHANGED <<graph, changes>>

Writes == {i \in 1..Len(requests) : requests[i].op = "write"}

write_headamp(seg, input, p, value) ==
  LET box == segments[seg].box
      pod == build_headamp(box_wire_ch(box, input), p, value)
  IN  /\ seg \in DOMAIN segments
      /\ Cardinality(Writes) < MAX_WRITES
      /\ write_outcome(HasProxy(box.id), box, input, p, value) = "sent"
      /\ requests' = Append(requests, Write(entries[box.id], seg, pod[1], pod[2]))
      /\ UNCHANGED <<vars, serverVars, events, entries>>

n_bound_nodes == Cardinality(DOMAIN nodes)

-----------------------------------------------------------------------------
(* The session the client connects to may be full of nodes already.        *)
Sessions == {g \in UNION {[ids -> NodeDicts] : ids \in SUBSET Ids} : OneSink(g)}

(* rs_pw_new: the registry is asked for and nothing is known yet.          *)
Connected ==
  /\ Init
  /\ graph \in Sessions
  /\ \E o \in InSomeOrder(DOMAIN graph) :
       events = [k \in 1..Len(o) |-> Global(o[k], MediaClass(graph[o[k]]))]
  /\ resources = [p \in {} |-> NULL]
  /\ entries = [id \in {} |-> NULL]
  /\ changes = 0

PwInit == Connected /\ requests = <<>>

GraphChanges ==
  \/ \E id \in Ids, d \in NodeDicts : NodeAppears(id, d) \/ NodePublishes(id, d)
  \/ \E id \in Ids : NodeStirs(id) \/ NodeLeaves(id)

WriteHeadamp ==
  \E seg \in Segments, input \in 1..MAX_CH : write_headamp(seg, input, "pad", 1)

PwNext == GraphChanges \/ Serve \/ Dispatch \/ WriteHeadamp

PwSpec == PwInit /\ [][PwNext]_pwVars

(* The server answers, and GLib dispatches a readable descriptor.          *)
PwFairness == WF_pwVars(Serve) /\ WF_pwVars(Dispatch)

PwFairSpec == PwSpec /\ PwFairness

-----------------------------------------------------------------------------
(* The tables have their shape, and what the server keeps for the client   *)
(* is held by an entry: node_entry_free leaks no proxy.                    *)
PwType ==
  /\ DOMAIN graph \subseteq Ids /\ graph \in [DOMAIN graph -> Dicts]
  /\ DOMAIN resources \subseteq Held /\ resources \in [DOMAIN resources -> DOMAIN graph]
  /\ DOMAIN entries \subseteq Ids /\ entries \in [DOMAIN entries -> Proxies \cup {NULL}]
  /\ changes \in 0..MAX_CHANGES

(* rs-pw.h:47, "How many nodes have been bound": the count printed by      *)
(* --list is the number of nodes the client holds a bind of, and so it     *)
(* tells an empty graph from a walk that saw nothing.                      *)
BoundIsBound == n_bound_nodes = Cardinality(DOMAIN entries)

(* A write is on its way to a sink of the segment it was made for, or to   *)
(* nobody.  It never reaches a node that took over the id of the door it   *)
(* was made for, nor the door of another segment.                          *)
WritesReachTheirSegment ==
  \A i \in Writes :
    LET r == requests[i]
    IN  r.proxy \in DOMAIN resources => IsDoor(graph[resources[r.proxy]], r.segment)

(* "That stagebox has left the graph." is said only of a door that has:    *)
(* the registry's word of it is on its way.                                *)
LeftHasLeft ==
  \A s \in DOMAIN segments :
    LET id == segments[s].box.id
    IN  ~HasProxy(id) => \E i \in 1..Len(events) : events[i] = Gone(id)

(* The infos and removals the client passes on are those of the life of a  *)
(* node that the walk relies on: whatever the server's events overtake,    *)
(* none of a past life of an id reaches the node that has it now.          *)
WalkIsFedInOrder == Spec

(* What the operator should see: a box for every segment of the graph and  *)
(* no other, its sink the door if it has one, with what that sink says.    *)
InStep ==
  /\ DOMAIN segments = {Carried(graph[id]) : id \in DOMAIN graph} \ {NULL}
  /\ \A id \in DOMAIN graph :
       LET seg == Carried(graph[id])
       IN  seg # NULL /\ IsSink(graph[id]) =>
             /\ segments[seg].box.id = id /\ segments[seg].box.sink
             /\ update_from_dict(segments[seg].box, graph[id]) = segments[seg].box

(* Once the graph stops changing, what is shown catches up with it.        *)
Settles == <>[]InStep
=============================================================================
