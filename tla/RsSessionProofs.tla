---------------------------- MODULE RsSessionProofs ----------------------------
(***************************************************************************)
(* The session of RsSession implements the window of RsWindow on the walk, *)
(* under the assumptions of RsPwProofs: what an operator does over a       *)
(* connection, with writes and answers under way, is what the window does  *)
(* when the walk is fed directly, and what is proved of it there holds.    *)
(***************************************************************************)
EXTENDS RsSession, RsPwProofs, RsWindowProofs

-----------------------------------------------------------------------------
(* What the client does with the event it dispatches.                      *)

(* The proxies that are gone are those of no entry: a step of the client   *)
(* that leaves the entries alone loses none.                               *)
LEMMA LostKept ==
  ASSUME UNCHANGED <<entries>>, DOMAIN nodes' = DOMAIN nodes
  PROVE  Lost' = Lost
BY DEF Lost, HasProxy

(* on_registry_global: a node the client did not know has a proxy at once. *)
LEMMA GlobalOnWalk ==
  ASSUME ~BINDS_FAIL, Fed, NEW e \in Event, e.ev = "global",
         e.id \notin DOMAIN entries, on_registry_global(e), Hear,
         lost = Lost, lost' = Lost'
  PROVE  WindowNext
<1>. DEFINE x == e.id
            class == e.class
<1>1. /\ SameNodes /\ x \in Ids /\ class \in GlobalClasses
      /\ entries \in [DOMAIN entries -> Proxies \cup {NULL}]
  BY DEF Fed, Tables, Event
<1>2. WalkGlobal(x, class)
  BY DEF on_registry_global
<1>3. PICK p \in Proxies : entries' = Insert(entries, x, p)
  BY DEF on_registry_global
<1>4. x \notin DOMAIN nodes /\ nodes' = Insert(nodes, x, new_node(class))
  BY <1>1, <1>2 DEF WalkGlobal, Known, SameNodes
<1>5. p # NULL
  BY PwAssumption
<1>. HIDE DEF x, class
<1>6. Lost' = Lost
  <2>1. /\ DOMAIN nodes' = DOMAIN nodes \cup {x} /\ DOMAIN entries' = DOMAIN entries \cup {x}
        /\ entries'[x] = p /\ \A y \in DOMAIN entries : y # x => entries'[y] = entries[y]
    BY <1>3, <1>4 DEF Insert
  <2>2. /\ ~(x \in Lost) /\ ~(x \in Lost')
    BY <1>4, <1>5, <2>1 DEF Lost, HasProxy
  <2>3. \A y : y # x => (y \in Lost' <=> y \in Lost)
    BY <1>1, <2>1 DEF Lost, HasProxy
  <2>. QED  BY <2>2, <2>3
<1>7. GlobalAppears(x, class)
  BY <1>2, <1>6 DEF GlobalAppears
<1>. QED  BY <1>1, <1>7 DEF WindowNext

(* on_node_info: the info is one the node may publish, and the node has a  *)
(* proxy, by which the info came.                                          *)
LEMMA InfoOnWalk ==
  ASSUME Fed, IInv, events # <<>>, on_node_info(events[1]),
         events[1].ev = "info", events[1].props # NULL, EntryOf(events[1].proxy) # {},
         Hear, lost = Lost, lost' = Lost'
  PROVE  WindowNext
<1>. DEFINE d == events[1].props
<1>1. /\ SameNodes /\ events \in Seq(Event) /\ DOMAIN entries \subseteq Ids
      /\ UNCHANGED <<entries>>
  BY DEF Fed, Tables, on_node_info
<1>2. events[1] \in Event /\ 1 \in 1..Len(events)
  BY <1>1, Taken
<1>3. d \in Dicts /\ events[1].proxy \in Proxies
  BY <1>2 DEF Event
<1>4. PICK x \in EntryOf(events[1].proxy) : WalkInfo(x, d)
  BY DEF on_node_info
<1>5. x \in DOMAIN entries /\ entries[x] = events[1].proxy /\ x \in Ids
  BY <1>1, <1>4 DEF EntryOf
<1>6. Heard(1, x)
  BY <1>2, <1>5 DEF Heard, LeftBy
<1>7. Publishes(x, d) /\ x \in DOMAIN nodes
  BY <1>3, <1>5, <1>6, HeardIsPublished DEF IInv
<1>8. nodes' = Insert(nodes, x, NodeAfter(x, d))
  BY <1>4 DEF WalkInfo, InfoOrdinary, InfoNewSegment, InfoKnownSegment
<1>9. x \notin Lost
  BY <1>3, <1>5, PwAssumption DEF Lost, HasProxy
<1>. HIDE DEF d
<1>10. Lost' = Lost
  BY <1>1, <1>7, <1>8, LostKept DEF Insert
<1>11. NodeSpeaks(x, d)
  BY <1>4, <1>7, <1>9, <1>10 DEF NodeSpeaks
<1>. QED  BY <1>3, <1>5, <1>11 DEF WindowNext

(* on_registry_global_remove: with its entry the id is lost no longer.     *)
LEMMA GoneOnWalk ==
  ASSUME Fed, NEW e \in Event, e.ev = "gone", e.id \in DOMAIN entries,
         on_registry_global_remove(e), Hear, lost = Lost, lost' = Lost'
  PROVE  WindowNext
<1>. DEFINE x == e.id
<1>1. x \in Ids
  BY DEF Event
<1>2. WalkRemove(x) /\ entries' = Drop(entries, x)
  BY DEF on_registry_global_remove
<1>3. nodes' = Drop(nodes, x)
  BY <1>2 DEF WalkRemove, RemoveOrdinary, RemoveMember, RemoveLast
<1>. HIDE DEF x
<1>4. Lost' = Lost \ {x}
  <2>1. /\ DOMAIN nodes' = DOMAIN nodes \ {x} /\ DOMAIN entries' = DOMAIN entries \ {x}
        /\ \A y \in DOMAIN entries : y # x => entries'[y] = entries[y]
    BY <1>2, <1>3 DEF Drop
  <2>. QED  BY <2>1 DEF Lost, HasProxy
<1>5. NodeGoes(x)
  BY <1>2, <1>4 DEF NodeGoes
<1>. QED  BY <1>1, <1>5 DEF WindowNext

(* on_proxy_removed: the one entry the proxy has is left without.          *)
LEMMA RemovedOnWalk ==
  ASSUME Fed, NEW e \in Event, e.ev = "removed", EntryOf(e.proxy) # {},
         on_proxy_removed(e),
         gesture' = NULL, outcome' = NULL, writes' = {}, UNCHANGED uiVars,
         lost = Lost, lost' = Lost'
  PROVE  WindowNext
<1>. DEFINE p == e.proxy
<1>1. /\ SameNodes /\ OneEntry /\ p # NULL /\ DOMAIN entries \subseteq Ids
      /\ entries \in [DOMAIN entries -> Proxies \cup {NULL}]
      /\ UNCHANGED vars
  BY PwAssumption DEF Fed, Tables, Bindings, Event, on_proxy_removed
<1>2. PICK x \in DOMAIN entries : entries[x] = p
  BY DEF EntryOf
<1>3. entries' = [y \in DOMAIN entries |-> IF entries[y] = p THEN NULL ELSE entries[y]]
  BY DEF on_proxy_removed
<1>. HIDE DEF p
<1>4. \A y \in DOMAIN entries : entries[y] = p <=> y = x
  BY <1>1, <1>2 DEF OneEntry
<1>5. x \in DOMAIN nodes /\ x \in Ids /\ x \notin Lost
  BY <1>1, <1>2 DEF SameNodes, Lost, HasProxy
<1>6. Lost' = Lost \cup {x}
  <2>1. /\ DOMAIN entries' = DOMAIN entries /\ DOMAIN nodes' = DOMAIN nodes
        /\ entries'[x] = NULL /\ \A y \in DOMAIN entries : y # x => entries'[y] = entries[y]
    BY <1>1, <1>2, <1>3, <1>4 DEF vars
  <2>2. x \in Lost'
    BY <1>5, <2>1 DEF Lost, HasProxy
  <2>3. \A y : y # x => (y \in Lost' <=> y \in Lost)
    BY <1>1, <2>1 DEF Lost, HasProxy, SameNodes
  <2>. QED  BY <1>5, <2>2, <2>3
<1>7. Known(x)
  BY <1>5 DEF Known
<1>8. ProxyGoes(x)
  BY <1>1, <1>5, <1>6, <1>7 DEF ProxyGoes
<1>. QED  BY <1>5, <1>8 DEF WindowNext

-----------------------------------------------------------------------------
(* The steps of the session.                                               *)

(* The daemon's own steps, and the graph's, are none of the window's.      *)
LEMMA QuietOnWalk ==
  ASSUME UNCHANGED <<vars, entries, uiVars, stepVars>>, lost = Lost, lost' = Lost'
  PROVE  UNCHANGED windowVars
<1>1. Lost' = Lost
  BY LostKept DEF vars
<1>. QED  BY <1>1 DEF windowVars

LEMMA DispatchedOnWalk ==
  ASSUME ~BINDS_FAIL, PwInv, Dispatched, lost = Lost, lost' = Lost'
  PROVE  [WindowNext]_windowVars
<1>. DEFINE e == events[1]
<1>1. /\ IInv /\ Fed /\ SameNodes /\ events \in Seq(Event) /\ events # <<>>
      /\ e \in Event /\ Head(events) = e
  <2>1. IInv /\ Fed /\ SameNodes /\ events \in Seq(Event) /\ events # <<>>
    BY DEF PwInv, Fed, Tables, Dispatched, Dispatch
  <2>2. 1 \in 1..Len(events) /\ Head(events) = events[1]
    BY <2>1, Taken
  <2>. QED  BY <2>1, <2>2
<1>2. /\ \/ on_registry_global(e) \/ on_node_info(e)
         \/ on_proxy_removed(e) \/ on_registry_global_remove(e)
      /\ IF IsPassedOn(e) THEN Hear
         ELSE IF e.ev = "removed" /\ EntryOf(e.proxy) # {}
         THEN /\ gesture' = NULL /\ outcome' = NULL /\ writes' = {}
              /\ UNCHANGED uiVars
         ELSE UNCHANGED <<uiVars, stepVars>>
  BY <1>1 DEF Dispatched, Dispatch
<1>. HIDE DEF e
<1>3. ASSUME UNCHANGED <<vars, entries, uiVars, stepVars>>
      PROVE  UNCHANGED windowVars
  BY <1>3, QuietOnWalk
<1>4. CASE on_registry_global(e)
  <2>1. e.ev = "global"
    BY <1>4 DEF on_registry_global
  <2>2. CASE e.id \in DOMAIN entries
    <3>1. UNCHANGED <<vars, entries>>
      BY <1>4, <2>2 DEF on_registry_global
    <3>. QED  BY <1>2, <1>3, <2>1, <2>2, <3>1 DEF IsPassedOn
  <2>3. CASE e.id \notin DOMAIN entries
    <3>1. Hear
      BY <1>2, <2>1, <2>3 DEF IsPassedOn
    <3>. QED  BY <1>1, <1>4, <2>1, <2>3, <3>1, GlobalOnWalk
  <2>. QED  BY <2>2, <2>3
<1>5. CASE on_node_info(e)
  <2>1. e.ev = "info"
    BY <1>5 DEF on_node_info
  <2>2. CASE e.props = NULL \/ EntryOf(e.proxy) = {}
    <3>1. UNCHANGED <<vars, entries>>
      BY <1>5, <2>2 DEF on_node_info
    <3>. QED  BY <1>2, <1>3, <2>1, <2>2, <3>1 DEF IsPassedOn
  <2>3. CASE e.props # NULL /\ EntryOf(e.proxy) # {}
    <3>1. Hear
      BY <1>2, <2>1, <2>3 DEF IsPassedOn
    <3>. QED  BY <1>1, <1>5, <2>1, <2>3, <3>1, InfoOnWalk DEF e
  <2>. QED  BY <2>2, <2>3
<1>6. CASE on_proxy_removed(e)
  <2>1. e.ev = "removed" /\ ~IsPassedOn(e)
    BY <1>6 DEF on_proxy_removed, IsPassedOn
  <2>2. CASE EntryOf(e.proxy) = {}
    <3>1. UNCHANGED vars
      BY <1>6 DEF on_proxy_removed
    <3>2. entries' = entries
      <4>1. entries \in [DOMAIN entries -> Proxies \cup {NULL}]
        BY <1>1 DEF Fed, Tables
      <4>2. \A y \in DOMAIN entries : entries[y] # e.proxy
        BY <2>2 DEF EntryOf
      <4>. QED  BY <1>6, <4>1, <4>2 DEF on_proxy_removed
    <3>. QED  BY <1>2, <1>3, <2>1, <2>2, <3>1, <3>2
  <2>3. CASE EntryOf(e.proxy) # {}
    BY <1>1, <1>2, <1>6, <2>1, <2>3, RemovedOnWalk
  <2>. QED  BY <2>2, <2>3
<1>7. CASE on_registry_global_remove(e)
  <2>1. e.ev = "gone"
    BY <1>7 DEF on_registry_global_remove
  <2>2. CASE e.id \notin DOMAIN entries
    <3>1. UNCHANGED <<vars, entries>>
      BY <1>7, <2>2 DEF on_registry_global_remove
    <3>. QED  BY <1>2, <1>3, <2>1, <2>2, <3>1 DEF IsPassedOn
  <2>3. CASE e.id \in DOMAIN entries
    <3>1. Hear
      BY <1>2, <2>1, <2>3 DEF IsPassedOn
    <3>. QED  BY <1>1, <1>7, <2>1, <2>3, <3>1, GoneOnWalk
  <2>. QED  BY <2>2, <2>3
<1>. QED  BY <1>2, <1>4, <1>5, <1>6, <1>7

(* Whatever a gesture hands to the client, the window does what it does.   *)
LEMMA GestureOnWalk ==
  ASSUME NEW i \in 1..Len(rows), Gesture(i)
  PROVE  WindowNext
BY DEF Gesture, WindowNext

LEMMA SessionStepOnWalk ==
  ASSUME ~BINDS_FAIL, PwInv, lost = Lost, [SessionNext]_sessionVars
  PROVE  lost' = Lost' /\ [WindowNext]_windowVars
<1>0. CASE UNCHANGED sessionVars
  <2>1. UNCHANGED <<nodes, entries, lost, windowVars>>
    BY <1>0 DEF sessionVars, pwVars, windowVars, vars
  <2>. QED  BY <2>1, LostKept
<1>. SUFFICES ASSUME SessionNext, lost' = Lost'
              PROVE  [WindowNext]_windowVars
  BY <1>0 DEF SessionNext
<1>1. CASE Graph
  <2>1. UNCHANGED <<vars, entries, uiVars, stepVars>>
    BY <1>1 DEF Graph, GraphChanges, NodeAppears, NodePublishes, NodeStirs, NodeLeaves
  <2>. QED  BY <2>1, QuietOnWalk
<1>2. CASE Served
  <2>1. UNCHANGED <<vars, entries, uiVars, stepVars>>
    BY <1>2 DEF Served, Serve
  <2>. QED  BY <2>1, QuietOnWalk
<1>3. CASE Dispatched
  BY <1>3, DispatchedOnWalk
<1>4. CASE \E i \in 1..Len(rows) : Gesture(i)
  BY <1>4, GestureOnWalk
<1>5. CASE \E seg \in Elements(sidebar) \cup {NULL} : Selects(seg)
  BY <1>5 DEF Selects, WindowNext
<1>. QED  BY <1>1, <1>2, <1>3, <1>4, <1>5 DEF SessionNext

(* The client keeps its invariant whatever the operator writes, and to     *)
(* whichever box, and asks for nothing but what the page's controls offer. *)
LEMMA GestureWrites ==
  ASSUME TypeInv, NEW i \in 1..Len(rows), Gesture(i), NEW w \in writes'
  PROVE  /\ w[2] \in Offered
         /\ \E p \in Params : \E value : w = <<i, p, value>> /\ rows[i][p] # NULL
<1>1. rows \in Seq(Row) /\ RowsOffered(rows)
  BY DEF TypeInv, PageTyped
<1>2. ASSUME NEW p \in Params, NEW value, NEW moved, rows[i][p] # NULL,
             write_cell(i, p, value, moved)
      PROVE  p \in Offered /\ w = <<i, p, value>>
  <2>1. CASE outcome' = "sent"
    BY <1>1, <1>2, <2>1 DEF write_cell, RowsOffered
  <2>2. CASE outcome' # "sent"
    BY <1>2, <2>2 DEF write_cell, put_back, sync_content, syncing
  <2>. QED  BY <2>1, <2>2
<1>3. CASE \E p \in {"phantom", "pad"} : Toggle(i, p)
  <2>1. PICK p \in {"phantom", "pad"} : Toggle(i, p)
    BY <1>3
  <2>2. p \in Params
    BY DEF Params
  <2>. QED  BY <1>2, <2>1, <2>2 DEF Toggle
<1>4. CASE rows[i].sens # NULL /\ \E dbu \in rows[i].sens.low..rows[i].sens.high : Slide(i, dbu)
  <2>1. rows[i]["sens"] # NULL /\ "sens" \in Params
    BY <1>4 DEF Params
  <2>. QED  BY <1>2, <1>4, <2>1 DEF Slide
<1>. QED  BY <1>3, <1>4 DEF Gesture

LEMMA GestureKeepsInv ==
  ASSUME PwInv, TypeInv, NEW i \in 1..Len(rows), Gesture(i)
  PROVE  \/ UNCHANGED pwVars
         \/ PwInv' /\ Asked' \subseteq Asked \cup Settings(Offered)
<1>1. UNCHANGED <<vars, entries>>
  BY DEF Gesture, Toggle, Slide, vars
<1>2. CASE UNCHANGED <<requests, serverVars, events>>
  BY <1>1, <1>2 DEF pwVars
<1>3. CASE \E w \in writes' : write_headamp(selected, w[1], w[2], w[3])
  <2>1. PICK w \in writes' : write_headamp(selected, w[1], w[2], w[3])
    BY <1>3
  <2>2. IInv /\ Fed /\ SameNodes /\ WritesReachTheirSegment /\ Tables
    BY DEF PwInv, Fed
  <2>3. selected \in Segments
    BY <2>1, <2>2 DEF write_headamp, IInv, TypeOK
  <2>4. Tables' /\ Feed' /\ Bindings' /\ WritesReachTheirSegment'
    BY <2>1, <2>2, <2>3, WriteStep
  <2>5. Asked' \subseteq Asked \cup Settings(Offered)
    BY <2>1, <2>2, GestureWrites, WriteAsks
  <2>. QED  BY <1>1, <2>2, <2>4, <2>5, WalkUntouched DEF PwInv, Fed
<1>. QED  BY <1>2, <1>3 DEF Gesture

(* What holds of a session: the client's invariant and the window's, the   *)
(* proxies the window does not find are those that are gone, and the       *)
(* writes under way are of controls some box has.                          *)
AsksOffered == Asked \subseteq Settings(Offered)

SessionInv == PwInv /\ TypeInv /\ lost = Lost /\ AsksOffered

LEMMA SessionNextInv ==
  ASSUME ~BINDS_FAIL, SteadyGraph, AnswersPublish(Offered),
         SessionInv, [SessionNext]_sessionVars
  PROVE  SessionInv' /\ [WindowNext]_windowVars
<1>1. PwInv /\ TypeInv /\ lost = Lost /\ AsksOffered /\ Tables
  BY DEF SessionInv, PwInv, Fed
<1>2. lost' = Lost' /\ [WindowNext]_windowVars
  BY <1>1, SessionStepOnWalk
<1>3. TypeInv'
  BY <1>1, <1>2, TypeInvNext
<1>4. [PwNext]_pwVars => PwInv'
  BY <1>1, AskedFit, PwNextInv DEF AsksOffered
<1>5. PwInv' /\ AsksOffered'
  <2>1. CASE Graph \/ Served \/ Dispatched
    <3>1. GraphChanges \/ Serve \/ Dispatch
      BY <2>1 DEF Graph, Served, Dispatched
    <3>2. Asked' \subseteq Asked
      BY <1>1, <3>1, OthersAskNothing
    <3>. QED  BY <1>1, <1>4, <3>1, <3>2 DEF PwNext, AsksOffered
  <2>2. CASE UNCHANGED pwVars
    BY <1>1, <1>4, <2>2 DEF pwVars, AsksOffered, Asked, Writes
  <2>3. CASE \E i \in 1..Len(rows) : Gesture(i)
    BY <1>1, <2>2, <2>3, GestureKeepsInv DEF AsksOffered
  <2>4. CASE \E seg \in Elements(sidebar) \cup {NULL} : Selects(seg)
    BY <2>2, <2>4 DEF Selects
  <2>5. CASE UNCHANGED sessionVars
    BY <2>2, <2>5 DEF sessionVars
  <2>. QED  BY <2>1, <2>3, <2>4, <2>5 DEF SessionNext
<1>. QED  BY <1>2, <1>3, <1>5 DEF SessionInv

LEMMA SessionInitInv == SessionInit => SessionInv
<1>. SUFFICES ASSUME SessionInit  PROVE SessionInv
  OBVIOUS
<1>1. PwInv
  BY PwInitInv DEF SessionInit
<1>2. TypeInv
  BY TypeInvInit DEF SessionInit
<1>3. lost = Lost
  BY DEF SessionInit, WindowInit, Init, Lost
<1>4. AsksOffered
  BY DEF SessionInit, PwInit, AsksOffered, Asked, Writes
<1>. QED  BY <1>1, <1>2, <1>3, <1>4 DEF SessionInv

(* What the client feeds its walk and writes stays right with a window on  *)
(* it: a write of any gesture reaches the segment it was made for.         *)
THEOREM SessionInvariant ==
  ASSUME ~BINDS_FAIL, SteadyGraph, AnswersPublish(Offered)
  PROVE  SessionSpec => []SessionInv
<1>1. SessionInv /\ [SessionNext]_sessionVars => SessionInv'
  BY SessionNextInv
<1>. QED  BY <1>1, SessionInitInv, PTL DEF SessionSpec

(* The window over a connection is the window on the walk: rs-pw.c's on_*  *)
(* callbacks delay what the window hears and reorder nothing of it, so     *)
(* what holds of RsWindow whatever the graph does holds of the session.    *)
THEOREM SessionWindowOnWalk ==
  ASSUME ~BINDS_FAIL, SteadyGraph, AnswersPublish(Offered)
  PROVE  SessionSpec => WindowOnWalk
<1>1. SessionInit => WindowInit
  BY DEF SessionInit
<1>2. SessionInv /\ [SessionNext]_sessionVars => [WindowNext]_windowVars
  BY SessionNextInv
<1>3. [WindowNext]_windowVars => [UNCHANGED windowVars \/ WindowNext]_windowVars
  OBVIOUS
<1>. QED  BY <1>1, <1>2, <1>3, SessionInvariant, PTL DEF SessionSpec, WindowOnWalk

(* So over a connection too nothing is written but what the operator has   *)
(* just moved, every row is that of the box selected, and what it shows is *)
(* the readback unless a write of it is waited for.                        *)
THEOREM SessionPage ==
  ASSUME ~BINDS_FAIL, SteadyGraph, AnswersPublish(Offered), CapsGoWithCount
  PROVE  SessionSpec => [](SelectedIsListed /\ NoEcho /\ PageFitsBox /\ PageShowsReadback)
<1>1. [UNCHANGED windowVars \/ WindowNext]_windowVars => [WindowNext]_windowVars
  OBVIOUS
<1>. QED
  BY <1>1, SessionWindowOnWalk, WindowSelectedIsListed, WindowNoEcho, WindowPageFitsBox,
     WindowPageShowsReadback, PTL DEF WindowOnWalk, WindowSpec
-----------------------------------------------------------------------------
(* Why no row waits for ever, with a daemon that accepts what it is sent.  *)
(* NothingWaits speaks of rest alone; the invariant behind it speaks of    *)
(* what is under way: while a write is waited for, something is on its way *)
(* that will end the wait.                                                 *)

(* What will end the wait for a write to the box, whose door is n: that n  *)
(* leaves, an info of n by which the box becomes another, or a write that  *)
(* sets a cell to something else than the box has it at.                   *)
SomeAnswer(n, box) ==
  \/ Leaving(n)
  \/ \E d \in Dicts : Queued(Info(entries[n], d)) /\ update_from_dict(box, d) # box
  \/ \E k \in Writes :
       /\ requests[k].proxy = entries[n]
       /\ cell_lookup(box.cells, requests[k].key[1], requests[k].key[2]) # requests[k].value

WaitsForAnswer ==
  page = "page" /\ pending_input # -1 =>
    SomeAnswer(segments[selected].box.id, segments[selected].box)

(* The proxy of an entry is bound, or its bind is under way, or the node   *)
(* it was bound to has left.                                               *)
HeldIsBound ==
  \A x \in DOMAIN entries :
    entries[x] # NULL =>
      \/ entries[x] \in DOMAIN resources
      \/ \E k \in 1..Len(requests) : requests[k] = Bind(x, entries[x])
      \/ Leaving(x)

(* What a node says of a cell of the wire, and what a box reads of it.     *)

Says(d, key, v) ==
  /\ "asserted" \in DOMAIN d
  /\ \E i \in formed(d.asserted) :
       d.asserted[i] = [ch |-> key[1], param |-> param_from_name(key[2]), value |-> v]

LEMMA CellTells ==
  ASSUME NamesOnce, NEW d \in Dicts, NEW key, NEW v, Says(d, key, v)
  PROVE  cell_lookup(asserted_parse(d.asserted, N_CELLS), key[1], key[2]) = v
<1>l. PICK list : list = d.asserted
  OBVIOUS
<1>c. PICK cells : cells = asserted_parse(list, N_CELLS)
  OBVIOUS
<1>1. d \in With("asserted") /\ list \in Seq(AnyCell)
  BY <1>l, BoxAssumption DEF Says, With
<1>2. PICK i \in formed(list) :
        list[i] = [ch |-> key[1], param |-> param_from_name(key[2]), value |-> v]
  BY <1>l DEF Says
<1>3. list[i].ch = key[1] /\ list[i].param = param_from_name(key[2]) /\ list[i].value = v
  BY <1>2
<1>4. \A j, k \in formed(list) :
        list[j].ch = list[k].ch /\ list[j].param = list[k].param => j = k
  BY <1>1, <1>l DEF NamesOnce
<1>5. /\ cells \in Seq(AnyCell)
      /\ \A k \in 1..Len(cells) : \E j \in formed(list) : cells[k] = list[j]
      /\ \A j \in formed(list) : \E k \in 1..Len(cells) : cells[k] = list[j]
  <2>1. list \in Seq(AnyCell)
    BY <1>1
  <2>. QED  BY <1>4, <1>c, <2>1, AllParsed, SMTT(30)
<1>6. PICK k \in 1..Len(cells) : cells[k] = list[i]
  BY <1>5
<1>7. k \in cells_of(cells, key[1], key[2])
  BY <1>3, <1>6 DEF cells_of
<1>8. \A j \in cells_of(cells, key[1], key[2]) : cells[j].value = v
  <2>. TAKE j \in cells_of(cells, key[1], key[2])
  <2>1. j \in 1..Len(cells) /\ cells[j].ch = list[i].ch /\ cells[j].param = list[i].param
    BY <1>3 DEF cells_of
  <2>2. PICK m \in formed(list) : cells[j] = list[m]
    BY <1>5, <2>1
  <2>. QED  BY <1>2, <1>3, <1>4, <2>1, <2>2
<1>. QED  BY <1>5, <1>7, <1>8, <1>c, <1>l, LookupCell

(* The daemon's table with a cell set says it, and of the others what it   *)
(* said before.                                                            *)
LEMMA ShadowSays ==
  ASSUME NEW d \in Dicts, NEW r \in WriteRequest
  PROVE  /\ Says(Accepting(d, r), r.key, r.value)
         /\ \A key \in (0..(MAX_CH - 1)) \X Params : \A v :
              key # r.key /\ Says(d, key, v) => Says(Accepting(d, r), key, v)
<1>. DEFINE Cell(key, v) == [ch |-> key[1], param |-> param_from_name(key[2]), value |-> v]
            now == IF "asserted" \in DOMAIN d THEN d.asserted ELSE <<>>
            told == Accepting(d, r)
<1>0. PICK cell : cell = Cell(r.key, r.value)
  OBVIOUS
<1>1. r.key \in (0..(MAX_CH - 1)) \X Params /\ r.value \in Byte
  BY DEF WriteRequest
<1>2. r.key[1] \in 0..(MAX_CH - 1) /\ r.key[2] \in Params
  BY <1>1
<1>3. param_from_name(r.key[2]) \in 0..(NPARAMS - 1)
  BY <1>2, ParamNamed
<1>4. CellOK(cell) /\ cell \in AnyCell
  BY <1>0, <1>1, <1>2, <1>3, HeadampAssumption DEF CellOK, AnyCell, NPARAMS, Byte
<1>l. PICK list : list = Shadow(now, cell)
  OBVIOUS
<1>5. "asserted" \in DOMAIN told /\ told.asserted = list
  BY <1>0, <1>l DEF Accepting, Insert
<1>6. now \in Seq(AnyCell)
  BY BoxAssumption
<1>7. \A key, v : Says(d, key, v) => \E i \in 1..Len(now) : CellOK(now[i]) /\ now[i] = Cell(key, v)
  BY DEF Says, formed
<1>. HIDE DEF now, told, Cell
<1>. DEFINE same == {k \in 1..Len(now) : now[k].ch = cell.ch /\ now[k].param = cell.param}
<1>8. /\ \E i \in 1..Len(list) : list[i] = cell
      /\ \A i \in 1..Len(now) : i \notin same => i \in 1..Len(list) /\ list[i] = now[i]
  <2>1. CASE same = {}
    <3>1. list = Append(now, cell)
      BY <1>l, <2>1 DEF Shadow
    <3>2. Len(now) + 1 \in 1..Len(list) /\ list[Len(now) + 1] = cell
      BY <1>4, <1>6, <3>1
    <3>3. \A i \in 1..Len(now) : i \in 1..Len(list) /\ list[i] = now[i]
      BY <1>4, <1>6, <3>1
    <3>. QED  BY <3>2, <3>3
  <2>2. CASE same # {}
    <3>1. list = [k \in 1..Len(now) |-> IF k \in same THEN cell ELSE now[k]]
      BY <1>l, <2>2 DEF Shadow
    <3>2. PICK k \in 1..Len(now) : k \in same
      BY <2>2
    <3>. HIDE DEF same
    <3>3. Len(now) \in Nat
      BY <1>6
    <3>4. Len(list) = Len(now)
      BY <3>1, <3>3
    <3>. QED  BY <3>1, <3>2, <3>4
  <2>. QED  BY <2>1, <2>2
<1>9. Says(told, r.key, r.value)
  BY <1>0, <1>4, <1>5, <1>8 DEF Says, formed, Cell
<1>10. ASSUME NEW key \in (0..(MAX_CH - 1)) \X Params, NEW v, key # r.key, Says(d, key, v)
       PROVE  Says(told, key, v)
  <2>1. PICK i \in 1..Len(now) : CellOK(now[i]) /\ now[i] = Cell(key, v)
    BY <1>7, <1>10
  <2>2. /\ now[i].ch = key[1] /\ now[i].param = param_from_name(key[2])
        /\ cell.ch = r.key[1] /\ cell.param = param_from_name(r.key[2])
    BY <1>0, <2>1 DEF Cell
  <2>3. key[1] # r.key[1] \/ key[2] # r.key[2]
    BY <1>1, <1>10
  <2>4. i \notin same
    BY <1>2, <1>10, <2>2, <2>3, ParamNamed
  <2>5. i \in 1..Len(list) /\ list[i] = now[i]
    BY <1>8, <2>4
  <2>. QED  BY <1>5, <2>1, <2>5 DEF Says, formed, Cell
<1>. QED  BY <1>9, <1>10 DEF told

(* Where the daemon stamps what it makes of a write, the box reads back    *)
(* the value that was written.                                             *)
LEMMA ShadowTells ==
  ASSUME NamesOnce, NEW d \in Dicts, NEW r \in Request, r.op = "write",
         Accepting(d, r) \in Dicts, NEW ids, NEW segs, NEW box \in Box(ids, segs)
  PROVE  cell_lookup(update_from_dict(box, Accepting(d, r)).cells, r.key[1], r.key[2])
           = r.value
<1>d. PICK told : told = Accepting(d, r)
  OBVIOUS
<1>1. r \in WriteRequest
  BY DEF Request
<1>2. told \in Dicts /\ Says(told, r.key, r.value)
  BY <1>1, <1>d, ShadowSays
<1>3. update_from_dict(box, told).cells = asserted_parse(told.asserted, N_CELLS)
  <2>1. take_cells(box.cells, told) = asserted_parse(told.asserted, N_CELLS)
    BY <1>2 DEF Says, take_cells, take
  <2>. QED  BY <2>1 DEF update_from_dict, Box
<1>. QED  BY <1>2, <1>3, <1>d, CellTells

LEMMA OneBehind ==
  ASSUME NEW S, NEW s \in Seq(S), NEW f \in S
  PROVE  <<f>> \in Seq(S) /\ Append(s, f) = s \o <<f>>
OBVIOUS

(* Whatever the graph and the server say comes behind what is under way.   *)
LEMMA ServerKeepsQueued ==
  ASSUME Tables, AnswersFit, GraphChanges \/ Serve, NEW e, Queued(e)
  PROVE  Queued(e)'
<1>1. events \in Seq(Event) /\ requests \in Seq(Request)
      /\ DOMAIN graph \subseteq Ids /\ graph \in [DOMAIN graph -> Dicts]
  BY DEF Tables
<1>2. ASSUME NEW u \in Seq(Event), events' = events \o u
      PROVE  Queued(e)'
  BY <1>1, <1>2, Behind
<1>3. ASSUME NEW f \in Event, events' = Append(events, f)
      PROVE  Queued(e)'
  <2>1. <<f>> \in Seq(Event) /\ Append(events, f) = events \o <<f>>
    BY <1>1, OneBehind
  <2>. QED  BY <1>2, <1>3, <2>1
<1>4. ASSUME NEW id \in Ids, NEW d \in Dicts, Stamp(id, d)
      PROVE  Queued(e)'
  <2>1. PICK o \in InSomeOrder(BoundTo(id)) :
          events' = events \o [k \in 1..Len(o) |-> Info(o[k], d)]
    BY <1>4 DEF Stamp
  <2>2. [k \in 1..Len(o) |-> Info(o[k], d)] \in Seq(Event)
    BY ToldEach
  <2>. QED  BY <1>2, <2>1, <2>2
<1>5. CASE \E id \in Ids, d \in NodeDicts : NodeAppears(id, d)
  <2>1. PICK id \in Ids, d \in NodeDicts : NodeAppears(id, d)
    BY <1>5
  <2>2. Global(id, MediaClass(d)) \in Event
    BY ClassAssumption DEF Global, Event
  <2>. QED  BY <1>3, <2>1, <2>2 DEF NodeAppears
<1>6. CASE \E id \in Ids, d \in NodeDicts : NodePublishes(id, d)
  BY <1>4, <1>6, PwAssumption DEF NodePublishes
<1>7. CASE \E id \in Ids : NodeStirs(id)
  <2>1. PICK id \in Ids : NodeStirs(id)
    BY <1>7
  <2>2. PICK o \in InSomeOrder(BoundTo(id)) :
          events' = events \o [k \in 1..Len(o) |-> Info(o[k], NULL)]
    BY <2>1 DEF NodeStirs
  <2>3. [k \in 1..Len(o) |-> Info(o[k], NULL)] \in Seq(Event)
    BY ToldEach, NULL \in Dicts \cup {NULL}
  <2>. QED  BY <1>2, <2>2, <2>3
<1>8. CASE \E id \in Ids : NodeLeaves(id)
  BY <1>2, <1>8, LeavesTell
<1>9. CASE Serve
  <2>. DEFINE r == requests[1]
  <2>1. requests # <<>> /\ requests' = Tail(requests)
        /\ (ServeBind(Head(requests)) \/ ServeSync(Head(requests)) \/ ServeWrite(Head(requests)))
    BY <1>9 DEF Serve
  <2>2. r \in Request /\ 1 \in 1..Len(requests) /\ Head(requests) = r
    BY <1>1, <2>1, RequestTaken
  <2>3. events' = events => Queued(e)'
    BY DEF Queued
  <2>4. CASE ServeBind(r)
    <3>1. r.proxy \in Proxies
      BY <2>2, <2>4 DEF ServeBind, Request, WriteRequest
    <3>2. Removed(r.proxy) \in Event
      BY <3>1 DEF Removed, Event
    <3>3. r.id \in DOMAIN graph => Info(r.proxy, graph[r.id]) \in Event
      BY <1>1, <3>1 DEF Info, Event
    <3>. HIDE DEF r
    <3>. QED  BY <1>3, <2>3, <2>4, <3>2, <3>3 DEF ServeBind
  <2>5. CASE ServeSync(r)
    <3>1. Done(r.seq) \in Event
      BY <2>2, <2>5 DEF ServeSync, Request, WriteRequest, Done, Event
    <3>. QED  BY <1>3, <2>5, <3>1 DEF ServeSync
  <2>6. CASE ServeWrite(r)
    <3>1. 1 \in Writes
      BY <2>2, <2>6 DEF ServeWrite, Writes
    <3>2. \A id \in Addressed(r) :
            /\ id \in Ids
            /\ "accept" \in ANSWERS => Accepting(graph[id], r) \in Dicts
            /\ "refuse" \in ANSWERS => Refusing(graph[id]) \in Dicts
      BY <1>1, <3>1 DEF Addressed, AnswersFit
    <3>. HIDE DEF r
    <3>. QED  BY <1>4, <2>3, <2>6, <3>2 DEF ServeWrite
  <2>. QED  BY <2>1, <2>2, <2>4, <2>5, <2>6
<1>. QED  BY <1>5, <1>6, <1>7, <1>8, <1>9 DEF GraphChanges

(* The request at k is behind another one no longer, and not yet taken.    *)
LEMMA RequestMoves ==
  ASSUME Tables, Serve, NEW k \in 1..Len(requests), k # 1
  PROVE  \E j \in 1..Len(requests') : requests'[j] = requests[k]
<1>1. requests \in Seq(Request) /\ requests # <<>> /\ requests' = Tail(requests)
  BY DEF Tables, Serve
<1>. QED  BY <1>1, TailElements

(* The daemon serves: a write it takes is answered by an info of what it   *)
(* makes of it, or was made to a node that is leaving.                     *)
LEMMA ServedIsAnswered ==
  ASSUME NamesOnce, ANSWERS = {"accept"}, AnswersFit, Fed, HeldIsBound, Serve,
         NEW n \in DOMAIN nodes, nodes[n].segment # NULL,
         NEW ids, NEW segs, NEW box \in Box(ids, segs), SomeAnswer(n, box)
  PROVE  SomeAnswer(n, box)'
<1>1. /\ Tables /\ SameNodes /\ Bindings /\ n \in DOMAIN entries
      /\ requests \in Seq(Request) /\ DOMAIN entries \subseteq Ids
      /\ entries \in [DOMAIN entries -> Proxies \cup {NULL}]
      /\ graph \in [DOMAIN graph -> Dicts] /\ DOMAIN graph \subseteq Ids
  BY DEF Fed, Tables, SameNodes
<1>2. /\ UNCHANGED entries
      /\ \A e : Queued(e) => Queued(e)'
  BY <1>1, ServerKeepsQueued DEF Serve
<1>3. Leaving(n) => Leaving(n)'
  BY <1>2 DEF Leaving
<1>4. CASE Leaving(n)
  BY <1>3, <1>4 DEF SomeAnswer
<1>5. CASE \E d \in Dicts : Queued(Info(entries[n], d)) /\ update_from_dict(box, d) # box
  BY <1>2, <1>5 DEF SomeAnswer
<1>6. ASSUME NEW k \in Writes, requests[k].proxy = entries[n],
             cell_lookup(box.cells, requests[k].key[1], requests[k].key[2]) # requests[k].value
      PROVE  SomeAnswer(n, box)'
  <2>1. k \in 1..Len(requests) /\ requests[k].op = "write"
    BY <1>6 DEF Writes
  <2>2. CASE k # 1
    <3>1. PICK j \in 1..Len(requests') : requests'[j] = requests[k]
      BY <1>1, <2>1, <2>2, RequestMoves
    <3>2. j \in Writes'
      BY <2>1, <3>1 DEF Writes
    <3>. QED  BY <1>2, <1>6, <3>1, <3>2 DEF SomeAnswer
  <2>3. CASE k = 1
    <3>p. PICK p : p = entries[n]
      OBVIOUS
    <3>r. PICK r : r = requests[1]
      OBVIOUS
    <3>1. requests # <<>> /\ requests' = Tail(requests)
          /\ (ServeBind(Head(requests)) \/ ServeSync(Head(requests)) \/ ServeWrite(Head(requests)))
      BY DEF Serve
    <3>2. Head(requests) = r /\ r \in Request /\ r.op = "write" /\ r.proxy = p
      BY <1>1, <1>6, <2>1, <2>3, <3>p, <3>r, <3>1, RequestTaken
    <3>3. r \in WriteRequest
      BY <3>2 DEF Request
    <3>4. p \in Proxies /\ p # NULL /\ p \in Held
      <4>1. p \in Proxies /\ p # NULL
        BY <3>2, <3>3, PwAssumption DEF WriteRequest
      <4>. QED  BY <1>1, <3>p, <4>1 DEF Held
    <3>5. ServeWrite(r)
      BY <3>1, <3>2 DEF ServeBind, ServeSync
    <3>6. CASE Leaving(n)
      BY <1>4, <3>6
    <3>7. CASE \E j \in 1..Len(requests) : requests[j] = Bind(n, p)
      BY <1>1, <3>p, <3>4, <3>7 DEF Bindings, BindsToCome
    <3>8. CASE p \in DOMAIN resources
      <4>1. resources[p] = n /\ n \in DOMAIN graph
        BY <1>1, <3>p, <3>4, <3>8 DEF Bindings, BoundIsHeld, OneEntry
      <4>2. p \in BoundTo(n)
        BY <3>8, <4>1 DEF BoundTo
      <4>3. n \in Addressed(r) /\ \A id \in Addressed(r) : id = n
        BY <3>2, <4>1, <4>2 DEF Addressed, BoundTo
      <4>4. Stamp(n, Accepting(graph[n], r))
        BY <3>5, <4>3 DEF ServeWrite
      <4>d. PICK d : d = Accepting(graph[n], r)
        OBVIOUS
      <4>5. d \in Dicts /\ graph[n] \in Dicts
        <5>1. 1 \in Writes /\ r = requests[1]
          BY <1>6, <2>3, <3>r
        <5>. QED  BY <1>1, <4>1, <4>d, <5>1 DEF AnswersFit
      <4>6. cell_lookup(update_from_dict(box, d).cells, r.key[1], r.key[2]) = r.value
        BY <3>2, <4>d, <4>5, ShadowTells
      <4>7. update_from_dict(box, d) # box
        BY <1>6, <2>3, <3>r, <4>6
      <4>8. Queued(Info(p, d))'
        <5>1. PICK o \in InSomeOrder(BoundTo(n)) :
                events' = events \o [j \in 1..Len(o) |-> Info(o[j], d)]
          BY <4>4, <4>d DEF Stamp
        <5>. DEFINE u == [j \in 1..Len(o) |-> Info(o[j], d)]
        <5>2. d \in Dicts \cup {NULL}
          BY <4>5
        <5>3. /\ u \in Seq(Event)
              /\ Elements(u) = {Info(q, d) : q \in BoundTo(n)}
          <6>1. Tables /\ o \in InSomeOrder(BoundTo(n))
            BY <1>1, <5>1
          <6>. QED  BY <5>2, <6>1, ToldEach, ZenonT(30)
        <5>. HIDE DEF u
        <5>4. Info(p, d) \in Elements(u)
          BY <4>2, <5>3
        <5>5. events' = events \o u
          BY <5>1 DEF u
        <5>. QED  BY <1>1, <5>3, <5>4, <5>5, Behind DEF Tables
      <4>. QED  BY <1>2, <3>p, <4>5, <4>7, <4>8 DEF SomeAnswer
    <3>. QED  BY <1>1, <3>p, <3>4, <3>6, <3>7, <3>8 DEF HeldIsBound
  <2>. QED  BY <2>2, <2>3
<1>. QED  BY <1>4, <1>5, <1>6 DEF SomeAnswer

(* The graph changes: what is under way still is.                          *)
LEMMA ChangedIsAnswered ==
  ASSUME AnswersFit, Tables, GraphChanges, NEW n, NEW box, SomeAnswer(n, box)
  PROVE  SomeAnswer(n, box)'
<1>1. /\ UNCHANGED <<entries, requests>>
      /\ \A e : Queued(e) => Queued(e)'
  BY ServerKeepsQueued
     DEF GraphChanges, NodeAppears, NodePublishes, NodeStirs, NodeLeaves
<1>2. Writes' = Writes
  BY <1>1 DEF Writes
<1>. QED  BY <1>1, <1>2 DEF SomeAnswer, Leaving

-----------------------------------------------------------------------------
(* What the client does to its own queue and entries.                      *)

(* The client drops no request and moves no entry to another proxy.        *)
LEMMA DispatchKeeps ==
  ASSUME ~BINDS_FAIL, Tables, Dispatch
  PROVE  /\ events # <<>> /\ events' = Tail(events)
         /\ \A k \in 1..Len(requests) : k \in 1..Len(requests') /\ requests'[k] = requests[k]
         /\ \A x \in DOMAIN entries \cap DOMAIN entries' :
              /\ entries'[x] \in {entries[x], NULL} /\ events[1] # Gone(x)
         /\ \A x \in DOMAIN entries' \ DOMAIN entries :
              \E k \in 1..Len(requests') : requests'[k] = Bind(x, entries'[x])
<1>. DEFINE e == events[1]
<1>1. /\ events \in Seq(Event) /\ requests \in Seq(Request)
      /\ entries \in [DOMAIN entries -> Proxies \cup {NULL}]
  BY DEF Tables
<1>2. /\ events # <<>> /\ events' = Tail(events) /\ Head(events) = e
      /\ \/ on_registry_global(e) \/ on_node_info(e)
         \/ on_proxy_removed(e) \/ on_registry_global_remove(e)
  BY <1>1, Taken DEF Dispatch
<1>. HIDE DEF e
<1>3. requests' = requests =>
        \A k \in 1..Len(requests) : k \in 1..Len(requests') /\ requests'[k] = requests[k]
  OBVIOUS
<1>4. CASE on_registry_global(e)
  <2>1. e.ev = "global" /\ \A x : e # Gone(x)
    BY <1>4 DEF on_registry_global, Gone
  <2>2. CASE e.id \in DOMAIN entries
    BY <1>2, <1>3, <1>4, <2>1, <2>2 DEF on_registry_global, e
  <2>3. CASE e.id \notin DOMAIN entries
    <3>1. PICK p \in Proxies : entries' = Insert(entries, e.id, p)
                               /\ requests' = Append(requests, Bind(e.id, p))
      BY <1>4, <2>3 DEF on_registry_global
    <3>2. /\ DOMAIN entries' = DOMAIN entries \cup {e.id} /\ entries'[e.id] = p
          /\ \A x \in DOMAIN entries : entries'[x] = entries[x]
      BY <2>3, <3>1 DEF Insert
    <3>3. /\ \A k \in 1..Len(requests) : k \in 1..Len(requests') /\ requests'[k] = requests[k]
          /\ Len(requests) + 1 \in 1..Len(requests')
          /\ requests'[Len(requests) + 1] = Bind(e.id, p)
      BY <1>1, <3>1
    <3>. QED  BY <1>2, <2>1, <3>2, <3>3 DEF e
  <2>. QED  BY <2>2, <2>3
<1>5. CASE on_node_info(e)
  <2>1. \A x : e # Gone(x)
    BY <1>5 DEF on_node_info, Gone
  <2>. QED  BY <1>2, <1>3, <1>5, <2>1 DEF on_node_info, e
<1>6. CASE on_proxy_removed(e)
  <2>1. \A x : e # Gone(x)
    BY <1>6 DEF on_proxy_removed, Gone
  <2>. QED  BY <1>2, <1>3, <1>6, <2>1 DEF on_proxy_removed, e
<1>7. CASE on_registry_global_remove(e)
  <2>1. CASE e.id \notin DOMAIN entries
    <3>1. \A x \in DOMAIN entries : e # Gone(x)
      BY <2>1 DEF Gone
    <3>. QED  BY <1>2, <1>3, <1>7, <2>1, <3>1 DEF on_registry_global_remove, e
  <2>2. CASE e.id \in DOMAIN entries
    <3>1. entries' = Drop(entries, e.id) /\ requests' = requests
      BY <1>7, <2>2 DEF on_registry_global_remove
    <3>2. \A x \in DOMAIN entries' : x \in DOMAIN entries /\ entries'[x] = entries[x] /\ x # e.id
      BY <3>1 DEF Drop
    <3>3. \A x : x # e.id => e # Gone(x)
      BY DEF Gone
    <3>. QED  BY <1>2, <1>3, <3>1, <3>2, <3>3 DEF e
  <2>. QED  BY <2>1, <2>2
<1>. QED  BY <1>2, <1>4, <1>5, <1>6, <1>7

(* What is bound stays bound, but for the proxy of an entry that goes.     *)
LEMMA DispatchKeepsBound ==
  ASSUME Tables, Bindings, Dispatch,
         NEW x \in DOMAIN entries \cap DOMAIN entries', entries[x] \in DOMAIN resources
  PROVE  entries[x] \in DOMAIN resources'
<1>. DEFINE e == events[1]
<1>1. /\ events \in Seq(Event)
      /\ DOMAIN resources \subseteq Proxies
      /\ entries[x] # NULL
  BY PwAssumption DEF Tables
<1>2. \/ on_registry_global(e) \/ on_node_info(e)
      \/ on_proxy_removed(e) \/ on_registry_global_remove(e)
  BY <1>1, Taken DEF Dispatch
<1>. HIDE DEF e
<1>3. CASE UNCHANGED resources
  BY <1>3
<1>4. CASE on_registry_global_remove(e) /\ e.id \in DOMAIN entries
  <2>1. resources' = Drop(resources, entries[e.id]) /\ entries' = Drop(entries, e.id)
    BY <1>4 DEF on_registry_global_remove, Freed
  <2>2. x # e.id
    BY <2>1 DEF Drop
  <2>3. entries[x] # entries[e.id]
    BY <1>1, <1>4, <2>2 DEF Bindings, OneEntry
  <2>. QED  BY <2>1, <2>3 DEF Drop
<1>. QED
  BY <1>2, <1>3, <1>4
     DEF on_registry_global, on_node_info, on_proxy_removed, on_registry_global_remove

LEMMA DispatchHolds ==
  ASSUME ~BINDS_FAIL, Fed, HeldIsBound, Dispatch
  PROVE  HeldIsBound'
<1>1. /\ Tables /\ Bindings /\ events \in Seq(Event)
  BY DEF Fed, Tables
<1>. SUFFICES ASSUME NEW x \in DOMAIN entries', entries'[x] # NULL
              PROVE  \/ entries'[x] \in DOMAIN resources'
                     \/ \E k \in 1..Len(requests') : requests'[k] = Bind(x, entries'[x])
                     \/ Leaving(x)'
  BY DEF HeldIsBound
<1>2. CASE x \notin DOMAIN entries
  BY <1>1, <1>2, DispatchKeeps
<1>3. CASE x \in DOMAIN entries
  <2>1. /\ entries'[x] = entries[x] /\ entries[x] # NULL /\ events[1] # Gone(x)
        /\ events # <<>> /\ events' = Tail(events)
        /\ \A k \in 1..Len(requests) : k \in 1..Len(requests') /\ requests'[k] = requests[k]
    BY <1>1, <1>3, DispatchKeeps
  <2>2. CASE entries[x] \in DOMAIN resources
    BY <1>1, <1>3, <2>1, <2>2, DispatchKeepsBound
  <2>3. CASE \E k \in 1..Len(requests) : requests[k] = Bind(x, entries[x])
    BY <2>1, <2>3
  <2>4. CASE Leaving(x)
    BY <1>1, <2>1, <2>4, TakenLeft
  <2>. QED  BY <1>3, <2>1, <2>2, <2>3, <2>4 DEF HeldIsBound
<1>. QED  BY <1>2, <1>3

(* A node that leaves takes its proxies with it and says so.               *)
LEMMA ChangeHolds ==
  ASSUME AnswersFit, Fed, HeldIsBound, GraphChanges
  PROVE  HeldIsBound'
<1>1. /\ Tables /\ Bindings /\ events \in Seq(Event)
      /\ DOMAIN resources \subseteq Proxies
  BY DEF Fed, Tables
<1>2. /\ UNCHANGED <<entries, requests>>
      /\ \A x : Leaving(x) => Leaving(x)'
  BY <1>1, ServerKeepsQueued
     DEF GraphChanges, NodeAppears, NodePublishes, NodeStirs, NodeLeaves, Leaving
<1>3. ASSUME NEW x \in DOMAIN entries, entries[x] # NULL, entries[x] \in DOMAIN resources
      PROVE  entries[x] \in DOMAIN resources' \/ Leaving(x)'
  <2>1. CASE UNCHANGED resources
    BY <1>3, <2>1
  <2>2. CASE \E id \in Ids : NodeLeaves(id)
    <3>1. PICK id \in Ids : NodeLeaves(id)
      BY <2>2
    <3>2. resources[entries[x]] = x
      BY <1>1, <1>3 DEF Bindings, BoundIsHeld, OneEntry
    <3>3. CASE x = id
      <4>1. PICK u \in Seq(Event) :
              /\ events' = events \o u
              /\ Elements(u) = {Gone(id)} \cup {Removed(p) : p \in BoundTo(id)}
        BY <1>1, <3>1, LeavesTell
      <4>2. Gone(x) \in Elements(u)
        BY <3>3, <4>1
      <4>. QED  BY <1>1, <4>1, <4>2, Behind DEF Leaving
    <3>4. CASE x # id
      BY <1>3, <3>1, <3>2, <3>4 DEF NodeLeaves, BoundTo
    <3>. QED  BY <3>3, <3>4
  <2>. QED
    BY <2>1, <2>2 DEF GraphChanges, NodeAppears, NodePublishes, NodeStirs
<1>. QED  BY <1>2, <1>3 DEF HeldIsBound

(* A bind that is served is bound, unless the node has left.               *)
LEMMA ServeHolds ==
  ASSUME AnswersFit, Fed, HeldIsBound, Serve
  PROVE  HeldIsBound'
<1>1. /\ Tables /\ Bindings /\ Feed /\ requests \in Seq(Request)
  BY DEF Fed, Tables
<1>2. /\ UNCHANGED entries
      /\ \A x : Leaving(x) => Leaving(x)'
  BY <1>1, ServerKeepsQueued DEF Serve, Leaving
<1>3. /\ 1 \in 1..Len(requests)
      /\ ServeBind(requests[1]) \/ ServeSync(requests[1]) \/ ServeWrite(requests[1])
  BY <1>1, RequestTaken DEF Serve
<1>4. DOMAIN resources \subseteq DOMAIN resources'
  BY <1>3 DEF ServeBind, ServeSync, ServeWrite, Insert
<1>5. ASSUME NEW x \in DOMAIN entries, NEW p, entries[x] = p, p # NULL, requests[1] = Bind(x, p)
      PROVE  p \in DOMAIN resources' \/ Leaving(x)'
  <2>1. requests[1].op = "bind" /\ requests[1].id = x /\ requests[1].proxy = p
    BY <1>5 DEF Bind
  <2>2. ServeBind(requests[1]) /\ p \in Held
    BY <1>3, <1>5, <2>1 DEF ServeSync, ServeWrite, Held
  <2>3. CASE x \in DOMAIN graph
    BY <2>1, <2>2, <2>3 DEF ServeBind, Insert
  <2>4. CASE x \notin DOMAIN graph
    BY <1>1, <1>2, <2>4 DEF Feed, KnownIsThere
  <2>. QED  BY <2>3, <2>4
<1>6. ASSUME NEW x \in DOMAIN entries, entries[x] # NULL
      PROVE  \/ entries[x] \in DOMAIN resources'
             \/ \E k \in 1..Len(requests') : requests'[k] = Bind(x, entries[x])
             \/ Leaving(x)'
  <2>1. CASE entries[x] \in DOMAIN resources \/ Leaving(x)
    BY <1>2, <1>4, <2>1
  <2>2. CASE \E k \in 1..Len(requests) : requests[k] = Bind(x, entries[x])
    <3>1. PICK k \in 1..Len(requests) : requests[k] = Bind(x, entries[x])
      BY <2>2
    <3>2. CASE k = 1
      BY <1>5, <1>6, <3>1, <3>2
    <3>3. CASE k # 1
      BY <1>1, <3>1, <3>3, RequestMoves
    <3>. QED  BY <3>2, <3>3
  <2>. QED  BY <1>6, <2>1, <2>2 DEF HeldIsBound
<1>. QED  BY <1>2, <1>6 DEF HeldIsBound

-----------------------------------------------------------------------------
(* The box on the page, its door, and what comes to it.                    *)

LEMMA DoorKnown ==
  ASSUME IInv, NEW s \in DOMAIN segments
  PROVE  /\ segments[s].box.id \in DOMAIN nodes /\ segments[s].box.id \in Ids
         /\ nodes[segments[s].box.id].segment = s
         /\ s \in Segments /\ s # NULL
         /\ segments[s].box \in Box(Ids, {s})
<1>1. /\ segments[s].box.id = pick_door(segments[s].nodes, nodes)
      /\ segments[s].nodes \in Seq(Ids) /\ segments[s].nodes # <<>>
      /\ Elements(segments[s].nodes) = {x \in DOMAIN nodes : nodes[x].segment = s}
      /\ s \in Segments /\ s # NULL
      /\ segments[s].box \in Box(Ids, {s})
  BY SegmentType DEF SegmentOK
<1>2. segments[s].box.id \in Elements(segments[s].nodes)
  BY <1>1, PickDoorBest
<1>3. DOMAIN nodes \subseteq Ids
  BY DEF IInv, TypeOK
<1>. QED  BY <1>1, <1>2, <1>3

(* An info of the door is merged into the box: where the merge is not      *)
(* idle, the box is another one.                                           *)
LEMMA DoorIsRead ==
  ASSUME SteadyGraph, IInv, NEW s \in DOMAIN segments,
         NEW n, n = segments[s].box.id, NEW d \in Dicts, Publishes(n, d), WalkInfo(n, d),
         update_from_dict(segments[s].box, d) # segments[s].box
  PROVE  segments'[s].box # segments[s].box
<1>. DEFINE old     == segments[s]
            members == AddOnce(old.nodes, n)
            sink    == nodes'[n].is_sink
            pointed == set_door(old.box, n, sink)
<1>1. /\ n \in DOMAIN nodes /\ n \in Ids /\ nodes[n].segment = s
      /\ s \in Segments /\ s # NULL
      /\ old.box \in Box(Ids, {s})
      /\ old.nodes \in Seq(Ids)
      /\ SegmentOK(s, old, nodes)
  BY DoorKnown, SegmentType
<1>2. InfoSegment(n, d) = s
  BY <1>1 DEF SteadyGraph, Publishes, NodeBefore, Known
<1>3. InfoKnownSegment(n, d)
  BY <1>1, <1>2 DEF WalkInfo, InfoOrdinary, InfoNewSegment
<1>4. /\ nodes' = Insert(nodes, n, NodeAfter(n, d))
      /\ segments' = [segments EXCEPT ![s] =
           [box |-> BoxAfter(old.box, n, d, members, nodes'), nodes |-> members]]
  BY <1>2, <1>3 DEF InfoKnownSegment
<1>5. segments'[s].box = BoxAfter(old.box, n, d, members, nodes')
  BY <1>4
<1>6. NodeAfter(n, d) \in Node /\ (nodes[n].is_sink => NodeAfter(n, d).is_sink)
      /\ nodes'[n] = NodeAfter(n, d) /\ sink \in BOOLEAN
  <2>1. /\ NodeAfter(n, d) \in Node
        /\ Known(n) /\ nodes[n].segment = InfoSegment(n, d) /\ nodes[n].is_sink
             => NodeAfter(n, d).is_sink
    BY <1>1, <1>2, SteadyInfo DEF IInv
  <2>2. nodes'[n] = NodeAfter(n, d)
    BY <1>4 DEF Insert
  <2>. QED  BY <1>1, <1>2, <2>1, <2>2 DEF Known, Node
<1>7. pick_door(members, nodes') = n
  <2>1. n \in Elements(old.nodes)
    BY <1>1 DEF SegmentOK
  <2>2. \A y \in Elements(old.nodes) \ {n} : nodes'[y] = nodes[y]
    BY <1>1, <1>4 DEF Insert, SegmentOK
  <2>3. nodes[n].is_sink => nodes'[n].is_sink
    BY <1>6
  <2>4. old.nodes # <<>> /\ pick_door(old.nodes, nodes) = n
    BY <1>1 DEF SegmentOK
  <2>. SUFFICES ASSUME pick_door(members, nodes') # n  PROVE FALSE
    OBVIOUS
  <2>. QED  BY <1>1, <2>1, <2>2, <2>3, <2>4, PickDoorMoves
<1>8. segments'[s].box = update_from_dict(pointed, d)
  BY <1>5, <1>7 DEF BoxAfter
<1>9. ASSUME segments'[s].box = old.box  PROVE FALSE
  <2>1. pointed \in Box(Ids, {s}) /\ pointed.sink = sink
    BY <1>1, <1>6, SetDoorType
  <2>. HIDE DEF pointed, sink
  <2>2. update_from_dict(pointed, d).sink = sink
    BY <2>1, UpdateType
  <2>3. old.box.sink = sink /\ old.box.id = n
    BY <1>8, <1>9, <2>2
  <2>4. pointed = old.box
    BY <1>1, <2>3 DEF pointed, set_door, Box
  <2>. QED  BY <1>8, <1>9, <2>4
<1>. QED  BY <1>9

(* The client takes an event: it is what ends the wait, and then the box   *)
(* is another one, or what will end the wait is still under way.           *)
LEMMA DispatchIsAnswer ==
  ASSUME ~BINDS_FAIL, SteadyGraph, PwInv, PwInv', Dispatch,
         NEW s \in DOMAIN segments \cap DOMAIN segments',
         NEW box, box = segments[s].box, segments'[s].box = box,
         NEW n, n = box.id, SomeAnswer(n, box)
  PROVE  SomeAnswer(n, box)'
<1>1. /\ IInv /\ IInv' /\ Fed /\ Tables /\ Bindings /\ SameNodes /\ Bindings' /\ SameNodes'
      /\ events \in Seq(Event) /\ TypeOK
  BY DEF PwInv, Fed, Tables, IInv
<1>2. n \in DOMAIN entries /\ n \in Ids
  BY <1>1, DoorKnown DEF SameNodes
<1>3. n \in DOMAIN entries'
  <2>1. /\ segments'[s].nodes \in Seq(Ids) /\ segments'[s].nodes # <<>>
        /\ Elements(segments'[s].nodes) \subseteq DOMAIN nodes'
        /\ n = pick_door(segments'[s].nodes, nodes')
    BY <1>1 DEF IInv, TypeOK, SegmentsOK, SegmentOK
  <2>2. n \in Elements(segments'[s].nodes)
    BY <2>1, PickDoorBest
  <2>. QED  BY <1>1, <2>1, <2>2 DEF SameNodes
<1>4. /\ events # <<>> /\ events' = Tail(events)
      /\ \A k \in 1..Len(requests) : k \in 1..Len(requests') /\ requests'[k] = requests[k]
      /\ entries'[n] \in {entries[n], NULL} /\ events[1] # Gone(n)
  BY <1>1, <1>2, <1>3, DispatchKeeps
<1>5. CASE entries'[n] = NULL
  <2>1. Leaving(n)'
    BY <1>1, <1>3, <1>5 DEF Bindings, RemovedIsLeaving
  <2>. QED  BY <2>1 DEF SomeAnswer
<1>6. CASE Leaving(n)
  BY <1>1, <1>4, <1>6, TakenLeft DEF SomeAnswer
<1>7. ASSUME NEW d \in Dicts, Queued(Info(entries[n], d)), update_from_dict(box, d) # box,
             entries'[n] = entries[n], entries[n] # NULL
      PROVE  SomeAnswer(n, box)'
  <2>p. PICK p : p = entries[n]
    OBVIOUS
  <2>1. events[1] # Info(p, d)
    <3>1. SUFFICES ASSUME events[1] = Info(p, d)  PROVE FALSE
      OBVIOUS
    <3>2. /\ events[1].ev = "info" /\ events[1].props = d /\ events[1].proxy = p
          /\ d # NULL
      BY <3>1, PwAssumption DEF Info
    <3>3. on_node_info(events[1])
      BY <1>1, <1>4, <3>2, Taken
         DEF Dispatch, on_registry_global, on_proxy_removed, on_registry_global_remove
    <3>4. EntryOf(p) = {n}
      BY <1>1, <1>2, <1>7, <2>p DEF EntryOf, Bindings, OneEntry
    <3>5. WalkInfo(n, d)
      BY <3>2, <3>3, <3>4 DEF on_node_info
    <3>6. Heard(1, n)
      BY <1>1, <1>2, <1>4, <2>p, <3>2, Taken DEF Heard, LeftBy
    <3>7. Publishes(n, d)
      BY <1>1, <1>2, <1>4, <3>2, <3>6, HeardIsPublished
    <3>. QED  BY <1>1, <1>7, <3>5, <3>7, DoorIsRead
  <2>2. Queued(Info(p, d))'
    BY <1>1, <1>4, <1>7, <2>p, <2>1, Taken
  <2>. QED  BY <1>7, <2>p, <2>2 DEF SomeAnswer
<1>8. ASSUME NEW k \in Writes, requests[k].proxy = entries[n],
             cell_lookup(box.cells, requests[k].key[1], requests[k].key[2]) # requests[k].value,
             entries'[n] = entries[n]
      PROVE  SomeAnswer(n, box)'
  <2>1. k \in Writes' /\ requests'[k] = requests[k]
    BY <1>4 DEF Writes
  <2>. QED  BY <1>8, <2>1 DEF SomeAnswer
<1>9. entries[n] = NULL => Leaving(n)
  BY <1>1, <1>2 DEF Bindings, RemovedIsLeaving
<1>. QED  BY <1>4, <1>5, <1>6, <1>7, <1>8, <1>9 DEF SomeAnswer

-----------------------------------------------------------------------------
(* What a gesture asks for is something else than the box reads back.      *)

LEMMA SliderStep ==
  ASSUME NEW sens_max \in Ceilings, NEW pad \in BOOLEAN,
         NEW dbu \in sens_dbu(sens_max, pad, sens_max)..sens_dbu(0, pad, sens_max)
  PROVE  /\ sens_value(dbu, pad, sens_max) \in Nat
         /\ sens_dbu(sens_value(dbu, pad, sens_max), pad, sens_max) = dbu
<1>1. sens_max \in 1..255 /\ ceiling(sens_max) = sens_max
  BY DEF Ceilings, ceiling
<1>2. \A v \in 0..sens_max : sens_clamp(v, sens_max) = v
  BY <1>1 DEF sens_clamp
<1>. DEFINE v == SENS_REF_DBU + (IF pad THEN PAD_DB ELSE 0) - dbu
<1>3. v \in 0..sens_max
  BY <1>1, <1>2 DEF sens_dbu, SENS_REF_DBU, PAD_DB, SENS_STEP_DB
<1>4. sens_dbu(v, pad, sens_max) = dbu
  BY <1>1, <1>2, <1>3 DEF sens_dbu, SENS_REF_DBU, PAD_DB, SENS_STEP_DB
<1>. HIDE DEF v
<1>. QED  BY <1>1, <1>3, <1>4, SensRoundTrip

(* A gesture whose write is handed to the client, on a page that waits for *)
(* nothing, asks for another value than the one read back.                 *)
Asks(i, p, value) ==
  /\ outcome' = "sent" /\ writes' = {<<i, p, value>>}
  /\ write_outcome(segments[selected].box.id \notin lost, segments[selected].box, i, p, value)
       = "sent"

LEMMA GestureAsks ==
  ASSUME FitInv, NEW i \in 1..Len(rows), Gesture(i)
  PROVE  /\ page = "page" /\ selected # NULL
         /\ UNCHANGED <<vars, selected, entries>>
         /\ \/ pending_input' = -1
            \/ /\ page' = page
               /\ \E p \in Params : \E value :
                    /\ Asks(i, p, value)
                    /\ awaited = {} => value # box_asserted(segments[selected].box, i, p)
<1>. DEFINE box == segments[selected].box
<1>1. /\ page = "page" /\ selected # NULL /\ rows[i].live /\ rows[i] \in Row
      /\ WindowInv /\ IInv /\ PageShowsReadback /\ SlidersTravel
      /\ UNCHANGED <<vars, selected, entries>>
  <2>1. /\ WindowInv /\ IInv /\ rows \in Seq(Row) /\ PageShowsReadback /\ SlidersTravel
    BY DEF FitInv, TypeInv, PageTyped, Fits
  <2>2. page = "page" /\ rows[i].live /\ UNCHANGED <<vars, selected, entries>>
    BY DEF Gesture, Toggle, Slide, Movable
  <2>3. selected # NULL
    BY <2>1, <2>2 DEF WindowInv, SelectedIsListed
  <2>. QED  BY <2>1, <2>2, <2>3
<1>2. box \in Box(Ids, {selected})
  BY <1>1, SelectedBox
<1>3. ASSUME NEW p \in Params, NEW value, NEW moved, write_cell(i, p, value, moved),
             awaited = {} => value # box_asserted(box, i, p)
      PROVE  \/ pending_input' = -1
             \/ /\ page' = page
                /\ \E q \in Params : \E v :
                     /\ Asks(i, q, v)
                     /\ awaited = {} => v # box_asserted(box, i, q)
  <2>1. CASE outcome' = "sent"
    <3>1. page' = page /\ Asks(i, p, value)
      BY <1>3, <2>1 DEF write_cell, Asks
    <3>. QED  BY <1>3, <3>1
  <2>2. CASE outcome' # "sent"
    BY <1>1, <1>3, <2>2 DEF write_cell, put_back, sync_content
  <2>. QED  BY <2>1, <2>2
<1>4. CASE \E p \in {"phantom", "pad"} : Toggle(i, p)
  <2>1. PICK p \in {"phantom", "pad"} : Toggle(i, p)
    BY <1>4
  <2>. DEFINE value == IF rows[i][p] THEN 0 ELSE 1
  <2>2. rows[i][p] # NULL /\ write_cell(i, p, value, [rows EXCEPT ![i][p] = ~@])
    BY <2>1 DEF Toggle
  <2>3. awaited = {} => value # box_asserted(box, i, p)
    <3>1. SUFFICES ASSUME awaited = {}  PROVE value # box_asserted(box, i, p)
      OBVIOUS
    <3>2. box_asserted(box, i, p) \in {-1} \cup Byte
      BY <1>2, AssertedType
    <3>3. box_asserted(box, i, p) >= 0 => (rows[i][p] <=> box_asserted(box, i, p) # 0)
      BY <1>1, <2>2, <3>1 DEF PageShowsReadback
    <3>. QED  BY <3>2, <3>3 DEF Byte
  <2>4. p \in Params
    BY DEF Params
  <2>. HIDE DEF value
  <2>. QED  BY <1>1, <1>3, <2>2, <2>3, <2>4
<1>5. CASE /\ rows[i].sens # NULL
           /\ \E dbu \in rows[i].sens.low..rows[i].sens.high : Slide(i, dbu)
  <2>1. PICK dbu \in rows[i].sens.low..rows[i].sens.high : Slide(i, dbu)
    BY <1>5
  <2>. DEFINE pad   == rows[i].pad = TRUE
              value == sens_value(dbu, pad, box.sens_max)
  <2>2. /\ dbu # rows[i].sens.at
        /\ write_cell(i, "sens", value, [rows EXCEPT ![i].sens.at = dbu])
    BY <2>1 DEF Slide
  <2>3. rows[i].sens \in Scale /\ box.sens_max \in Ceilings /\ pad \in BOOLEAN
        /\ "sens" \in Params
    BY <1>1, <1>2, <1>5 DEF Row, Box, Params
  <2>. HIDE DEF pad
  <2>4. awaited = {} => value # box_asserted(box, i, "sens")
    <3>1. SUFFICES ASSUME awaited = {}, value = box_asserted(box, i, "sens")  PROVE FALSE
      OBVIOUS
    <3>2. dbu \in sens_dbu(box.sens_max, pad, box.sens_max)..sens_dbu(0, pad, box.sens_max)
      BY <1>1, <1>5, <3>1 DEF SlidersTravel, Travels, pad
    <3>3. value >= 0 /\ sens_dbu(value, pad, box.sens_max) = dbu
      BY <2>3, <3>2, SliderStep
    <3>4. rows[i].sens.at = sens_dbu(value, pad, box.sens_max)
      BY <1>1, <1>5, <3>1, <3>3 DEF PageShowsReadback, pad
    <3>. QED  BY <2>2, <3>3, <3>4
  <2>. HIDE DEF value
  <2>. QED  BY <1>1, <1>3, <2>2, <2>3, <2>4
<1>. QED  BY <1>1, <1>4, <1>5 DEF Gesture

(* A write that is handed to the client is under way to the box's door,    *)
(* and sets its cell to something else; one that was waited for before     *)
(* still is under way.                                                     *)
LEMMA GestureWaits ==
  ASSUME PwInv, FitInv, WaitsForAnswer, NEW i \in 1..Len(rows), Gesture(i)
  PROVE  WaitsForAnswer'
<1>1. /\ page = "page" /\ selected \in DOMAIN segments
      /\ UNCHANGED <<segments, selected, entries>>
      /\ TypeInv /\ IInv /\ WindowInv
      /\ awaited # {} => pending_input # -1
      /\ PageFitsBox /\ rows[i].live \in BOOLEAN
      /\ requests \in Seq(Request)
  <2>1. /\ TypeInv /\ IInv /\ WindowInv /\ PageTyped /\ PageFitsBox /\ requests \in Seq(Request)
    BY DEF FitInv, TypeInv, Fits, PwInv, Fed, Tables
  <2>2. page = "page" /\ selected # NULL /\ UNCHANGED <<segments, selected, entries>>
    BY GestureAsks DEF vars
  <2>3. rows[i] \in Row /\ (awaited # {} => pending_input # -1)
    BY <2>1 DEF PageTyped
  <2>4. rows[i].live \in BOOLEAN
    BY <2>3 DEF Row
  <2>. QED  BY <2>1, <2>2, <2>3, <2>4, SelectedBox
<1>b. PICK box : box = segments[selected].box
  OBVIOUS
<1>n. PICK n : n = box.id
  OBVIOUS
<1>2. CASE pending_input' = -1
  BY <1>2 DEF WaitsForAnswer
<1>3. ASSUME NEW p \in Params, NEW value, Asks(i, p, value),
             awaited = {} => value # box_asserted(box, i, p)
      PROVE  SomeAnswer(n, box)'
  <2>1. write_headamp(selected, i, p, value)
    <3>1. writes' = {<<i, p, value>>}
      BY <1>3 DEF Asks
    <3>2. PICK w \in writes' : write_headamp(selected, w[1], w[2], w[3])
      BY <3>1 DEF Gesture
    <3>3. w[1] = i /\ w[2] = p /\ w[3] = value
      BY <3>1
    <3>. QED  BY <3>2, <3>3
  <2>2. UNCHANGED <<events, entries>>
    BY <2>1 DEF write_headamp
  <2>. DEFINE ch  == box_wire_ch(box, i)
              pod == build_headamp(ch, p, value)
  <2>3. requests' = Append(requests, Write(entries[n], selected, pod[1], pod[2]))
    BY <1>b, <1>n, <2>1 DEF write_headamp
  <2>4. /\ \A k \in 1..Len(requests) : k \in 1..Len(requests') /\ requests'[k] = requests[k]
        /\ Len(requests) + 1 \in 1..Len(requests')
        /\ requests'[Len(requests) + 1] = Write(entries[n], selected, pod[1], pod[2])
    BY <1>1, <2>3
  <2>5. ch >= 0 /\ pod = <<<<ch, p>>, value>>
    <3>1. ~(box_wire_ch(box, i) < 0) /\ pod # NoKey
      BY <1>b, <1>3 DEF Asks, write_outcome
    <3>2. pod = <<param_key(ch, p), value>> /\ param_key(ch, p) # NoKey
      BY <3>1 DEF build_headamp
    <3>3. ch \in 0..(MAX_CH - 1) /\ param_key(ch, p) = <<ch, p>>
      BY <3>2 DEF param_key
    <3>. QED  BY <3>2, <3>3, HeadampAssumption
  <2>. HIDE DEF ch, pod
  <2>6. CASE awaited = {}
    <3>1. box.readback
      <4>1. Gesture(i) => rows[i].live
        BY DEF Gesture, Toggle, Slide, Movable
      <4>2. box_availability(box) = "ok" /\ box \in Box(Ids, {selected})
        BY <1>1, <1>b, <4>1, SelectedBox, WalkAssumption DEF PageFitsBox, IInv, TypeOK
      <4>. QED  BY <4>2, AvailabilityOk
    <3>2. box_asserted(box, i, p) = cell_lookup(box.cells, ch, p)
      BY <2>5, <3>1 DEF box_asserted, ch
    <3>3. value # cell_lookup(box.cells, ch, p)
      BY <1>3, <2>6, <3>2
    <3>4. PICK k \in 1..Len(requests') :
            requests'[k] = Write(entries[n], selected, pod[1], pod[2])
      BY <2>4
    <3>5. /\ requests'[k].op = "write" /\ requests'[k].proxy = entries[n]
          /\ requests'[k].key = <<ch, p>> /\ requests'[k].value = value
      BY <2>5, <3>4 DEF Write
    <3>6. k \in Writes'
      BY <3>4, <3>5 DEF Writes
    <3>. QED  BY <2>2, <3>3, <3>5, <3>6 DEF SomeAnswer
  <2>7. CASE awaited # {}
    <3>1. SomeAnswer(n, box)
      BY <1>1, <1>b, <1>n, <2>7 DEF WaitsForAnswer
    <3>2. \A k \in Writes : k \in Writes' /\ requests'[k] = requests[k]
      BY <2>4 DEF Writes
    <3>. QED  BY <2>2, <3>1, <3>2 DEF SomeAnswer, Leaving, Queued
  <2>. QED  BY <2>6, <2>7
<1>4. SomeAnswer(n, box)' => WaitsForAnswer'
  BY <1>1, <1>b, <1>n DEF WaitsForAnswer
<1>. QED  BY <1>2, <1>3, <1>4, <1>b, GestureAsks

-----------------------------------------------------------------------------
(* The steps of the session.                                               *)

(* An event that is dispatched is heard by the window, or moves neither    *)
(* the walk nor the page.                                                  *)
LEMMA DispatchHeeds ==
  ASSUME Fed, NodesNamed, Dispatched
  PROVE  Heeds \/ UNCHANGED <<vars, uiVars>>
<1>. DEFINE e == events[1]
<1>1. /\ events \in Seq(Event) /\ events # <<>> /\ e \in Event /\ Head(events) = e
  <2>1. events \in Seq(Event) /\ events # <<>> /\ events' = Tail(events)
    BY DEF Fed, Tables, Dispatched, Dispatch
  <2>. QED  BY <2>1, Taken
<1>2. /\ \/ on_registry_global(e) \/ on_node_info(e)
         \/ on_proxy_removed(e) \/ on_registry_global_remove(e)
      /\ IF IsPassedOn(e) THEN Hear
         ELSE UNCHANGED uiVars
  BY <1>1 DEF Dispatched, Dispatch
<1>. HIDE DEF e
<1>3. CASE on_registry_global(e)
  <2>1. CASE e.id \in DOMAIN entries
    BY <1>2, <1>3, <2>1 DEF on_registry_global, IsPassedOn
  <2>2. CASE e.id \notin DOMAIN entries
    <3>1. e.ev = "global" /\ WalkGlobal(e.id, e.class) /\ Hear
      BY <1>2, <1>3, <2>2 DEF on_registry_global, IsPassedOn
    <3>2. e.class \in GlobalClasses
      BY <1>1, <3>1 DEF Event
    <3>. QED  BY <3>1, <3>2, GlobalHeard, GlobalAnnounced DEF Heeds
  <2>. QED  BY <2>1, <2>2
<1>4. CASE on_node_info(e)
  <2>1. CASE e.props = NULL \/ EntryOf(e.proxy) = {}
    BY <1>2, <1>4, <2>1 DEF on_node_info, IsPassedOn
  <2>2. CASE e.props # NULL /\ EntryOf(e.proxy) # {}
    <3>1. e.ev = "info" /\ Hear
      BY <1>2, <1>4, <2>2 DEF on_node_info, IsPassedOn
    <3>2. e.props \in Dicts
      BY <1>1, <2>2, <3>1 DEF Event
    <3>3. PICK x : WalkInfo(x, e.props)
      BY <1>4, <2>2 DEF on_node_info
    <3>. QED  BY <3>1, <3>2, <3>3, InfoHeard, InfoAnnounced DEF Heeds
  <2>. QED  BY <2>1, <2>2
<1>5. CASE on_proxy_removed(e)
  BY <1>2, <1>5 DEF on_proxy_removed, IsPassedOn
<1>6. CASE on_registry_global_remove(e)
  <2>1. CASE e.id \notin DOMAIN entries
    BY <1>2, <1>6, <2>1 DEF on_registry_global_remove, IsPassedOn
  <2>2. CASE e.id \in DOMAIN entries
    <3>1. WalkRemove(e.id) /\ Hear
      BY <1>2, <1>6, <2>2 DEF on_registry_global_remove, IsPassedOn
    <3>. QED  BY <3>1, RemoveHeard, RemoveAnnounced DEF Heeds
  <2>. QED  BY <2>1, <2>2
<1>. QED  BY <1>2, <1>3, <1>4, <1>5, <1>6

(* After sync_content nothing is waited for, or no page is shown.          *)
LEMMA SyncEndsWait ==
  ASSUME NEW sel, NEW old_rows, NEW shape, NEW pending,
         sync_content(sel, old_rows, shape, pending)
  PROVE  WaitsForAnswer'
BY DEF sync_content, WaitsForAnswer

LEMMA DispatchWaits ==
  ASSUME ~BINDS_FAIL, SteadyGraph, SessionInv, SessionInv', WaitsForAnswer, Dispatched
  PROVE  WaitsForAnswer'
<1>1. /\ PwInv /\ PwInv' /\ Fed /\ WindowInv /\ WindowInv' /\ NodesNamed /\ Dispatch /\ TypeInv
  BY DEF SessionInv, PwInv, TypeInv, WindowInv, Dispatched
<1>2. PageKept \/ Resynced
  <2>1. CASE Heeds
    BY <1>1, <2>1, HearSyncs DEF Heeds
  <2>2. CASE UNCHANGED <<vars, uiVars>>
    BY <2>2 DEF vars, uiVars, PageKept
  <2>. QED  BY <1>1, <2>1, <2>2, DispatchHeeds
<1>3. CASE Resynced
  BY <1>3, SyncEndsWait DEF Resynced
<1>4. CASE PageKept
  <2>1. SUFFICES ASSUME page = "page", pending_input # -1
                 PROVE  SomeAnswer(segments[selected].box.id, segments[selected].box)'
    BY <1>4 DEF WaitsForAnswer, PageKept
  <2>2. /\ selected # NULL /\ selected' = selected
        /\ selected \in DOMAIN segments \cap DOMAIN segments'
        /\ segments'[selected].box = segments[selected].box
    BY <1>1, <1>4, <2>1 DEF PageKept, WindowInv, SelectedIsListed
  <2>b. PICK s, box, n : s = selected /\ box = segments[selected].box /\ n = box.id
    OBVIOUS
  <2>3. SomeAnswer(n, box)
    BY <2>1, <2>b DEF WaitsForAnswer
  <2>4. SomeAnswer(n, box)'
    BY <1>1, <2>2, <2>b, <2>3, DispatchIsAnswer
  <2>. QED  BY <2>2, <2>4, <2>b
<1>. QED  BY <1>2, <1>3, <1>4

(* Under the window whose page is right, whatever is waited for has its    *)
(* answer under way.                                                       *)
WaitInv == SessionInv /\ FitInv /\ HeldIsBound /\ WaitsForAnswer

LEMMA WaitInvNext ==
  ASSUME ~BINDS_FAIL, SteadyGraph, AnswersPublish(Offered), CapsGoWithCount,
         ANSWERS = {"accept"}, NamesOnce,
         WaitInv, [SessionNext]_sessionVars
  PROVE  WaitInv'
<1>1. /\ SessionInv /\ FitInv /\ HeldIsBound /\ WaitsForAnswer
      /\ PwInv /\ Fed /\ Tables /\ TypeInv /\ IInv /\ WindowInv /\ AnswersFit /\ SameNodes
  <2>1. AnswersFit
    BY AskedFit DEF WaitInv, SessionInv, AsksOffered
  <2>. QED  BY <2>1 DEF WaitInv, SessionInv, PwInv, Fed, TypeInv
<1>2. SessionInv' /\ [WindowNext]_windowVars
  BY <1>1, SessionNextInv
<1>3. FitInv'
  BY <1>1, <1>2, FitInvNext
<1>4. ASSUME UNCHANGED <<vars, uiVars>>, GraphChanges \/ Serve
      PROVE  WaitsForAnswer'
  <2>1. SUFFICES ASSUME page = "page", pending_input # -1
                 PROVE  SomeAnswer(segments[selected].box.id, segments[selected].box)'
    BY <1>4 DEF WaitsForAnswer, uiVars
  <2>2. selected \in DOMAIN segments
    BY <1>1, <2>1 DEF WindowInv, SelectedIsListed
  <2>b. PICK box, n : box = segments[selected].box /\ n = box.id
    OBVIOUS
  <2>3. /\ n \in DOMAIN nodes /\ nodes[n].segment # NULL /\ box \in Box(Ids, {selected})
    BY <1>1, <2>2, <2>b, DoorKnown
  <2>4. SomeAnswer(n, box)
    BY <1>1, <2>1, <2>b DEF WaitsForAnswer
  <2>5. SomeAnswer(n, box)'
    BY <1>1, <1>4, <2>3, <2>4, ServedIsAnswered, ChangedIsAnswered
  <2>. QED  BY <1>4, <2>5, <2>b DEF vars, uiVars
<1>5. CASE Graph
  <2>1. GraphChanges /\ UNCHANGED <<vars, uiVars>>
    BY <1>5 DEF Graph, GraphChanges, NodeAppears, NodePublishes, NodeStirs, NodeLeaves
  <2>. QED  BY <1>1, <1>2, <1>3, <1>4, <2>1, ChangeHolds DEF WaitInv
<1>6. CASE Served
  <2>1. Serve /\ UNCHANGED <<vars, uiVars>>
    BY <1>6 DEF Served, Serve
  <2>. QED  BY <1>1, <1>2, <1>3, <1>4, <2>1, ServeHolds DEF WaitInv
<1>7. CASE Dispatched
  <2>1. Dispatch
    BY <1>7 DEF Dispatched
  <2>. QED  BY <1>1, <1>2, <1>3, <1>7, <2>1, DispatchHolds, DispatchWaits DEF WaitInv
<1>8. CASE \E i \in 1..Len(rows) : Gesture(i)
  <2>1. PICK i \in 1..Len(rows) : Gesture(i)
    BY <1>8
  <2>2. UNCHANGED <<entries, resources, events>>
    BY <2>1 DEF Gesture, write_headamp, serverVars
  <2>3. \A k \in 1..Len(requests) : k \in 1..Len(requests') /\ requests'[k] = requests[k]
    <3>1. CASE UNCHANGED requests
      BY <3>1
    <3>2. CASE \E w : requests' = Append(requests, w)
      BY <1>1, <3>2 DEF Tables
    <3>3. UNCHANGED requests \/ \E w \in writes' : write_headamp(selected, w[1], w[2], w[3])
      BY <2>1 DEF Gesture
    <3>. QED  BY <3>1, <3>2, <3>3 DEF write_headamp
  <2>4. HeldIsBound'
    BY <1>1, <2>2, <2>3 DEF HeldIsBound, Leaving, Queued
  <2>. QED  BY <1>1, <1>2, <1>3, <2>1, <2>4, GestureWaits DEF WaitInv
<1>9. CASE \E seg \in Elements(sidebar) \cup {NULL} : Selects(seg)
  <2>1. PICK seg : Selects(seg)
    BY <1>9
  <2>2. WaitsForAnswer'
    BY <2>1, SyncEndsWait DEF Selects, Select, on_sidebar_selected
  <2>3. HeldIsBound'
    BY <1>1, <2>1 DEF Selects, pwVars, serverVars, HeldIsBound, Leaving, Queued
  <2>. QED  BY <1>2, <1>3, <2>2, <2>3 DEF WaitInv
<1>10. CASE UNCHANGED sessionVars
  <2>1. HeldIsBound' /\ WaitsForAnswer'
    BY <1>1, <1>10
       DEF sessionVars, pwVars, serverVars, windowVars, uiVars, vars,
           HeldIsBound, WaitsForAnswer, SomeAnswer, Leaving, Queued, Writes
  <2>. QED  BY <1>2, <1>3, <2>1 DEF WaitInv
<1>. QED  BY <1>5, <1>6, <1>7, <1>8, <1>9, <1>10 DEF SessionNext

LEMMA WaitInvInit == SessionInit => WaitInv
<1>. SUFFICES ASSUME SessionInit  PROVE WaitInv
  OBVIOUS
<1>1. SessionInv
  BY SessionInitInv
<1>2. FitInv
  BY FitInvInit DEF SessionInit
<1>3. HeldIsBound
  BY DEF SessionInit, PwInit, Connected, HeldIsBound
<1>4. WaitsForAnswer
  BY DEF SessionInit, WindowInit, WaitsForAnswer
<1>. QED  BY <1>1, <1>2, <1>3, <1>4 DEF WaitInv

(* rs-window.c:316: with a daemon that accepts what it is sent no write is *)
(* waited for in vain.  Something is on its way as long as a row waits, an *)
(* answer that changes the box or the word that the box's door has left,   *)
(* whatever was sent before it and whatever the graph does meanwhile.      *)
THEOREM SessionNothingWaits ==
  ASSUME ~BINDS_FAIL, SteadyGraph, AnswersPublish(Offered), CapsGoWithCount,
         ANSWERS = {"accept"}, NamesOnce
  PROVE  SessionSpec => []NothingWaits
<1>1. WaitInv /\ [SessionNext]_sessionVars => WaitInv'
  BY WaitInvNext
<1>2. WaitInv => NothingWaits
  BY DEF WaitInv, WaitsForAnswer, NothingWaits, AtRest, SomeAnswer, Leaving, Queued, Writes
<1>. QED  BY <1>1, <1>2, WaitInvInit, PTL DEF SessionSpec

-----------------------------------------------------------------------------
(* Why the last gesture counts.  Its write is followed to the door of the  *)
(* box (LastSound: a cell's last word is the last write under way to it),  *)
(* into what the door publishes, back to the client (LastTold: the last    *)
(* info of a node is what it publishes), and into the box (BoxSynced: one  *)
(* that has nothing more to hear is what its sink publishes).  A segment   *)
(* has one sink all the way (SinkIsAlone), and its inputs the same place   *)
(* on the wire (StrapKnown).                                               *)

(* Two sinks the walk knows are of two segments: of another sink's segment *)
(* it hears nothing before it is told that the sink has left.              *)
SinkIsAlone ==
  \A x, y \in DOMAIN nodes :
    nodes[x].is_sink /\ nodes[y].is_sink /\ nodes[x].segment = nodes[y].segment => x = y

(* What the client hands to its walk when it takes an event.               *)
TellsInfo(x) ==
  /\ Heard(1, x) /\ events[1].props \in Dicts
  /\ WalkInfo(x, events[1].props) /\ Publishes(x, events[1].props)

TellsNoInfo ==
  /\ \A x : ~Heard(1, x)
  /\ \/ UNCHANGED vars
     \/ \E y \in Ids : \/ y \notin DOMAIN nodes /\ \E class : WalkGlobal(y, class)
                       \/ WalkRemove(y)

LEMMA DispatchTells ==
  ASSUME ~BINDS_FAIL, PwInv, Dispatch
  PROVE  TellsNoInfo \/ \E x \in Ids : TellsInfo(x)
<1>. DEFINE e == events[1]
<1>1. /\ IInv /\ Fed /\ Tables /\ Bindings /\ SameNodes /\ events \in Seq(Event) /\ TypeOK
      /\ DOMAIN entries \subseteq Ids
  BY DEF PwInv, Fed, Tables, IInv
<1>2. /\ events # <<>> /\ Head(events) = e /\ e \in Event /\ 1 \in 1..Len(events)
      /\ \/ on_registry_global(e) \/ on_node_info(e)
         \/ on_proxy_removed(e) \/ on_registry_global_remove(e)
  BY <1>1, Taken DEF Dispatch
<1>3. ASSUME e.ev # "info"
      PROVE  \A x : ~Heard(1, x)
  BY <1>3 DEF Heard
<1>. HIDE DEF e
<1>4. CASE on_registry_global(e)
  <2>1. e.ev = "global" /\ e.id \in Ids
    BY <1>2, <1>4 DEF on_registry_global, Event
  <2>2. CASE UNCHANGED vars
    BY <1>3, <2>1, <2>2 DEF TellsNoInfo
  <2>3. CASE e.id \notin DOMAIN entries /\ WalkGlobal(e.id, e.class)
    <3>1. e.id \notin DOMAIN nodes
      BY <1>1, <2>3 DEF SameNodes
    <3>. QED  BY <1>3, <2>1, <2>3, <3>1 DEF TellsNoInfo
  <2>. QED  BY <1>4, <2>2, <2>3 DEF on_registry_global
<1>5. CASE on_node_info(e)
  <2>1. e.ev = "info"
    BY <1>5 DEF on_node_info
  <2>2. CASE e.props = NULL \/ EntryOf(e.proxy) = {}
    <3>1. \A x : ~Heard(1, x)
      BY <2>2 DEF Heard, EntryOf, e
    <3>. QED  BY <1>5, <2>2, <3>1 DEF on_node_info, TellsNoInfo
  <2>3. CASE ~(e.props = NULL \/ EntryOf(e.proxy) = {})
    <3>1. PICK x \in EntryOf(e.proxy) : WalkInfo(x, e.props)
      BY <1>5, <2>3 DEF on_node_info
    <3>2. x \in Ids /\ x \in DOMAIN entries /\ entries[x] = e.proxy
      BY <1>1, <3>1 DEF EntryOf
    <3>3. e.props \in Dicts
      BY <1>2, <2>1, <2>3 DEF Event
    <3>4. Heard(1, x)
      BY <1>2, <2>1, <2>3, <3>2 DEF Heard, LeftBy, e
    <3>5. Publishes(x, e.props)
      BY <1>1, <1>2, <3>2, <3>3, <3>4, HeardIsPublished DEF e
    <3>. QED  BY <3>1, <3>2, <3>3, <3>4, <3>5 DEF TellsInfo, e
  <2>. QED  BY <2>2, <2>3
<1>6. CASE on_proxy_removed(e)
  BY <1>3, <1>6 DEF on_proxy_removed, TellsNoInfo
<1>7. CASE on_registry_global_remove(e)
  <2>1. e.ev = "gone" /\ e.id \in Ids
    BY <1>2, <1>7 DEF on_registry_global_remove, Event
  <2>2. CASE UNCHANGED vars
    BY <1>3, <2>1, <2>2 DEF TellsNoInfo
  <2>3. CASE WalkRemove(e.id)
    BY <1>3, <2>1, <2>3 DEF TellsNoInfo
  <2>. QED  BY <1>7, <2>2, <2>3 DEF on_registry_global_remove
<1>. QED  BY <1>2, <1>4, <1>5, <1>6, <1>7

(* What is to be heard of a node that is not leaving was to be heard, and  *)
(* is, but for what was heard just now.                                    *)
LEMMA DispatchHears ==
  ASSUME ~BINDS_FAIL, PwInv, PwInv', Dispatch
  PROVE  /\ HearsNoMore
         /\ \A x \in DOMAIN entries', k \in 1..Len(events) :
              ~Leaving(x)' /\ Heard(k, x) /\ k # 1 => Heard(k - 1, x)'
         /\ \A x \in DOMAIN entries \cap DOMAIN entries' : Leaving(x) => Leaving(x)'
<1>1. /\ Tables /\ events \in Seq(Event) /\ events # <<>> /\ events' = Tail(events)
      /\ Bindings' /\ Tables' /\ events' \in Seq(Event)
      /\ DOMAIN entries \subseteq Ids /\ DOMAIN entries' \subseteq Ids
      /\ entries' \in [DOMAIN entries' -> Proxies \cup {NULL}]
  BY DEF PwInv, Fed, Tables, Dispatch
<1>2. /\ \A x \in DOMAIN entries \cap DOMAIN entries' :
           /\ entries'[x] \in {entries[x], NULL} /\ events[1] # Gone(x)
      /\ \A x \in DOMAIN entries' \ DOMAIN entries :
           \E k \in 1..Len(requests') : requests'[k] = Bind(x, entries'[x])
  BY <1>1, DispatchKeeps
<1>3. HearsNoMore
  <2>. SUFFICES ASSUME NEW k \in 1..Len(events'), NEW x \in Ids, Heard(k, x)'
                PROVE  Heard(k + 1, x)
    BY DEF HearsNoMore
  <2>1. /\ x \in DOMAIN entries' /\ entries'[x] = events'[k].proxy
        /\ events'[k].ev = "info" /\ events'[k].proxy \in Proxies
    BY <1>1 DEF Heard, Event
  <2>2. entries'[x] # NULL /\ entries'[x] \in Held'
    BY <2>1, PwAssumption DEF Held
  <2>3. CASE x \in DOMAIN entries
    BY <1>1, <1>2, <2>1, <2>2, <2>3, TakenHeard
  <2>4. CASE x \notin DOMAIN entries
    <3>p. PICK p : p = entries'[x]
      OBVIOUS
    <3>1. PICK j \in 1..Len(requests') : requests'[j] = Bind(x, p)
      BY <1>2, <2>1, <2>4, <3>p
    <3>2. Unspoken(p)'
      BY <1>1, <2>1, <2>2, <3>p, <3>1 DEF Bindings, BindsToCome
    <3>. QED  BY <2>1, <3>p, <3>2 DEF Unspoken
  <2>. QED  BY <2>3, <2>4
<1>4. ASSUME NEW x \in DOMAIN entries', NEW k \in 1..Len(events),
             ~Leaving(x)', Heard(k, x), k # 1
      PROVE  Heard(k - 1, x)'
  <2>1. x \in DOMAIN entries /\ entries[x] = events[k].proxy
        /\ events[k].ev = "info" /\ events[k].props # NULL /\ ~LeftBy(x, k)
    BY <1>4 DEF Heard
  <2>2. entries'[x] = entries[x]
    BY <1>1, <1>2, <1>4, <2>1 DEF Bindings, RemovedIsLeaving
  <2>3. k - 1 \in 1..Len(events') /\ events'[k - 1] = events[k]
    BY <1>1, <1>4
  <2>4. ASSUME LeftBy(x, k - 1)'  PROVE FALSE
    <3>1. PICK j \in 1..Len(events') : j < k - 1 /\ events'[j] = Gone(x)
      BY <2>4 DEF LeftBy
    <3>2. j + 1 \in 1..Len(events) /\ events[j + 1] = Gone(x)
      BY <1>1, <3>1, Taken
    <3>. QED  BY <2>1, <3>1, <3>2 DEF LeftBy
  <2>. QED  BY <1>4, <2>1, <2>2, <2>3, <2>4 DEF Heard
<1>5. \A x \in DOMAIN entries \cap DOMAIN entries' : Leaving(x) => Leaving(x)'
  BY <1>1, <1>2, TakenLeft
<1>. QED  BY <1>3, <1>4, <1>5

LEMMA DispatchAlone ==
  ASSUME ~BINDS_FAIL, PwInv, SinkIsAlone, Dispatch
  PROVE  SinkIsAlone'
<1>1. /\ Fed /\ Feed /\ SameNodes /\ IInv /\ TypeOK /\ DOMAIN nodes \subseteq Ids
      /\ events # <<>>
  BY DEF PwInv, Fed, IInv, TypeOK, Dispatch
<1>2. CASE TellsNoInfo
  <2>1. CASE UNCHANGED vars
    BY <2>1 DEF SinkIsAlone, vars
  <2>2. ASSUME NEW y, WalkRemove(y)
        PROVE  SinkIsAlone'
    <3>1. nodes' = Drop(nodes, y)
      BY <2>2 DEF WalkRemove, RemoveOrdinary, RemoveMember, RemoveLast
    <3>. QED  BY <3>1 DEF SinkIsAlone, Drop
  <2>3. ASSUME NEW y, NEW class, y \notin DOMAIN nodes, WalkGlobal(y, class)
        PROVE  SinkIsAlone'
    <3>1. nodes' = Insert(nodes, y, new_node(class))
      BY <2>3 DEF WalkGlobal, Known
    <3>. QED  BY <3>1 DEF SinkIsAlone, Insert, new_node
  <2>. QED  BY <1>2, <2>1, <2>2, <2>3 DEF TellsNoInfo
<1>3. ASSUME NEW x \in Ids, TellsInfo(x)
      PROVE  SinkIsAlone'
  <2>. DEFINE d == events[1].props
              n == NodeAfter(x, d)
  <2>1. /\ Heard(1, x) /\ d \in Dicts /\ WalkInfo(x, d) /\ 1 \in 1..Len(events)
    BY <1>3 DEF TellsInfo, Heard
  <2>2. nodes' = Insert(nodes, x, n)
    BY <2>1 DEF WalkInfo, InfoOrdinary, InfoNewSegment, InfoKnownSegment
  <2>3. /\ x \in DOMAIN nodes
        /\ n.media_class = nodes[x].media_class
        /\ n.segment \in {nodes[x].segment, Carried(d)}
        /\ n.is_sink <=> n.segment # NULL /\ n.media_class = "Audio/Sink"
    BY <1>1, <2>1, HeardIsPublished
  <2>4. /\ MediaClass(d) = nodes[x].media_class
        /\ nodes[x].is_sink <=> nodes[x].segment # NULL /\ nodes[x].media_class = "Audio/Sink"
    BY <1>1, <2>1, <2>3 DEF Feed, HeardFits, SinkIsClass
  <2>5. n.segment \in Segments \cup {NULL}
    BY <1>1, <2>1, NodeAfterType DEF Node
  <2>. HIDE DEF n
  <2>6. ASSUME NEW y \in DOMAIN nodes, y # x, nodes[y].is_sink, n.is_sink,
               nodes[y].segment = n.segment
        PROVE  FALSE
    <3>1. CASE nodes[x].segment = n.segment
      BY <2>3, <2>4, <2>6, <3>1 DEF SinkIsAlone
    <3>2. CASE Carried(d) = n.segment
      <4>1. IsDoor(d, n.segment) /\ n.segment \in Segments
        BY <2>3, <2>4, <2>5, <2>6, <3>2 DEF IsDoor, IsSink
      <4>2. nodes[y].media_class = "Audio/Sink"
        BY <1>1, <2>6 DEF Feed, SinkIsClass
      <4>3. LeftBy(y, 1)
        BY <1>1, <2>1, <2>6, <4>1, <4>2 DEF Feed, OneDoorKnown
      <4>. QED  BY <4>3 DEF LeftBy
    <3>. QED  BY <2>3, <3>1, <3>2
  <2>7. /\ DOMAIN nodes' = DOMAIN nodes /\ nodes'[x] = n
        /\ \A y \in DOMAIN nodes : y # x => nodes'[y] = nodes[y]
    BY <2>2, <2>3 DEF Insert
  <2>. QED  BY <2>6, <2>7 DEF SinkIsAlone
<1>. QED  BY <1>2, <1>3, DispatchTells

-----------------------------------------------------------------------------
(* What a node last said is what it publishes: no answer of the daemon is  *)
(* overtaken by an older one.                                              *)

LastHeard(k, x) == Heard(k, x) /\ \A j \in 1..Len(events) : Heard(j, x) => j <= k

LastTold ==
  \A x \in DOMAIN entries, k \in 1..Len(events) :
    LastHeard(k, x) /\ ~Leaving(x) => x \in DOMAIN graph /\ events[k].props = graph[x]

(* A box whose sink has said all it has to say is what the sink publishes. *)
BoxSynced ==
  \A s \in DOMAIN segments :
    LET box == segments[s].box
    IN  box.sink /\ ~Leaving(box.id) /\ (\A k \in 1..Len(events) : ~Heard(k, box.id))
          => update_from_dict(box, graph[box.id]) = box

(* The walk has yet to hear of a node whose proxy is not bound yet.        *)
Mute(x) == nodes[x].segment = NULL /\ \A k \in 1..Len(events) : ~Heard(k, x)

LEMMA BoundOrMute ==
  ASSUME Tables, Bindings, HeldIsBound, NEW x \in DOMAIN entries, ~Leaving(x)
  PROVE  entries[x] \in BoundTo(x) \/ Mute(x)
<1>1. /\ OneEntry /\ BoundIsHeld /\ BindsToCome /\ DOMAIN entries \subseteq Ids
      /\ entries \in [DOMAIN entries -> Proxies \cup {NULL}]
  BY DEF Tables, Bindings
<1>p. PICK p : p = entries[x]
  OBVIOUS
<1>2. p \in Proxies /\ p # NULL /\ p \in Held
  BY <1>1, <1>p, PwAssumption DEF Bindings, RemovedIsLeaving, Held
<1>3. CASE p \in DOMAIN resources
  <2>1. resources[p] = x
    BY <1>1, <1>2, <1>3, <1>p DEF BoundIsHeld, OneEntry
  <2>. QED  BY <1>3, <1>p, <2>1 DEF BoundTo
<1>4. CASE \E k \in 1..Len(requests) : requests[k] = Bind(x, p)
  <2>1. nodes[x].segment = NULL /\ Unspoken(p)
    BY <1>1, <1>2, <1>4 DEF BindsToCome
  <2>. QED  BY <1>p, <2>1 DEF Mute, Unspoken, Heard
<1>. QED  BY <1>2, <1>3, <1>4, <1>p DEF HeldIsBound

(* What the server says meanwhile of x, that stays, is what x publishes    *)
(* now, and it says so if that is something else than it was.              *)
SpeaksFor(x, u) ==
  /\ x \in DOMAIN graph' /\ graph'[x] \in Dicts
  /\ \A e \in Elements(u) :
       e.ev = "info" /\ e.props # NULL /\ e.proxy = entries[x] => e.props = graph'[x]
  /\ \/ graph'[x] = graph[x]
     \/ Info(entries[x], graph'[x]) \in Elements(u)
     \/ Mute(x)

SpeaksForAll(u) ==
  \A x \in DOMAIN entries : ~Leaving(x) /\ Gone(x) \notin Elements(u) => SpeaksFor(x, u)

LEMMA StampSpeaks ==
  ASSUME Fed, HeldIsBound, NEW id \in DOMAIN graph, NEW d \in Dicts, Stamp(id, d)
  PROVE  \E u \in Seq(Event) : events' = events \o u /\ SpeaksForAll(u)
<1>1. /\ Tables /\ Bindings /\ KnownIsThere
      /\ DOMAIN graph \subseteq Ids /\ graph \in [DOMAIN graph -> Dicts]
  BY DEF Fed, Tables, Feed
<1>2. PICK o \in InSomeOrder(BoundTo(id)) :
        events' = events \o [k \in 1..Len(o) |-> Info(o[k], d)]
  BY DEF Stamp
<1>. DEFINE u == [k \in 1..Len(o) |-> Info(o[k], d)]
<1>3. u \in Seq(Event) /\ Elements(u) = {Info(p, d) : p \in BoundTo(id)}
  <2>1. d \in Dicts \cup {NULL}
    OBVIOUS
  <2>. QED  BY <1>1, <2>1, ToldEach
<1>4. events' = events \o u
  BY <1>2
<1>. HIDE DEF u
<1>5. \A p : Info(p, d).proxy = p /\ Info(p, d).props = d
  BY DEF Info
<1>6. /\ DOMAIN graph' = DOMAIN graph /\ graph'[id] = d
      /\ \A x \in DOMAIN graph : x # id => graph'[x] = graph[x]
  BY DEF Stamp, Insert
<1>7. ASSUME NEW x \in DOMAIN entries, ~Leaving(x)  PROVE SpeaksFor(x, u)
  <2>1. x \in DOMAIN graph
    BY <1>1, <1>7 DEF KnownIsThere
  <2>2. graph[x] \in Dicts /\ graph'[x] \in Dicts
    BY <1>1, <1>6, <2>1
  <2>3. CASE x = id
    <3>1. \A e \in Elements(u) : e.props = d
      BY <1>3, <1>5
    <3>2. entries[x] \in BoundTo(x) \/ Mute(x)
      BY <1>1, <1>7, BoundOrMute
    <3>3. entries[x] \in BoundTo(x) => Info(entries[x], d) \in Elements(u)
      BY <1>3, <2>3
    <3>. QED  BY <1>6, <2>1, <2>2, <2>3, <3>1, <3>2, <3>3 DEF SpeaksFor
  <2>4. CASE x # id
    <3>1. \A e \in Elements(u) : e.proxy # entries[x]
      <4>1. \A p \in BoundTo(id) : p # entries[x]
        BY <1>1, <2>4, BoundToOne
      <4>. QED  BY <1>3, <1>5, <4>1
    <3>. QED  BY <1>6, <2>1, <2>2, <2>4, <3>1 DEF SpeaksFor
  <2>. QED  BY <2>3, <2>4
<1>. QED  BY <1>3, <1>4, <1>7 DEF SpeaksForAll

LEMMA ServerSpeaks ==
  ASSUME Fed, AnswersFit, HeldIsBound, GraphChanges \/ Serve
  PROVE  \E u \in Seq(Event) : events' = events \o u /\ SpeaksForAll(u)
<1>1. /\ Tables /\ Bindings /\ KnownIsThere /\ events \in Seq(Event)
      /\ requests \in Seq(Request) /\ DOMAIN entries \subseteq Ids
      /\ DOMAIN graph \subseteq Ids /\ graph \in [DOMAIN graph -> Dicts]
  BY DEF Fed, Tables, Feed
<1>2. \A x \in DOMAIN entries :
        ~Leaving(x) => x \in DOMAIN graph /\ graph[x] \in Dicts
  BY <1>1 DEF KnownIsThere
<1>3. ASSUME NEW u \in Seq(Event), events' = events \o u,
             \A x \in DOMAIN graph :
               \/ Gone(x) \in Elements(u)
               \/ x \in DOMAIN graph' /\ graph'[x] = graph[x],
             \A e \in Elements(u) : e.ev = "info" => e.props = NULL
      PROVE  \E v \in Seq(Event) : events' = events \o v /\ SpeaksForAll(v)
  BY <1>2, <1>3 DEF SpeaksForAll, SpeaksFor
<1>4. ASSUME NEW f \in Event, events' = Append(events, f),
             \A x \in DOMAIN graph : x \in DOMAIN graph' /\ graph'[x] = graph[x],
             f.ev # "info"
      PROVE  \E v \in Seq(Event) : events' = events \o v /\ SpeaksForAll(v)
  <2>1. <<f>> \in Seq(Event) /\ events' = events \o <<f>> /\ Elements(<<f>>) = {f}
    BY <1>1, <1>4, OneBehind DEF Elements
  <2>. QED  BY <1>3, <1>4, <2>1
<1>5. CASE \E id \in Ids, d \in NodeDicts : NodeAppears(id, d)
  <2>1. PICK id \in Ids, d \in NodeDicts : NodeAppears(id, d)
    BY <1>5
  <2>2. Global(id, MediaClass(d)) \in Event /\ Global(id, MediaClass(d)).ev # "info"
    BY ClassAssumption DEF Global, Event
  <2>3. \A x \in DOMAIN graph : x \in DOMAIN graph' /\ graph'[x] = graph[x]
    BY <2>1 DEF NodeAppears, Insert
  <2>. QED  BY <1>4, <2>1, <2>2, <2>3 DEF NodeAppears
<1>6. CASE \E id \in Ids, d \in NodeDicts : NodePublishes(id, d)
  BY <1>6, StampSpeaks, PwAssumption DEF NodePublishes
<1>7. CASE \E id \in Ids : NodeStirs(id)
  <2>1. PICK id \in Ids : NodeStirs(id)
    BY <1>7
  <2>2. PICK o \in InSomeOrder(BoundTo(id)) :
          events' = events \o [k \in 1..Len(o) |-> Info(o[k], NULL)]
    BY <2>1 DEF NodeStirs
  <2>. DEFINE u == [k \in 1..Len(o) |-> Info(o[k], NULL)]
  <2>3. u \in Seq(Event) /\ Elements(u) = {Info(p, NULL) : p \in BoundTo(id)}
    BY <1>1, ToldEach, NULL \in Dicts \cup {NULL}
  <2>4. events' = events \o u /\ graph' = graph
    BY <2>1, <2>2 DEF NodeStirs
  <2>. HIDE DEF u
  <2>5. \A e \in Elements(u) : e.props = NULL
    BY <2>3 DEF Info
  <2>. QED  BY <1>3, <2>3, <2>4, <2>5
<1>8. CASE \E id \in Ids : NodeLeaves(id)
  <2>1. PICK id \in Ids : NodeLeaves(id)
    BY <1>8
  <2>2. PICK u \in Seq(Event) :
          /\ events' = events \o u
          /\ Elements(u) = {Gone(id)} \cup {Removed(p) : p \in BoundTo(id)}
    BY <1>1, <2>1, LeavesTell
  <2>3. \A e \in Elements(u) : e.ev # "info"
    BY <2>2 DEF Gone, Removed
  <2>4. \A x \in DOMAIN graph : x # id => x \in DOMAIN graph' /\ graph'[x] = graph[x]
    BY <2>1 DEF NodeLeaves, Drop
  <2>5. Gone(id) \in Elements(u) /\ events' = events \o u
    BY <2>2
  <2>6. \A x \in DOMAIN graph :
          \/ Gone(x) \in Elements(u)
          \/ x \in DOMAIN graph' /\ graph'[x] = graph[x]
    BY <2>4, <2>5
  <2>7. \A e \in Elements(u) : e.ev = "info" => e.props = NULL
    BY <2>3
  <2>. QED  BY <1>3, <2>5, <2>6, <2>7
<1>9. CASE Serve
  <2>. DEFINE r == requests[1]
  <2>1. requests # <<>> /\ requests' = Tail(requests)
        /\ (ServeBind(Head(requests)) \/ ServeSync(Head(requests)) \/ ServeWrite(Head(requests)))
    BY <1>9 DEF Serve
  <2>2. r \in Request /\ 1 \in 1..Len(requests) /\ Head(requests) = r
    BY <1>1, <2>1, RequestTaken
  <2>3. ASSUME UNCHANGED <<events, graph>>
        PROVE  \E v \in Seq(Event) : events' = events \o v /\ SpeaksForAll(v)
    <3>1. <<>> \in Seq(Event) /\ events' = events \o <<>> /\ Elements(<<>>) = {}
      BY <1>1, <2>3, NothingSaid, ElementsEmpty
    <3>. QED  BY <1>3, <2>3, <3>1
  <2>. HIDE DEF r
  <2>4. CASE ServeBind(r)
    <3>1. r = Bind(r.id, r.proxy) /\ r.id \in Ids /\ r.proxy \in Proxies /\ graph' = graph
      <4>1. r.op = "bind" /\ graph' = graph
        BY <2>4 DEF ServeBind
      <4>. QED  BY <2>2, <4>1 DEF Request, WriteRequest, Bind
    <3>p. PICK p : p = r.proxy
      OBVIOUS
    <3>2. CASE p \notin Held
      BY <2>3, <2>4, <3>2, <3>p DEF ServeBind
    <3>3. CASE p \in Held /\ r.id \notin DOMAIN graph
      <4>1. events' = Append(events, Removed(p)) /\ Removed(p) \in Event
            /\ Removed(p).ev # "info"
        BY <2>4, <3>1, <3>3, <3>p DEF ServeBind, Removed, Event
      <4>. QED  BY <1>4, <3>1, <4>1
    <3>4. CASE p \in Held /\ r.id \in DOMAIN graph
      <4>f. PICK f : f = Info(p, graph[r.id])
        OBVIOUS
      <4>1. events' = Append(events, f) /\ f \in Event /\ f.props = graph[r.id] /\ f.proxy = p
        <5>1. graph[r.id] \in Dicts
          BY <1>1, <3>4
        <5>. QED  BY <2>4, <3>1, <3>4, <3>p, <4>f, <5>1 DEF ServeBind, Info, Event
      <4>2. <<f>> \in Seq(Event) /\ events' = events \o <<f>> /\ Elements(<<f>>) = {f}
        BY <1>1, <4>1, OneBehind DEF Elements
      <4>3. \A x \in DOMAIN entries : entries[x] = p => x = r.id
        <5>1. r.id \in DOMAIN entries /\ entries[r.id] = p
          BY <1>1, <2>2, <3>1, <3>4, <3>p DEF Bindings, BindsToCome, r
        <5>2. p # NULL
          BY <3>1, <3>p, PwAssumption
        <5>. QED  BY <1>1, <5>1, <5>2 DEF Bindings, OneEntry
      <4>4. SpeaksForAll(<<f>>)
        BY <1>2, <3>1, <4>1, <4>2, <4>3 DEF SpeaksForAll, SpeaksFor
      <4>. QED  BY <4>2, <4>4
    <3>. QED  BY <3>2, <3>3, <3>4
  <2>5. CASE ServeSync(r)
    <3>1. Done(r.seq) \in Event /\ Done(r.seq).ev # "info"
      BY <2>2, <2>5 DEF ServeSync, Request, WriteRequest, Done, Event
    <3>. QED  BY <1>4, <2>5, <3>1 DEF ServeSync
  <2>6. CASE ServeWrite(r)
    <3>1. 1 \in Writes
      BY <2>2, <2>6 DEF ServeWrite, Writes, r
    <3>2. \A id \in Addressed(r) :
            /\ id \in DOMAIN graph
            /\ "accept" \in ANSWERS => Accepting(graph[id], r) \in Dicts
            /\ "refuse" \in ANSWERS => Refusing(graph[id]) \in Dicts
      BY <1>1, <3>1 DEF Addressed, AnswersFit, r
    <3>. QED  BY <2>3, <2>6, <3>2, StampSpeaks DEF ServeWrite
  <2>. QED  BY <2>1, <2>2, <2>4, <2>5, <2>6
<1>. QED  BY <1>5, <1>6, <1>7, <1>8, <1>9 DEF GraphChanges

(* So the last word of a node that is under way stays its last word.       *)
LEMMA ServerTold ==
  ASSUME PwInv, AnswersFit, HeldIsBound, LastTold, BoxSynced, GraphChanges \/ Serve
  PROVE  LastTold' /\ BoxSynced'
<1>1. /\ Fed /\ IInv /\ events \in Seq(Event)
      /\ UNCHANGED <<vars, entries>>
      /\ entries' = entries /\ segments' = segments
  BY DEF PwInv, Fed, Tables, GraphChanges, NodeAppears, NodePublishes, NodeStirs, NodeLeaves,
         Serve, vars
<1>2. PICK u \in Seq(Event) : events' = events \o u /\ SpeaksForAll(u)
  BY <1>1, ServerSpeaks
<1>3. /\ \A x : Leaving(x)' <=> Leaving(x) \/ Gone(x) \in Elements(u)
      /\ \A e \in Elements(u) : \E k \in 1..Len(events') : k > Len(events) /\ events'[k] = e
      /\ \A k \in 1..Len(events) : k \in 1..Len(events') /\ events'[k] = events[k]
      /\ \A x, k : LeftBy(x, k)' => Leaving(x)'
  <2>1. \A x, k : LeftBy(x, k)' => Leaving(x)'
    BY DEF LeftBy, Leaving, Queued
  <2>. QED  BY <1>1, <1>2, <2>1, Behind DEF Leaving
<1>4. ASSUME NEW x \in DOMAIN entries, ~Leaving(x)'
      PROVE  /\ ~Leaving(x) /\ SpeaksFor(x, u)
             /\ Info(entries[x], graph'[x]) \in Elements(u)
                  => \E k \in 1..Len(events') : k > Len(events) /\ Heard(k, x)'
  <2>1. ~Leaving(x) /\ Gone(x) \notin Elements(u)
    BY <1>3, <1>4
  <2>2. SpeaksFor(x, u)
    BY <1>2, <2>1 DEF SpeaksForAll
  <2>d. PICK d, p : d = graph'[x] /\ p = entries[x]
    OBVIOUS
  <2>3. ASSUME Info(p, d) \in Elements(u)
        PROVE  \E k \in 1..Len(events') : k > Len(events) /\ Heard(k, x)'
    <3>1. PICK k \in 1..Len(events') : k > Len(events) /\ events'[k] = Info(p, d)
      BY <1>3, <2>3
    <3>2. d # NULL
      BY <2>2, <2>d, PwAssumption DEF SpeaksFor
    <3>. QED  BY <1>1, <1>3, <1>4, <2>d, <3>1, <3>2 DEF Heard, Info
  <2>. QED  BY <2>1, <2>2, <2>3, <2>d
<1>5. ASSUME NEW x \in DOMAIN entries, NEW k \in 1..Len(events'), LastHeard(k, x)', ~Leaving(x)'
      PROVE  x \in DOMAIN graph' /\ events'[k].props = graph'[x]
  <2>1. ~Leaving(x) /\ SpeaksFor(x, u) /\ Heard(k, x)'
        /\ \A j \in 1..Len(events') : Heard(j, x)' => j <= k
    BY <1>4, <1>5 DEF LastHeard
  <2>2. CASE k \notin 1..Len(events)
    <3>1. /\ events'[k] \in Elements(u) /\ entries[x] = events'[k].proxy
          /\ events'[k].ev = "info" /\ events'[k].props # NULL
      BY <1>1, <1>2, <2>1, <2>2, BehindHeard
    <3>. QED  BY <2>1, <3>1 DEF SpeaksFor
  <2>3. CASE k \in 1..Len(events)
    <3>1. \A j \in 1..Len(events) : Heard(j, x) <=> Heard(j, x)'
      BY <1>1, <1>2, BehindHeard
    <3>2. LastHeard(k, x)
      BY <1>3, <2>1, <2>3, <3>1 DEF LastHeard
    <3>3. x \in DOMAIN graph /\ events[k].props = graph[x]
      BY <2>1, <2>3, <3>2 DEF LastTold
    <3>4. ~Mute(x)
      BY <2>3, <3>2 DEF Mute, LastHeard
    <3>5. Info(entries[x], graph'[x]) \notin Elements(u)
      <4>1. SUFFICES ASSUME Info(entries[x], graph'[x]) \in Elements(u)  PROVE FALSE
        OBVIOUS
      <4>2. PICK j \in 1..Len(events') : j > Len(events) /\ Heard(j, x)'
        BY <1>4, <1>5, <4>1
      <4>3. j <= k
        BY <2>1, <4>2
      <4>. QED  BY <1>1, <2>3, <4>2, <4>3
    <3>. QED  BY <1>3, <2>1, <2>3, <3>3, <3>4, <3>5 DEF SpeaksFor
  <2>. QED  BY <2>2, <2>3
<1>6. LastTold'
  BY <1>1, <1>5 DEF LastTold
<1>7. ASSUME NEW s \in DOMAIN segments, NEW box, box = segments[s].box, NEW n, n = box.id,
             box.sink, ~Leaving(n)', \A k \in 1..Len(events') : ~Heard(k, n)'
      PROVE  update_from_dict(box, graph'[n]) = box
  <2>1. n \in DOMAIN entries /\ nodes[n].segment # NULL
    BY <1>1, <1>7, DoorKnown DEF Fed, SameNodes
  <2>2. ~Leaving(n) /\ SpeaksFor(n, u) /\ Info(entries[n], graph'[n]) \notin Elements(u)
    BY <1>4, <1>7, <2>1
  <2>3. \A k \in 1..Len(events) : ~Heard(k, n)
    BY <1>1, <1>2, <1>3, <1>7, BehindHeard
  <2>4. update_from_dict(box, graph[n]) = box
    BY <1>7, <2>2, <2>3 DEF BoxSynced
  <2>. QED  BY <2>1, <2>2, <2>4 DEF SpeaksFor, Mute
<1>8. BoxSynced'
  BY <1>1, <1>7 DEF BoxSynced
<1>. QED  BY <1>6, <1>8

(* A node the client takes no info of is to the walk what it was before.   *)
LEMMA NodeUntold ==
  ASSUME ~BINDS_FAIL, PwInv, Dispatch, NEW x \in DOMAIN nodes', ~Heard(1, x),
         x \in DOMAIN nodes \/ nodes'[x].segment # NULL
  PROVE  /\ x \in DOMAIN nodes /\ nodes'[x] = nodes[x]
         /\ UNCHANGED vars \/ \E y \in Ids : y # x /\ Elsewhere(y)
<1>0. TypeOK /\ nodes \in [DOMAIN nodes -> Node]
  BY DEF PwInv, IInv, TypeOK
<1>1. CASE TellsNoInfo
  <2>1. CASE UNCHANGED vars
    BY <2>1 DEF vars
  <2>2. ASSUME NEW y \in Ids, WalkRemove(y)
        PROVE  x # y /\ x \in DOMAIN nodes /\ nodes'[x] = nodes[x] /\ Elsewhere(y)
    <3>1. nodes' = Drop(nodes, y)
      BY <2>2 DEF WalkRemove, RemoveOrdinary, RemoveMember, RemoveLast
    <3>. QED  BY <2>2, <3>1 DEF Drop, Elsewhere
  <2>3. ASSUME NEW y \in Ids, y \notin DOMAIN nodes, NEW class, WalkGlobal(y, class)
        PROVE  x # y /\ x \in DOMAIN nodes /\ nodes'[x] = nodes[x] /\ Elsewhere(y)
    <3>1. nodes' = Insert(nodes, y, new_node(class)) /\ new_node(class).segment = NULL
      BY <2>3 DEF WalkGlobal, Known, new_node
    <3>. QED  BY <1>1, <2>3, <3>1 DEF Insert, Elsewhere
  <2>. QED  BY <1>1, <2>1, <2>2, <2>3 DEF TellsNoInfo
<1>2. ASSUME NEW y \in Ids, TellsInfo(y)
      PROVE  x # y /\ x \in DOMAIN nodes /\ nodes'[x] = nodes[x] /\ Elsewhere(y)
  <2>1. /\ Heard(1, y) /\ WalkInfo(y, events[1].props) /\ events[1].props \in Dicts
    BY <1>2 DEF TellsInfo
  <2>2. nodes' = Insert(nodes, y, NodeAfter(y, events[1].props))
    BY <2>1 DEF WalkInfo, InfoOrdinary, InfoNewSegment, InfoKnownSegment
  <2>. QED  BY <2>1, <2>2 DEF Insert, Elsewhere
<1>. QED  BY <1>1, <1>2, DispatchTells

(* The box of a sink that is not told anything stays as it is, ...         *)
LEMMA SinkUntold ==
  ASSUME ~BINDS_FAIL, PwInv, PwInv', SinkIsAlone, SinkIsAlone', Dispatch,
         NEW x \in DOMAIN nodes', nodes'[x].is_sink, NEW s \in Segments, nodes'[x].segment = s,
         ~Heard(1, x)
  PROVE  /\ s \in DOMAIN segments /\ s \in DOMAIN segments'
         /\ segments[s].box.id = x /\ segments[s].box.sink
         /\ segments'[s].box = segments[s].box
<1>1. /\ IInv /\ IInv' /\ TypeOK /\ s # NULL
      /\ nodes \in [DOMAIN nodes -> Node]
  BY WalkAssumption DEF PwInv, IInv, TypeOK
<1>2. /\ x \in DOMAIN nodes /\ nodes'[x] = nodes[x]
      /\ UNCHANGED vars \/ \E y \in Ids : y # x /\ Elsewhere(y)
  BY <1>1, NodeUntold
<1>3. s \in DOMAIN segments /\ s \in DOMAIN segments'
  BY <1>1, <1>2 DEF IInv, SegmentsListed
<1>4. /\ segments[s].nodes \in Seq(Ids) /\ SegmentOK(s, segments[s], nodes)
      /\ segments'[s].nodes \in Seq(Ids) /\ SegmentOK(s, segments'[s], nodes')
      /\ segments[s].box \in Box(Ids, {s}) /\ segments'[s].box \in Box(Ids, {s})
  BY <1>1, <1>3 DEF IInv, TypeOK, SegmentsOK
<1>5. segments[s].box.id = x /\ segments'[s].box.id = x
  <2>1. \A y \in DOMAIN nodes : nodes[y].segment = s /\ nodes[y].is_sink => y = x
    BY <1>2 DEF SinkIsAlone
  <2>2. \A y \in DOMAIN nodes' : nodes'[y].segment = s /\ nodes'[y].is_sink => y = x
    BY DEF SinkIsAlone
  <2>. QED  BY <1>2, <1>4, <2>1, <2>2, OnlySinkIsDoor
<1>6. segments[s].box.sink = TRUE /\ segments'[s].box.sink = TRUE
  BY <1>2, <1>4, <1>5 DEF SegmentOK, Box
<1>7. CASE UNCHANGED vars
  BY <1>3, <1>5, <1>6, <1>7 DEF vars
<1>8. ASSUME NEW y \in Ids, y # x, Elsewhere(y)
      PROVE  segments'[s].box = segments[s].box
  <2>b. PICK b, c : b = segments[s].box /\ c = segments'[s].box
    OBVIOUS
  <2>1. c = b \/ \E sink \in BOOLEAN : c = set_door(b, x, sink)
    BY <1>1, <1>3, <1>5, <1>8, <2>b, BoxElsewhere
  <2>2. ASSUME NEW sink \in BOOLEAN, c = set_door(b, x, sink)  PROVE c = b
    <3>1. b \in Box(Ids, {s}) /\ b.id = x /\ b.sink = TRUE /\ c.sink = TRUE
      BY <1>4, <1>5, <1>6, <2>b
    <3>2. sink = TRUE
      BY <2>2, <3>1 DEF set_door, Box
    <3>3. set_door(b, x, TRUE) = b
      BY <3>1 DEF set_door, Box
    <3>. QED  BY <2>2, <3>2, <3>3
  <2>. QED  BY <2>1, <2>2, <2>b
<1>. QED  BY <1>2, <1>3, <1>5, <1>6, <1>7, <1>8

(* ... and that of a sink that is told something takes it in.              *)
LEMMA SinkTold ==
  ASSUME ~BINDS_FAIL, PwInv, PwInv', SinkIsAlone, SinkIsAlone', Dispatch,
         NEW x \in DOMAIN nodes, nodes[x].is_sink, NEW s \in Segments, nodes[x].segment = s,
         Heard(1, x)
  PROVE  /\ s \in DOMAIN segments /\ s \in DOMAIN segments'
         /\ segments[s].box.id = x /\ segments[s].box.sink
         /\ events[1].props \in Dicts /\ Carried(events[1].props) = s
         /\ segments'[s].box = update_from_dict(segments[s].box, events[1].props)
<1>d. PICK d : d = events[1].props
  OBVIOUS
<1>1. /\ IInv /\ IInv' /\ TypeOK /\ Fed /\ Feed /\ s # NULL /\ events # <<>>
      /\ DOMAIN nodes \subseteq Ids /\ OneEntry
  BY WalkAssumption DEF PwInv, IInv, TypeOK, Fed, Bindings, Dispatch
<1>2. WalkInfo(x, d) /\ d \in Dicts
  <2>1. PICK y \in Ids : TellsInfo(y)
    BY DispatchTells DEF TellsNoInfo
  <2>2. y = x
    <3>1. /\ x \in DOMAIN entries /\ y \in DOMAIN entries /\ entries[x] = entries[y]
          /\ events[1].ev = "info" /\ entries[x] = events[1].proxy /\ events[1] \in Event
      BY <1>1, <2>1, Taken DEF TellsInfo, Heard, Fed, Tables, Dispatch
    <3>2. entries[x] # NULL
      BY <3>1, PwAssumption DEF Event
    <3>. QED  BY <1>1, <3>1, <3>2 DEF OneEntry
  <2>. QED  BY <1>d, <2>1, <2>2 DEF TellsInfo
<1>3. /\ NodeAfter(x, d).segment \in {nodes[x].segment, Carried(d)}
      /\ NodeAfter(x, d).media_class = nodes[x].media_class
      /\ NodeAfter(x, d).is_sink
           <=> NodeAfter(x, d).segment # NULL /\ NodeAfter(x, d).media_class = "Audio/Sink"
      /\ nodes[x].media_class = "Audio/Sink"
  BY <1>1, <1>2, <1>d, HeardIsPublished DEF Feed, SinkIsClass
<1>4. Carried(d) = s
  <2>1. 1 \in 1..Len(events)
    BY DEF Heard
  <2>. QED  BY <1>1, <1>d, <2>1 DEF Feed, HeardFits, Kept
<1>5. InfoSegment(x, d) = s
  BY <1>1, <1>4 DEF InfoSegment, Carried
<1>6. s \in DOMAIN segments
  BY <1>1 DEF IInv, SegmentsListed
<1>7. InfoKnownSegment(x, d)
  BY <1>1, <1>2, <1>5, <1>6 DEF WalkInfo, InfoOrdinary, InfoNewSegment
<1>n. PICK n : n = NodeAfter(x, d)
  OBVIOUS
<1>8. n.is_sink = TRUE /\ n.segment = s /\ nodes' = Insert(nodes, x, n)
  <2>1. n \in Node
    BY <1>1, <1>2, <1>n, NodeAfterType
  <2>. QED  BY <1>1, <1>3, <1>4, <1>7, <1>n, <2>1 DEF InfoKnownSegment, Node
<1>9. x \in DOMAIN nodes' /\ nodes'[x] = n
  BY <1>8 DEF Insert
<1>10. s \in DOMAIN segments'
  BY <1>1, <1>8, <1>9 DEF IInv, SegmentsListed
<1>11. /\ segments[s].nodes \in Seq(Ids) /\ SegmentOK(s, segments[s], nodes)
       /\ segments'[s].nodes \in Seq(Ids) /\ SegmentOK(s, segments'[s], nodes')
       /\ segments[s].box \in Box(Ids, {s})
       /\ segments = [z \in DOMAIN segments |-> segments[z]]
  BY <1>1, <1>6, <1>10 DEF IInv, TypeOK, SegmentsOK
<1>12. segments[s].box.id = x /\ segments'[s].box.id = x
  <2>1. \A y \in DOMAIN nodes : nodes[y].segment = s /\ nodes[y].is_sink => y = x
    BY DEF SinkIsAlone
  <2>2. \A y \in DOMAIN nodes' : nodes'[y].segment = s /\ nodes'[y].is_sink => y = x
    BY <1>8, <1>9 DEF SinkIsAlone
  <2>. QED  BY <1>8, <1>9, <1>11, <2>1, <2>2, OnlySinkIsDoor
<1>b. PICK b, ms : b = segments[s].box /\ ms = AddOnce(segments[s].nodes, x)
  OBVIOUS
<1>13. b.sink = TRUE /\ b.id = x /\ b \in Box(Ids, {s})
  BY <1>11, <1>12, <1>b DEF SegmentOK, Box
<1>14. segments' = [segments EXCEPT ![s] = [box |-> BoxAfter(b, x, d, ms, nodes'), nodes |-> ms]]
  BY <1>5, <1>7, <1>b DEF InfoKnownSegment
<1>15. segments'[s].nodes = ms /\ segments'[s].box = BoxAfter(b, x, d, ms, nodes')
  BY <1>6, <1>11, <1>14
<1>16. pick_door(ms, nodes') = x
  BY <1>11, <1>12, <1>15 DEF SegmentOK
<1>17. set_door(b, x, nodes'[x].is_sink) = b
  BY <1>8, <1>9, <1>13 DEF set_door, Box
<1>. QED
  BY <1>2, <1>4, <1>6, <1>10, <1>12, <1>13, <1>15, <1>16, <1>17, <1>b, <1>d DEF BoxAfter

(* The client takes an event: what was the last word still is, or is the   *)
(* box now.                                                                *)
LEMMA DispatchTold ==
  ASSUME ~BINDS_FAIL, PwInv, PwInv', SinkIsAlone, SinkIsAlone', LastTold, BoxSynced, Dispatch
  PROVE  LastTold' /\ BoxSynced'
<1>1. /\ Fed /\ Feed /\ IInv /\ IInv' /\ SameNodes' /\ SameNodes /\ TypeOK /\ TypeOK'
      /\ events \in Seq(Event) /\ events # <<>> /\ events' = Tail(events) /\ graph' = graph
      /\ DOMAIN entries' \subseteq Ids
  BY DEF PwInv, Fed, Tables, Dispatch, IInv
<1>2. /\ 1 \in 1..Len(events)
      /\ \A k \in 1..Len(events') : k + 1 \in 1..Len(events) /\ events'[k] = events[k + 1]
  BY <1>1, Taken
<1>3. /\ HearsNoMore
      /\ \A x \in DOMAIN entries', k \in 1..Len(events) :
           ~Leaving(x)' /\ Heard(k, x) /\ k # 1 => Heard(k - 1, x)'
      /\ \A x \in DOMAIN entries \cap DOMAIN entries' : Leaving(x) => Leaving(x)'
  BY DispatchHears
<1>4. ASSUME NEW x \in DOMAIN entries', NEW k \in 1..Len(events'), LastHeard(k, x)', ~Leaving(x)'
      PROVE  x \in DOMAIN graph' /\ events'[k].props = graph'[x]
  <2>1. Heard(k + 1, x) /\ x \in DOMAIN entries /\ ~Leaving(x)
    BY <1>1, <1>3, <1>4 DEF LastHeard, HearsNoMore, Heard
  <2>2. \A j \in 1..Len(events) : Heard(j, x) => j <= k + 1
    <3>1. TAKE j \in 1..Len(events)
    <3>2. HAVE Heard(j, x)
    <3>3. CASE j = 1
      BY <3>3
    <3>4. CASE j # 1
      <4>1. Heard(j - 1, x)'
        BY <1>3, <1>4, <3>2, <3>4
      <4>2. j - 1 \in 1..Len(events')
        BY <4>1 DEF Heard
      <4>3. j - 1 <= k
        BY <1>4, <4>1, <4>2 DEF LastHeard
      <4>. QED  BY <4>3
    <3>. QED  BY <3>3, <3>4
  <2>3. LastHeard(k + 1, x) /\ k + 1 \in 1..Len(events)
    BY <1>2, <2>1, <2>2 DEF LastHeard
  <2>. QED  BY <1>1, <1>2, <2>1, <2>3 DEF LastTold
<1>5. ASSUME NEW s \in DOMAIN segments', NEW box, box = segments'[s].box, NEW n, n = box.id,
             box.sink, ~Leaving(n)', \A k \in 1..Len(events') : ~Heard(k, n)'
      PROVE  update_from_dict(box, graph'[n]) = box
  <2>1. /\ s \in Segments /\ s # NULL
        /\ segments'[s].nodes \in Seq(Ids) /\ SegmentOK(s, segments'[s], nodes')
    <3>1. s \in Segments /\ segments'[s].nodes \in Seq(Ids)
      BY <1>1, <1>5 DEF TypeOK
    <3>2. SegmentOK(s, segments'[s], nodes')
      BY <1>1, <1>5 DEF IInv, SegmentsOK
    <3>. QED  BY <3>1, <3>2, WalkAssumption
  <2>2. n \in DOMAIN nodes' /\ nodes'[n].segment = s /\ nodes'[n].is_sink
    <3>1. n \in Elements(segments'[s].nodes)
      BY <1>5, <2>1, PickDoorBest DEF SegmentOK
    <3>. QED  BY <1>5, <2>1, <3>1 DEF SegmentOK
  <2>3. n \in DOMAIN entries' /\ n \in Ids
    BY <1>1, <2>2 DEF SameNodes
  <2>4. \A k \in 1..Len(events) : Heard(k, n) => k = 1
    <3>1. TAKE k \in 1..Len(events)
    <3>2. SUFFICES ASSUME Heard(k, n), k # 1  PROVE FALSE
      OBVIOUS
    <3>3. Heard(k - 1, n)'
      BY <1>3, <1>5, <2>3, <3>2
    <3>. QED  BY <1>5, <3>3 DEF Heard
  <2>5. CASE Heard(1, n)
    <3>1. n \in DOMAIN entries /\ ~Leaving(n) /\ LastHeard(1, n)
      BY <1>3, <1>5, <2>3, <2>4, <2>5 DEF LastHeard, Heard
    <3>d. PICK d : d = events[1].props
      OBVIOUS
    <3>2. d = graph[n]
      BY <1>2, <3>1, <3>d DEF LastTold
    <3>3. WalkInfo(n, d) /\ d \in Dicts
      <4>1. PICK y \in Ids : TellsInfo(y)
        BY <2>5, DispatchTells DEF TellsNoInfo
      <4>2. y = n
        <5>1. /\ y \in DOMAIN entries /\ entries[n] = entries[y]
              /\ events[1].ev = "info" /\ entries[n] = events[1].proxy /\ events[1] \in Event
          BY <1>1, <2>5, <4>1, Taken DEF TellsInfo, Heard
        <5>2. entries[n] # NULL
          BY <5>1, PwAssumption DEF Event
        <5>. QED  BY <1>1, <3>1, <5>1, <5>2 DEF Fed, Bindings, OneEntry
      <4>. QED  BY <3>d, <4>1, <4>2 DEF TellsInfo
    <3>4. Carried(d) = s
      <4>1. nodes' = Insert(nodes, n, NodeAfter(n, d))
        BY <3>3 DEF WalkInfo, InfoOrdinary, InfoNewSegment, InfoKnownSegment
      <4>2. NodeAfter(n, d).segment = s
        BY <2>2, <4>1 DEF Insert
      <4>3. NodeAfter(n, d).segment \in {nodes[n].segment, Carried(d)}
        BY <1>1, <2>3, <2>5, <3>3, <3>d, HeardIsPublished
      <4>4. Kept(nodes[n].segment, Carried(d))
        BY <1>1, <1>2, <2>3, <2>5, <3>d DEF Feed, HeardFits
      <4>. QED  BY <2>1, <4>2, <4>3, <4>4 DEF Kept
    <3>5. update_from_dict(segments'[s].box, d) = segments'[s].box
      BY <1>1, <1>5, <2>1, <2>3, <3>3, <3>4, BoxTold
    <3>. QED  BY <1>1, <1>5, <3>2, <3>5
  <2>6. CASE ~Heard(1, n)
    <3>1. /\ s \in DOMAIN segments /\ segments[s].box.id = n /\ segments[s].box.sink
          /\ segments'[s].box = segments[s].box
      BY <2>1, <2>2, <2>6, SinkUntold
    <3>2. n \in DOMAIN entries /\ ~Leaving(n)
      <4>1. n \in DOMAIN nodes
        BY <1>1, <3>1, DoorKnown
      <4>2. n \in DOMAIN entries
        BY <1>1, <4>1 DEF SameNodes
      <4>. QED  BY <1>3, <1>5, <2>3, <4>2
    <3>3. \A k \in 1..Len(events) : ~Heard(k, n)
      BY <2>4, <2>6
    <3>. QED  BY <1>1, <1>5, <3>1, <3>2, <3>3 DEF BoxSynced
  <2>. QED  BY <2>5, <2>6
<1>6. LastTold'
  BY <1>4 DEF LastTold
<1>7. BoxSynced'
  BY <1>5 DEF BoxSynced
<1>. QED  BY <1>6, <1>7

-----------------------------------------------------------------------------
(* The strap of a box: where a segment keeps the base and the count it     *)
(* first published, an input keeps its channel on the wire.                *)

SameBase(seg, b) ==
  b.base >= 0 => \E d \in With("base") : Carried(d) = seg /\ base_parse(d.base) = b.base

StrapKnown == \A s \in DOMAIN segments : SameBase(s, segments[s].box)

LEMMA UpdateBase ==
  ASSUME NEW ids, NEW segs, NEW b \in Box(ids, segs), NEW seg, SameBase(seg, b),
         NEW d \in Dicts, Carried(d) = seg
  PROVE  SameBase(seg, update_from_dict(b, d))
<1>1. update_from_dict(b, d).base = take(b.base, d, "base", base_parse(d.base))
  BY DEF update_from_dict, Box
<1>. QED  BY <1>1 DEF SameBase, take, With

LEMMA DoorBase ==
  ASSUME NEW ids, NEW segs, NEW b \in Box(ids, segs), NEW seg, SameBase(seg, b), NEW id, NEW sink
  PROVE  SameBase(seg, set_door(b, id, sink))
<1>1. set_door(b, id, sink).base = b.base
  BY DEF set_door, Box
<1>. QED  BY <1>1 DEF SameBase

LEMMA DispatchStrap ==
  ASSUME ~BINDS_FAIL, PwInv, StrapKnown, Dispatch
  PROVE  StrapKnown'
<1>1. /\ IInv /\ TypeOK /\ Fed /\ Feed /\ events # <<>>
      /\ segments = [z \in DOMAIN segments |-> segments[z]]
      /\ \A s \in DOMAIN segments :
           segments[s].box \in Box(Ids, {s}) /\ SameBase(s, segments[s].box)
  BY DEF PwInv, IInv, TypeOK, Fed, Dispatch, StrapKnown
<1>2. CASE UNCHANGED segments
  BY <1>2 DEF StrapKnown
<1>3. CASE TellsNoInfo
  <2>1. ASSUME NEW y, RemoveMember(y)  PROVE StrapKnown'
    <3>. DEFINE seg  == SegmentOf(y)
                door == pick_door(Rest(y), nodes')
    <3>1. /\ seg \in DOMAIN segments
          /\ segments' = [segments EXCEPT ![seg] =
               [box |-> set_door(@.box, door, nodes'[door].is_sink), nodes |-> Rest(y)]]
      BY <2>1 DEF RemoveMember
    <3>b. PICK b : b = set_door(segments[seg].box, door, nodes'[door].is_sink)
      OBVIOUS
    <3>2. SameBase(seg, b)
      BY <1>1, <3>1, <3>b, DoorBase
    <3>. HIDE DEF seg, door
    <3>3. segments' = [segments EXCEPT ![seg] = [box |-> b, nodes |-> Rest(y)]]
      BY <3>1, <3>b
    <3>4. ASSUME NEW s \in DOMAIN segments'  PROVE SameBase(s, segments'[s].box)
      <4>1. s \in DOMAIN segments
        BY <3>3, <3>4
      <4>2. CASE s = seg
        BY <1>1, <3>1, <3>2, <3>3, <4>2
      <4>3. CASE s # seg
        BY <1>1, <3>3, <4>1, <4>3
      <4>. QED  BY <4>2, <4>3
    <3>. QED  BY <3>4 DEF StrapKnown
  <2>2. ASSUME NEW y, RemoveLast(y)  PROVE StrapKnown'
    BY <1>1, <2>2 DEF RemoveLast, Drop, StrapKnown
  <2>. QED
    BY <1>2, <1>3, <2>1, <2>2 DEF TellsNoInfo, vars, WalkGlobal, WalkRemove, RemoveOrdinary
<1>4. ASSUME NEW x \in Ids, TellsInfo(x)
      PROVE  StrapKnown'
  <2>d. PICK d : d = events[1].props
    OBVIOUS
  <2>1. /\ d \in Dicts /\ WalkInfo(x, d) /\ Heard(1, x) /\ 1 \in 1..Len(events)
    BY <1>4, <2>d DEF TellsInfo, Heard
  <2>2. x \in DOMAIN nodes /\ Kept(nodes[x].segment, Carried(d))
    BY <1>1, <2>1, <2>d, HeardIsPublished DEF Feed, HeardFits
  <2>3. InfoSegment(x, d) = Carried(d)
    BY <2>2 DEF InfoSegment, Carried, Kept, NodeBefore, Known
  <2>s. PICK seg : seg = Carried(d)
    OBVIOUS
  <2>n. PICK n : n = NodeAfter(x, d)
    OBVIOUS
  <2>4. n.is_sink \in BOOLEAN
    BY <1>1, <2>1, <2>n, NodeAfterType DEF Node
  <2>5. CASE InfoNewSegment(x, d)
    <3>b. PICK new : new = box_new(x, seg, n.is_sink)
      OBVIOUS
    <3>1. new \in Box({x}, {seg}) /\ SameBase(seg, new)
      <4>1. new.base = -1
        BY <3>b DEF box_new
      <4>. QED  BY <2>4, <3>b, <4>1, NewBoxType DEF SameBase
    <3>2. SameBase(seg, update_from_dict(new, d))
      BY <2>1, <2>s, <3>1, UpdateBase
    <3>3. segments' = Insert(segments, seg, [box |-> update_from_dict(new, d), nodes |-> <<x>>])
      BY <2>3, <2>5, <2>n, <2>s, <3>b DEF InfoNewSegment
    <3>. QED  BY <1>1, <3>2, <3>3 DEF Insert, StrapKnown
  <2>6. CASE InfoKnownSegment(x, d)
    <3>. DEFINE old == segments[seg].box
                ms  == AddOnce(segments[seg].nodes, x)
    <3>b. PICK box : box = BoxAfter(old, x, d, ms, nodes')
      OBVIOUS
    <3>1. /\ seg \in DOMAIN segments /\ nodes' = Insert(nodes, x, n)
          /\ segments' = [segments EXCEPT ![seg] = [box |-> box, nodes |-> ms]]
      BY <2>3, <2>6, <2>n, <2>s, <3>b DEF InfoKnownSegment
    <3>p. PICK pointed : pointed = set_door(old, x, nodes'[x].is_sink)
      OBVIOUS
    <3>2. old \in Box(Ids, {seg}) /\ SameBase(seg, old) /\ nodes'[x].is_sink \in BOOLEAN
      BY <1>1, <2>4, <3>1 DEF Insert
    <3>3. box \in {old, update_from_dict(pointed, d)}
      BY <3>b, <3>p DEF BoxAfter
    <3>. HIDE DEF old, ms
    <3>4. pointed \in Box(Ids, {seg}) /\ SameBase(seg, pointed)
      BY <3>2, <3>p, SetDoorType, DoorBase
    <3>5. SameBase(seg, update_from_dict(pointed, d))
      BY <2>1, <2>s, <3>4, UpdateBase
    <3>6. SameBase(seg, box)
      BY <3>2, <3>3, <3>5
    <3>. QED  BY <1>1, <3>1, <3>6 DEF StrapKnown
  <2>. QED  BY <1>2, <2>1, <2>5, <2>6 DEF WalkInfo, InfoOrdinary
<1>. QED  BY <1>3, <1>4, DispatchTells

(* Where on the wire an input of a segment is.                             *)
OnWire(s, i, p, key) ==
  \E d \in With("base") :
    /\ Carried(d) = s /\ base_parse(d.base) >= 0
    /\ wire_ch(base_parse(d.base), i) >= 0
    /\ key = <<wire_ch(base_parse(d.base), i), p>>

LEMMA OneOnWire ==
  ASSUME BaseIsKept, NEW s, s # NULL, NEW i, NEW p, NEW key, NEW lock,
         OnWire(s, i, p, key), OnWire(s, i, p, lock)
  PROVE  key = lock
BY DEF OnWire, BaseIsKept

(* Two controls of a segment are not in one place.                         *)
LEMMA SameControl ==
  ASSUME BaseIsKept, NEW s, s # NULL, NEW i \in Int, NEW j \in Int, NEW p, NEW q, NEW key,
         OnWire(s, i, p, key), OnWire(s, j, q, key)
  PROVE  i = j /\ p = q
<1>. HeadampAssumption
  BY HeadampAssumption
<1>1. PICK d \in With("base") :
        /\ Carried(d) = s /\ base_parse(d.base) >= 0
        /\ wire_ch(base_parse(d.base), i) >= 0
        /\ key = <<wire_ch(base_parse(d.base), i), p>>
  BY DEF OnWire
<1>2. PICK e \in With("base") :
        /\ Carried(e) = s /\ base_parse(e.base) >= 0
        /\ wire_ch(base_parse(e.base), j) >= 0
        /\ key = <<wire_ch(base_parse(e.base), j), q>>
  BY DEF OnWire
<1>b. PICK base : base = base_parse(d.base)
  OBVIOUS
<1>3. base_parse(e.base) = base
  BY <1>1, <1>2, <1>b DEF BaseIsKept
<1>4. wire_ch(base, i) = wire_ch(base, j) /\ wire_ch(base, i) >= 0 /\ p = q
  BY <1>1, <1>2, <1>3, <1>b
<1>5. base \in Int
  BY <1>b DEF base_parse
<1>. QED  BY <1>4, <1>5 DEF wire_ch

LEMMA BoxOnWire ==
  ASSUME NEW s, NEW box, SameBase(s, box), NEW i, NEW p, box_wire_ch(box, i) >= 0
  PROVE  OnWire(s, i, p, <<box_wire_ch(box, i), p>>)
<1>. HeadampAssumption
  BY HeadampAssumption
<1>1. box.base >= 0
  BY DEF box_wire_ch, wire_ch
<1>2. PICK d \in With("base") : Carried(d) = s /\ base_parse(d.base) = box.base
  BY <1>1 DEF SameBase
<1>. QED  BY <1>1, <1>2 DEF OnWire, box_wire_ch

-----------------------------------------------------------------------------
(* What the operator set stands: at the place on the wire where the input  *)
(* of the segment is, the last word is the value set.  It is that of the   *)
(* last write under way to the cell, or else of the node.                  *)

AllReach == \A k \in Writes : requests[k].proxy \in DOMAIN resources

Keys == (0..(MAX_CH - 1)) \X Params

Setting(n, key) == {k \in Writes : requests[k].proxy = entries[n] /\ requests[k].key = key}

LastWord(n, key, v) ==
  \/ Setting(n, key) = {} /\ Says(graph[n], key, v)
  \/ \E k \in Setting(n, key) :
       requests[k].value = v /\ \A j \in Setting(n, key) : j <= k

Stands(s, i, p, v) ==
  /\ v \in Byte /\ (p # "sens" => v <= 1)
  /\ s \in DOMAIN segments
  /\ LET box == segments[s].box
     IN  /\ box.sink /\ box.readback
         /\ box.id \in DOMAIN entries /\ entries[box.id] \in DOMAIN resources
         /\ \E key \in Keys : OnWire(s, i, p, key) /\ LastWord(box.id, key, v)

LastSound ==
  AllReach => \A c \in DOMAIN last :
    \E s \in Segments, i \in 1..MAX_CH, p \in Params :
      c = <<s, i, p>> /\ Stands(s, i, p, last[c])

(* The daemon serves: a write it takes has its value in what the node says,*)
(* and what it takes of others leaves the node's word on the cell.         *)
LEMMA ServedHasWord ==
  ASSUME ANSWERS = {"accept"}, Fed, Serve,
         NEW n \in DOMAIN entries, entries[n] \in DOMAIN resources,
         NEW key \in Keys, NEW v, LastWord(n, key, v)
  PROVE  LastWord(n, key, v)' /\ entries'[n] \in DOMAIN resources'
<1>1. /\ Tables /\ requests \in Seq(Request) /\ BoundIsHeld /\ OneEntry
      /\ requests # <<>> /\ requests' = Tail(requests) /\ entries' = entries
      /\ DOMAIN graph \subseteq Ids /\ graph \in [DOMAIN graph -> Dicts]
      /\ DOMAIN resources \subseteq Proxies /\ resources \in [DOMAIN resources -> Ids]
  BY DEF Fed, Tables, Bindings, Serve
<1>r. PICK r : r = requests[1]
  OBVIOUS
<1>p. PICK p : p = entries[n]
  OBVIOUS
<1>2. /\ Head(requests) = r /\ r \in Request /\ 1 \in 1..Len(requests)
      /\ ServeBind(r) \/ ServeSync(r) \/ ServeWrite(r)
  BY <1>1, <1>r, RequestTaken DEF Serve
<1>3. /\ p \in Proxies /\ resources[p] = n /\ n \in DOMAIN graph /\ graph[n] \in Dicts
      /\ \A q \in BoundTo(n) : q = p
      /\ p \in BoundTo(n)
  <2>1. p \in Proxies /\ p # NULL /\ resources[p] \in DOMAIN entries
        /\ resources[p] \in DOMAIN graph /\ entries[resources[p]] = p
    BY <1>1, <1>p, PwAssumption DEF BoundIsHeld
  <2>2. resources[p] = n
    BY <1>p, <2>1, <1>1 DEF OneEntry
  <2>. QED  BY <1>1, <1>p, <2>1, <2>2 DEF BoundTo, BoundIsHeld
<1>4. entries'[n] \in DOMAIN resources'
  BY <1>1, <1>2 DEF ServeBind, ServeSync, ServeWrite, Insert
<1>S. PICK S : S = Setting(n, key)
  OBVIOUS
<1>5. \A j \in 1..Len(requests') : j + 1 \in 1..Len(requests) /\ requests'[j] = requests[j + 1]
  BY <1>1
<1>6. \A j \in 1..Len(requests) : j # 1 => j - 1 \in 1..Len(requests')
  BY <1>1
<1>7. Setting(n, key)' = {j \in 1..Len(requests') : j + 1 \in S}
  BY <1>1, <1>5, <1>S DEF Setting, Writes
<1>8. S \subseteq 1..Len(requests) /\ Len(requests) \in Nat
  BY <1>1, <1>S DEF Setting, Writes
<1>9. 1 \in S <=> r.op = "write" /\ r.proxy = p /\ r.key = key
  BY <1>2, <1>p, <1>r, <1>S DEF Setting, Writes
<1>10. r.op = "write" => r \in WriteRequest
  BY <1>2 DEF Request
<1>11. ASSUME 1 \notin S, Says(graph[n], key, v)
       PROVE  Says(graph'[n], key, v)
  <2>1. CASE graph' = graph
    BY <1>11, <2>1
  <2>2. ASSUME r.op = "write", NEW id \in Addressed(r), Stamp(id, Accepting(graph[id], r))
        PROVE  Says(graph'[n], key, v)
    <3>1. /\ id # n => graph'[n] = graph[n]
          /\ id = n => graph'[n] = Accepting(graph[n], r)
      BY <1>3, <2>2 DEF Stamp, Insert
    <3>2. CASE id = n
      <4>1. r.proxy = p
        BY <1>3, <2>2, <3>2 DEF Addressed
      <4>2. r.key # key
        BY <1>9, <1>11, <2>2, <4>1
      <4>3. Says(Accepting(graph[n], r), key, v)
        BY <1>3, <1>10, <1>11, <2>2, <4>2, ShadowSays DEF Keys
      <4>. QED  BY <3>1, <3>2, <4>3
    <3>. QED  BY <1>11, <3>1, <3>2
  <2>. QED  BY <1>2, <2>1, <2>2 DEF ServeBind, ServeSync, ServeWrite
<1>12. ASSUME 1 \in S, r.value = v
       PROVE  Says(graph'[n], key, v)
  <2>1. r.op = "write" /\ r.proxy = p /\ r.key = key /\ r \in WriteRequest
    BY <1>9, <1>10, <1>12
  <2>2. n \in Addressed(r) /\ \A id \in Addressed(r) : id = n
    BY <1>3, <2>1 DEF Addressed, BoundTo
  <2>3. Stamp(n, Accepting(graph[n], r))
    BY <1>2, <2>1, <2>2 DEF ServeWrite, ServeBind, ServeSync
  <2>4. graph'[n] = Accepting(graph[n], r)
    BY <2>3 DEF Stamp, Insert
  <2>. QED  BY <1>3, <1>12, <2>1, <2>4, ShadowSays
<1>13. CASE S = {} /\ Says(graph[n], key, v)
  <2>1. Setting(n, key)' = {}
    BY <1>7, <1>13
  <2>. QED  BY <1>4, <1>11, <1>13, <2>1 DEF LastWord
<1>14. ASSUME NEW k \in S, requests[k].value = v, \A j \in S : j <= k
       PROVE  LastWord(n, key, v)'
  <2>1. CASE k = 1
    <3>1. ASSUME NEW j \in S  PROVE j = 1
      <4>1. j \in Nat /\ j >= 1
        BY <1>8
      <4>2. j <= 1
        BY <1>14, <2>1
      <4>. QED  BY <4>1, <4>2
    <3>2. Setting(n, key)' = {}
      BY <1>7, <3>1
    <3>3. Says(graph'[n], key, v)
      BY <1>12, <1>14, <1>r, <2>1
    <3>. QED  BY <3>2, <3>3 DEF LastWord
  <2>2. CASE k # 1
    <3>0. k \in 1..Len(requests) /\ k \in Nat
      BY <1>8
    <3>1. k - 1 \in 1..Len(requests') /\ (k - 1) + 1 = k /\ k \in Nat
      BY <1>6, <2>2, <3>0
    <3>2. k - 1 \in Setting(n, key)' /\ requests'[k - 1] = requests[k]
      BY <1>5, <1>7, <1>14, <3>1
    <3>3. \A j \in Setting(n, key)' : j <= k - 1
      BY <1>7, <1>8, <1>14, <3>1
    <3>. QED  BY <1>14, <3>2, <3>3 DEF LastWord
  <2>. QED  BY <2>1, <2>2
<1>. QED  BY <1>4, <1>13, <1>14, <1>S DEF LastWord

LEMMA ServedSound ==
  ASSUME ANSWERS = {"accept"}, PwInv, Served, LastSound
  PROVE  LastSound'
<1>1. /\ Fed /\ Tables /\ Bindings /\ Serve /\ UNCHANGED <<vars, entries>>
      /\ requests \in Seq(Request) /\ requests # <<>> /\ requests' = Tail(requests)
  BY DEF PwInv, Fed, Served, Serve, Tables
<1>r. PICK r : r = requests[1]
  OBVIOUS
<1>2. /\ Head(requests) = r /\ r \in Request /\ 1 \in 1..Len(requests)
      /\ ServeBind(r) \/ ServeSync(r) \/ ServeWrite(r)
      /\ last' = IF r.op = "write" /\ Addressed(r) = {} THEN NothingSet ELSE last
  <2>1. Head(requests) = r /\ r \in Request /\ 1 \in 1..Len(requests)
    BY <1>1, <1>r, RequestTaken
  <2>. QED  BY <1>1, <2>1 DEF Serve, Served
<1>3. CASE last' = NothingSet
  BY <1>3 DEF NothingSet, LastSound
<1>4. CASE ~(r.op = "write" /\ Addressed(r) = {})
  <2>1. last' = last
    BY <1>2, <1>4
  <2>2. AllReach' => AllReach
    <3>. SUFFICES ASSUME AllReach', NEW k \in Writes  PROVE requests[k].proxy \in DOMAIN resources
      BY DEF AllReach
    <3>1. k \in 1..Len(requests) /\ requests[k].op = "write"
      BY DEF Writes
    <3>2. CASE k = 1
      BY <1>4, <1>r, <3>1, <3>2 DEF Addressed, BoundTo
    <3>3. CASE k # 1
      <4>1. PICK j \in 1..Len(requests') : requests'[j] = requests[k]
        BY <1>1, <3>1, <3>3, RequestMoves
      <4>2. requests[k].proxy \in DOMAIN resources'
        BY <3>1, <4>1 DEF AllReach, Writes
      <4>3. CASE DOMAIN resources' = DOMAIN resources
        BY <4>2, <4>3
      <4>4. CASE r.op = "bind" /\ r.proxy \in Held /\ resources' = Insert(resources, r.proxy, r.id)
        <5>1. r = Bind(r.id, r.proxy) /\ r.id \in Ids /\ r.proxy \in Proxies
          BY <1>2, <4>4 DEF Request, WriteRequest, Bind
        <5>2. Unspoken(r.proxy)
          BY <1>1, <1>2, <1>r, <4>4, <5>1 DEF Bindings, BindsToCome
        <5>3. requests[k].proxy # r.proxy
          BY <3>1, <5>2 DEF Unspoken
        <5>. QED  BY <4>2, <4>4, <5>3 DEF Insert
      <4>. QED  BY <1>2, <4>3, <4>4 DEF ServeBind, ServeSync, ServeWrite
    <3>. QED  BY <3>2, <3>3
  <2>3. ASSUME NEW s \in Segments, NEW i \in 1..MAX_CH, NEW p \in Params, NEW v, Stands(s, i, p, v)
        PROVE  Stands(s, i, p, v)'
    <3>n. PICK n : n = segments[s].box.id
      OBVIOUS
    <3>1. /\ n \in DOMAIN entries /\ entries[n] \in DOMAIN resources
          /\ \E key \in Keys : OnWire(s, i, p, key) /\ LastWord(n, key, v)
      BY <2>3, <3>n DEF Stands
    <3>2. PICK key \in Keys : OnWire(s, i, p, key) /\ LastWord(n, key, v)
      BY <3>1
    <3>3. LastWord(n, key, v)' /\ entries'[n] \in DOMAIN resources'
      BY <1>1, <3>1, <3>2, ServedHasWord
    <3>. QED  BY <1>1, <2>3, <3>1, <3>2, <3>3, <3>n DEF Stands, vars
  <2>. QED  BY <2>1, <2>2, <2>3 DEF LastSound
<1>. QED  BY <1>2, <1>3, <1>4

(* The client takes an event: the door of a box an operator has set stays, *)
(* and what is under way to it stays under way.                            *)
LEMMA DispatchedSound ==
  ASSUME ~BINDS_FAIL, PwInv, PwInv', SinkIsAlone, SinkIsAlone', Dispatched, LastSound
  PROVE  LastSound'
<1>1. /\ IInv /\ Fed /\ Tables /\ Bindings /\ SameNodes /\ SameNodes' /\ Bindings'
      /\ Dispatch /\ last' = last /\ graph' = graph /\ TypeOK
      /\ events \in Seq(Event) /\ events # <<>> /\ events' = Tail(events)
      /\ DOMAIN entries \subseteq Ids /\ entries \in [DOMAIN entries -> Proxies \cup {NULL}]
  BY DEF PwInv, Fed, Tables, Dispatched, Dispatch, IInv
<1>2. /\ \A k \in 1..Len(requests) : k \in 1..Len(requests') /\ requests'[k] = requests[k]
      /\ \A x \in DOMAIN entries \cap DOMAIN entries' : entries'[x] \in {entries[x], NULL}
      /\ \A x \in DOMAIN entries' \ DOMAIN entries :
           \E k \in 1..Len(requests') : requests'[k] = Bind(x, entries'[x])
  BY <1>1, DispatchKeeps
<1>3. /\ DOMAIN resources' \subseteq DOMAIN resources
      /\ \A k \in Writes : k \in Writes'
      /\ \A k \in Writes' : k \in Writes
  <2>1. DOMAIN resources' \subseteq DOMAIN resources
    BY <1>1 DEF Dispatch, on_registry_global, on_node_info, on_proxy_removed,
                on_registry_global_remove, Freed, Drop
  <2>2. \A k \in Writes : k \in Writes'
    BY <1>2 DEF Writes
  <2>3. \/ requests' = requests
        \/ \E x, p : requests' = Append(requests, Bind(x, p))
    BY <1>1 DEF Dispatch, on_registry_global, on_node_info, on_proxy_removed,
                on_registry_global_remove
  <2>4. ASSUME NEW k \in Writes', NEW x, NEW p, requests' = Append(requests, Bind(x, p))
        PROVE  k \in Writes
    <3>1. k \in 1..Len(requests') /\ requests'[k].op = "write"
      BY <2>4 DEF Writes
    <3>2. requests \in Seq(Request)
      BY <1>1 DEF Tables
    <3>3. requests'[Len(requests) + 1] = Bind(x, p) /\ Len(requests') = Len(requests) + 1
          /\ Len(requests) \in Nat
      BY <2>4, <3>2
    <3>4. Bind(x, p).op # "write"
      BY DEF Bind
    <3>5. k \in 1..Len(requests)
      BY <3>1, <3>3, <3>4
    <3>. QED  BY <1>2, <3>1, <3>5 DEF Writes
  <2>. QED  BY <2>1, <2>2, <2>3, <2>4 DEF Writes
<1>4. AllReach' => AllReach
  BY <1>2, <1>3 DEF AllReach, Writes
<1>5. ASSUME NEW s \in Segments, NEW i \in 1..MAX_CH, NEW p \in Params, NEW v, Stands(s, i, p, v)
      PROVE  Stands(s, i, p, v)'
  <2>b. PICK box : box = segments[s].box
    OBVIOUS
  <2>n. PICK n : n = box.id
    OBVIOUS
  <2>1. /\ s \in DOMAIN segments /\ box.sink /\ box.readback
        /\ n \in DOMAIN entries /\ entries[n] \in DOMAIN resources
        /\ \E key \in Keys : OnWire(s, i, p, key) /\ LastWord(n, key, v)
    BY <1>5, <2>b, <2>n DEF Stands
  <2>k. PICK key \in Keys : OnWire(s, i, p, key) /\ LastWord(n, key, v)
    BY <2>1
  <2>2. /\ n \in DOMAIN nodes /\ n \in Ids /\ nodes[n].segment = s /\ s # NULL
        /\ box \in Box(Ids, {s})
    BY <1>1, <2>1, <2>b, <2>n, DoorKnown
  <2>3. nodes[n].is_sink
    BY <1>1, <2>1, <2>2, <2>b, <2>n DEF IInv, SegmentsOK, SegmentOK
  <2>4. ~Leaving(n)
    <3>e. PICK q : q = entries[n]
      OBVIOUS
    <3>1. q \in Proxies /\ q # NULL /\ resources[q] = n
      <4>1. /\ resources[q] \in DOMAIN entries /\ entries[resources[q]] = q
            /\ q \in Proxies /\ q # NULL
        BY <1>1, <2>1, <3>e, PwAssumption DEF Bindings, BoundIsHeld, Tables
      <4>. QED  BY <1>1, <2>1, <3>e, <4>1 DEF Bindings, OneEntry
    <3>. QED  BY <1>1, <2>1, <2>2, <3>1, <3>e DEF Bindings, LateBindIsMute
  <2>5. n \in DOMAIN entries' /\ entries'[n] = entries[n] /\ ~Leaving(n)'
    <3>1. ~Leaving(n)'
      <4>1. \A k \in 1..Len(events') : k + 1 \in 1..Len(events) /\ events'[k] = events[k + 1]
        BY <1>1, Taken
      <4>. QED  BY <2>4, <4>1 DEF Leaving, Queued
    <3>2. n \in DOMAIN entries'
      <4>1. Head(events) = events[1] /\ 1 \in 1..Len(events) /\ events[1] \in Event
        BY <1>1, Taken
      <4>e. PICK e : e = events[1]
        OBVIOUS
      <4>2. CASE on_registry_global_remove(e) /\ e.id \in DOMAIN entries
        <5>1. e = Gone(e.id)
          BY <4>1, <4>2, <4>e DEF on_registry_global_remove, Event, Gone
        <5>2. e.id # n
          BY <2>4, <4>1, <4>e, <5>1 DEF Leaving, Queued
        <5>3. entries' = Drop(entries, e.id)
          BY <4>2 DEF on_registry_global_remove
        <5>. QED  BY <2>1, <5>2, <5>3 DEF Drop
      <4>3. CASE ~(on_registry_global_remove(e) /\ e.id \in DOMAIN entries)
        <5>1. \/ on_registry_global(e) \/ on_node_info(e)
              \/ on_proxy_removed(e) \/ on_registry_global_remove(e)
          BY <1>1, <4>1, <4>e DEF Dispatch
        <5>. QED
          BY <2>1, <4>3, <5>1 DEF on_registry_global, on_node_info, on_proxy_removed,
             on_registry_global_remove, Insert
      <4>. QED  BY <4>2, <4>3
    <3>3. entries'[n] # NULL
      BY <1>1, <3>1, <3>2 DEF Bindings, RemovedIsLeaving
    <3>. QED  BY <1>2, <2>1, <3>1, <3>2, <3>3
  <2>6. entries'[n] \in DOMAIN resources'
    BY <1>1, <2>1, <2>5, DispatchKeepsBound
  <2>7. LastWord(n, key, v)'
    <3>1. Setting(n, key)' = Setting(n, key)
      BY <1>2, <1>3, <2>5 DEF Setting, Writes
    <3>2. \A k \in Setting(n, key) : requests'[k] = requests[k]
      BY <1>2 DEF Setting, Writes
    <3>. QED  BY <1>1, <2>k, <3>1, <3>2 DEF LastWord
  <2>8. /\ s \in DOMAIN segments' /\ segments'[s].box.id = n
        /\ segments'[s].box.sink /\ segments'[s].box.readback
    <3>1. CASE Heard(1, n)
      <4>d. PICK d : d = events[1].props
        OBVIOUS
      <4>c. PICK c : c = update_from_dict(box, d)
        OBVIOUS
      <4>1. s \in DOMAIN segments' /\ segments'[s].box = c
        BY <1>1, <2>2, <2>3, <2>b, <3>1, <4>c, <4>d, SinkTold
      <4>2. /\ c.id = box.id /\ c.sink = box.sink
            /\ c.readback = take(box.readback, d, "asserted", TRUE)
        BY <2>2, <4>c DEF update_from_dict, Box
      <4>. QED  BY <2>1, <2>n, <4>1, <4>2 DEF take
    <3>2. CASE ~Heard(1, n)
      <4>1. n \in DOMAIN nodes'
        BY <1>1, <2>5 DEF SameNodes
      <4>2. nodes'[n] = nodes[n]
        BY <1>1, <2>2, <3>2, <4>1, NodeUntold
      <4>3. s \in DOMAIN segments' /\ segments'[s].box = box
        BY <1>1, <2>2, <2>3, <2>b, <3>2, <4>1, <4>2, SinkUntold
      <4>. QED  BY <2>1, <2>n, <4>3
    <3>. QED  BY <3>1, <3>2
  <2>. QED  BY <1>5, <2>5, <2>6, <2>7, <2>8, <2>k DEF Stands
<1>. QED  BY <1>1, <1>4, <1>5 DEF LastSound

LEMMA SoundUntouched ==
  ASSUME UNCHANGED <<segments, requests, graph, resources, entries, last>>, LastSound
  PROVE  LastSound'
<1>1. Writes' = Writes
  BY DEF Writes
<1>2. AllReach' => AllReach
  BY <1>1 DEF AllReach
<1>3. ASSUME NEW n, NEW key, NEW v, LastWord(n, key, v)
      PROVE  LastWord(n, key, v)'
  <2>1. Setting(n, key)' = Setting(n, key)
    BY <1>1 DEF Setting
  <2>. QED  BY <1>3, <2>1 DEF LastWord
<1>4. ASSUME NEW s, NEW i, NEW p, NEW v, Stands(s, i, p, v)
      PROVE  Stands(s, i, p, v)'
  <2>n. PICK n : n = segments[s].box.id
    OBVIOUS
  <2>k. PICK key \in Keys : OnWire(s, i, p, key) /\ LastWord(n, key, v)
    BY <1>4, <2>n DEF Stands
  <2>1. LastWord(n, key, v)'
    BY <1>3, <2>k
  <2>. QED  BY <1>4, <2>1, <2>k, <2>n DEF Stands
<1>. QED  BY <1>2, <1>4 DEF LastSound

(* The graph changes: a node that stays as it is says what it said, and    *)
(* what is under way to it still reaches it.                               *)
LEMMA GraphSound ==
  ASSUME PwInv, Graph, LastSound
  PROVE  LastSound'
<1>1. /\ Fed /\ Bindings /\ IInv /\ GraphChanges
      /\ UNCHANGED <<vars, requests, entries>>
      /\ segments' = segments /\ requests' = requests /\ entries' = entries
      /\ last' = [c \in {k \in DOMAIN last : StaysAsSet(k)} |-> last[c]]
      /\ DOMAIN entries \subseteq Ids
  BY DEF PwInv, Fed, Tables, Graph, GraphChanges, NodeAppears, NodePublishes, NodeStirs,
         NodeLeaves, vars
<1>2. /\ DOMAIN resources' \subseteq DOMAIN resources
      /\ \A p \in DOMAIN resources :
           p \notin DOMAIN resources' => resources[p] \notin DOMAIN graph'
  <2>1. CASE UNCHANGED resources
    BY <2>1
  <2>2. ASSUME NEW y, graph' = Drop(graph, y),
               resources' = [p \in DOMAIN resources \ BoundTo(y) |-> resources[p]]
        PROVE  /\ DOMAIN resources' \subseteq DOMAIN resources
               /\ \A p \in DOMAIN resources :
                    p \notin DOMAIN resources' => resources[p] \notin DOMAIN graph'
    BY <2>2 DEF BoundTo, Drop
  <2>. QED
    BY <1>1, <2>1, <2>2 DEF GraphChanges, NodeAppears, NodePublishes, NodeStirs, NodeLeaves
<1>3. Writes' = Writes
  BY <1>1 DEF Writes
<1>4. AllReach' => AllReach
  BY <1>1, <1>2, <1>3 DEF AllReach, Writes
<1>5. ASSUME NEW s \in Segments, NEW i \in 1..MAX_CH, NEW p \in Params, NEW v, Stands(s, i, p, v),
             StaysAsSet(<<s, i, p>>)
      PROVE  Stands(s, i, p, v)'
  <2>n. PICK n : n = segments[s].box.id
    OBVIOUS
  <2>q. PICK q : q = entries[n]
    OBVIOUS
  <2>1. n \in DOMAIN entries /\ q \in DOMAIN resources
    BY <1>5, <2>n, <2>q DEF Stands
  <2>k. PICK key \in Keys : OnWire(s, i, p, key) /\ LastWord(n, key, v)
    BY <1>5, <2>n DEF Stands
  <2>2. n \in DOMAIN graph' /\ graph'[n] = graph[n]
    BY <1>5, <2>n DEF StaysAsSet
  <2>3. resources[q] = n
    <3>1. /\ resources[q] \in DOMAIN entries /\ entries[resources[q]] = q
          /\ q \in Proxies /\ q # NULL
      BY <1>1, <2>1, PwAssumption DEF Bindings, BoundIsHeld, Fed, Tables
    <3>. QED  BY <1>1, <2>1, <2>q, <3>1 DEF Bindings, OneEntry
  <2>4. q \in DOMAIN resources'
    BY <1>2, <2>1, <2>2, <2>3
  <2>5. LastWord(n, key, v)'
    <3>1. Setting(n, key)' = Setting(n, key)
      BY <1>1, <1>3 DEF Setting
    <3>. QED  BY <1>1, <2>2, <2>k, <3>1 DEF LastWord
  <2>. QED  BY <1>1, <1>5, <2>1, <2>4, <2>5, <2>k, <2>n, <2>q DEF Stands
<1>6. SUFFICES ASSUME AllReach', NEW c \in DOMAIN last', NEW v, v = last'[c]
               PROVE  \E s \in Segments, i \in 1..MAX_CH, p \in Params :
                        c = <<s, i, p>> /\ Stands(s, i, p, v)'
  BY DEF LastSound
<1>7. c \in DOMAIN last /\ v = last[c] /\ StaysAsSet(c)
  BY <1>1, <1>6
<1>8. PICK s \in Segments, i \in 1..MAX_CH, p \in Params :
        c = <<s, i, p>> /\ Stands(s, i, p, v)
  BY <1>4, <1>6, <1>7 DEF LastSound
<1>. QED  BY <1>5, <1>7, <1>8

(* The operator: what is set last is the last to reach its cell, and goes  *)
(* to no other control's.                                                  *)
LEMMA GestureSound ==
  ASSUME BaseIsKept, PwInv, FitInv, StrapKnown,
         NEW i \in 1..Len(rows), Gesture(i), LastSound
  PROVE  LastSound'
<1>1. /\ IInv /\ Fed /\ Tables /\ Bindings /\ WindowInv /\ PageFitsBox /\ TypeInv
      /\ requests \in Seq(Request) /\ Len(requests) \in Nat
      /\ entries \in [DOMAIN entries -> Proxies \cup {NULL}]
  BY DEF PwInv, FitInv, Fits, TypeInv, Fed, Tables
<1>2. page = "page" /\ selected # NULL /\ rows[i].live /\ UNCHANGED <<vars, entries>>
  BY GestureAsks DEF Gesture, Toggle, Slide, Movable
<1>3. selected \in DOMAIN segments /\ segments[selected].box \in Box(Ids, {selected})
  BY <1>1, <1>2, SelectedBox
<1>4. CASE UNCHANGED <<requests, serverVars, events, last>>
  BY <1>2, <1>4, SoundUntouched DEF vars, serverVars
<1>5. ASSUME NEW w \in writes', write_headamp(selected, w[1], w[2], w[3]),
             last' = Insert(last, <<selected, w[1], w[2]>>, w[3])
      PROVE  LastSound'
  <2>b. PICK box : box = segments[selected].box
    OBVIOUS
  <2>n. PICK n : n = box.id
    OBVIOUS
  <2>p. PICK p \in Params : \E value : w = <<i, p, value>> /\ rows[i][p] # NULL
    BY <1>1, GestureWrites
  <2>0. PICK value : w = <<i, p, value>> /\ rows[i][p] # NULL
    BY <2>p
  <2>. DEFINE ch  == box_wire_ch(box, i)
              key == <<ch, p>>
              new == Write(entries[n], selected, key, value)
  <2>1. /\ write_headamp(selected, i, p, value)
        /\ last' = Insert(last, <<selected, i, p>>, value)
    <3>1. w[1] = i /\ w[2] = p /\ w[3] = value
      BY <2>0
    <3>. QED  BY <1>5, <3>1
  <2>2. /\ HasProxy(n) /\ box.sink /\ ch >= 0 /\ value \in Byte /\ (p # "sens" => value <= 1)
        /\ requests' = Append(requests, new) /\ UNCHANGED <<vars, serverVars, events, entries>>
    <3>1. write_outcome(HasProxy(n), box, i, p, value) = "sent"
          /\ UNCHANGED <<vars, serverVars, events, entries>>
      BY <2>1, <2>b, <2>n DEF write_headamp
    <3>2. HasProxy(n) /\ box.sink /\ build_headamp(ch, p, value) # NoKey
      BY <3>1 DEF write_outcome
    <3>3. /\ build_headamp(ch, p, value) = <<param_key(ch, p), value>> /\ value \in Byte
          /\ param_key(ch, p) # NoKey /\ (p \in {"phantom", "pad"} => value <= 1)
      BY <3>2 DEF build_headamp
    <3>4. ch \in 0..(MAX_CH - 1) /\ param_key(ch, p) = key
      BY <3>3 DEF param_key
    <3>5. ch >= 0 /\ (p # "sens" => value <= 1)
      BY <3>3, <3>4, HeadampAssumption DEF Params
    <3>6. requests' = Append(requests, new)
      BY <2>1, <2>b, <2>n, <3>3, <3>4 DEF write_headamp
    <3>. QED  BY <3>1, <3>2, <3>3, <3>5, <3>6
  <2>3. /\ n \in DOMAIN entries /\ entries[n] # NULL /\ nodes[n].segment = selected
    BY <1>1, <1>3, <2>2, <2>b, <2>n, DoorKnown DEF HasProxy
  <2>4. box.readback /\ i \in 1..MAX_CH /\ key \in Keys /\ OnWire(selected, i, p, key)
    <3>1. box_availability(box) = "ok"
      BY <1>1, <1>2, <2>b DEF PageFitsBox
    <3>2. box.readback
      BY <1>3, <2>b, <3>1, AvailabilityOk
    <3>3. /\ ch = wire_ch(box.base, i) /\ box.base \in Int /\ ch \in 0..(MAX_CH - 1)
          /\ i \in Nat /\ i >= 1
      BY <1>1, <1>3, <2>2, <2>b, HeadampAssumption DEF box_wire_ch, wire_ch, Box, Bases
    <3>4. i <= MAX_CH
      <4>1. box.base >= 0 /\ box.base + (i - 1) <= MAX_CH - 1
        BY <2>2, <3>3, HeadampAssumption DEF wire_ch
      <4>. QED  BY <3>3, <4>1, HeadampAssumption
    <3>5. OnWire(selected, i, p, key)
      <4>s. PICK s : s = selected
        OBVIOUS
      <4>1. SameBase(s, box) /\ box_wire_ch(box, i) >= 0
        BY <1>3, <2>2, <2>b, <4>s DEF StrapKnown
      <4>2. OnWire(s, i, p, <<box_wire_ch(box, i), p>>)
        BY <4>1, BoxOnWire
      <4>. QED  BY <4>2, <4>s
    <3>. QED  BY <3>2, <3>3, <3>4, <3>5, HeadampAssumption DEF Keys
  <2>. HIDE DEF ch, key, new
  <2>5. /\ new.op = "write" /\ new.proxy = entries[n] /\ new.key = key /\ new.value = value
    BY DEF new, Write
  <2>6. /\ \A k \in 1..Len(requests) : k \in 1..Len(requests') /\ requests'[k] = requests[k]
        /\ Len(requests') = Len(requests) + 1 /\ requests'[Len(requests) + 1] = new
    BY <1>1, <2>2
  <2>7. Writes' = Writes \cup {Len(requests) + 1}
    BY <1>1, <2>5, <2>6 DEF Writes
  <2>8. ASSUME AllReach'
        PROVE  AllReach /\ entries[n] \in DOMAIN resources
    <3>1. \A k \in Writes' : requests'[k].proxy \in DOMAIN resources
      BY <2>2, <2>8 DEF AllReach, serverVars
    <3>2. AllReach
      BY <2>6, <2>7, <3>1 DEF AllReach, Writes
    <3>. QED  BY <2>5, <2>6, <2>7, <3>1, <3>2
  <2>9. LastWord(n, key, value)'
    <3>1. Len(requests) + 1 \in Setting(n, key)'
      BY <2>2, <2>5, <2>6, <2>7 DEF Setting
    <3>2. \A j \in Setting(n, key)' : j <= Len(requests) + 1
      BY <1>1, <2>7 DEF Setting, Writes
    <3>. QED  BY <2>5, <2>6, <3>1, <3>2 DEF LastWord
  <2>10. ASSUME NEW s \in Segments, NEW j \in 1..MAX_CH, NEW q \in Params, NEW v,
                Stands(s, j, q, v), <<s, j, q>> # <<selected, i, p>>
         PROVE  Stands(s, j, q, v)'
    <3>m. PICK m : m = segments[s].box.id
      OBVIOUS
    <3>1. /\ s \in DOMAIN segments /\ m \in DOMAIN entries
          /\ \E lock \in Keys : OnWire(s, j, q, lock) /\ LastWord(m, lock, v)
      BY <2>10, <3>m DEF Stands
    <3>k. PICK lock \in Keys : OnWire(s, j, q, lock) /\ LastWord(m, lock, v)
      BY <3>1
    <3>2. ~(new.proxy = entries[m] /\ new.key = lock)
      <4>1. SUFFICES ASSUME entries[n] = entries[m], key = lock  PROVE FALSE
        BY <2>5
      <4>2. n = m
        BY <1>1, <2>3, <3>1, <4>1 DEF Bindings, OneEntry
      <4>3. s = selected
        BY <1>1, <2>3, <3>1, <3>m, <4>2, DoorKnown
      <4>4. OnWire(s, i, p, lock) /\ OnWire(s, j, q, lock) /\ s # NULL
            /\ i \in Int /\ j \in Int
        BY <1>2, <2>4, <3>k, <4>1, <4>3
      <4>5. i = j /\ p = q
        BY <4>4, SameControl
      <4>. QED  BY <2>10, <4>3, <4>5
    <3>3. Setting(m, lock)' = Setting(m, lock)
      <4>1. UNCHANGED entries
        BY <2>2
      <4>2. \A k \in Writes : k \in 1..Len(requests)
        BY DEF Writes
      <4>. QED  BY <2>6, <2>7, <3>2, <4>1, <4>2 DEF Setting
    <3>4. LastWord(m, lock, v)'
      <4>1. \A k \in Setting(m, lock) : requests'[k] = requests[k]
        BY <2>6 DEF Setting, Writes
      <4>. QED  BY <2>2, <3>3, <3>k, <4>1 DEF LastWord, serverVars
    <3>. QED  BY <2>2, <2>10, <3>4, <3>k, <3>m DEF Stands, vars, serverVars
  <2>11. SUFFICES ASSUME AllReach', NEW c \in DOMAIN last', NEW v, v = last'[c]
                  PROVE  \E s \in Segments, j \in 1..MAX_CH, q \in Params :
                           c = <<s, j, q>> /\ Stands(s, j, q, v)'
    BY DEF LastSound
  <2>12. CASE c = <<selected, i, p>>
    <3>1. v = value
      BY <2>1, <2>11, <2>12 DEF Insert
    <3>s. PICK seg : seg = selected
      OBVIOUS
    <3>2. seg \in Segments
      BY <1>1, <1>3, <3>s DEF IInv, TypeOK
    <3>3. Stands(seg, i, p, value)'
      <4>1. n \in DOMAIN entries' /\ entries'[n] \in DOMAIN resources'
        BY <2>2, <2>3, <2>8, <2>11 DEF serverVars
      <4>2. segments' = segments
        BY <2>2 DEF vars
      <4>. QED  BY <1>3, <2>2, <2>4, <2>9, <2>b, <2>n, <3>s, <4>1, <4>2 DEF Stands
    <3>. QED  BY <2>4, <2>12, <3>1, <3>2, <3>3, <3>s
  <2>13. CASE c # <<selected, i, p>>
    <3>1. c \in DOMAIN last /\ v = last[c]
      BY <2>1, <2>11, <2>13 DEF Insert
    <3>2. PICK s \in Segments, j \in 1..MAX_CH, q \in Params :
            c = <<s, j, q>> /\ Stands(s, j, q, v)
      BY <2>8, <2>11, <3>1 DEF LastSound
    <3>. QED  BY <2>10, <2>13, <3>2
  <2>. QED  BY <2>12, <2>13
<1>. QED  BY <1>4, <1>5 DEF Gesture

-----------------------------------------------------------------------------
(* The session: what the operator set last stands until it has arrived.    *)

LastInv ==
  /\ WaitInv
  /\ SinkIsAlone /\ StrapKnown
  /\ LastTold /\ BoxSynced
  /\ LastSound

LEMMA LastInvInit == SessionInit => LastInv
<1>. SUFFICES ASSUME SessionInit  PROVE LastInv
  OBVIOUS
<1>1. /\ DOMAIN nodes = {} /\ DOMAIN segments = {} /\ DOMAIN entries = {} /\ DOMAIN last = {}
  BY DEF SessionInit, PwInit, Connected, Init, NothingSet
<1>. QED
  BY <1>1, WaitInvInit
     DEF LastInv, SinkIsAlone, StrapKnown, LastTold, BoxSynced, LastSound

LEMMA LastInvNext ==
  ASSUME ~BINDS_FAIL, SteadyGraph, AnswersPublish(Offered), CapsGoWithCount,
         ANSWERS = {"accept"}, NamesOnce, BaseIsKept,
         LastInv, [SessionNext]_sessionVars
  PROVE  LastInv'
<1>1. /\ WaitInv /\ WaitInv'
      /\ PwInv /\ PwInv' /\ FitInv /\ HeldIsBound /\ AnswersFit
      /\ SinkIsAlone /\ StrapKnown /\ LastTold /\ BoxSynced /\ LastSound
  <2>1. WaitInv'
    BY WaitInvNext DEF LastInv
  <2>2. AnswersFit
    BY AskedFit DEF LastInv, WaitInv, SessionInv, AsksOffered
  <2>. QED  BY <2>1, <2>2 DEF LastInv, WaitInv, SessionInv, FitInv
<1>2. ASSUME UNCHANGED vars
      PROVE  SinkIsAlone' /\ StrapKnown'
  BY <1>1, <1>2 DEF vars, SinkIsAlone, StrapKnown
<1>3. CASE Graph
  <2>1. GraphChanges /\ UNCHANGED vars
    BY <1>3 DEF Graph, GraphChanges, NodeAppears, NodePublishes, NodeStirs, NodeLeaves
  <2>. QED  BY <1>1, <1>2, <1>3, <2>1, ServerTold, GraphSound DEF LastInv
<1>4. CASE Served
  <2>1. Serve /\ UNCHANGED vars
    BY <1>4 DEF Served, Serve
  <2>. QED  BY <1>1, <1>2, <1>4, <2>1, ServerTold, ServedSound DEF LastInv
<1>5. CASE Dispatched
  <2>1. Dispatch
    BY <1>5 DEF Dispatched
  <2>2. SinkIsAlone' /\ StrapKnown'
    BY <1>1, <2>1, DispatchAlone, DispatchStrap
  <2>3. LastTold' /\ BoxSynced'
    BY <1>1, <2>1, <2>2, DispatchTold
  <2>4. LastSound'
    BY <1>1, <1>5, <2>2, DispatchedSound
  <2>. QED  BY <1>1, <2>2, <2>3, <2>4 DEF LastInv
<1>6. ASSUME UNCHANGED <<vars, entries, graph, events>>
      PROVE  LastTold' /\ BoxSynced'
  <2>1. UNCHANGED <<segments, entries, graph, events>>
    BY <1>6 DEF vars
  <2>2. \A x : /\ Leaving(x)' <=> Leaving(x)
               /\ \A k : (Heard(k, x)' <=> Heard(k, x)) /\ (LastHeard(k, x)' <=> LastHeard(k, x))
    BY <2>1 DEF Leaving, Queued, Heard, LeftBy, LastHeard
  <2>3. LastTold'
    BY <1>1, <2>1, <2>2 DEF LastTold
  <2>4. BoxSynced'
    BY <1>1, <2>1, <2>2 DEF BoxSynced
  <2>. QED  BY <2>3, <2>4
<1>7. CASE \E i \in 1..Len(rows) : Gesture(i)
  <2>1. PICK i \in 1..Len(rows) : Gesture(i)
    BY <1>7
  <2>2. UNCHANGED <<vars, entries, graph, events>>
    BY <2>1 DEF Gesture, Toggle, Slide, write_headamp, serverVars
  <2>3. LastSound'
    BY <1>1, <2>1, GestureSound
  <2>. QED  BY <1>1, <1>2, <1>6, <2>2, <2>3 DEF LastInv
<1>8. CASE UNCHANGED <<pwVars, last>>
  <2>1. UNCHANGED <<vars, entries, graph, events, segments, requests, resources, last>>
    BY <1>8 DEF pwVars, serverVars, vars
  <2>. QED  BY <1>1, <1>2, <1>6, <2>1, SoundUntouched DEF LastInv
<1>9. CASE \E seg \in Elements(sidebar) \cup {NULL} : Selects(seg)
  BY <1>8, <1>9 DEF Selects
<1>10. CASE UNCHANGED sessionVars
  BY <1>8, <1>10 DEF sessionVars
<1>. QED  BY <1>3, <1>4, <1>5, <1>7, <1>9, <1>10 DEF SessionNext

(* At rest nothing is left but the last word itself: the node says it, the *)
(* box has read it, and the page shows it.                                 *)
LEMMA RestCounts ==
  ASSUME NamesOnce, BaseIsKept, LastInv, AtRest, NEW c \in DOMAIN last
  PROVE  /\ c[1] \in DOMAIN segments
         /\ LET box == segments[c[1]].box
            IN  box_wire_ch(box, c[2]) >= 0 =>
                  /\ box_asserted(box, c[2], c[3]) = last[c]
                  /\ /\ selected = c[1] /\ c[2] \in 1..Len(rows)
                     /\ c[3] # "sens" /\ rows[c[2]][c[3]] # NULL
                     => (rows[c[2]][c[3]] <=> last[c] = 1)
<1>1. /\ IInv /\ Fed /\ Tables /\ KnownIsThere /\ WindowInv /\ PageTyped
      /\ PageFitsBox /\ PageShowsReadback /\ LastSound /\ BoxSynced /\ StrapKnown
      /\ page = "page" => pending_input = -1
  <2>1. page = "page" => pending_input = -1
    BY DEF LastInv, WaitInv, WaitsForAnswer, AtRest, SomeAnswer, Leaving, Queued, Writes
  <2>. QED
    BY <2>1 DEF LastInv, WaitInv, SessionInv, PwInv, Fed, Feed, FitInv, TypeInv, Fits
<1>2. Writes = {} /\ \A x : ~Leaving(x) /\ \A k \in 1..Len(events) : ~Heard(k, x)
  BY DEF AtRest, Writes, Leaving, Queued
<1>v. PICK v : v = last[c]
  OBVIOUS
<1>4. PICK s \in Segments, i \in 1..MAX_CH, p \in Params :
        c = <<s, i, p>> /\ Stands(s, i, p, v)
  BY <1>1, <1>2, <1>v DEF LastSound, AllReach
<1>b. PICK box : box = segments[s].box
  OBVIOUS
<1>n. PICK n : n = box.id
  OBVIOUS
<1>5. /\ s \in DOMAIN segments /\ n \in DOMAIN entries
      /\ box \in Box(Ids, {s}) /\ s # NULL /\ box.sink /\ box.readback
      /\ v \in Byte /\ (p # "sens" => v <= 1)
  <2>1. /\ s \in DOMAIN segments /\ n \in DOMAIN entries /\ box.sink /\ box.readback
        /\ v \in Byte /\ (p # "sens" => v <= 1)
    BY <1>4, <1>b, <1>n DEF Stands
  <2>. QED  BY <1>1, <1>b, <2>1, DoorKnown
<1>6. SUFFICES ASSUME box_wire_ch(box, i) >= 0
               PROVE  /\ box_asserted(box, i, p) = v
                      /\ selected = s /\ i \in 1..Len(rows) /\ p # "sens" /\ rows[i][p] # NULL
                           => (rows[i][p] <=> v = 1)
  BY <1>4, <1>5, <1>b, <1>v
<1>k. PICK key : key = <<box_wire_ch(box, i), p>>
  OBVIOUS
<1>d. PICK d : d = graph[n]
  OBVIOUS
<1>7. Says(d, key, v)
  <2>1. PICK lock \in Keys : OnWire(s, i, p, lock) /\ LastWord(n, lock, v)
    BY <1>4, <1>b, <1>n DEF Stands
  <2>2. OnWire(s, i, p, key)
    BY <1>1, <1>5, <1>6, <1>b, <1>k, BoxOnWire DEF StrapKnown
  <2>3. lock = key
    BY <1>5, <2>1, <2>2, OneOnWire
  <2>. QED  BY <1>2, <1>d, <2>1, <2>3 DEF LastWord, Setting
<1>8. d \in Dicts /\ update_from_dict(box, d) = box
  <2>1. n \in DOMAIN graph
    BY <1>1, <1>2, <1>5 DEF KnownIsThere
  <2>. QED  BY <1>1, <1>2, <1>5, <1>b, <1>d, <1>n, <2>1 DEF BoxSynced, Tables
<1>9. box.cells = asserted_parse(d.asserted, N_CELLS)
  <2>1. update_from_dict(box, d).cells = take_cells(box.cells, d)
    BY <1>5 DEF update_from_dict, Box
  <2>. QED  BY <1>7, <1>8, <2>1 DEF Says, take_cells, take
<1>10. box_asserted(box, i, p) = v
  <2>1. cell_lookup(box.cells, key[1], key[2]) = v
    BY <1>7, <1>8, <1>9, CellTells
  <2>. QED  BY <1>5, <1>6, <1>k, <2>1 DEF box_asserted
<1>11. ASSUME selected = s, i \in 1..Len(rows), p # "sens", rows[i][p] # NULL
       PROVE  rows[i][p] <=> v = 1
  <2>1. page = "page" /\ awaited = {}
    BY <1>1, <1>5, <1>11 DEF WindowInv, SelectedIsListed, PageTyped
  <2>2. p \in {"phantom", "pad"} /\ v \in {0, 1}
    BY <1>5, <1>11 DEF Params, Byte
  <2>3. rows[i][p] <=> v # 0
    BY <1>1, <1>10, <1>11, <1>b, <2>1, <2>2 DEF PageShowsReadback
  <2>. QED  BY <2>2, <2>3
<1>. QED  BY <1>10, <1>11

(* rs-window.c:314-330: what the daemon publishes is the truth, and the    *)
(* page shows it.  With nobody else at the controls and a daemon that      *)
(* accepts what it is sent, that truth is what the operator last set:      *)
(* rs_pw_write_headamp's writes keep their order and their cell, however   *)
(* many are under way and whatever the graph does to other nodes.          *)
THEOREM SessionLastGestureCounts ==
  ASSUME ~BINDS_FAIL, SteadyGraph, AnswersPublish(Offered), CapsGoWithCount,
         ANSWERS = {"accept"}, NamesOnce, BaseIsKept
  PROVE  SessionSpec => []LastGestureCounts
<1>1. LastInv /\ [SessionNext]_sessionVars => LastInv'
  BY LastInvNext
<1>2. LastInv => LastGestureCounts
  BY RestCounts DEF LastGestureCounts
<1>. QED  BY <1>1, <1>2, LastInvInit, PTL DEF SessionSpec
=============================================================================
