------------------------------ MODULE RsSession ------------------------------
(***************************************************************************)
(* The application in a session: the window of RsWindow on the graph       *)
(* client of RsPw, as rs_window_new connects them.  The window hears what  *)
(* the client dispatches, a gesture's write crosses to the daemon behind   *)
(* whatever is under way already, and its answer comes back behind         *)
(* whatever the graph has said meanwhile.                                  *)
(***************************************************************************)
EXTENDS RsPw, RsWindow

CONSTANT
  MAX_UNDER_WAY     \* bound: messages on their way when the operator acts

ASSUME SessionAssumption == MAX_UNDER_WAY \in Nat

VARIABLE
  last          \* history: what the operator last set each control to

sessionVars == <<pwVars, windowVars, last>>

(* The window is told of a proxy's end by nobody: it finds none to write to. *)
Lost == {id \in DOMAIN nodes : ~HasProxy(id)}

-----------------------------------------------------------------------------
(* What a control of the page is: a box, an input of it and a parameter.   *)
NothingSet == [c \in {} |-> NULL]

SessionInit ==
  /\ PwInit /\ WindowInit
  /\ last = NothingSet

(* The graph is not the operator's alone: what was set at a node that      *)
(* leaves, or publishes something else, counts no more.                    *)
StaysAsSet(c) ==
  /\ c[1] \in DOMAIN segments
  /\ LET id == segments[c[1]].box.id
     IN  id \in DOMAIN graph \cap DOMAIN graph' /\ graph'[id] = graph[id]

Graph ==
  /\ GraphChanges
  /\ last' = [c \in {k \in DOMAIN last : StaysAsSet(k)} |-> last[c]]
  /\ UNCHANGED <<uiVars, stepVars>>

Served ==
  /\ Serve
  /\ LET r == Head(requests)
     IN  last' = IF r.op = "write" /\ Addressed(r) = {} THEN NothingSet ELSE last
  /\ UNCHANGED <<uiVars, stepVars>>

(* Seeded fault: an info of something else than the properties counts.     *)
IsPassedOn_stirred(e) ==
  \/ e.ev = "global" /\ e.id \notin DOMAIN entries
  \/ e.ev = "info" /\ EntryOf(e.proxy) # {}
  \/ e.ev = "gone" /\ e.id \in DOMAIN entries

(* Whether the event is one the client passes on to the walk.              *)
IsPassedOn(e) ==
  \/ e.ev = "global" /\ e.id \notin DOMAIN entries
  \/ e.ev = "info" /\ e.props # NULL /\ EntryOf(e.proxy) # {}
  \/ e.ev = "gone" /\ e.id \in DOMAIN entries

(* on_walk_added, on_walk_changed and on_walk_removed pass the walk's      *)
(* callbacks on to the window as they come.                                *)
Dispatched ==
  /\ Dispatch
  /\ LET e == Head(events)
     IN  IF IsPassedOn(e) THEN Hear
         ELSE IF e.ev = "removed" /\ EntryOf(e.proxy) # {}
         THEN /\ gesture' = NULL /\ outcome' = NULL /\ writes' = {}
              /\ UNCHANGED uiVars
         ELSE UNCHANGED <<uiVars, stepVars>>
  /\ UNCHANGED last

(* A gesture, with the write it hands to the client.                       *)
Gesture(i) ==
  /\ Len(requests) + Len(events) < MAX_UNDER_WAY
  /\ UNCHANGED entries
  /\ \/ \E p \in {"phantom", "pad"} : Toggle(i, p)
     \/ /\ rows[i].sens # NULL
        /\ \E dbu \in rows[i].sens.low..rows[i].sens.high : Slide(i, dbu)
  /\ \/ /\ writes' = {}
        /\ UNCHANGED <<requests, serverVars, events, last>>
     \/ \E w \in writes' :
          /\ write_headamp(selected, w[1], w[2], w[3])
          /\ last' = Insert(last, <<selected, w[1], w[2]>>, w[3])

Selects(seg) ==
  /\ UNCHANGED <<pwVars, last>>
  /\ Select(seg)

SessionNext ==
  /\ \/ Graph \/ Served \/ Dispatched
     \/ \E i \in 1..Len(rows) : Gesture(i)
     \/ \E seg \in Elements(sidebar) \cup {NULL} : Selects(seg)
  /\ lost' = Lost'

SessionSpec == SessionInit /\ [][SessionNext]_sessionVars

-----------------------------------------------------------------------------
(* What the window does over a connection is what RsWindow says it does    *)
(* on the walk: nothing the client delays, merges or drops on the way      *)
(* shows it an infos' order, a door or a departure RsWindow leaves out, so *)
(* what is checked of the window there holds here: it is WindowSpec, with  *)
(* the steps that are none of the window's named first, as most are.       *)
WindowOnWalk == WindowInit /\ [][UNCHANGED windowVars \/ WindowNext]_windowVars

(* Everything under way has arrived.                                       *)
AtRest == requests = <<>> /\ events = <<>>

(* rs-window.c:316, "A pending write is settled the moment the daemon      *)
(* re-published": when every write has been served and every info has been *)
(* heard, no row of the page waits for its write any more.                 *)
NothingWaits == AtRest /\ page = "page" => pending_input = -1

(* A segment has one base: its dicts that publish one publish the same,    *)
(* whatever the others, a source or a box that was dropped, say.           *)
BaseIsKept ==
  \A d, e \in With("base") :
    Carried(d) # NULL /\ Carried(d) = Carried(e)
      /\ base_parse(d.base) >= 0 /\ base_parse(e.base) >= 0
      => base_parse(d.base) = base_parse(e.base)

(* Where nobody else is at the controls of a box and the daemon accepts    *)
(* what it is sent, what the operator last set there is what the daemon    *)
(* asserts of that input, and what the page shows, once everything under   *)
(* way has arrived, whatever other nodes do meanwhile and unless the box   *)
(* was dropped: no write was taken for another's on its way, and no answer *)
(* to an earlier one has the last word.                                    *)
LastGestureCounts ==
  AtRest =>
    \A c \in DOMAIN last :
      /\ c[1] \in DOMAIN segments
      /\ LET box == segments[c[1]].box
         IN  box_wire_ch(box, c[2]) >= 0 =>
               /\ box_asserted(box, c[2], c[3]) = last[c]
               /\ /\ selected = c[1] /\ c[2] \in 1..Len(rows)
                  /\ c[3] # "sens" /\ rows[c[2]][c[3]] # NULL
                  => (rows[c[2]][c[3]] <=> last[c] = 1)
=============================================================================
