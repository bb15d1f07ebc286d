-------------------------------- MODULE RsList --------------------------------
(***************************************************************************)
(* `reac-stageboxes --list` of src/rs-list.c: the graph client of RsPw run *)
(* for a number of core roundtrips and then printed.  It writes nothing.   *)
(*                                                                         *)
(* What is printed is a record: the facts of every line, not its wording.  *)
(***************************************************************************)
EXTENDS RsPw, Functions

CONSTANTS
  CONNECTION_LOST,  \* whether the connection may be lost
  Alphabet          \* the segment names in the order of g_strcmp0

ASSUME ListAssumption ==
  /\ CONNECTION_LOST \in BOOLEAN
  /\ Distinct(Alphabet) /\ Elements(Alphabet) = Segments

VARIABLES
  rounds_left,  \* the roundtrips still to complete before the list is printed
  sync_seq,     \* the roundtrip the callback is waiting for
  connected,    \* whether the server is still there
  printed,      \* the lists that have been printed, none or one
  settled       \* the ids whose nodes are as they were when --list began

listVars == <<pwVars, rounds_left, sync_seq, connected, printed, settled>>

-----------------------------------------------------------------------------
(* The lines of a box.                                                     *)

(* Seeded fault: what was not asserted is printed as off.                  *)
onoff_binary(v) == IF v > 0 THEN "on" ELSE "off"

(* The dash is no answer; it is not off.                                   *)
onoff(v) == IF v < 0 THEN "dash" ELSE IF v = 0 THEN "off" ELSE "on"

(* A step with its dBu, <<>> for the dash.                                 *)
sens_str(sens, pad, sens_max) ==
  IF sens < 0 THEN <<>> ELSE <<sens, sens_dbu(sens, pad > 0, sens_max)>>

print_box(box) ==
  LET asserted(i, p) == box_asserted(box, i, p)
  IN  [ segment |-> box.segment, link |-> box.link, sink_door |-> box.sink,
        base |-> box.base, caps |-> box.caps, badge |-> box.badge,
        sens_max |-> box.sens_max, assumed |-> ~box.sens_max_published,
        refused |-> box.refused, readback |-> box.readback,
        status |-> box_availability(box),
        inputs |-> [i \in 1..box.channels |->
          [ wire_channel |-> box_wire_ch(box, i),
            phantom |-> onoff(asserted(i, "phantom")),
            pad     |-> onoff(asserted(i, "pad")),
            sens    |-> sens_str(asserted(i, "sens"), asserted(i, "pad"), box.sens_max) ]] ]

by_segment(a, b) == PlaceOf(Alphabet, a) < PlaceOf(Alphabet, b)

(* g_ptr_array_sort: the same entries, none behind one it comes before.    *)
Sorted(s) ==
  LET orders == {p \in Bijection(1..Len(s), 1..Len(s)) :
                   \A k, l \in 1..Len(s) : k < l => ~by_segment(s[p[l]], s[p[k]])}
  IN  {[k \in 1..Len(s) |-> s[p[k]]] : p \in orders}

-----------------------------------------------------------------------------
(* Seeded fault: the list is printed when the globals are there.           *)
OneRound == 1

(* How many roundtrips rs_list_run makes.                                  *)
Rounds == 3

(* The main loop runs until the last roundtrip is over; a callback is      *)
(* waited for as long.                                                     *)
Running == rounds_left > 0

ListInit ==
  /\ Connected
  /\ requests = <<Sync(1)>>
  /\ sync_seq = 1
  /\ rounds_left = Rounds
  /\ connected = TRUE
  /\ printed = <<>>
  /\ settled = DOMAIN graph

(* Seeded fault: the next roundtrip is not asked for.                      *)
on_round_once ==
  /\ rounds_left' = rounds_left - 1
  /\ UNCHANGED <<requests, sync_seq>>

(* on_round: the next roundtrip, or the end of the main loop.              *)
on_round ==
  /\ rounds_left' = rounds_left - 1
  /\ IF rounds_left' > 0
     THEN /\ requests' = Append(requests, Sync(sync_seq + 1))
          /\ sync_seq' = sync_seq + 1
     ELSE UNCHANGED <<requests, sync_seq>>

(* on_core_done: a roundtrip that is not waited for is no news.            *)
on_core_done ==
  /\ events # <<>> /\ Head(events).ev = "done"
  /\ events' = Tail(events)
  /\ IF Head(events).seq = sync_seq /\ Running THEN on_round
     ELSE UNCHANGED <<requests, rounds_left, sync_seq>>
  /\ UNCHANGED <<vars, serverVars, entries>>

-----------------------------------------------------------------------------
Graph ==
  /\ connected /\ printed = <<>> /\ GraphChanges
  /\ settled' = {id \in settled : id \in DOMAIN graph' /\ graph'[id] = graph[id]}
  /\ UNCHANGED <<rounds_left, sync_seq, connected, printed>>

Served ==
  /\ connected /\ printed = <<>> /\ Serve
  /\ UNCHANGED <<rounds_left, sync_seq, connected, printed, settled>>

(* One event of an iteration of the loop, which goes on with those that    *)
(* have arrived after the last roundtrip as well.                          *)
Iterate ==
  /\ printed = <<>>
  /\ \/ Dispatch /\ UNCHANGED <<rounds_left, sync_seq>>
     \/ on_core_done
  /\ UNCHANGED <<connected, printed, settled>>

(* on_core_error: the signal it emits has no listener.                     *)
on_core_error ==
  /\ CONNECTION_LOST /\ connected /\ printed = <<>>
  /\ connected' = FALSE
  /\ UNCHANGED <<pwVars, rounds_left, sync_seq, printed, settled>>

(* The rest of rs_list_run, once the main loop has ended.                  *)
PrintList ==
  /\ ~Running /\ printed = <<>>
  /\ boxes' \in Sorted(boxes)
  /\ printed' = <<[ status |-> IF boxes = <<>> THEN 1 ELSE 0,
                    bound  |-> n_bound_nodes,
                    list   |-> [k \in 1..Len(boxes') |-> print_box(segments[boxes'[k]].box)] ]>>
  /\ UNCHANGED <<nodes, segments, signal, serverVars, requests, events, entries,
                 rounds_left, sync_seq, connected, settled>>

ListNext == Graph \/ Served \/ Iterate \/ on_core_error \/ PrintList

ListSpec == ListInit /\ [][ListNext]_listVars

(* The server answers while it is there, and the one thread goes on.       *)
ListFairness == WF_listVars(Served) /\ WF_listVars(Iterate) /\ WF_listVars(PrintList)

ListFairSpec == ListSpec /\ ListFairness

-----------------------------------------------------------------------------
(* The nodes that were there all the time are all bound and all in the     *)
(* list, a sink as the door of its segment with what it publishes.         *)
Complete ==
  /\ settled \subseteq DOMAIN nodes
  /\ \A id \in settled :
       LET d   == graph[id]
           seg == Carried(d)
       IN  seg # NULL =>
             /\ seg \in DOMAIN segments
             /\ IsSink(d) =>
                  /\ segments[seg].box.id = id
                  /\ update_from_dict(segments[seg].box, d) = segments[seg].box

(* rs-pw.h:54, "Two of these in sequence are what a headless caller needs" *)
(* : after two roundtrips, whatever else happens in the graph meanwhile,   *)
(* and so when the list is printed, no node of it is missing, and "No REAC *)
(* segments found" is never said of a graph that had one all along.        *)
ListIsComplete == (sync_seq > 2 \/ ~Running) => Complete

(* The values the daemon asserts for a parameter of an input of a node.    *)
Said(d, i, p) ==
  {d.asserted[k].value : k \in
     {k \in formed(d.asserted) :
        /\ base_parse(d.base) >= 0
        /\ d.asserted[k].ch = base_parse(d.base) + i - 1
        /\ ParamNames[d.asserted[k].param + 1] = p}}

(* A stagebox's sink tells its inputs, its base, its readback and the      *)
(* ceiling of the steps it asserts.                                        *)
SinksTellInputs ==
  \A d \in Dicts : Carried(d) # NULL /\ IsSink(d) =>
    /\ {"channels", "base", "asserted", "sens_max"} \subseteq DOMAIN d
    /\ d.channels # NotDecimal /\ d.channels[1] \in 0..(INT_SPAN \div 2 - 1)
    /\ \A k \in formed(d.asserted) :
         ParamNames[d.asserted[k].param + 1] = "sens"
           => d.asserted[k].value <= sens_max_parse(d.sens_max)

(* rs-list.c:18, "An UNSET cell prints as a dash, never as off": a sink    *)
(* that was there all along is in the list, in its place by its segment's  *)
(* name and once; each of its inputs says of each parameter what the       *)
(* daemon asserts of that input and no other, in dBu as the preamp has it  *)
(* with its pad, and a dash where the daemon asserts nothing or where the  *)
(* input has no wire channel.                                              *)
Prints(line, d) ==
  /\ line.segment = d.segment /\ line.sink_door
  /\ Len(line.inputs) = d.channels[1]
  /\ \A i \in 1..Len(line.inputs) :
       LET said(p) == Said(d, i, p)
           now     == line.inputs[i]
       IN  /\ \A p \in {"phantom", "pad"} :
                now[p] = IF said(p) = {} THEN "dash" ELSE IF said(p) = {0} THEN "off" ELSE "on"
           /\ now.sens = <<>> <=> said("sens") = {}
           /\ \A v \in said("sens") :
                now.sens = <<v, (IF said("pad") \subseteq {0} THEN -10 ELSE 10) - v>>

ListIsTrue ==
  \A n \in 1..Len(printed) :
    LET list == printed[n].list
    IN  /\ \A k, l \in 1..Len(list) :
             k < l => by_segment(list[k].segment, list[l].segment)
        /\ \A id \in settled :
             Carried(graph[id]) # NULL /\ IsSink(graph[id]) =>
               \E k \in 1..Len(list) : Prints(list[k], graph[id])

(* While the server is there, every roundtrip comes back and the next one  *)
(* is asked for: the list is printed however the graph changes meanwhile.  *)
ListReturnsWhileServed == []connected => <>(printed # <<>>)

(* rs-list.h:19, "Runs its own main loop, prints, returns the process exit *)
(* status": it returns.                                                    *)
ListReturns == <>(printed # <<>>)
=============================================================================
