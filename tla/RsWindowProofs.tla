----------------------------- MODULE RsWindowProofs -----------------------------
(***************************************************************************)
(* The window on the walk, whatever the operator clicks.  What it selects, *)
(* writes and waits for is right whatever the nodes of the graph do; what  *)
(* the page shows of a box is right while the walk is (SteadyGraph) and a  *)
(* box's caps go with its count.                                           *)
(***************************************************************************)
EXTENDS RsWindow, RsWalkProofs

(* What is kept of a node, its segment above all.                          *)
NodesNamed == \A id \in DOMAIN nodes : nodes[id] \in Node

WindowInv ==
  /\ NodesNamed
  /\ sidebar \in Seq(Segments)
  /\ SelectedIsListed
  /\ NoEcho
  /\ WritingIsAwaited

-----------------------------------------------------------------------------
(* What the walk's callback says of the segments that are listed.          *)
SignalFits ==
  \/ signal' = Silent /\ DOMAIN segments' = DOMAIN segments
  \/ \E seg \in Segments \ DOMAIN segments :
       signal' = Told("added", seg) /\ DOMAIN segments' = DOMAIN segments \cup {seg}
  \/ \E seg \in DOMAIN segments :
       signal' = Told("changed", seg) /\ DOMAIN segments' = DOMAIN segments
  \/ \E seg \in DOMAIN segments :
       signal' = Told("removed", seg) /\ DOMAIN segments' = DOMAIN segments \ {seg}

LEMMA SegmentNamed ==
  ASSUME NodesNamed, NEW id, NEW d \in Dicts
  PROVE  InfoSegment(id, d) \in Segments \cup {NULL} /\ NodeAfter(id, d) \in Node
<1>1. NodeBefore(id) \in Node
  BY DEF NodesNamed, NodeBefore, Known, new_node, Node
<1>2. InfoSegment(id, d) \in Segments \cup {NULL}
  BY <1>1, WalkAssumption DEF InfoSegment, With, Node
<1>3. InfoSink(id, d) \in BOOLEAN
  BY <1>1 DEF InfoSink, Node
<1>. QED  BY <1>1, <1>2, <1>3 DEF NodeAfter, Node

LEMMA GlobalHeard ==
  ASSUME NodesNamed, NEW id, NEW class \in GlobalClasses, WalkGlobal(id, class)
  PROVE  SignalFits /\ NodesNamed'
<1>1. new_node(class) \in Node
  BY DEF new_node, Node
<1>. QED  BY <1>1 DEF WalkGlobal, SignalFits, NodesNamed, Known, Insert

LEMMA InfoHeard ==
  ASSUME NodesNamed, NEW id, NEW d \in Dicts, WalkInfo(id, d)
  PROVE  SignalFits /\ NodesNamed'
<1>1. nodes' = Insert(nodes, id, NodeAfter(id, d))
  BY DEF WalkInfo, InfoOrdinary, InfoNewSegment, InfoKnownSegment
<1>2. NodesNamed'
  BY <1>1, SegmentNamed DEF NodesNamed, Insert
<1>3. CASE InfoOrdinary(id, d)
  BY <1>2, <1>3 DEF InfoOrdinary, SignalFits
<1>4. CASE InfoNewSegment(id, d)
  <2>1. PICK g : segments' = Insert(segments, InfoSegment(id, d), g)
    BY <1>4 DEF InfoNewSegment
  <2>2. /\ InfoSegment(id, d) \in Segments \ DOMAIN segments
        /\ signal' = Told("added", InfoSegment(id, d))
        /\ DOMAIN segments' = DOMAIN segments \cup {InfoSegment(id, d)}
    BY <1>4, <2>1, SegmentNamed DEF InfoNewSegment, Insert
  <2>. QED  BY <1>2, <2>2 DEF SignalFits
<1>5. CASE InfoKnownSegment(id, d)
  <2>1. /\ InfoSegment(id, d) \in DOMAIN segments
        /\ DOMAIN segments' = DOMAIN segments
        /\ signal' \in {Told("changed", InfoSegment(id, d)), Silent}
    BY <1>5 DEF InfoKnownSegment
  <2>. QED  BY <1>2, <2>1 DEF SignalFits
<1>. QED  BY <1>2, <1>3, <1>4, <1>5 DEF WalkInfo

LEMMA RemoveHeard ==
  ASSUME NodesNamed, NEW id, WalkRemove(id)
  PROVE  SignalFits /\ NodesNamed'
<1>1. nodes' = Drop(nodes, id)
  BY DEF WalkRemove, RemoveOrdinary, RemoveMember, RemoveLast
<1>2. NodesNamed'
  BY <1>1 DEF NodesNamed, Drop
<1>3. CASE RemoveOrdinary(id)
  BY <1>2, <1>3 DEF RemoveOrdinary, SignalFits
<1>4. CASE RemoveMember(id)
  <2>1. /\ SegmentOf(id) \in DOMAIN segments
        /\ DOMAIN segments' = DOMAIN segments
        /\ signal' = Told("changed", SegmentOf(id))
    BY <1>4 DEF RemoveMember
  <2>. QED  BY <1>2, <2>1 DEF SignalFits
<1>5. CASE RemoveLast(id)
  <2>1. /\ SegmentOf(id) \in DOMAIN segments
        /\ DOMAIN segments' = DOMAIN segments \ {SegmentOf(id)}
        /\ signal' = Told("removed", SegmentOf(id))
    BY <1>5 DEF RemoveLast, Drop
  <2>. QED  BY <1>2, <2>1 DEF SignalFits
<1>. QED  BY <1>2, <1>3, <1>4, <1>5 DEF WalkRemove

-----------------------------------------------------------------------------
(* The stack shows the page exactly when a box is selected, and a sync     *)
(* writes nothing and leaves no row writing.                               *)
LEMMA SyncPage ==
  ASSUME NEW sel, NEW old_rows, NEW shape, NEW pending,
         sync_content(sel, old_rows, shape, pending)
  PROVE  (page' = "page" <=> sel # NULL) /\ writes' = {} /\ WritingIsAwaited'
<1>1. CASE sel = NULL
  BY <1>1 DEF sync_content, WritingIsAwaited
<1>2. CASE sel # NULL
  <2>. DEFINE box   == segments'[sel].box
              built == IF shape # box.channels THEN rows_build(box) ELSE old_rows
  <2>1. rows' = [i \in 1..Len(built) |-> sync_row(built[i], i, box, pending)]
    BY <1>2 DEF sync_content
  <2>. HIDE DEF box, built
  <2>2. \A i \in 1..Len(built) : rows'[i].note # "writing"
    <3>1. \A r, i : sync_row(r, i, box, pending).note = synced_note(box, i, pending)
      BY DEF sync_row
    <3>2. \A i : synced_note(box, i, pending) # "writing"
      BY DEF synced_note
    <3>. QED  BY <2>1, <3>1, <3>2
  <2>3. Len(built) \in Nat => Len(rows') = Len(built)
    BY <2>1
  <2>4. WritingIsAwaited'
    BY <2>2, <2>3 DEF WritingIsAwaited
  <2>. QED  BY <1>2, <2>4 DEF sync_content, syncing
<1>. QED  BY <1>1, <1>2

(* Nothing of the page is touched.                                         *)
LEMMA SamePage ==
  ASSUME WindowInv, UNCHANGED <<rows, page, pending_input>>
  PROVE  WritingIsAwaited'
  BY DEF WindowInv, WritingIsAwaited

(* The window hears what the walk has said.                                *)
LEMMA HearKeeps ==
  ASSUME WindowInv, NodesNamed', SignalFits, Hear
  PROVE  WindowInv'
<1>. SUFFICES /\ sidebar' \in Seq(Segments)
              /\ Distinct(sidebar') /\ Elements(sidebar') = DOMAIN segments'
              /\ selected' \in Elements(sidebar') \cup {NULL}
              /\ page' = "page" <=> selected' # NULL
              /\ writes' = {} /\ WritingIsAwaited'
  BY DEF WindowInv, SelectedIsListed, NoEcho
<1>0. /\ sidebar \in Seq(Segments)
      /\ Distinct(sidebar) /\ Elements(sidebar) = DOMAIN segments
      /\ selected \in Elements(sidebar) \cup {NULL}
      /\ page = "page" <=> selected # NULL
  BY DEF WindowInv, SelectedIsListed
<1>1. CASE signal' = Silent /\ DOMAIN segments' = DOMAIN segments
  <2>1. Unheard
    BY <1>1 DEF Hear, Silent
  <2>. QED  BY <1>0, <1>1, <2>1, SamePage DEF Unheard, uiVars
<1>2. ASSUME NEW seg \in Segments \ DOMAIN segments,
             signal' = Told("added", seg), DOMAIN segments' = DOMAIN segments \cup {seg}
      PROVE  /\ sidebar' \in Seq(Segments)
             /\ Distinct(sidebar') /\ Elements(sidebar') = DOMAIN segments'
             /\ selected' \in Elements(sidebar') \cup {NULL}
             /\ page' = "page" <=> selected' # NULL
             /\ writes' = {} /\ WritingIsAwaited'
  <2>1. on_box_added(seg)
    BY <1>2 DEF Hear, Told
  <2>2. sidebar' = Append(sidebar, seg)
    BY <2>1 DEF on_box_added
  <2>3. /\ sidebar' \in Seq(Segments)
        /\ Distinct(sidebar') /\ Elements(sidebar') = DOMAIN segments'
    BY <1>0, <1>2, <2>2, AppendElements
  <2>4. CASE selected = NULL
    BY <1>2, <2>1, <2>3, <2>4, SyncPage DEF on_box_added, on_sidebar_selected
  <2>5. CASE selected # NULL
    BY <1>0, <1>2, <2>1, <2>3, <2>5, SamePage DEF on_box_added
  <2>. QED  BY <2>3, <2>4, <2>5
<1>3. ASSUME NEW seg \in DOMAIN segments,
             signal' = Told("changed", seg), DOMAIN segments' = DOMAIN segments
      PROVE  /\ sidebar' \in Seq(Segments)
             /\ Distinct(sidebar') /\ Elements(sidebar') = DOMAIN segments'
             /\ selected' \in Elements(sidebar') \cup {NULL}
             /\ page' = "page" <=> selected' # NULL
             /\ writes' = {} /\ WritingIsAwaited'
  <2>1. on_box_changed(seg)
    BY <1>3 DEF Hear, Told
  <2>2. CASE selected = seg
    BY <1>0, <1>3, <2>1, <2>2, SyncPage DEF on_box_changed
  <2>3. CASE selected # seg
    BY <1>0, <1>3, <2>1, <2>3, SamePage DEF on_box_changed, Unheard, uiVars
  <2>. QED  BY <2>2, <2>3
<1>4. ASSUME NEW seg \in DOMAIN segments,
             signal' = Told("removed", seg), DOMAIN segments' = DOMAIN segments \ {seg}
      PROVE  /\ sidebar' \in Seq(Segments)
             /\ Distinct(sidebar') /\ Elements(sidebar') = DOMAIN segments'
             /\ selected' \in Elements(sidebar') \cup {NULL}
             /\ page' = "page" <=> selected' # NULL
             /\ writes' = {} /\ WritingIsAwaited'
  <2>1. on_box_removed(seg)
    BY <1>4 DEF Hear, Told
  <2>2. sidebar' = RemoveInOrder(sidebar, seg)
    BY <2>1 DEF on_box_removed, SidebarWithout
  <2>3. /\ sidebar' \in Seq(Segments)
        /\ Distinct(sidebar') /\ Elements(sidebar') = DOMAIN segments'
    BY <1>0, <1>4, <2>2, RemoveInOrderElements
  <2>4. CASE selected = seg
    BY <2>1, <2>3, <2>4, SyncPage DEF on_box_removed
  <2>5. CASE selected # seg
    BY <1>0, <1>4, <2>1, <2>3, <2>5, SyncPage DEF on_box_removed
  <2>. QED  BY <2>3, <2>4, <2>5
<1>. QED  BY <1>1, <1>2, <1>3, <1>4 DEF SignalFits

(* A gesture writes the cell it moved and no other, and the selection      *)
(* stays.                                                                  *)
LEMMA WriteKeeps ==
  ASSUME WindowInv, NEW i, NEW p, NEW value, NEW moved,
         write_cell(i, p, value, moved), Movable(i),
         UNCHANGED <<vars, sidebar, selected, lost>>
  PROVE  WindowInv'
<1>1. NodesNamed' /\ sidebar' \in Seq(Segments)
  BY DEF WindowInv, NodesNamed, vars
<1>2. /\ gesture' = <<i, p>>
      /\ \/ writes' = {<<i, p, value>>} /\ page' = page /\ pending_input' = i
         \/ put_back([moved EXCEPT ![i].note = outcome'])
  BY DEF write_cell
<1>3. page = "page" <=> selected # NULL
  BY DEF WindowInv, SelectedIsListed
<1>4. CASE writes' = {<<i, p, value>>} /\ page' = page /\ pending_input' = i
  <2>1. NoEcho' /\ WritingIsAwaited'
    BY <1>2, <1>4 DEF NoEcho, WritingIsAwaited, Movable
  <2>. QED  BY <1>1, <1>4, <2>1 DEF WindowInv, SelectedIsListed, vars
<1>5. CASE put_back([moved EXCEPT ![i].note = outcome'])
  <2>1. (page' = "page" <=> selected # NULL) /\ writes' = {} /\ WritingIsAwaited'
    BY <1>5, SyncPage DEF put_back
  <2>. QED  BY <1>1, <2>1 DEF WindowInv, SelectedIsListed, NoEcho, vars
<1>. QED  BY <1>2, <1>4, <1>5

LEMMA WindowNextKeeps == WindowInv /\ [WindowNext]_windowVars => WindowInv'
<1>. SUFFICES ASSUME WindowInv, [WindowNext]_windowVars  PROVE WindowInv'
  OBVIOUS
<1>0. NodesNamed
  BY DEF WindowInv
<1>1. ASSUME NEW id \in Ids, NEW class \in GlobalClasses, GlobalAppears(id, class)
      PROVE  WindowInv'
  BY <1>0, <1>1, GlobalHeard, HearKeeps DEF GlobalAppears
<1>2. ASSUME NEW id \in Ids, NEW d \in Dicts, NodeSpeaks(id, d)
      PROVE  WindowInv'
  BY <1>0, <1>2, InfoHeard, HearKeeps DEF NodeSpeaks
<1>3. ASSUME NEW id \in Ids, ProxyGoes(id)
      PROVE  WindowInv'
  BY <1>3, SamePage DEF ProxyGoes, vars, uiVars, WindowInv, NodesNamed, SelectedIsListed, NoEcho
<1>4. ASSUME NEW id \in Ids, NodeGoes(id)
      PROVE  WindowInv'
  BY <1>0, <1>4, RemoveHeard, HearKeeps DEF NodeGoes
<1>5. ASSUME NEW seg \in Elements(sidebar) \cup {NULL}, Select(seg)
      PROVE  WindowInv'
  <2>1. /\ selected' = seg /\ (page' = "page" <=> seg # NULL)
        /\ writes' = {} /\ WritingIsAwaited'
    BY <1>5, SyncPage DEF Select, on_sidebar_selected
  <2>. QED  BY <1>5, <2>1 DEF Select, vars, WindowInv, NodesNamed, SelectedIsListed, NoEcho
<1>6. ASSUME NEW i, NEW p, Toggle(i, p)
      PROVE  WindowInv'
  BY <1>6, WriteKeeps DEF Toggle
<1>7. ASSUME NEW i, NEW dbu, Slide(i, dbu)
      PROVE  WindowInv'
  BY <1>7, WriteKeeps DEF Slide
<1>8. CASE UNCHANGED windowVars
  BY <1>8, SamePage DEF windowVars, vars, uiVars, stepVars, WindowInv, NodesNamed,
                        SelectedIsListed, NoEcho
<1>. QED  BY <1>1, <1>2, <1>3, <1>4, <1>5, <1>6, <1>7, <1>8 DEF WindowNext

LEMMA WindowInitInv == WindowInit => WindowInv
<1>. SUFFICES ASSUME WindowInit  PROVE WindowInv
  OBVIOUS
<1>1. NodesNamed /\ DOMAIN segments = {}
  BY DEF WindowInit, Init, NodesNamed
<1>2. sidebar = <<>> /\ sidebar \in Seq(Segments)
  BY DEF WindowInit
<1>3. Elements(sidebar) = {} /\ Distinct(sidebar)
  BY <1>2 DEF Elements, Distinct
<1>. QED  BY <1>1, <1>2, <1>3 DEF WindowInit, WindowInv, SelectedIsListed, NoEcho, WritingIsAwaited

LEMMA WindowInvariant == WindowSpec => []WindowInv
  BY WindowInitInv, WindowNextKeeps, PTL DEF WindowSpec

(* rs-window.c:55, the box on the page is borrowed: it is one the walk     *)
(* still lists, and the sidebar is the list of them, for every graph and   *)
(* every sequence of clicks.                                               *)
THEOREM WindowSelectedIsListed == WindowSpec => []SelectedIsListed
<1>1. WindowInv => SelectedIsListed
  BY DEF WindowInv
<1>. QED  BY <1>1, WindowInvariant, PTL

(* rs-window.c:59: nothing is written to the daemon but the cell whose     *)
(* control the operator has just moved.                                    *)
THEOREM WindowNoEcho == WindowSpec => []NoEcho
<1>1. WindowInv => NoEcho
  BY DEF WindowInv
<1>. QED  BY <1>1, WindowInvariant, PTL

(* "Writing..." never outlasts the wait for its write: another selection,  *)
(* a change of the box or a refused write takes it away with the wait.     *)
THEOREM WindowWritingIsAwaited == WindowSpec => []WritingIsAwaited
<1>1. WindowInv => WritingIsAwaited
  BY DEF WindowInv
<1>. QED  BY <1>1, WindowInvariant, PTL
-----------------------------------------------------------------------------
(* The rows of the page.                                                   *)

HasControls(r, caps) == \A p \in Params : r[p] # NULL <=> p \in caps

LEMMA NullIsNone ==
  /\ NULL # TRUE /\ NULL # FALSE
  /\ NULL \notin Scale
<1>1. NULL \notin BOOLEAN
  BY WindowAssumption, Zenon
<1>2. NULL \notin [low : Int, high : Int, at : Int]
  BY WindowAssumption, Zenon
<1>. QED  BY <1>1, <1>2, Zenon DEF Scale

LEMMA NewRow ==
  ASSUME NEW box
  PROVE  input_row_new(box) \in Row /\ HasControls(input_row_new(box), box.caps)
<1>1. NewScale \in Scale /\ NewScale # NULL /\ FALSE # NULL
  <2>1. NewScale \in Scale
    BY DEF NewScale, Scale
  <2>. QED  BY <2>1, NullIsNone
<1>2. input_row_new(box) \in Row
  <2>. DEFINE phantom == IF caps_has(box.caps, "phantom") THEN FALSE ELSE NULL
              pad     == IF caps_has(box.caps, "pad") THEN FALSE ELSE NULL
              sens    == IF caps_has(box.caps, "sens") THEN NewScale ELSE NULL
              live    == TRUE
              note    == ""
  <2>1. phantom \in Switches /\ pad \in Switches
    BY Zenon DEF Switches
  <2>2. sens \in Scale \cup {NULL}
    BY <1>1
  <2>3. live \in BOOLEAN /\ note \in Notes
    BY DEF Notes
  <2>4. input_row_new(box) = [phantom |-> phantom, pad |-> pad, sens |-> sens,
                              live |-> live, note |-> note]
    BY DEF input_row_new
  <2>. HIDE DEF phantom, pad, sens, live, note
  <2>. QED  BY <2>1, <2>2, <2>3, <2>4 DEF Row
<1>3. \A p \in Params : caps_has(box.caps, p) <=> p \in box.caps
  BY DEF caps_has, Params
<1>4. HasControls(input_row_new(box), box.caps)
  <2>1. /\ input_row_new(box)["phantom"] = IF caps_has(box.caps, "phantom") THEN FALSE ELSE NULL
        /\ input_row_new(box)["pad"] = IF caps_has(box.caps, "pad") THEN FALSE ELSE NULL
        /\ input_row_new(box)["sens"] = IF caps_has(box.caps, "sens") THEN NewScale ELSE NULL
    BY DEF input_row_new
  <2>. QED  BY <1>1, <1>3, <2>1, Zenon DEF HasControls, Params
<1>. QED  BY <1>2, <1>4

LEMMA SyncedSwitch ==
  ASSUME NEW old \in Switches, NEW v \in Int
  PROVE  /\ synced_switch(old, v) \in Switches
         /\ synced_switch(old, v) = NULL <=> old = NULL
         /\ old # NULL /\ v >= 0 => (synced_switch(old, v) = (v # 0))
<1>1. CASE old = NULL \/ v < 0
  <2>1. synced_switch(old, v) = old
    BY <1>1, Zenon DEF synced_switch
  <2>2. old # NULL => ~(v >= 0)
    BY <1>1
  <2>. QED  BY <2>1, <2>2, Zenon
<1>2. CASE ~(old = NULL \/ v < 0)
  <2>1. synced_switch(old, v) = (v # 0)
    BY <1>2, Zenon DEF synced_switch
  <2>2. (v # 0) \in BOOLEAN
    OBVIOUS
  <2>3. (v # 0) # NULL
    BY <2>2, NullIsNone, Zenon
  <2>. QED  BY <1>2, <2>1, <2>2, <2>3, Zenon DEF Switches
<1>. QED  BY <1>1, <1>2, Zenon

(* The slider's travel is that of the ceiling and of the pad, and a step   *)
(* within it lands on its dBu: set_value never has to cut it.              *)
Travels(s, pad_on, sens_max) ==
  s.low = sens_dbu(sens_max, pad_on, sens_max) /\ s.high = sens_dbu(0, pad_on, sens_max)

LEMMA SyncedScale ==
  ASSUME NEW s \in Scale \cup {NULL}, NEW pad_on \in BOOLEAN,
         NEW v \in {-1} \cup Byte, NEW sens_max \in Ceilings
  PROVE  /\ synced_scale(s, pad_on, v, sens_max) \in Scale \cup {NULL}
         /\ synced_scale(s, pad_on, v, sens_max) = NULL <=> s = NULL
         /\ s # NULL /\ v >= 0 =>
              synced_scale(s, pad_on, v, sens_max).at = sens_dbu(v, pad_on, sens_max)
         /\ s # NULL => Travels(synced_scale(s, pad_on, v, sens_max), pad_on, sens_max)
<1>. DEFINE low  == sens_dbu(sens_max, pad_on, sens_max)
            high == sens_dbu(0, pad_on, sens_max)
            at   == sens_dbu(v, pad_on, sens_max)
<1>1. /\ low \in Int /\ high \in Int /\ at \in Int /\ low <= high
      /\ v >= 0 => low <= at /\ at <= high
  BY DEF sens_dbu, sens_clamp, ceiling, SENS_REF_DBU, SENS_STEP_DB, PAD_DB, Ceilings, Byte
<1>. HIDE DEF low, high, at
<1>2. CASE s = NULL
  BY <1>2 DEF synced_scale
<1>3. CASE s # NULL
  <2>. DEFINE ranged == set_range(s, low, high)
  <2>1. s.at \in Int
    BY <1>3 DEF Scale
  <2>2. ranged \in Scale /\ ranged.low = low /\ ranged.high = high
    BY <1>1, <2>1 DEF set_range, Between, Scale
  <2>3. /\ v >= 0 => set_value(ranged, at) \in Scale /\ set_value(ranged, at).at = at
        /\ set_value(ranged, at).low = low /\ set_value(ranged, at).high = high
    BY <1>1, <2>2 DEF set_value, Between, Scale
  <2>4. synced_scale(s, pad_on, v, sens_max)
          = IF v < 0 THEN ranged ELSE set_value(ranged, at)
    BY <1>3 DEF synced_scale, low, high, at
  <2>5. NULL \notin Scale
    BY NullIsNone
  <2>. HIDE DEF ranged
  <2>6. v < 0 \/ v >= 0
    BY DEF Byte
  <2>. QED  BY <1>3, <2>2, <2>3, <2>4, <2>5, <2>6 DEF Travels, low, high, at
<1>. QED  BY <1>2, <1>3

(* A row after sync_row keeps its controls, and each shows what is said of *)
(* its input if anything is.                                               *)
RowShows(r, i, box) ==
  /\ r.phantom # NULL /\ box_asserted(box, i, "phantom") >= 0
       => r.phantom = (box_asserted(box, i, "phantom") # 0)
  /\ r.pad # NULL /\ box_asserted(box, i, "pad") >= 0
       => r.pad = (box_asserted(box, i, "pad") # 0)
  /\ r.sens # NULL /\ box_asserted(box, i, "sens") >= 0
       => r.sens.at = sens_dbu(box_asserted(box, i, "sens"), r.pad = TRUE, box.sens_max)
  /\ r.sens # NULL => Travels(r.sens, r.pad = TRUE, box.sens_max)

LEMMA SyncedRow ==
  ASSUME NEW ids, NEW segs, NEW box \in Box(ids, segs), NEW r \in Row,
         NEW i, NEW pending
  PROVE  /\ sync_row(r, i, box, pending) \in Row
         /\ \A p \in Params : sync_row(r, i, box, pending)[p] = NULL <=> r[p] = NULL
         /\ sync_row(r, i, box, pending).live = (box_availability(box) = "ok")
         /\ RowShows(sync_row(r, i, box, pending), i, box)
<1>. DEFINE vphantom == box_asserted(box, i, "phantom")
            vpad     == box_asserted(box, i, "pad")
            vsens    == box_asserted(box, i, "sens")
            phantom  == synced_switch(r.phantom, vphantom)
            pad      == synced_switch(r.pad, vpad)
            sens     == synced_scale(r.sens, pad = TRUE, vsens, box.sens_max)
            live     == box_availability(box) = "ok"
            note     == synced_note(box, i, pending)
            after    == sync_row(r, i, box, pending)
<1>1. vphantom \in {-1} \cup Byte /\ vpad \in {-1} \cup Byte /\ vsens \in {-1} \cup Byte
  BY AssertedType
<1>2. box.sens_max \in Ceilings
  BY DEF Box
<1>3. r.phantom \in Switches /\ r.pad \in Switches /\ r.sens \in Scale \cup {NULL}
  BY DEF Row
<1>4. note \in Notes
  BY Zenon DEF synced_note, Notes
<1>5. live \in BOOLEAN
  OBVIOUS
<1>6. after = [phantom |-> phantom, pad |-> pad, sens |-> sens, live |-> live, note |-> note]
  BY DEF sync_row
<1>. HIDE DEF vphantom, vpad, vsens, live, note, after
<1>7. vphantom \in Int /\ vpad \in Int
  BY <1>1 DEF Byte
<1>8. /\ phantom \in Switches /\ (phantom = NULL <=> r.phantom = NULL)
      /\ r.phantom # NULL /\ vphantom >= 0 => phantom = (vphantom # 0)
  BY <1>3, <1>7, SyncedSwitch
<1>9. /\ pad \in Switches /\ (pad = NULL <=> r.pad = NULL)
      /\ r.pad # NULL /\ vpad >= 0 => pad = (vpad # 0)
  BY <1>3, <1>7, SyncedSwitch
<1>. HIDE DEF phantom, pad
<1>10. /\ sens \in Scale \cup {NULL} /\ (sens = NULL <=> r.sens = NULL)
       /\ r.sens # NULL /\ vsens >= 0 => sens.at = sens_dbu(vsens, pad = TRUE, box.sens_max)
       /\ r.sens # NULL => Travels(sens, pad = TRUE, box.sens_max)
  <2>. DEFINE pad_on == pad = TRUE
  <2>1. pad_on \in BOOLEAN /\ sens = synced_scale(r.sens, pad_on, vsens, box.sens_max)
    BY DEF sens
  <2>. HIDE DEF pad_on, sens
  <2>2. /\ sens \in Scale \cup {NULL} /\ (sens = NULL <=> r.sens = NULL)
        /\ r.sens # NULL /\ vsens >= 0 => sens.at = sens_dbu(vsens, pad_on, box.sens_max)
        /\ r.sens # NULL => Travels(sens, pad_on, box.sens_max)
    BY <1>1, <1>2, <1>3, <2>1, SyncedScale
  <2>. QED  BY <2>2 DEF pad_on
<1>. HIDE DEF sens
<1>12. after \in Row
  BY <1>4, <1>5, <1>6, <1>8, <1>9, <1>10 DEF Row
<1>13. /\ after.phantom = phantom /\ after.pad = pad /\ after.sens = sens /\ after.live = live
       /\ after["phantom"] = phantom /\ after["pad"] = pad /\ after["sens"] = sens
  BY <1>6
<1>14. \A p \in Params : after[p] = NULL <=> r[p] = NULL
  BY <1>8, <1>9, <1>10, <1>13 DEF Params
<1>15. RowShows(after, i, box)
  BY <1>8, <1>9, <1>10, <1>13 DEF RowShows, vphantom, vpad, vsens
<1>. QED  BY <1>12, <1>13, <1>14, <1>15 DEF after, live

-----------------------------------------------------------------------------
(* What sync_content leaves on the page.                                   *)

(* Rows that go with the count they are marked with.                       *)
Shaped(n, rs) == n \in {-1, Len(rs)} \/ (n < 0 /\ rs = <<>>)

(* Rows without a control that no box has.                                 *)
RowsOffered(rs) == \A i \in 1..Len(rs), p \in Params : rs[i][p] # NULL => p \in Offered

LEMMA RowsMade ==
  ASSUME NEW n \in Int, NEW rs, rs = [i \in 1..n |-> rs[i]],
         \A i \in 1..n : rs[i] \in Row
  PROVE  /\ rs \in Seq(Row) /\ Shaped(n, rs)
         /\ n >= 0 => Len(rs) = n
         /\ n < 0 => rs = <<>>
<1>1. CASE n >= 0
  <2>1. rs \in Seq(Row) /\ Len(rs) = n
    BY <1>1
  <2>. QED  BY <1>1, <2>1 DEF Shaped
<1>2. CASE n < 0
  <2>1. rs = <<>>
    <3>1. 1..n = {}
      BY <1>2
    <3>. QED  BY <3>1
  <2>. QED  BY <1>2, <2>1 DEF Shaped
<1>. QED  BY <1>1, <1>2

(* The rows sync_content writes: new ones, or those that are there.        *)
LEMMA BuiltRows ==
  ASSUME NEW ids, NEW segs, NEW box \in Box(ids, segs),
         NEW old_rows \in Seq(Row), NEW shape, Shaped(shape, old_rows),
         NEW built, built = IF shape # box.channels THEN rows_build(box) ELSE old_rows
  PROVE  /\ built \in Seq(Row) /\ Shaped(box.channels, built)
         /\ box.channels >= 0 => Len(built) = box.channels
         /\ (shape = box.channels => \A i \in 1..Len(old_rows) : HasControls(old_rows[i], box.caps))
              => \A i \in 1..Len(built) : HasControls(built[i], box.caps)
         /\ RowsOffered(old_rows) => RowsOffered(built)
<1>1. box.channels \in Int /\ box.caps \subseteq Offered
  BY DEF Box, Values, Offered, With
<1>2. CASE shape = box.channels
  BY <1>1, <1>2 DEF Shaped
<1>3. CASE shape # box.channels
  <2>1. built = [i \in 1..box.channels |-> input_row_new(box)]
    BY <1>3 DEF rows_build
  <2>2. built = [i \in 1..box.channels |-> built[i]] /\ DOMAIN built = 1..box.channels
    BY <2>1
  <2>3. \A i \in 1..box.channels :
          built[i] \in Row /\ HasControls(built[i], box.caps)
    BY <2>1, NewRow
  <2>4. /\ built \in Seq(Row) /\ Shaped(box.channels, built)
        /\ box.channels >= 0 => Len(built) = box.channels
        /\ box.channels < 0 => built = <<>>
    BY <1>1, <2>2, <2>3, RowsMade
  <2>5. 1..Len(built) \subseteq 1..box.channels
    BY <1>1, <2>4
  <2>6. RowsOffered(built)
    BY <1>1, <2>3, <2>5 DEF RowsOffered, HasControls
  <2>. QED  BY <1>3, <2>3, <2>4, <2>5, <2>6
<1>. QED  BY <1>2, <1>3

LEMMA SyncedRows ==
  ASSUME NEW sel, sel # NULL, NEW old_rows \in Seq(Row), NEW shape, NEW pending,
         Shaped(shape, old_rows),
         segments'[sel].box \in Box(Ids, {sel}),
         sync_content(sel, old_rows, shape, pending)
  PROVE  LET box == segments'[sel].box IN
         /\ rows' \in Seq(Row) /\ Shaped(rows_for', rows')
         /\ rows_for' = box.channels /\ page' = "page" /\ pending_input' = -1
         /\ banner' = box_availability(box) /\ awaited' = {}
         /\ box.channels >= 0 => Len(rows') = box.channels
         /\ \A i \in 1..Len(rows') :
              /\ rows'[i].live = (box_availability(box) = "ok")
              /\ RowShows(rows'[i], i, box)
         /\ (shape = box.channels => \A i \in 1..Len(old_rows) : HasControls(old_rows[i], box.caps))
              => \A i \in 1..Len(rows') : HasControls(rows'[i], box.caps)
         /\ RowsOffered(old_rows) => RowsOffered(rows')
<1>. DEFINE box   == segments'[sel].box
            built == IF shape # box.channels THEN rows_build(box) ELSE old_rows
<1>1. /\ rows' = [i \in 1..Len(built) |-> sync_row(built[i], i, box, pending)]
      /\ rows_for' = box.channels /\ page' = "page" /\ pending_input' = -1
      /\ banner' = box_availability(box) /\ awaited' = {}
  BY DEF sync_content
<1>2. box \in Box(Ids, {sel})
  OBVIOUS
<1>. HIDE DEF box
<1>3. /\ built \in Seq(Row) /\ Shaped(box.channels, built)
      /\ box.channels >= 0 => Len(built) = box.channels
      /\ (shape = box.channels => \A i \in 1..Len(old_rows) : HasControls(old_rows[i], box.caps))
           => \A i \in 1..Len(built) : HasControls(built[i], box.caps)
      /\ RowsOffered(old_rows) => RowsOffered(built)
  BY <1>2, BuiltRows
<1>. HIDE DEF built
<1>4. \A i \in 1..Len(built) :
        /\ rows'[i] \in Row
        /\ \A p \in Params : rows'[i][p] = NULL <=> built[i][p] = NULL
        /\ rows'[i].live = (box_availability(box) = "ok")
        /\ RowShows(rows'[i], i, box)
  BY <1>1, <1>2, <1>3, SyncedRow
<1>5. /\ rows' \in Seq(Row) /\ Len(rows') = Len(built)
      /\ built = <<>> => rows' = <<>>
  <2>1. /\ Len(built) \in Int /\ Len(built) >= 0
        /\ rows' = [i \in 1..Len(built) |-> rows'[i]]
    BY <1>1, <1>3
  <2>2. rows' \in Seq(Row) /\ Len(rows') = Len(built)
    BY <1>4, <2>1, RowsMade
  <2>. QED  BY <2>2
<1>6. Shaped(rows_for', rows')
  BY <1>1, <1>3, <1>5 DEF Shaped
<1>7. ASSUME \A i \in 1..Len(built) : HasControls(built[i], box.caps)
      PROVE  \A i \in 1..Len(rows') : HasControls(rows'[i], box.caps)
  BY <1>4, <1>5, <1>7 DEF HasControls
<1>8. RowsOffered(built) => RowsOffered(rows')
  BY <1>4, <1>5 DEF RowsOffered
<1>. QED  BY <1>1, <1>3, <1>4, <1>5, <1>6, <1>7, <1>8 DEF box

-----------------------------------------------------------------------------
(* The page after the window has heard the walk: as it was, with the box   *)
(* it shows as it was, or synced with the box that is selected now.        *)
PageKept ==
  /\ UNCHANGED <<selected, rows, rows_for, page, banner, pending_input, awaited>>
  /\ selected # NULL => segments'[selected].box = segments[selected].box

Resynced ==
  \/ \E rs \in {rows, <<>>} : \E sel :
       selected' = sel /\ sync_content(sel, rs, -1, pending_input)
  \/ selected' = selected /\ sync_content(selected, rows, rows_for, pending_input)

LEMMA HearSyncs ==
  ASSUME WindowInv, SignalFits, Announced, Hear
  PROVE  PageKept \/ Resynced
<1>0. selected \in DOMAIN segments \cup {NULL}
  BY DEF WindowInv, SelectedIsListed
<1>1. CASE signal' = Silent /\ DOMAIN segments' = DOMAIN segments
  <2>1. Unheard
    BY <1>1 DEF Hear, Silent
  <2>2. BoxesOf(segments') = BoxesOf(segments)
    BY <1>1 DEF Announced, Silent
  <2>3. \A s \in DOMAIN segments : segments'[s].box = segments[s].box
    <3>1. \A s \in DOMAIN segments : /\ BoxesOf(segments)[s] = segments[s].box
                                     /\ BoxesOf(segments')[s] = segments'[s].box
      BY <1>1 DEF BoxesOf
    <3>. QED  BY <2>2, <3>1
  <2>. QED  BY <1>0, <2>1, <2>3 DEF Unheard, uiVars, PageKept
<1>2. ASSUME NEW seg \in Segments \ DOMAIN segments,
             signal' = Told("added", seg), DOMAIN segments' = DOMAIN segments \cup {seg}
      PROVE  PageKept \/ Resynced
  <2>1. on_box_added(seg)
    BY <1>2 DEF Hear, Told
  <2>2. CASE selected = NULL
    BY <2>1, <2>2 DEF on_box_added, on_sidebar_selected, Resynced
  <2>3. CASE selected # NULL
    <3>1. BoxesOf(segments') = Insert(BoxesOf(segments), seg, segments'[seg].box)
      BY <1>2 DEF Announced, Told
    <3>2. BoxesOf(segments')[selected] = BoxesOf(segments)[selected]
      BY <1>0, <1>2, <2>3, <3>1 DEF Insert, BoxesOf
    <3>3. segments'[selected].box = segments[selected].box
      BY <1>0, <1>2, <2>3, <3>2 DEF BoxesOf
    <3>. QED  BY <2>1, <2>3, <3>3 DEF on_box_added, PageKept
  <2>. QED  BY <2>2, <2>3
<1>3. ASSUME NEW seg \in DOMAIN segments,
             signal' = Told("changed", seg), DOMAIN segments' = DOMAIN segments
      PROVE  PageKept \/ Resynced
  <2>1. on_box_changed(seg)
    BY <1>3 DEF Hear, Told
  <2>2. CASE selected = seg
    BY <2>1, <2>2 DEF on_box_changed, Resynced
  <2>3. CASE selected # seg
    <3>1. BoxesOf(segments') = Insert(BoxesOf(segments), seg, segments'[seg].box)
      BY <1>3 DEF Announced, Told
    <3>2. selected # NULL => BoxesOf(segments')[selected] = BoxesOf(segments)[selected]
      BY <1>0, <1>3, <2>3, <3>1 DEF Insert, BoxesOf
    <3>3. selected # NULL => segments'[selected].box = segments[selected].box
      BY <1>0, <1>3, <3>2 DEF BoxesOf
    <3>. QED  BY <2>1, <2>3, <3>3 DEF on_box_changed, Unheard, uiVars, PageKept
  <2>. QED  BY <2>2, <2>3
<1>4. ASSUME NEW seg \in DOMAIN segments,
             signal' = Told("removed", seg), DOMAIN segments' = DOMAIN segments \ {seg}
      PROVE  PageKept \/ Resynced
  <2>1. on_box_removed(seg)
    BY <1>4 DEF Hear, Told
  <2>. QED  BY <2>1 DEF on_box_removed, Resynced
<1>. QED  BY <1>1, <1>2, <1>3, <1>4 DEF SignalFits

-----------------------------------------------------------------------------
(* What a gesture does to the rows.                                        *)

(* moved is rows with the control p of row i put elsewhere.                *)
MovedTo(moved, i, p) ==
  /\ moved \in Seq(Row) /\ Len(moved) = Len(rows)
  /\ \A j \in 1..Len(rows) : j # i => moved[j] = rows[j]
  /\ moved[i].live = rows[i].live
  /\ \A q \in Params : (moved[i][q] = NULL <=> rows[i][q] = NULL)
  /\ \A q \in Params : q # p => moved[i][q] = rows[i][q]

LEMMA ToggleMoves ==
  ASSUME rows \in Seq(Row), NEW i \in 1..Len(rows), NEW p \in {"phantom", "pad"},
         rows[i][p] # NULL
  PROVE  MovedTo([rows EXCEPT ![i][p] = ~@], i, p)
<1>. DEFINE after == [rows[i] EXCEPT ![p] = ~@]
            on    == rows[i][p]
            off   == ~on
<1>1. rows[i] \in Row
  OBVIOUS
<1>2. on \in Switches
  BY <1>1 DEF Row
<1>3. on \in BOOLEAN
  BY <1>2, Zenon DEF Switches
<1>4. off \in BOOLEAN
  OBVIOUS
<1>5. off # NULL
  BY <1>4, NullIsNone, Zenon
<1>6. off \in Switches
  BY <1>4, Zenon DEF Switches
<1>7. after = [rows[i] EXCEPT ![p] = off]
  OBVIOUS
<1>. HIDE DEF off
<1>8. /\ after \in Row
      /\ after.live = rows[i].live
      /\ \A q \in Params : after[q] = IF q = p THEN off ELSE rows[i][q]
  BY <1>1, <1>6, <1>7 DEF Row, Params
<1>9. [rows EXCEPT ![i][p] = ~@] = [rows EXCEPT ![i] = after]
  OBVIOUS
<1>. HIDE DEF after
<1>10. MovedTo([rows EXCEPT ![i] = after], i, p)
  BY <1>5, <1>8 DEF MovedTo
<1>. QED  BY <1>9, <1>10

LEMMA SlideMoves ==
  ASSUME rows \in Seq(Row), NEW i \in 1..Len(rows), rows[i].sens # NULL,
         NEW dbu \in rows[i].sens.low..rows[i].sens.high
  PROVE  MovedTo([rows EXCEPT ![i].sens.at = dbu], i, "sens")
<1>. DEFINE scale == [rows[i].sens EXCEPT !.at = dbu]
            after == [rows[i] EXCEPT !.sens = scale]
<1>1. rows[i] \in Row
  OBVIOUS
<1>2. rows[i].sens \in Scale
  BY <1>1 DEF Row
<1>3. scale \in Scale
  BY <1>2 DEF Scale
<1>4. scale # NULL
  BY <1>3, NullIsNone
<1>. HIDE DEF scale
<1>5. /\ after \in Row
      /\ after.live = rows[i].live
      /\ \A q \in Params : after[q] = IF q = "sens" THEN scale ELSE rows[i][q]
  BY <1>1, <1>3 DEF Row, Params
<1>6. [rows EXCEPT ![i].sens.at = dbu] = [rows EXCEPT ![i] = after]
  BY DEF scale
<1>. HIDE DEF after
<1>7. MovedTo([rows EXCEPT ![i] = after], i, "sens")
  BY <1>4, <1>5 DEF MovedTo, Params
<1>. QED  BY <1>6, <1>7

LEMMA NotedMoves ==
  ASSUME rows \in Seq(Row), NEW i \in 1..Len(rows), NEW p, NEW moved,
         MovedTo(moved, i, p), NEW note \in Notes
  PROVE  MovedTo([moved EXCEPT ![i].note = note], i, p)
<1>. DEFINE after == [moved[i] EXCEPT !.note = note]
<1>1. moved \in Seq(Row) /\ i \in 1..Len(moved) /\ moved[i] \in Row
  BY DEF MovedTo
<1>2. /\ after \in Row
      /\ after.live = moved[i].live
      /\ \A q \in Params : after[q] = moved[i][q]
  BY <1>1 DEF Row, Params
<1>3. [moved EXCEPT ![i].note = note] = [moved EXCEPT ![i] = after]
  OBVIOUS
<1>. HIDE DEF after
<1>4. MovedTo([moved EXCEPT ![i] = after], i, p)
  BY <1>1, <1>2 DEF MovedTo
<1>. QED  BY <1>3, <1>4

-----------------------------------------------------------------------------
(* The types of the page.                                                  *)
PageTyped ==
  /\ rows \in Seq(Row) /\ Shaped(rows_for, rows) /\ RowsOffered(rows)
  /\ page \in {"empty", "page"}
  /\ pending_input \in {-1} \cup 1..MAX_CH
  /\ awaited # {} => pending_input # -1

TypeInv == IInv /\ WindowInv /\ PageTyped /\ lost \subseteq DOMAIN nodes

LEMMA SyncTyped ==
  ASSUME NEW sel, NEW old_rows \in Seq(Row), NEW shape, Shaped(shape, old_rows),
         RowsOffered(old_rows), sel # NULL => segments'[sel].box \in Box(Ids, {sel}),
         NEW pending \in {-1} \cup 1..MAX_CH, sel = NULL /\ awaited # {} => pending # -1,
         sync_content(sel, old_rows, shape, pending)
  PROVE  PageTyped'
<1>1. CASE sel = NULL
  BY <1>1 DEF sync_content, PageTyped
<1>2. CASE sel # NULL
  BY <1>2, SyncedRows DEF PageTyped
<1>. QED  BY <1>1, <1>2

LEMMA ResyncedTyped ==
  ASSUME TypeInv, IInv', WindowInv', Resynced
  PROVE  PageTyped'
<1>1. /\ rows \in Seq(Row) /\ Shaped(rows_for, rows) /\ RowsOffered(rows)
      /\ pending_input \in {-1} \cup 1..MAX_CH
      /\ awaited # {} => pending_input # -1
  BY DEF TypeInv, PageTyped
<1>2. ASSUME NEW sel, selected' = sel, sel # NULL
      PROVE  segments'[sel].box \in Box(Ids, {sel})
  <2>1. sel \in DOMAIN segments'
    BY <1>2 DEF WindowInv, SelectedIsListed
  <2>. QED  BY <2>1 DEF IInv, TypeOK
<1>3. CASE \E rs \in {rows, <<>>} : \E sel :
             selected' = sel /\ sync_content(sel, rs, -1, pending_input)
  <2>1. PICK rs \in {rows, <<>>} : \E sel :
             selected' = sel /\ sync_content(sel, rs, -1, pending_input)
    BY <1>3
  <2>2. PICK sel : selected' = sel /\ sync_content(sel, rs, -1, pending_input)
    BY <2>1
  <2>3. rs \in Seq(Row) /\ RowsOffered(rs)
    <3>1. <<>> \in Seq(Row) /\ RowsOffered(<<>>)
      BY DEF RowsOffered
    <3>. QED  BY <1>1, <3>1, Zenon
  <2>4. Shaped(-1, rs)
    BY DEF Shaped
  <2>. QED  BY <1>1, <1>2, <2>2, <2>3, <2>4, SyncTyped
<1>4. CASE selected' = selected /\ sync_content(selected, rows, rows_for, pending_input)
  <2>1. selected # NULL => segments'[selected].box \in Box(Ids, {selected})
    <3>1. PICK sel : sel = selected
      OBVIOUS
    <3>. QED  BY <1>2, <1>4, <3>1
  <2>. QED  BY <1>1, <1>4, <2>1, SyncTyped
<1>. QED  BY <1>3, <1>4 DEF Resynced

(* The box on the page, and what a gesture may do with it.                 *)
LEMMA SelectedBox ==
  ASSUME IInv, WindowInv, selected # NULL
  PROVE  selected \in DOMAIN segments /\ segments[selected].box \in Box(Ids, {selected})
<1>1. selected \in DOMAIN segments
  BY DEF WindowInv, SelectedIsListed
<1>. QED  BY <1>1 DEF IInv, TypeOK

LEMMA OutcomeType ==
  ASSUME NEW ids, NEW segs, NEW box \in Box(ids, segs), NEW i \in Nat \ {0},
         NEW here, NEW p, NEW value
  PROVE  /\ write_outcome(here, box, i, p, value) \in Notes \cup {"sent"}
         /\ write_outcome(here, box, i, p, value) = "sent" => i \in 1..MAX_CH
<1>1. write_outcome(here, box, i, p, value) \in Notes \cup {"sent"}
  BY Zenon DEF write_outcome, Notes
<1>2. ASSUME write_outcome(here, box, i, p, value) = "sent"
      PROVE  i \in 1..MAX_CH
  <2>1. ~(box_wire_ch(box, i) < 0)
    BY <1>2 DEF write_outcome
  <2>2. box.base \in Int
    BY HeadampAssumption DEF Box, Bases
  <2>. QED  BY <2>1, <2>2, HeadampAssumption DEF box_wire_ch, wire_ch
<1>. QED  BY <1>1, <1>2

(* A gesture's write is handed over and leaves the control where it was    *)
(* put, or the page is synced.                                             *)
WriteSent(i, p) ==
  /\ MovedTo(rows', i, p) /\ i \in 1..MAX_CH
  /\ pending_input' = i /\ awaited' = awaited \cup {<<i, p>>}
  /\ UNCHANGED <<rows_for, page, banner>>

WriteRefused(i, p) ==
  \E moved \in Seq(Row) :
    MovedTo(moved, i, p) /\ sync_content(selected, moved, rows_for, -1)

LEMMA WriteMoves ==
  ASSUME IInv, WindowInv, rows \in Seq(Row), NEW i, NEW p, NEW value, NEW moved,
         Movable(i), MovedTo(moved, i, p), write_cell(i, p, value, moved)
  PROVE  WriteSent(i, p) \/ WriteRefused(i, p)
<1>. DEFINE box == segments[selected].box
<1>1. selected # NULL /\ i \in 1..Len(rows) /\ i \in Nat \ {0}
  BY DEF Movable, WindowInv, SelectedIsListed
<1>2. box \in Box(Ids, {selected})
  BY <1>1, SelectedBox
<1>3. /\ outcome' = write_outcome(box.id \notin lost, box, i, p, value)
      /\ IF outcome' = "sent"
         THEN /\ rows' = [moved EXCEPT ![i].note = "writing"]
              /\ pending_input' = i
              /\ awaited' = awaited \cup {<<i, p>>}
              /\ UNCHANGED <<rows_for, page, banner>>
         ELSE sync_content(selected, [moved EXCEPT ![i].note = outcome'], rows_for, -1)
  BY DEF write_cell, put_back
<1>. HIDE DEF box
<1>4. outcome' \in Notes \cup {"sent"} /\ (outcome' = "sent" => i \in 1..MAX_CH)
  BY <1>1, <1>2, <1>3, OutcomeType
<1>5. CASE outcome' = "sent"
  <2>1. "writing" \in Notes
    BY DEF Notes
  <2>2. MovedTo([moved EXCEPT ![i].note = "writing"], i, p)
    BY <1>1, <2>1, NotedMoves
  <2>. QED  BY <1>3, <1>4, <1>5, <2>2 DEF WriteSent
<1>6. CASE outcome' # "sent"
  <2>1. PICK note : note = outcome'
    OBVIOUS
  <2>2. MovedTo([moved EXCEPT ![i].note = note], i, p)
    BY <1>1, <1>4, <1>6, <2>1, NotedMoves
  <2>3. sync_content(selected, [moved EXCEPT ![i].note = note], rows_for, -1)
    BY <1>3, <1>6, <2>1
  <2>. QED  BY <2>2, <2>3 DEF WriteRefused, MovedTo
<1>. QED  BY <1>5, <1>6

LEMMA SentTyped ==
  ASSUME PageTyped, NEW i, NEW p, WriteSent(i, p)
  PROVE  PageTyped'
<1>1. rows' \in Seq(Row) /\ Len(rows') = Len(rows) /\ RowsOffered(rows')
  BY DEF WriteSent, MovedTo, PageTyped, RowsOffered
<1>2. rows = <<>> => rows' = <<>>
  BY <1>1 DEF PageTyped
<1>3. Shaped(rows_for', rows')
  BY <1>1, <1>2 DEF WriteSent, PageTyped, Shaped
<1>. QED  BY <1>1, <1>3 DEF WriteSent, PageTyped

LEMMA RefusedTyped ==
  ASSUME IInv, WindowInv, PageTyped, selected # NULL, UNCHANGED vars,
         NEW i, NEW p, WriteRefused(i, p)
  PROVE  PageTyped'
<1>1. PICK moved \in Seq(Row) :
        MovedTo(moved, i, p) /\ sync_content(selected, moved, rows_for, -1)
  BY DEF WriteRefused
<1>2. Len(moved) = Len(rows) /\ (rows = <<>> => moved = <<>>)
  BY <1>1 DEF MovedTo
<1>5. RowsOffered(moved)
  <2>1. \A j \in 1..Len(rows), q \in Params : moved[j][q] # NULL => rows[j][q] # NULL
    BY <1>1 DEF MovedTo
  <2>. QED  BY <1>2, <2>1 DEF PageTyped, RowsOffered
<1>3. Shaped(rows_for, moved)
  BY <1>2 DEF PageTyped, Shaped
<1>4. segments'[selected].box \in Box(Ids, {selected})
  BY SelectedBox DEF vars
<1>. QED  BY <1>1, <1>3, <1>4, <1>5, SyncTyped

(* Every step of the window on the walk is one of these.                   *)
Heeds   == SignalFits /\ Announced /\ Hear
Gestured(i, p) ==
  /\ Movable(i) /\ i \in 1..Len(rows) /\ p \in Params
  /\ UNCHANGED <<vars, selected, lost>>
  /\ WriteSent(i, p) \/ WriteRefused(i, p)
Selected == \E sel : /\ selected' = sel /\ UNCHANGED <<vars, lost>>
                     /\ sync_content(sel, rows, -1, pending_input)
Quiet   == UNCHANGED <<vars, selected, rows, rows_for, page, banner, pending_input, awaited>>

LEMMA WindowSteps ==
  ASSUME IInv, WindowInv, rows \in Seq(Row), [WindowNext]_windowVars
  PROVE  \/ \E id \in Ids, class \in GlobalClasses : WalkGlobal(id, class) /\ Heeds /\ UNCHANGED lost
         \/ \E id \in Ids, d \in Dicts :
              Publishes(id, d) /\ WalkInfo(id, d) /\ Heeds /\ UNCHANGED lost
         \/ \E id \in Ids : WalkRemove(id) /\ Heeds /\ lost' = lost \ {id}
         \/ \E i, p : Gestured(i, p)
         \/ Selected
         \/ Quiet /\ \E gone \in {{}} \cup {{id} : id \in DOMAIN nodes} : lost' = lost \cup gone
<1>0. NodesNamed
  BY DEF WindowInv
<1>1. ASSUME NEW id \in Ids, NEW class \in GlobalClasses, GlobalAppears(id, class)
      PROVE  WalkGlobal(id, class) /\ Heeds /\ UNCHANGED lost
  BY <1>0, <1>1, GlobalHeard, GlobalAnnounced DEF GlobalAppears, Heeds
<1>2. ASSUME NEW id \in Ids, NEW d \in Dicts, NodeSpeaks(id, d)
      PROVE  Publishes(id, d) /\ WalkInfo(id, d) /\ Heeds /\ UNCHANGED lost
  BY <1>0, <1>2, InfoHeard, InfoAnnounced DEF NodeSpeaks, Heeds
<1>3. ASSUME NEW id \in Ids, ProxyGoes(id)
      PROVE  Quiet /\ \E gone \in {{x} : x \in DOMAIN nodes} : lost' = lost \cup gone
  BY <1>3 DEF ProxyGoes, Quiet, uiVars, Known
<1>4. ASSUME NEW id \in Ids, NodeGoes(id)
      PROVE  WalkRemove(id) /\ Heeds /\ lost' = lost \ {id}
  BY <1>0, <1>4, RemoveHeard, RemoveAnnounced DEF NodeGoes, Heeds
<1>5. ASSUME NEW seg, Select(seg)
      PROVE  Selected
  BY <1>5 DEF Select, on_sidebar_selected, Selected
<1>6. ASSUME NEW i \in 1..Len(rows), NEW p \in {"phantom", "pad"}, Toggle(i, p)
      PROVE  Gestured(i, p)
  <2>1. MovedTo([rows EXCEPT ![i][p] = ~@], i, p)
    BY <1>6, ToggleMoves DEF Toggle
  <2>2. WriteSent(i, p) \/ WriteRefused(i, p)
    BY <1>6, <2>1, WriteMoves DEF Toggle
  <2>3. p \in Params
    BY DEF Params
  <2>. QED  BY <1>6, <2>2, <2>3 DEF Gestured, Toggle
<1>7. ASSUME NEW i \in 1..Len(rows), rows[i].sens # NULL,
             NEW dbu \in rows[i].sens.low..rows[i].sens.high, Slide(i, dbu)
      PROVE  Gestured(i, "sens")
  <2>1. MovedTo([rows EXCEPT ![i].sens.at = dbu], i, "sens")
    BY <1>7, SlideMoves
  <2>2. WriteSent(i, "sens") \/ WriteRefused(i, "sens")
    BY <1>7, <2>1, WriteMoves DEF Slide
  <2>3. "sens" \in Params
    BY DEF Params
  <2>. QED  BY <1>7, <2>2, <2>3 DEF Gestured, Slide
<1>8. ASSUME UNCHANGED windowVars
      PROVE  Quiet /\ lost' = lost \cup {}
  BY <1>8 DEF windowVars, vars, uiVars, Quiet
<1>. QED  BY <1>1, <1>2, <1>3, <1>4, <1>5, <1>6, <1>7, <1>8 DEF WindowNext

LEMMA HeedsTyped ==
  ASSUME TypeInv, IInv', WindowInv', Heeds
  PROVE  PageTyped'
<1>1. CASE PageKept
  BY <1>1 DEF TypeInv, PageTyped, PageKept
<1>2. CASE Resynced
  BY <1>2, ResyncedTyped
<1>. QED  BY <1>1, <1>2, HearSyncs DEF Heeds, TypeInv

LEMMA TypeInvNext ==
  ASSUME SteadyGraph, TypeInv, [WindowNext]_windowVars
  PROVE  TypeInv'
<1>0. IInv /\ WindowInv /\ PageTyped /\ rows \in Seq(Row) /\ WindowInv'
  BY WindowNextKeeps DEF TypeInv, PageTyped
<1>1. ASSUME NEW id \in Ids, NEW class \in GlobalClasses,
             WalkGlobal(id, class), Heeds, UNCHANGED lost
      PROVE  TypeInv'
  <2>1. IInv'
    BY <1>0, <1>1, NextInv DEF Next
  <2>2. DOMAIN nodes \subseteq DOMAIN nodes'
    BY <1>1 DEF WalkGlobal, Insert
  <2>. QED  BY <1>0, <1>1, <2>1, <2>2, HeedsTyped DEF TypeInv
<1>2. ASSUME NEW id \in Ids, NEW d \in Dicts,
             Publishes(id, d), WalkInfo(id, d), Heeds, UNCHANGED lost
      PROVE  TypeInv'
  <2>1. IInv'
    BY <1>0, <1>2, NextInv DEF Next
  <2>2. DOMAIN nodes \subseteq DOMAIN nodes'
    BY <1>2 DEF WalkInfo, InfoOrdinary, InfoNewSegment, InfoKnownSegment, Insert
  <2>. QED  BY <1>0, <1>2, <2>1, <2>2, HeedsTyped DEF TypeInv
<1>3. ASSUME NEW id \in Ids, WalkRemove(id), Heeds, lost' = lost \ {id}
      PROVE  TypeInv'
  <2>1. IInv'
    BY <1>0, <1>3, NextInv DEF Next
  <2>2. DOMAIN nodes' = DOMAIN nodes \ {id}
    BY <1>3 DEF WalkRemove, RemoveOrdinary, RemoveMember, RemoveLast, Drop
  <2>3. lost' \subseteq DOMAIN nodes'
    BY <1>3, <2>2 DEF TypeInv
  <2>. QED  BY <1>0, <1>3, <2>1, <2>3, HeedsTyped DEF TypeInv
<1>4. ASSUME NEW i, NEW p, Gestured(i, p)
      PROVE  TypeInv'
  <2>1. IInv'
    BY <1>0, <1>4, NextInv DEF Gestured
  <2>2. selected # NULL
    BY <1>0, <1>4 DEF Gestured, Movable, WindowInv, SelectedIsListed
  <2>3. PageTyped'
    BY <1>0, <1>4, <2>2, SentTyped, RefusedTyped DEF Gestured
  <2>4. lost' \subseteq DOMAIN nodes'
    BY <1>4 DEF Gestured, TypeInv, vars
  <2>. QED  BY <1>0, <2>1, <2>3, <2>4 DEF TypeInv
<1>5. ASSUME Selected
      PROVE  TypeInv'
  <2>1. IInv'
    BY <1>0, <1>5, NextInv DEF Selected
  <2>2. PICK sel : selected' = sel /\ sync_content(sel, rows, -1, pending_input)
    BY <1>5 DEF Selected
  <2>3. Resynced
    BY <2>2 DEF Resynced
  <2>4. lost' \subseteq DOMAIN nodes'
    BY <1>5 DEF Selected, TypeInv, vars
  <2>. QED  BY <1>0, <2>1, <2>3, <2>4, ResyncedTyped DEF TypeInv
<1>6. ASSUME Quiet, NEW gone \in {{}} \cup {{id} : id \in DOMAIN nodes}, lost' = lost \cup gone
      PROVE  TypeInv'
  <2>1. IInv'
    BY <1>0, <1>6, NextInv DEF Quiet
  <2>2. PageTyped'
    BY <1>0, <1>6 DEF Quiet, PageTyped
  <2>3. lost' \subseteq DOMAIN nodes'
    BY <1>6 DEF Quiet, vars, TypeInv
  <2>. QED  BY <1>0, <2>1, <2>2, <2>3 DEF TypeInv
<1>. QED  BY <1>0, <1>1, <1>2, <1>3, <1>4, <1>5, <1>6, WindowSteps

LEMMA TypeInvInit == WindowInit => TypeInv
<1>. SUFFICES ASSUME WindowInit  PROVE TypeInv
  OBVIOUS
<1>1. IInv
  BY InitInv DEF WindowInit
<1>2. PageTyped /\ lost \subseteq DOMAIN nodes
  <2>1. rows \in Seq(Row)
    BY DEF WindowInit
  <2>. QED  BY <2>1 DEF WindowInit, PageTyped, Shaped, RowsOffered
<1>. QED  BY <1>1, <1>2, WindowInitInv DEF TypeInv

LEMMA TypeInvariant ==
  ASSUME SteadyGraph
  PROVE  WindowSpec => []TypeInv
<1>1. TypeInv /\ [WindowNext]_windowVars => TypeInv'
  BY TypeInvNext
<1>. QED  BY <1>1, TypeInvInit, PTL DEF WindowSpec

(* Every row of the page has the three controls, each a switch, a slider   *)
(* within its travel or none; the rows are those of the count they are     *)
(* marked with; the input waited for is one of the wire's; and a proxy     *)
(* that is gone is a known node's.                                         *)
THEOREM WindowTypeCorrect ==
  ASSUME SteadyGraph
  PROVE  WindowSpec => []WindowType
<1>1. TypeInv => WindowType
  BY DEF TypeInv, WindowInv, SelectedIsListed, PageTyped, Shaped, WindowType, IInv, TypeOK
<1>. QED  BY <1>1, TypeInvariant, PTL

-----------------------------------------------------------------------------
(* The counts and the caps the boxes have published.                       *)
BoxCaps(seg, b) ==
  /\ b.channels \in Nat
  /\ b.channels > 0 =>
       \E e \in Dicts : /\ Strapped(e) /\ e.segment = seg
                        /\ e.channels = <<b.channels>> /\ b.caps = e.caps

CapsKnown == \A s \in DOMAIN segments : BoxCaps(s, segments[s].box)

LEMMA SameCaps ==
  ASSUME CapsGoWithCount, NEW seg, NEW b, NEW c, BoxCaps(seg, b), BoxCaps(seg, c),
         b.channels = c.channels, b.channels > 0
  PROVE  b.caps = c.caps
<1>1. PICK e \in Dicts : /\ Strapped(e) /\ e.segment = seg
                         /\ e.channels = <<b.channels>> /\ b.caps = e.caps
  BY DEF BoxCaps
<1>2. PICK f \in Dicts : /\ Strapped(f) /\ f.segment = seg
                         /\ f.channels = <<b.channels>> /\ c.caps = f.caps
  BY DEF BoxCaps
<1>3. e.caps = f.caps
  BY <1>1, <1>2 DEF CapsGoWithCount
<1>. QED  BY <1>1, <1>2, <1>3

LEMMA CountText ==
  ASSUME CapsGoWithCount, NEW d \in Dicts, Counted(d)
  PROVE  /\ d.channels[1] \in 0..(INT_SPAN \div 2 - 1) /\ d.channels[1] \in Nat
         /\ d.channels = <<d.channels[1]>>
<1>1. PICK t : t = d.channels
  OBVIOUS
<1>2. t[1] \in 0..(INT_SPAN \div 2 - 1)
  BY <1>1 DEF CapsGoWithCount
<1>3. "channels" \in DOMAIN d /\ t # NotDecimal
  BY <1>1 DEF Counted
<1>4. IsText(t)
  BY <1>1, <1>3, BoxAssumption
<1>5. t \in Seq(Int) /\ Len(t) = 1
  BY <1>3, <1>4 DEF IsText
<1>6. t = <<t[1]>>
  BY <1>5
<1>7. t[1] \in Nat
  BY <1>2, <1>5
<1>. QED  BY <1>1, <1>2, <1>6, <1>7

LEMMA UpdateCaps ==
  ASSUME CapsGoWithCount, NEW ids, NEW segs, NEW b \in Box(ids, segs), NEW seg,
         BoxCaps(seg, b), NEW d \in Dicts,
         "segment" \in DOMAIN d /\ d.segment # "" => d.segment = seg
  PROVE  BoxCaps(seg, update_from_dict(b, d))
<1>. DEFINE c == update_from_dict(b, d)
<1>1. c.channels = take_int(b.channels, d, "channels") /\ c.caps = take_str(b.caps, d, "caps")
  BY DEF update_from_dict, Box
<1>. HIDE DEF c
<1>2. CASE Counted(d)
  <2>1. /\ d.channels[1] \in 0..(INT_SPAN \div 2 - 1) /\ d.channels[1] \in Nat
        /\ d.channels = <<d.channels[1]>>
    BY <1>2, CountText
  <2>2. c.channels = d.channels[1]
    BY <1>1, <1>2, <2>1, CountFits DEF take_int, Counted
  <2>3. c.channels \in Nat
    BY <2>1, <2>2
  <2>4. ASSUME c.channels > 0
        PROVE  /\ Strapped(d) /\ d.segment = seg
               /\ d.channels = <<c.channels>> /\ c.caps = d.caps
    <3>1. Strapped(d)
      BY <1>2, <2>2, <2>4 DEF Strapped
    <3>2. {"caps", "segment"} \subseteq DOMAIN d /\ d.segment # ""
      BY <3>1 DEF CapsGoWithCount
    <3>. QED  BY <1>1, <2>1, <2>2, <3>1, <3>2 DEF take_str
  <2>. QED  BY <2>3, <2>4 DEF BoxCaps, c
<1>3. CASE ~Counted(d)
  <2>1. "caps" \notin DOMAIN d
    BY <1>3 DEF CapsGoWithCount
  <2>2. c.channels = b.channels /\ c.caps = b.caps
    BY <1>1, <1>3, <2>1 DEF take_int, take_str, Counted
  <2>. QED  BY <2>2 DEF BoxCaps, c
<1>. QED  BY <1>2, <1>3

LEMMA DoorCaps ==
  ASSUME NEW ids, NEW segs, NEW b \in Box(ids, segs), NEW seg, BoxCaps(seg, b),
         NEW id, NEW sink
  PROVE  BoxCaps(seg, set_door(b, id, sink))
<1>1. /\ set_door(b, id, sink).channels = b.channels
      /\ set_door(b, id, sink).caps = b.caps
  BY DEF set_door, Box
<1>. QED  BY <1>1 DEF BoxCaps

LEMMA InfoKeepsCaps ==
  ASSUME CapsGoWithCount, IInv, CapsKnown, NEW id \in Ids, NEW d \in Dicts, WalkInfo(id, d)
  PROVE  CapsKnown'
<1>. DEFINE seg == InfoSegment(id, d)
            n   == NodeAfter(id, d)
<1>1. "segment" \in DOMAIN d /\ d.segment # "" => d.segment = seg
  BY DEF InfoSegment
<1>2. n.is_sink \in BOOLEAN
  BY NodeAfterType DEF IInv, Node
<1>3. CASE InfoOrdinary(id, d)
  BY <1>3 DEF InfoOrdinary, CapsKnown
<1>4. CASE InfoNewSegment(id, d)
  <2>. DEFINE new == box_new(id, seg, n.is_sink)
              g   == [box |-> update_from_dict(new, d), nodes |-> <<id>>]
  <2>1. segments' = Insert(segments, seg, g)
    BY <1>4 DEF InfoNewSegment
  <2>2. new \in Box({id}, {seg})
    <3>. HIDE DEF seg, n
    <3>. QED  BY <1>2, NewBoxType
  <2>3. BoxCaps(seg, new)
    BY DEF BoxCaps, box_new
  <2>. HIDE DEF new, seg, n
  <2>4. BoxCaps(seg, update_from_dict(new, d))
    BY <1>1, <2>2, <2>3, UpdateCaps
  <2>5. BoxCaps(seg, g.box)
    BY <2>4
  <2>. HIDE DEF g
  <2>. QED  BY <2>1, <2>5 DEF CapsKnown, Insert
<1>5. CASE InfoKnownSegment(id, d)
  <2>. DEFINE old     == segments[seg].box
              members == AddOnce(segments[seg].nodes, id)
              pointed == set_door(old, id, nodes'[id].is_sink)
              box     == BoxAfter(old, id, d, members, nodes')
              g       == [box |-> box, nodes |-> members]
  <2>1. seg \in DOMAIN segments /\ segments' = [segments EXCEPT ![seg] = g]
    BY <1>5 DEF InfoKnownSegment
  <2>2. /\ old \in Box(Ids, {seg}) /\ BoxCaps(seg, old)
        /\ nodes' = Insert(nodes, id, n)
    BY <1>5, <2>1, SegmentType DEF CapsKnown, InfoKnownSegment
  <2>3. nodes'[id].is_sink \in BOOLEAN
    BY <1>2, <2>2 DEF Insert
  <2>. HIDE DEF seg, n, members
  <2>4. pointed \in Box(Ids, {seg}) /\ BoxCaps(seg, pointed)
    BY <2>2, <2>3, SetDoorType, DoorCaps
  <2>5. box \in {old, update_from_dict(pointed, d)}
    BY DEF BoxAfter
  <2>. HIDE DEF old, pointed
  <2>6. BoxCaps(seg, update_from_dict(pointed, d))
    BY <1>1, <2>4, UpdateCaps
  <2>7. BoxCaps(seg, box)
    <3>. HIDE DEF box
    <3>. QED  BY <2>2, <2>5, <2>6
  <2>. HIDE DEF box
  <2>8. BoxCaps(seg, g.box)
    BY <2>7
  <2>. HIDE DEF g
  <2>. QED  BY <2>1, <2>8 DEF CapsKnown
<1>. QED  BY <1>3, <1>4, <1>5 DEF WalkInfo

LEMMA RemoveKeepsCaps ==
  ASSUME IInv, CapsKnown, NEW id \in Ids, WalkRemove(id)
  PROVE  CapsKnown'
<1>1. CASE RemoveOrdinary(id)
  BY <1>1 DEF RemoveOrdinary, CapsKnown
<1>2. CASE RemoveMember(id)
  <2>. DEFINE seg  == SegmentOf(id)
              door == pick_door(Rest(id), nodes')
              box  == set_door(segments[seg].box, door, nodes'[door].is_sink)
  <2>1. /\ seg \in DOMAIN segments
        /\ segments' = [segments EXCEPT ![seg] = [box |-> box, nodes |-> Rest(id)]]
    BY <1>2 DEF RemoveMember
  <2>2. segments[seg].box \in Box(Ids, {seg}) /\ BoxCaps(seg, segments[seg].box)
    BY <2>1, SegmentType DEF CapsKnown
  <2>. HIDE DEF seg, door
  <2>3. BoxCaps(seg, box)
    BY <2>2, DoorCaps
  <2>. HIDE DEF box
  <2>. QED  BY <2>1, <2>3 DEF CapsKnown
<1>3. CASE RemoveLast(id)
  BY <1>3 DEF RemoveLast, CapsKnown, Drop
<1>. QED  BY <1>1, <1>2, <1>3 DEF WalkRemove

-----------------------------------------------------------------------------
(* Where no write is waited for, a slider travels between the dBu of its    *)
(* ceiling and of step 0, under the pad the row shows.                     *)
SlidersTravel ==
  page = "page" /\ awaited = {} =>
    \A i \in 1..Len(rows) :
      rows[i].sens # NULL =>
        Travels(rows[i].sens, rows[i].pad = TRUE, segments[selected].box.sens_max)

(* The page is right: what it shows is not inductive without the count its *)
(* rows are marked with, for a change of the box keeps the rows where the  *)
(* count is the same.                                                      *)
Fits ==
  /\ page = "page" => rows_for = segments[selected].box.channels
  /\ SlidersTravel
  /\ PageFitsBox /\ PageShowsReadback

FitInv == TypeInv /\ CapsKnown /\ Fits

LEMMA SyncFits ==
  ASSUME NEW sel, sel # NULL, selected' = sel,
         NEW old_rows \in Seq(Row), NEW shape, NEW pending, Shaped(shape, old_rows),
         segments'[sel].box \in Box(Ids, {sel}), segments'[sel].box.channels >= 0,
         shape = segments'[sel].box.channels =>
           \A i \in 1..Len(old_rows) : HasControls(old_rows[i], segments'[sel].box.caps),
         sync_content(sel, old_rows, shape, pending)
  PROVE  Fits'
<1>. DEFINE box == segments'[sel].box
<1>1. /\ rows_for' = box.channels /\ page' = "page"
      /\ banner' = box_availability(box) /\ awaited' = {}
      /\ Len(rows') = box.channels
      /\ \A i \in 1..Len(rows') :
           /\ rows'[i].live = (box_availability(box) = "ok")
           /\ RowShows(rows'[i], i, box)
           /\ HasControls(rows'[i], box.caps)
  BY SyncedRows
<1>2. segments'[selected'].box = box
  OBVIOUS
<1>. HIDE DEF box
<1>3. PageFitsBox'
  BY <1>1, <1>2 DEF PageFitsBox, HasControls
<1>4. PageShowsReadback'
  <2>1. \A i \in 1..Len(rows') :
          /\ \A p \in {"phantom", "pad"} :
               rows'[i][p] # NULL /\ box_asserted(box, i, p) >= 0
                 => (rows'[i][p] <=> box_asserted(box, i, p) # 0)
          /\ rows'[i].sens # NULL /\ box_asserted(box, i, "sens") >= 0
               => rows'[i].sens.at
                    = sens_dbu(box_asserted(box, i, "sens"), rows'[i].pad = TRUE, box.sens_max)
    BY <1>1 DEF RowShows
  <2>. QED  BY <1>2, <2>1 DEF PageShowsReadback
<1>5. SlidersTravel'
  BY <1>1, <1>2 DEF RowShows, SlidersTravel
<1>. QED  BY <1>1, <1>2, <1>3, <1>4, <1>5 DEF Fits

(* What PageFitsBox and PageShowsReadback say of one row.                  *)
RowRight(r, i, box, waits) ==
  /\ r.live <=> box_availability(box) = "ok"
  /\ HasControls(r, box.caps)
  /\ \A p \in {"phantom", "pad"} :
       r[p] # NULL /\ box_asserted(box, i, p) >= 0 /\ <<i, p>> \notin waits
         => (r[p] <=> box_asserted(box, i, p) # 0)
  /\ r.sens # NULL /\ box_asserted(box, i, "sens") >= 0
       /\ <<i, "sens">> \notin waits /\ <<i, "pad">> \notin waits
       => r.sens.at = sens_dbu(box_asserted(box, i, "sens"), r.pad = TRUE, box.sens_max)

LEMMA RowsRight ==
  ASSUME page = "page"
  PROVE  PageFitsBox /\ PageShowsReadback
         <=> LET box == segments[selected].box
             IN  /\ Len(rows) = box.channels \/ (box.channels < 0 /\ rows = <<>>)
                 /\ banner = box_availability(box)
                 /\ \A i \in 1..Len(rows) : RowRight(rows[i], i, box, awaited)
  BY DEF PageFitsBox, PageShowsReadback, RowRight, HasControls

LEMMA MovedRight ==
  ASSUME NEW moved, NEW i, NEW p \in Params, MovedTo(moved, i, p), NEW box,
         NEW j \in 1..Len(rows), RowRight(rows[j], j, box, awaited)
  PROVE  RowRight(moved[j], j, box, awaited \cup {<<i, p>>})
<1>1. CASE j # i
  <2>1. moved[j] = rows[j]
    BY <1>1 DEF MovedTo
  <2>. QED  BY <2>1 DEF RowRight
<1>2. CASE j = i
  <2>. DEFINE r == rows[i]
              m == moved[i]
  <2>1. /\ m.live = r.live
        /\ \A q \in Params : m[q] = NULL <=> r[q] = NULL
        /\ \A q \in Params : q # p => m[q] = r[q]
    BY <1>2 DEF MovedTo
  <2>2. RowRight(r, i, box, awaited)
    BY <1>2
  <2>. HIDE DEF m, r
  <2>3. HasControls(m, box.caps)
    BY <2>1, <2>2 DEF RowRight, HasControls
  <2>4. RowRight(m, i, box, awaited \cup {<<i, p>>})
    BY <2>1, <2>2, <2>3 DEF RowRight, Params
  <2>. QED  BY <1>2, <2>4 DEF m
<1>. QED  BY <1>1, <1>2

LEMMA SentFits ==
  ASSUME Fits, page = "page", NEW i, NEW p \in Params, WriteSent(i, p),
         UNCHANGED <<vars, selected>>
  PROVE  Fits'
<1>. DEFINE box == segments[selected].box
<1>1. /\ page' = "page" /\ banner' = banner /\ rows_for' = rows_for
      /\ segments'[selected'].box = box
      /\ awaited' = awaited \cup {<<i, p>>}
      /\ rows' \in Seq(Row) /\ Len(rows') = Len(rows)
      /\ MovedTo(rows', i, p)
  BY DEF WriteSent, MovedTo, vars
<1>2. /\ Len(rows) = box.channels \/ (box.channels < 0 /\ rows = <<>>)
      /\ banner = box_availability(box) /\ rows_for = box.channels
      /\ \A j \in 1..Len(rows) : RowRight(rows[j], j, box, awaited)
  BY RowsRight DEF Fits
<1>. HIDE DEF box
<1>3. \A j \in 1..Len(rows') : RowRight(rows'[j], j, box, awaited')
  BY <1>1, <1>2, MovedRight
<1>4. Len(rows') = box.channels \/ (box.channels < 0 /\ rows' = <<>>)
  <2>1. rows = <<>> => rows' = <<>>
    BY <1>1
  <2>. QED  BY <1>1, <1>2, <2>1
<1>5. PageFitsBox'
  BY <1>1, <1>2, <1>3, <1>4 DEF PageFitsBox, RowRight, HasControls
<1>6. PageShowsReadback'
  BY <1>1, <1>3 DEF PageShowsReadback, RowRight
<1>7. SlidersTravel'
  BY <1>1 DEF SlidersTravel
<1>. QED  BY <1>1, <1>2, <1>5, <1>6, <1>7 DEF Fits

LEMMA RefusedFits ==
  ASSUME TypeInv, CapsKnown, Fits, page = "page", NEW i, NEW p \in Params, WriteRefused(i, p),
         UNCHANGED <<vars, selected>>
  PROVE  Fits'
<1>. DEFINE box == segments[selected].box
<1>0. PICK sel : sel = selected
  OBVIOUS
<1>1. PICK moved \in Seq(Row) :
        MovedTo(moved, i, p) /\ sync_content(selected, moved, rows_for, -1)
  BY DEF WriteRefused
<1>2. Len(moved) = Len(rows) /\ (rows = <<>> => moved = <<>>)
  BY <1>1 DEF MovedTo
<1>3. Shaped(rows_for, moved)
  BY <1>2 DEF TypeInv, PageTyped, Shaped
<1>4. /\ sel # NULL /\ sel \in DOMAIN segments
      /\ box \in Box(Ids, {sel}) /\ box.channels >= 0
  <2>1. sel # NULL
    BY <1>0 DEF TypeInv, WindowInv, SelectedIsListed
  <2>2. sel \in DOMAIN segments /\ box \in Box(Ids, {sel})
    BY <1>0, <2>1, SelectedBox DEF TypeInv
  <2>3. box.channels \in Nat
    BY <1>0, <2>2 DEF CapsKnown, BoxCaps
  <2>. QED  BY <2>1, <2>2, <2>3
<1>5. segments'[sel].box = box /\ selected' = sel
  BY <1>0 DEF vars
<1>6. \A j \in 1..Len(rows) : HasControls(rows[j], box.caps)
  BY DEF Fits, PageFitsBox, HasControls
<1>7. \A j \in 1..Len(moved) : HasControls(moved[j], box.caps)
  <2>1. \A j \in 1..Len(rows) : \A q \in Params : moved[j][q] = NULL <=> rows[j][q] = NULL
    BY <1>1 DEF MovedTo
  <2>. QED  BY <1>2, <1>6, <2>1 DEF HasControls
<1>. HIDE DEF box
<1>8. sync_content(sel, moved, rows_for, -1)
  BY <1>0, <1>1
<1>. QED  BY <1>3, <1>4, <1>5, <1>7, <1>8, SyncFits

(* A selection builds new rows, and a change of the box that is shown      *)
(* keeps those of the same count, whose controls are the box's still.      *)
LEMMA ResyncedFits ==
  ASSUME CapsGoWithCount, FitInv, TypeInv', CapsKnown', Resynced
  PROVE  Fits'
<1>1. /\ rows \in Seq(Row) /\ Shaped(rows_for, rows)
  BY DEF FitInv, TypeInv, PageTyped
<1>2. CASE selected' = NULL
  <2>1. page' # "page"
    BY <1>2 DEF TypeInv, WindowInv, SelectedIsListed
  <2>. QED  BY <2>1 DEF Fits, SlidersTravel, PageFitsBox, PageShowsReadback
<1>3. CASE selected' # NULL
  <2>1. PICK sel : sel = selected'
    OBVIOUS
  <2>2. /\ sel \in DOMAIN segments' /\ sel # NULL
        /\ segments'[sel].box \in Box(Ids, {sel})
        /\ BoxCaps(sel, segments'[sel].box)
        /\ segments'[sel].box.channels >= 0
    <3>1. sel \in DOMAIN segments'
      BY <1>3, <2>1 DEF TypeInv, WindowInv, SelectedIsListed
    <3>2. BoxCaps(sel, segments'[sel].box)
      BY <3>1 DEF CapsKnown
    <3>3. segments'[sel].box.channels >= 0
      BY <3>2 DEF BoxCaps
    <3>. QED  BY <1>3, <2>1, <3>1, <3>2, <3>3 DEF TypeInv, IInv, TypeOK
  <2>3. ASSUME NEW rs \in {rows, <<>>}, sync_content(sel, rs, -1, pending_input)
        PROVE  Fits'
    <3>1. rs \in Seq(Row)
      <4>1. <<>> \in Seq(Row)
        OBVIOUS
      <4>. QED  BY <1>1, <4>1, Zenon
    <3>2. Shaped(-1, rs)
      BY DEF Shaped
    <3>3. -1 # segments'[sel].box.channels
      BY <2>2
    <3>. QED  BY <2>1, <2>2, <2>3, <3>1, <3>2, <3>3, SyncFits
  <2>4. ASSUME selected = sel, sync_content(sel, rows, rows_for, pending_input)
        PROVE  Fits'
    <3>. DEFINE old == segments[sel].box
                new == segments'[sel].box
    <3>1. page = "page" /\ sel \in DOMAIN segments
      BY <2>2, <2>4 DEF FitInv, TypeInv, WindowInv, SelectedIsListed
    <3>2. /\ BoxCaps(sel, old) /\ rows_for = old.channels
          /\ \A j \in 1..Len(rows) : HasControls(rows[j], old.caps)
          /\ Len(rows) = old.channels \/ old.channels < 0
      BY <2>4, <3>1 DEF FitInv, CapsKnown, Fits, PageFitsBox, HasControls
    <3>. HIDE DEF old
    <3>3. ASSUME rows_for = new.channels
          PROVE  \A j \in 1..Len(rows) : HasControls(rows[j], new.caps)
      <4>1. CASE old.channels > 0
        <5>1. old.caps = new.caps
          BY <2>2, <3>2, <3>3, <4>1, SameCaps
        <5>. QED  BY <3>2, <5>1
      <4>2. CASE ~(old.channels > 0)
        <5>1. old.channels = 0
          BY <3>2, <4>2 DEF BoxCaps
        <5>2. Len(rows) = 0
          BY <3>2, <5>1
        <5>. QED  BY <5>2
      <4>. QED  BY <4>1, <4>2
    <3>. QED  BY <1>1, <2>1, <2>2, <2>4, <3>3, SyncFits
  <2>5. CASE \E rs \in {rows, <<>>} : \E x :
               selected' = x /\ sync_content(x, rs, -1, pending_input)
    <3>1. PICK rs \in {rows, <<>>} : \E x :
               selected' = x /\ sync_content(x, rs, -1, pending_input)
      BY <2>5
    <3>2. sync_content(sel, rs, -1, pending_input)
      BY <2>1, <3>1
    <3>. QED  BY <2>3, <3>2
  <2>6. CASE selected' = selected /\ sync_content(selected, rows, rows_for, pending_input)
    <3>1. selected = sel
      BY <2>1, <2>6
    <3>2. sync_content(sel, rows, rows_for, pending_input)
      BY <2>6, <3>1
    <3>. QED  BY <2>4, <3>1, <3>2
  <2>. QED  BY <2>5, <2>6 DEF Resynced
<1>. QED  BY <1>2, <1>3

LEMMA KeptFits ==
  ASSUME FitInv, TypeInv', PageKept
  PROVE  Fits'
<1>1. CASE page = "page"
  <2>1. selected # NULL
    BY <1>1 DEF FitInv, TypeInv, WindowInv, SelectedIsListed
  <2>2. segments'[selected'].box = segments[selected].box
    BY <2>1 DEF PageKept
  <2>. QED  BY <2>2 DEF FitInv, Fits, SlidersTravel, PageFitsBox, PageShowsReadback, PageKept
<1>2. CASE page # "page"
  BY <1>2 DEF Fits, SlidersTravel, PageFitsBox, PageShowsReadback, PageKept
<1>. QED  BY <1>1, <1>2

LEMMA HeedsFits ==
  ASSUME CapsGoWithCount, FitInv, TypeInv', CapsKnown', Heeds
  PROVE  Fits'
  BY HearSyncs, KeptFits, ResyncedFits DEF Heeds, FitInv, TypeInv

LEMMA FitInvNext ==
  ASSUME SteadyGraph, CapsGoWithCount, FitInv, [WindowNext]_windowVars
  PROVE  FitInv'
<1>0. /\ IInv /\ WindowInv /\ rows \in Seq(Row) /\ TypeInv /\ CapsKnown /\ Fits
      /\ TypeInv'
  BY TypeInvNext DEF FitInv, TypeInv, PageTyped
<1>1. ASSUME NEW id \in Ids, NEW class \in GlobalClasses, WalkGlobal(id, class), Heeds
      PROVE  FitInv'
  <2>1. CapsKnown'
    BY <1>0, <1>1 DEF WalkGlobal, CapsKnown
  <2>. QED  BY <1>0, <1>1, <2>1, HeedsFits DEF FitInv
<1>2. ASSUME NEW id \in Ids, NEW d \in Dicts, WalkInfo(id, d), Heeds
      PROVE  FitInv'
  <2>1. CapsKnown'
    BY <1>0, <1>2, InfoKeepsCaps
  <2>. QED  BY <1>0, <1>2, <2>1, HeedsFits DEF FitInv
<1>3. ASSUME NEW id \in Ids, WalkRemove(id), Heeds
      PROVE  FitInv'
  <2>1. CapsKnown'
    BY <1>0, <1>3, RemoveKeepsCaps
  <2>. QED  BY <1>0, <1>3, <2>1, HeedsFits DEF FitInv
<1>4. ASSUME NEW i, NEW p, Gestured(i, p)
      PROVE  FitInv'
  <2>1. CapsKnown' /\ page = "page" /\ p \in Params /\ UNCHANGED <<vars, selected>>
    BY <1>0, <1>4 DEF Gestured, Movable, CapsKnown, vars
  <2>2. Fits'
    BY <1>0, <1>4, <2>1, SentFits, RefusedFits DEF Gestured
  <2>. QED  BY <1>0, <2>1, <2>2 DEF FitInv
<1>5. ASSUME Selected
      PROVE  FitInv'
  <2>1. CapsKnown'
    BY <1>0, <1>5 DEF Selected, CapsKnown, vars
  <2>2. PICK sel : selected' = sel /\ sync_content(sel, rows, -1, pending_input)
    BY <1>5 DEF Selected
  <2>3. Resynced
    BY <2>2 DEF Resynced
  <2>. QED  BY <1>0, <2>1, <2>3, ResyncedFits DEF FitInv
<1>6. ASSUME Quiet
      PROVE  FitInv'
  <2>1. CapsKnown'
    BY <1>0, <1>6 DEF Quiet, CapsKnown, vars
  <2>2. PageKept
    BY <1>6 DEF Quiet, PageKept, vars
  <2>. QED  BY <1>0, <2>1, <2>2, KeptFits DEF FitInv
<1>. QED  BY <1>0, <1>1, <1>2, <1>3, <1>4, <1>5, <1>6, WindowSteps

LEMMA FitInvInit == WindowInit => FitInv
  BY TypeInvInit
     DEF WindowInit, Init, FitInv, CapsKnown, Fits, SlidersTravel, PageFitsBox, PageShowsReadback

LEMMA FitInvariant ==
  ASSUME SteadyGraph, CapsGoWithCount
  PROVE  WindowSpec => []FitInv
<1>1. WindowInit => FitInv
  BY FitInvInit
<1>2. FitInv /\ [WindowNext]_windowVars => FitInv'
  BY FitInvNext
<1>. QED  BY <1>1, <1>2, PTL DEF WindowSpec

(* rs-window.c:306, "The row SHAPE": a row for every input of the box on   *)
(* the page, with the controls of its caps, movable exactly while it can   *)
(* be written, for boxes whose caps go with their count (rs-window.c:308   *)
(* asks no more than the count before it keeps the rows).                  *)
THEOREM WindowPageFitsBox ==
  ASSUME SteadyGraph, CapsGoWithCount
  PROVE  WindowSpec => []PageFitsBox
<1>1. FitInv => PageFitsBox
  BY DEF FitInv, Fits
<1>. QED  BY <1>1, FitInvariant, PTL

(* What a control shows is what the daemon asserts of its input, unless it *)
(* was moved by a write that is still waited for: no refusal, selection or *)
(* change of the box leaves a control where the operator put it.           *)
THEOREM WindowPageShowsReadback ==
  ASSUME SteadyGraph, CapsGoWithCount
  PROVE  WindowSpec => []PageShowsReadback
<1>1. FitInv => PageShowsReadback
  BY DEF FitInv, Fits
<1>. QED  BY <1>1, FitInvariant, PTL

=============================================================================
