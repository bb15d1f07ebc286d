------------------------------- MODULE RsWindow -------------------------------
(***************************************************************************)
(* The window of src/rs-window.c on the walk of RsWalk: a sidebar with a   *)
(* row for every box, and a page with the inputs of the box selected.      *)
(*                                                                         *)
(* The walk's callbacks and the operator's gestures run to their end on    *)
(* the one thread, each an action.  A box is named by its segment.  A      *)
(* switch is TRUE or FALSE, a slider its travel and its place in dBu, and  *)
(* NULL a control the row was built without; a note is named by the        *)
(* sentence it shows, "" for none.                                         *)
(***************************************************************************)
EXTENDS RsWalk

(* A control the row was built without is none that it was built with.     *)
ASSUME WindowAssumption == NULL \notin BOOLEAN \cup [low : Int, high : Int, at : Int]

VARIABLES
  sidebar,        \* the segments of the sidebar's rows, in order
  selected,       \* the box on the page, NULL for none
  rows,           \* the InputRows of the page
  rows_for,       \* the channel count rows was built for, -1 for none
  page,           \* what the content stack shows: "empty" or "page"
  banner,         \* the availability whose sentence the banner shows
  pending_input,  \* the input whose write is waited for, -1 for none
  lost,           \* the bound ids whose proxy the server has dropped already
  pending_cell,   \* history: the segment and input of the pending write
  awaited,        \* history: the controls moved by writes since the last sync
  gesture,        \* history: the operator's last gesture, if the last step
  outcome,        \* history: what became of it
  writes          \* history: the cells handed to the daemon in the last step

uiVars   == <<sidebar, selected, rows, rows_for, page, banner, pending_input,
              pending_cell, awaited>>
stepVars == <<gesture, outcome, writes>>
windowVars == <<vars, uiVars, lost, stepVars>>

-----------------------------------------------------------------------------
(* Rows and their controls.                                                *)

(* gtk_scale_new_with_range(-65, -10, 1).                                  *)
NewScale == [low |-> -65, high |-> -10, at |-> -65]

Between(x, low, high) == IF x < low THEN low ELSE IF x > high THEN high ELSE x

(* gtk_range_set_range and gtk_range_set_value, which keep within it.      *)
set_range(s, low, high) == [low |-> low, high |-> high, at |-> Between(s.at, low, high)]
set_value(s, at)        == [s EXCEPT !.at = Between(at, s.low, s.high)]

input_row_new(box) ==
  [ phantom |-> IF caps_has(box.caps, "phantom") THEN FALSE ELSE NULL,
    pad     |-> IF caps_has(box.caps, "pad") THEN FALSE ELSE NULL,
    sens    |-> IF caps_has(box.caps, "sens") THEN NewScale ELSE NULL,
    live    |-> TRUE,
    note    |-> "" ]

(* Seeded fault: one row too many.                                         *)
rows_build_over(box) == [i \in 1..(box.channels + 1) |-> input_row_new(box)]

rows_build(box) == [i \in 1..box.channels |-> input_row_new(box)]

(* A control takes the asserted value, and holds its own while it is unset. *)
synced_switch(old, v) == IF old = NULL \/ v < 0 THEN old ELSE v # 0

synced_scale(s, pad_on, v, sens_max) ==
  LET ranged == set_range(s, sens_dbu(sens_max, pad_on, sens_max),
                             sens_dbu(0, pad_on, sens_max))
  IN  IF s = NULL THEN NULL
      ELSE IF v < 0 THEN ranged
      ELSE set_value(ranged, sens_dbu(v, pad_on, sens_max))

synced_note(box, i, pending) ==
  IF      HasRefusal(box) /\ pending = i         THEN "refused"
  ELSE IF box_availability(box) = "no-readback"  THEN "no-readback"
  ELSE IF box_availability(box) = "ok" /\ \A p \in Params : box_asserted(box, i, p) < 0
                                                 THEN "nothing-asserted"
  ELSE ""

sync_row(r, i, box, pending) ==
  LET pad == synced_switch(r.pad, box_asserted(box, i, "pad"))
  IN  [ phantom |-> synced_switch(r.phantom, box_asserted(box, i, "phantom")),
        pad     |-> pad,
        sens    |-> synced_scale(r.sens, pad = TRUE, box_asserted(box, i, "sens"),
                                 box.sens_max),
        live    |-> box_availability(box) = "ok",
        note    |-> synced_note(box, i, pending) ]

-----------------------------------------------------------------------------
(* A control that moves calls the handler of its gesture, whoever moved    *)
(* it; the handler of a control moved by sync_row must not write.          *)

(* Seeded fault: the flag is not raised.                                   *)
not_syncing == FALSE

(* What self->syncing is while sync_content writes the rows.               *)
syncing == TRUE

Place(r, p) == IF p = "sens" /\ r.sens # NULL THEN r.sens.at ELSE r[p]

Moved(old, new) ==
  {<<m[1], m[2], Place(new[m[1]], m[2])>> : m \in
     {c \in (1..Len(old)) \X Params : Place(old[c[1]], c[2]) # Place(new[c[1]], c[2])}}

(* sync_content, with sel selected and the rows, the shape and the pending *)
(* input as its caller leaves them.                                        *)
sync_content(sel, old_rows, shape, pending) ==
  IF sel = NULL
  THEN /\ page' = "empty"
       /\ rows' = old_rows /\ rows_for' = shape /\ pending_input' = pending
       /\ writes' = {}
       /\ UNCHANGED <<banner, pending_cell, awaited>>
  ELSE LET box  == segments'[sel].box
           built == IF shape # box.channels THEN rows_build(box) ELSE old_rows
       IN  /\ page' = "page"
           /\ banner' = box_availability(box)
           /\ rows_for' = box.channels
           /\ rows' = [i \in 1..Len(built) |-> sync_row(built[i], i, box, pending)]
           /\ writes' = IF syncing THEN {} ELSE Moved(built, rows')
           /\ pending_input' = -1
           /\ pending_cell' = NULL
           /\ awaited' = {}

-----------------------------------------------------------------------------
(* The sidebar.                                                            *)

Unheard == UNCHANGED uiVars /\ writes' = {}

(* Seeded fault: rows of the same number are taken to be of the same box.  *)
on_sidebar_selected_same_shape(seg) ==
  /\ selected' = seg
  /\ sync_content(seg, rows, rows_for, pending_input)

on_sidebar_selected(seg) ==
  /\ selected' = seg
  /\ sync_content(seg, rows, -1, pending_input)

(* The first box found is selected.                                        *)
on_box_added(seg) ==
  /\ sidebar' = Append(sidebar, seg)
  /\ IF selected = NULL THEN on_sidebar_selected(seg)
     ELSE /\ writes' = {}
          /\ UNCHANGED <<selected, rows, rows_for, page, banner, pending_input,
                         pending_cell, awaited>>

(* Seeded fault: the page is left to the next selection.                   *)
on_box_changed_sidebar_only(seg) == Unheard

on_box_changed(seg) ==
  IF selected = seg
  THEN /\ sync_content(seg, rows, rows_for, pending_input)
       /\ UNCHANGED <<sidebar, selected>>
  ELSE Unheard

SidebarWithout(seg) == RemoveInOrder(sidebar, seg)

(* Seeded fault: another box is on the page, so nothing is done.           *)
on_box_removed_selected_only(seg) ==
  IF selected # seg THEN Unheard
  ELSE /\ sidebar' = SidebarWithout(seg)
       /\ selected' = NULL
       /\ sync_content(NULL, <<>>, -1, pending_input)

(* The row's removal deselects it, which selects nothing instead.          *)
on_box_removed(seg) ==
  /\ sidebar' = SidebarWithout(seg)
  /\ IF selected = seg
     THEN selected' = NULL /\ sync_content(NULL, <<>>, -1, pending_input)
     ELSE selected' = selected /\ sync_content(selected, rows, rows_for, pending_input)

(* The window hears the walk's callback.                                   *)
Hear ==
  /\ gesture' = NULL /\ outcome' = NULL
  /\ CASE signal'.kind = "added"   -> on_box_added(signal'.segment)
       [] signal'.kind = "changed" -> on_box_changed(signal'.segment)
       [] signal'.kind = "removed" -> on_box_removed(signal'.segment)
       [] OTHER                    -> Unheard

-----------------------------------------------------------------------------
(* The operator.                                                           *)

(* Seeded fault: the control of a refused write is left where it was put.  *)
put_back_not(moved) ==
  /\ rows' = moved /\ pending_input' = -1 /\ pending_cell' = NULL /\ writes' = {}
  /\ UNCHANGED <<rows_for, page, banner, awaited>>

put_back(moved) == sync_content(selected, moved, rows_for, -1)

(* write_cell, once the control has moved: the write is handed over, or    *)
(* the reason it is not is put on the row and the page is synced.          *)
write_cell(i, p, value, moved) ==
  LET box == segments[selected].box
  IN  /\ gesture' = <<i, p>>
      /\ outcome' = write_outcome(box.id \notin lost, box, i, p, value)
      /\ IF outcome' = "sent"
         THEN /\ rows' = [moved EXCEPT ![i].note = "writing"]
              /\ pending_input' = i
              /\ pending_cell' = <<selected, i>>
              /\ awaited' = awaited \cup {<<i, p>>}
              /\ writes' = {<<i, p, value>>}
              /\ UNCHANGED <<rows_for, page, banner>>
         ELSE put_back([moved EXCEPT ![i].note = outcome'])

(* A row the operator can move.                                            *)
Movable(i) == page = "page" /\ i \in 1..Len(rows) /\ rows[i].live

(* on_phantom_toggled and on_pad_toggled.                                  *)
Toggle(i, p) ==
  /\ Movable(i)
  /\ rows[i][p] # NULL
  /\ UNCHANGED <<vars, sidebar, selected, lost>>
  /\ write_cell(i, p, IF rows[i][p] THEN 0 ELSE 1, [rows EXCEPT ![i][p] = ~@])

(* on_sens_changed: the step is reckoned with the pad as the switch has it. *)
Slide(i, dbu) ==
  /\ Movable(i)
  /\ rows[i].sens # NULL
  /\ dbu # rows[i].sens.at
  /\ UNCHANGED <<vars, sidebar, selected, lost>>
  /\ write_cell(i, "sens",
                sens_value(dbu, rows[i].pad = TRUE, segments[selected].box.sens_max),
                [rows EXCEPT ![i].sens.at = dbu])

(* A click on a row of the sidebar, with Control on the selected one.      *)
Select(seg) ==
  /\ seg # selected
  /\ gesture' = NULL /\ outcome' = NULL
  /\ UNCHANGED <<vars, sidebar, lost>>
  /\ on_sidebar_selected(seg)

-----------------------------------------------------------------------------
(* The walk under the window.                                              *)

GlobalAppears(id, class) == WalkGlobal(id, class) /\ Hear /\ UNCHANGED lost

NodeSpeaks(id, d) ==
  /\ id \notin lost
  /\ Publishes(id, d) /\ WalkInfo(id, d)
  /\ Hear
  /\ UNCHANGED lost

(* The proxy may go before the registry says that the node has.            *)
ProxyGoes(id) ==
  /\ Known(id) /\ id \notin lost
  /\ lost' = lost \cup {id}
  /\ gesture' = NULL /\ outcome' = NULL /\ writes' = {}
  /\ UNCHANGED <<vars, uiVars>>

NodeGoes(id) == WalkRemove(id) /\ Hear /\ lost' = lost \ {id}

(* rs_window_new, before anything was found.                               *)
WindowInit ==
  /\ Init
  /\ sidebar = <<>> /\ selected = NULL
  /\ rows = <<>> /\ rows_for = -1
  /\ page = "empty" /\ banner = "ok"
  /\ pending_input = -1 /\ pending_cell = NULL
  /\ lost = {} /\ awaited = {}
  /\ gesture = NULL /\ outcome = NULL /\ writes = {}

WindowNext ==
  \/ \E id \in Ids, class \in GlobalClasses : GlobalAppears(id, class)
  \/ \E id \in Ids, d \in Dicts : NodeSpeaks(id, d)
  \/ \E id \in Ids : ProxyGoes(id) \/ NodeGoes(id)
  \/ \E seg \in Elements(sidebar) \cup {NULL} : Select(seg)
  \/ \E i \in 1..Len(rows), p \in {"phantom", "pad"} : Toggle(i, p)
  \/ \E i \in 1..Len(rows) :
       /\ rows[i].sens # NULL
       /\ \E dbu \in rows[i].sens.low..rows[i].sens.high : Slide(i, dbu)

WindowSpec == WindowInit /\ [][WindowNext]_windowVars

-----------------------------------------------------------------------------
Switches == BOOLEAN \cup {NULL}
Scale    == {s \in [low : Int, high : Int, at : Int] : s.at \in s.low..s.high}
Notes    == {"", "writing", "refused", "no-readback", "nothing-asserted",
             "left", "no-control-door", "no-base", "bad-value"}
Row      == [ phantom : Switches, pad : Switches, sens : Scale \cup {NULL},
              live : BOOLEAN, note : Notes ]

(* Every slider is within its travel, the rows are those of the count they *)
(* are marked with, and the input waited for is one of the wire's.         *)
WindowType ==
  /\ sidebar \in Seq(Segments)
  /\ selected \in Segments \cup {NULL}
  /\ rows \in Seq(Row)
  /\ rows_for \in {-1, Len(rows)} \/ (rows_for < 0 /\ rows = <<>>)
  /\ page \in {"empty", "page"}
  /\ pending_input \in {-1} \cup 1..MAX_CH
  /\ lost \subseteq DOMAIN nodes

(* The sidebar has a row for every box and no other, and the box on the    *)
(* page is one of them: rs-window.c:55 borrows it, and so never keeps a    *)
(* box that the walk has let go.                                           *)
SelectedIsListed ==
  /\ Distinct(sidebar) /\ Elements(sidebar) = DOMAIN segments
  /\ selected \in Elements(sidebar) \cup {NULL}
  /\ page = "page" <=> selected # NULL

(* The controls that the caps of some box offer.                           *)
Offered == UNION {d.caps : d \in With("caps")}

(* The rows are built by the published count of inputs alone, and -1 marks *)
(* that there are none yet.  So a page is right for boxes whose count is a *)
(* count, and whose caps are those of the box that has this count.         *)
Counted(d)  == "channels" \in DOMAIN d /\ d.channels # NotDecimal
Strapped(d) == Counted(d) /\ d.channels[1] > 0

CapsGoWithCount ==
  \A d \in Dicts :
    /\ Counted(d) => d.channels[1] \in 0..(INT_SPAN \div 2 - 1)
    /\ "caps" \in DOMAIN d => Counted(d)
    /\ Strapped(d) =>
         /\ {"caps", "segment"} \subseteq DOMAIN d /\ d.segment # ""
         /\ \A e \in Dicts :
              Strapped(e) /\ e.segment = d.segment /\ e.channels = d.channels
                => e.caps = d.caps

(* The page is that of the box selected, however often the selection, the  *)
(* walk and the box have changed: a row for every input, each with the     *)
(* controls of this box and no other's, that move when the box can be      *)
(* written and not otherwise, under the sentence that says why not.        *)
PageFitsBox ==
  page = "page" =>
    LET box == segments[selected].box
    IN  /\ Len(rows) = box.channels \/ (box.channels < 0 /\ rows = <<>>)
        /\ banner = box_availability(box)
        /\ \A i \in 1..Len(rows) :
             /\ rows[i].live <=> box_availability(box) = "ok"
             /\ \A p \in Params : rows[i][p] # NULL <=> p \in box.caps

(* A control shows what the daemon asserts of its input, unless a write    *)
(* the operator made with it is still waited for: after a refused write,   *)
(* another selection, or a change of the box it is back on the readback.   *)
PageShowsReadback ==
  page = "page" =>
    LET box == segments[selected].box
        said(i, p)    == box_asserted(box, i, p)
        settled(i, p) == rows[i][p] # NULL /\ said(i, p) >= 0 /\ <<i, p>> \notin awaited
    IN  \A i \in 1..Len(rows) :
          /\ \A p \in {"phantom", "pad"} :
               settled(i, p) => (rows[i][p] <=> said(i, p) # 0)
          /\ settled(i, "sens") /\ <<i, "pad">> \notin awaited =>
               rows[i].sens.at = sens_dbu(said(i, "sens"), rows[i].pad = TRUE, box.sens_max)

(* rs-window.c:59, "so a programmatic change never writes back": nothing   *)
(* is written to the daemon but what the operator has just moved.          *)
NoEcho == \A w \in writes : <<w[1], w[2]>> = gesture

(* "Writing..." stands on a row of the page only while a write is waited   *)
(* for: what settles or abandons the write takes the sentence away.        *)
WritingIsAwaited ==
  (page = "page" /\ \E i \in 1..Len(rows) : rows[i].note = "writing") => pending_input # -1

(* rs-window.c:88, "Refused before it left: say so on the row": when a     *)
(* gesture's write is refused, its row says so.                            *)
RefusalIsSaid ==
  outcome \notin {NULL, "sent"} => rows[gesture[1]].note = outcome

(* rs-window.c:61, "so a refusal lands on the row that caused it rather    *)
(* than on all of them": a row that begins to show the daemon's refusal is *)
(* the row of the write waited for, and of the box it was made to.         *)
BeginsRefusal(i) ==
  /\ page' = "page" /\ rows'[i].note = "refused"
  /\ selected' # selected \/ i > Len(rows) \/ rows[i].note # "refused"
RefusalOnItsRow ==
  [][\A i \in 1..Len(rows') : BeginsRefusal(i) => pending_cell = <<selected', i>>]_windowVars

=============================================================================
