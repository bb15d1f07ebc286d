------------------------------- MODULE BoxFeed -------------------------------
(***************************************************************************)
(* One box on its own, fed with property dicts in any order, as            *)
(* tests/test_box_model.c feeds it: the properties of the pure parts of    *)
(* src/rs-box.c and src/rs-headamp.c.                                      *)
(***************************************************************************)
EXTENDS RsBox, FiniteSets

CONSTANT
  Dbus        \* the sensitivities the operator may ask for, in dBu

ASSUME FeedAssumption == Dbus \subseteq Int

VARIABLES
  box,        \* the RsBox
  last        \* the dict merged last

vars == <<box, last>>

Init ==
  /\ box \in {box_new(1, "seg", sink) : sink \in BOOLEAN}
  /\ last = [x \in {} |-> ""]

Publish(d) ==
  /\ box' = update_from_dict(box, d)
  /\ last' = d

Next == \E d \in Dicts : Publish(d)

Spec == Init /\ [][Next]_vars

-----------------------------------------------------------------------------
(* Every field is its seed or what some dict gave it, the base is an       *)
(* address or -1, and the cells fit the array of struct _RsBox.            *)
BoxType ==
  /\ box \in Box({1}, {"seg"})
  /\ Len(box.cells) <= N_CELLS
  /\ \A i \in 1..Len(box.cells) : CellOK(box.cells[i])

(* The daemon re-publishes the same dict on its 200 ms badge timer.  The   *)
(* merge of a dict the box has just taken changes nothing, so the timer    *)
(* never makes rs_box_update_from_dict report a change.                    *)
RestampIsSilent == update_from_dict(box, last) = box

(* A table cell and the input row it is shown on.                          *)
SameCell(c, e) == c.ch = e.ch /\ c.param = e.param

(* The readback is complete.  Whatever malformed cells the daemon's list   *)
(* holds, and however full it is, every well formed cell of a list that    *)
(* names no cell twice is the value shown for its input: none is hidden by *)
(* a bad neighbour, and the box's array never cuts the table short.        *)
ReadbackComplete ==
  ("asserted" \in DOMAIN last /\ box.base >= 0) =>
    LET list == last.asserted
        wf   == {i \in 1..Len(list) : CellOK(list[i])}
    IN  (\A i, j \in wf : SameCell(list[i], list[j]) => i = j) =>
          \A i \in wf :
            list[i].ch >= box.base =>
              box_asserted(box, list[i].ch - box.base + 1,
                           ParamNames[list[i].param + 1]) = list[i].value

(* What an input shows was said by the daemon about that input: a value is *)
(* never shown on an input of another channel, and an input the daemon     *)
(* says nothing of is unset, never zero.                                   *)
ShownWasAsserted ==
  \A input \in 0..(MAX_CH + 1), p \in Params :
    LET v == box_asserted(box, input, p)
    IN  v >= 0 =>
          /\ box.base >= 0
          /\ \E i \in 1..Len(box.cells) :
               box.cells[i] = [ch |-> box.base + input - 1,
                               param |-> param_from_name(p), value |-> v]

Dist(a, b) == IF a > b THEN a - b ELSE b - a

(* The slider carries dBu and the wire a step.  The step a gesture sends   *)
(* is the reachable one nearest to the dBu asked for, and no other.        *)
NearestStep ==
  \A dbu \in Dbus, pad \in BOOLEAN :
    LET step == sens_value(dbu, pad, box.sens_max)
        at(s) == Dist(sens_dbu(s, pad, box.sens_max), dbu)
    IN  /\ step \in 0..box.sens_max
        /\ \A s \in (0..box.sens_max) \ {step} : at(step) < at(s)

(* A page that offers its controls has somewhere to send them: with        *)
(* availability "ok" the first input has a wire address, the daemon's own, *)
(* the door is a sink, and the write of that input builds a pod.           *)
OkIsWritable ==
  box_availability(box) = "ok" =>
    /\ box.sink /\ box.readback
    /\ box.channels > 0
    /\ \A p \in Params : build_headamp(box_wire_ch(box, 1), p, 1) # NoKey
=============================================================================
