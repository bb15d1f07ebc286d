------------------------------- MODULE MCRsList -------------------------------
(* The model of RsList: the nodes of MCRsPw, with sinks of two inputs.     *)
(* One is strapped at the last of the wire channels, so that its second    *)
(* input has none; of the first the daemon asserts the pad and the step at *)
(* the ceiling, no phantom power, and a cell that does not parse; the cell *)
(* before it is a neighbour's.  The other has no base.                     *)
EXTENDS RsList, MCRsPw

CONSTANTS seg1, seg2

Cell(ch, p, v) == [ch |-> ch, param |-> param_from_name(p), value |-> v]

Preamp(seg) ==
  [ segment |-> seg, class |-> "Audio/Sink", link |-> "established",
    channels |-> <<2>>, base |-> IF seg = seg1 THEN <<1>> ELSE NotDecimal,
    sens_max |-> <<3>>, refused |-> "none",
    asserted |-> <<Cell(0, "phantom", 1), Malformed, Cell(1, "pad", 1), Cell(1, "sens", 3)>> ]

MCListDicts ==
  {Preamp(seg) : seg \in Segments} \cup {Source(seg) : seg \in Segments}
    \cup {[class |-> "Audio/Sink"]}

MCAlphabet == <<seg1, seg2>>

(* What the theorem about the printed list asks of the dicts.              *)
ASSUME ListDictsAssumption == NamesOnce /\ SinksTellInputs
=============================================================================
