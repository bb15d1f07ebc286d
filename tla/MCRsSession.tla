----------------------------- MODULE MCRsSession -----------------------------
(* The model of RsSession: a box with one input that has phantom power,    *)
(* whose daemon asserts off or on of it, and which may be dropped, and a   *)
(* box of another segment.                                                 *)
EXTENDS RsSession

CONSTANTS seg1, seg2

Door(seg, cells, refused) ==
  [ segment |-> seg, class |-> "Audio/Sink", link |-> "established",
    channels |-> <<1>>, base |-> <<0>>, caps |-> {"phantom"},
    refused |-> refused, asserted |-> cells ]

Phantom(v) == <<[ch |-> 0, param |-> 0, value |-> v]>>

Boxes(refusals) ==
  {Door(seg, Phantom(v), refused) :
     seg \in {seg1, seg2}, v \in {0, 1}, refused \in {"none"} \cup refusals}

(* A box that was dropped has no channel and no place on the wire.         *)
Dropped(v) ==
  [Door(seg1, Phantom(v), "none") EXCEPT
     !.link = "dropped", !.channels = <<0>>, !.base = NotDecimal, !.caps = {}]

(* What the nodes come with, and what the daemon's answers make of it.     *)
MCNodeDicts     == {Door(seg1, Phantom(1), "none"),
                    Door(seg2, Phantom(1), "none")}
MCDroppingDicts == MCNodeDicts \cup {Dropped(1)}
MCSessionDicts  == Boxes({}) \cup {Dropped(0), Dropped(1)}
MCRefusingDicts == Boxes({"out-of-range"})

MCSessionClasses == {"Audio/Sink"}

(* What the theorems of RsSessionProofs ask of the dicts.                  *)
ASSUME DictsAssumption ==
  AnswersPublish(Offered) /\ CapsGoWithCount /\ NamesOnce /\ BaseIsKept
=============================================================================
