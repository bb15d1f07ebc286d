------------------------------ MODULE MCRsWindow ------------------------------
(* The model of RsWindow: a box with one input that has a pad and a        *)
(* sensitivity, and a box that has phantom power only, with one input and  *)
(* then two, the second of them without a wire channel.                    *)
EXTENDS RsWindow, TLC

CONSTANTS seg1, seg2

Door(seg, n, b, caps) ==
  [ segment |-> seg, class |-> "Audio/Sink", link |-> "established",
    channels |-> <<n>>, base |-> <<b>>, caps |-> caps,
    asserted |-> <<[ch |-> b, param |-> 0, value |-> 0]>> ]

Cell(p, v) == [ch |-> 0, param |-> p, value |-> v]

MCWindowDicts ==
  { Door(seg1, 1, 0, {"pad", "sens"}),
    Door(seg2, 1, 1, {"phantom"}), Door(seg2, 2, 1, {"phantom"}),
    [asserted |-> <<Cell(1, 1), Cell(2, 1)>>, refused |-> "out-of-range"],
    [link |-> "dropped"] }

ASSUME CapsGoWithCount

Symmetry == Permutations(Ids)
=============================================================================
