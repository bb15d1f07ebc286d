------------------------------- MODULE MCRsWalk -------------------------------
(* The model of RsWalk: three ids over two segments, two preamp channels,  *)
(* and the dicts of a reac-pw master's sink and capture source.            *)
EXTENDS RsWalk, TLC

Sink(seg, b) ==
  [ segment |-> seg, class |-> "Audio/Sink", link |-> "established",
    channels |-> <<1>>, base |-> <<b>>, refused |-> "none",
    asserted |-> <<[ch |-> b, param |-> 0, value |-> 1]>> ]

Source(seg) ==
  [ segment |-> seg, class |-> "Audio/Source", link |-> "established",
    channels |-> <<0>>, base |-> NotDecimal ]

(* An info that leaves the class to the global.                            *)
Bare(seg) == [segment |-> seg, link |-> "established"]

(* Infos that carry part of the keys, and infos of nodes of no segment.    *)
Readback(v) == [asserted |-> <<[ch |-> 0, param |-> 0, value |-> v]>>]
Dropped     == [link |-> "dropped"]
Others      == {[class |-> "Audio/Sink"], [segment |-> "", class |-> "Audio/Source"]}

(* Nodes come and go over several segments, their data hardly changing.    *)
MCWalkDicts ==
  {Sink(seg, 0) : seg \in Segments} \cup {Source(seg) : seg \in Segments}
    \cup {Bare(seg) : seg \in Segments} \cup {Dropped} \cup Others

MCClasses == {"Audio/Sink", NULL}

(* Ids are only compared, and so are segment names.                        *)
Symmetry == Permutations(Ids) \cup Permutations(Segments)
=============================================================================
