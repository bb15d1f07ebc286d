-------------------------------- MODULE MCRsPw --------------------------------
(* The model of RsPw: two ids, of which one may be taken over by a node of *)
(* another segment, and the nodes of MCRsWalk.                             *)
EXTENDS RsPw, MCRsWalk

MCNodeDicts ==
  {Sink(seg, 0) : seg \in Segments} \cup {Source(seg) : seg \in Segments}
    \cup {[class |-> "Audio/Sink"]}

MCPwClasses == {"Audio/Sink", "Audio/Source", NULL}

(* What the theorems of RsPwProofs ask of the dicts.                       *)
ASSUME PwDictsAssumption == AnswersPublish({"pad"})
=============================================================================
