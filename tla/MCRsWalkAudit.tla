----------------------------- MODULE MCRsWalkAudit -----------------------------
(* The model of RsWalkAudit: the nodes of MCRsWalk, with sinks that differ *)
(* in the base they publish and a source that has a badge of its own.      *)
EXTENDS MCRsWalk, RsWalkAudit

FullSink(seg, b) ==
  [badge |-> "sink", caps |-> {"pad"}, sens_max |-> <<50>>] @@ Sink(seg, b)

BadgedSource(seg) == [badge |-> "source"] @@ Source(seg)

MCAuditDicts ==
  {FullSink(seg, b) : seg \in Segments, b \in {0, 1}} \cup {BadgedSource(seg) : seg \in Segments}
    \cup {Readback(0), Dropped} \cup Others

ASSUME SinksTellAll
=============================================================================
