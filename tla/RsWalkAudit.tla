----------------------------- MODULE RsWalkAudit -----------------------------
(***************************************************************************)
(* The walk of RsWalk seen from its two sides: by the listener of its      *)
(* callbacks (the sidebar of src/rs-window.c, through the signals of       *)
(* src/rs-pw.c), and by the nodes whose infos it reads.                    *)
(***************************************************************************)
EXTENDS RsWalk

VARIABLES
  view,     \* segment -> box as the listener last read it
  said      \* id -> the box that node alone would make, from its own infos

auditVars == <<nodes, segments, boxes, signal, view, said>>

AuditInit ==
  /\ Init
  /\ view = [s \in {} |-> NULL]
  /\ said = [id \in {} |-> NULL]

(* The listener reads a box when it is told of it and at no other time.    *)
on_box_signal(v, sig) ==
  IF sig.kind \in {"added", "changed"}
  THEN Insert(v, sig.segment, segments'[sig.segment].box)
  ELSE IF sig.kind = "removed" THEN Drop(v, sig.segment)
  ELSE v

Listen == view' = on_box_signal(view, signal')

Said(id) ==
  IF id \in DOMAIN said THEN said[id] ELSE box_new(id, NULL, FALSE)

AuditGlobal(id, class) == WalkGlobal(id, class) /\ Listen /\ UNCHANGED said

AuditInfo(id, d) ==
  /\ Publishes(id, d)
  /\ WalkInfo(id, d)
  /\ said' = Insert(said, id, update_from_dict(Said(id), d))
  /\ Listen

AuditRemove(id) == WalkRemove(id) /\ said' = Drop(said, id) /\ Listen

AuditNext ==
  \/ \E id \in Ids, class \in GlobalClasses : AuditGlobal(id, class)
  \/ \E id \in Ids, d \in Dicts : AuditInfo(id, d)
  \/ \E id \in Ids : AuditRemove(id)

AuditSpec == AuditInit /\ [][AuditNext]_auditVars

-----------------------------------------------------------------------------
(* Every change of a listed box is announced and nothing that is not       *)
(* listed is: a listener that reads a box only when told of it shows       *)
(* exactly what the walk holds.                                            *)
ListenerIsCurrent == view = [s \in DOMAIN segments |-> segments[s].box]

(* What a box takes of a dict, and the infos that may make a sink known:   *)
(* pw_node_info carries the full dict, and a master's sink publishes every *)
(* key from the start.                                                     *)
BoxKeys == {"badge", "link", "caps", "refused", "channels", "base", "sens_max", "asserted"}

SinksTellAll ==
  \A d \in Dicts :
    /\ "segment" \in DOMAIN d /\ d.segment # ""
    /\ "class" \in DOMAIN d => d.class \in {NULL, "Audio/Sink"}
    => BoxKeys \subseteq DOMAIN d /\ d.channels # NotDecimal

(* What a box would be if only the node id had ever spoken.                *)
Door(box) == set_door([said[box.id] EXCEPT !.segment = box.segment], box.id, box.sink)

(* rs-box.h:59: "a box reads from its door and from nothing else".  A box  *)
(* that offers a write shows what its door has published, and nothing of   *)
(* the source beside it or of a door that has left: no preamp is addressed *)
(* by another node's base.                                                 *)
ReadsFromItsDoor ==
  \A s \in DOMAIN segments :
    LET box == segments[s].box
    IN  box_availability(box) = "ok" => box = Door(box)
=============================================================================
