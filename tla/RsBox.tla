-------------------------------- MODULE RsBox --------------------------------
(***************************************************************************)
(* One stagebox: the record of src/rs-box.c and the merge of a node's      *)
(* property dict into it.                                                  *)
(*                                                                         *)
(* A property dict is a record whose DOMAIN is the set of keys present.    *)
(* "badge" stands for the seven strings the code stores and only shows     *)
(* (model, width, mac, firmware, REAC version, master and role state).     *)
(* Update returns the new record; the code's "changed" result is exactly   *)
(* Update(b, d) # b, for each field is compared before it is replaced.     *)
(***************************************************************************)
EXTENDS RsHeadamp

CONSTANTS
  NULL,         \* the NULL pointer of an absent string
  INT_SPAN,     \* how many values a C int has (2^32)
  Dicts         \* the property dicts the nodes may publish

ASSUME BoxAssumption ==
  /\ INT_SPAN \in Nat /\ INT_SPAN >= 2 * MAX_CH
  /\ \A d \in Dicts, key \in {"channels", "base", "sens_max"} :
       key \in DOMAIN d => IsText(d[key])
  /\ \A d \in Dicts : "asserted" \in DOMAIN d => d.asserted \in Seq(AnyCell)

-----------------------------------------------------------------------------
(* What a long becomes when it is stored in an int.                        *)
ToInt(n) == ((n + INT_SPAN \div 2) % INT_SPAN) - INT_SPAN \div 2

(* How many cells struct _RsBox has room for.                              *)
N_CELLS == MAX_CH * NPARAMS

box_new(id, segment, is_sink) ==
  [ id |-> id, segment |-> segment, sink |-> is_sink,
    badge |-> "none", link |-> "probing", caps |-> {}, refused |-> NULL,
    channels |-> 0, base |-> -1,
    sens_max |-> SENS_MAX_DEFAULT, sens_max_published |-> FALSE,
    readback |-> FALSE, cells |-> <<>> ]

-----------------------------------------------------------------------------
(* The merge.  An absent key holds the last value.                         *)

take_str(old, d, key) == IF key \in DOMAIN d THEN d[key] ELSE old

take_int(old, d, key) ==
  IF key \in DOMAIN d /\ d[key] # NotDecimal THEN ToInt(d[key][1]) ELSE old

take(old, d, key, v) == IF key \in DOMAIN d THEN v ELSE old

(* Seeded fault: the readback is added to the old one, not put in its place. *)
take_cells_adding(old, d) ==
  take(old, d, "asserted", old \o asserted_parse(d.asserted, N_CELLS))

take_cells(old, d) == take(old, d, "asserted", asserted_parse(d.asserted, N_CELLS))

update_from_dict(b, d) ==
  [ b EXCEPT
    !.badge    = take_str(@, d, "badge"),
    !.link     = take_str(@, d, "link"),
    !.caps     = take_str(@, d, "caps"),
    !.refused  = take_str(@, d, "refused"),
    !.channels = take_int(@, d, "channels"),
    !.base     = take(@, d, "base", base_parse(d.base)),
    !.sens_max = take(@, d, "sens_max", sens_max_parse(d.sens_max)),
    !.sens_max_published = take(@, d, "sens_max", TRUE),
    !.readback = take(@, d, "asserted", TRUE),
    !.cells    = take_cells(@, d) ]

set_door(b, id, is_sink) == [b EXCEPT !.id = id, !.sink = is_sink]

(* The values a field may take: its seed, or what some dict gave it.       *)

With(key)         == {d \in Dicts : key \in DOMAIN d}
Values(seed, key) == {seed} \cup {d[key] : d \in With(key)}
Readbacks         == {<<>>} \cup {asserted_parse(d.asserted, N_CELLS) : d \in With("asserted")}
Bases             == -1..(MAX_CH - 1)
Ceilings          == 1..255

Box(ids, segs) ==
  [ id : ids, segment : segs, sink : BOOLEAN,
    badge : Values("none", "badge"), link : Values("probing", "link"),
    caps : Values({}, "caps"), refused : Values(NULL, "refused"),
    channels : Int, base : Bases,
    sens_max : Ceilings, sens_max_published : BOOLEAN,
    readback : BOOLEAN, cells : Readbacks ]

(* No readback speaks twice of a cell of the wire.                         *)
NamesOnce ==
  \A d \in With("asserted") : \A j, k \in formed(d.asserted) :
    d.asserted[j].ch = d.asserted[k].ch /\ d.asserted[j].param = d.asserted[k].param
      => j = k

-----------------------------------------------------------------------------
(* What the surfaces read.                                                 *)

box_wire_ch(b, input) == wire_ch(b.base, input)

box_asserted(b, input, p) ==
  IF b.readback /\ box_wire_ch(b, input) >= 0
  THEN cell_lookup(b.cells, box_wire_ch(b, input), p)
  ELSE -1

box_availability(b) ==
  availability(b.sink, b.link, b.channels,
               IF b.base >= 0 THEN <<b.base>> ELSE NotDecimal,
               b.refused, b.readback)

(* Only a refusal that is neither absent, empty nor "none" is shown.       *)
HasRefusal(b) == b.refused \notin {NULL, "", "none"}

-----------------------------------------------------------------------------
(* The write.                                                              *)

(* Seeded fault: the door is not asked whether it is a sink.               *)
write_outcome_any_door(has_proxy, b, input, p, value) ==
  IF      ~has_proxy                                          THEN "left"
  ELSE IF box_wire_ch(b, input) < 0                           THEN "no-base"
  ELSE IF build_headamp(box_wire_ch(b, input), p, value) = NoKey THEN "bad-value"
  ELSE "sent"

(* rs_pw_write_headamp: the reason a write is not attempted, or "sent".    *)
write_outcome(has_proxy, b, input, p, value) ==
  IF      ~has_proxy                                          THEN "left"
  ELSE IF ~b.sink                                             THEN "no-control-door"
  ELSE IF box_wire_ch(b, input) < 0                           THEN "no-base"
  ELSE IF build_headamp(box_wire_ch(b, input), p, value) = NoKey THEN "bad-value"
  ELSE "sent"
=============================================================================
