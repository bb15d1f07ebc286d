------------------------------ MODULE RsHeadamp ------------------------------
(***************************************************************************)
(* The head-amp vocabulary of src/rs-headamp.c and the write gate of       *)
(* src/rs-props.c: pure functions, no state.                               *)
(*                                                                         *)
(* A decimal text is <<n>>, the number strtol() reads from it to its very  *)
(* end; every text strtol() does not consume ("", "none", "8x") is         *)
(* NotDecimal.  The comma separated lists are data: a caps value is the    *)
(* set of its tokens, a readback value the sequence of its cells, and a    *)
(* cell that does not parse is Malformed.                                  *)
(***************************************************************************)
EXTENDS Integers, Sequences, FiniteSets

CONSTANTS
  MAX_CH,             \* size of the head-amp wire-channel space (48)
  SENS_MAX_DEFAULT    \* the sensitivity ceiling assumed when none is published (55)

ASSUME HeadampAssumption ==
  /\ MAX_CH \in Nat \ {0}
  /\ SENS_MAX_DEFAULT \in 1..255

-----------------------------------------------------------------------------
(* The curve: -10 dBu at step 0, one whole dB per step, a 20 dB pad.       *)
SENS_REF_DBU == -10
SENS_STEP_DB == 1
PAD_DB       == 20
Byte         == 0..255

NotDecimal == <<>>
IsText(t)  == t = NotDecimal \/ (t \in Seq(Int) /\ Len(t) = 1)

(* The parameters in the order of their ids: id i is ParamNames[i + 1].    *)
ParamNames == <<"phantom", "pad", "sens">>
Params     == {"phantom", "pad", "sens"}
NPARAMS    == 3

param_from_name(name) ==
  IF \E i \in 1..NPARAMS : ParamNames[i] = name
  THEN (CHOOSE i \in 1..NPARAMS : ParamNames[i] = name) - 1
  ELSE -1

-----------------------------------------------------------------------------
(* The address of a box input, and the control key that carries it.        *)

wire_ch(base, input) ==
  LET ch == base + (input - 1)
  IN  IF base >= 0 /\ input >= 1 /\ ch \in 0..(MAX_CH - 1) THEN ch ELSE -1

NoKey == <<>>

param_key(ch, p) ==
  IF ch \in 0..(MAX_CH - 1) /\ p \in Params THEN <<ch, p>> ELSE NoKey

(* The pod of one write, or NoKey when the write must not be sent.         *)
build_headamp(ch, p, value) ==
  IF /\ param_key(ch, p) # NoKey
     /\ value \in Byte
     /\ p \in {"phantom", "pad"} => value <= 1
  THEN <<param_key(ch, p), value>>
  ELSE NoKey

-----------------------------------------------------------------------------
(* The sensitivity curve.                                                  *)

ceiling(sens_max) == IF sens_max < 0 THEN SENS_MAX_DEFAULT ELSE sens_max

sens_clamp(value, sens_max) ==
  IF value < 0 THEN 0
  ELSE IF value > ceiling(sens_max) THEN ceiling(sens_max) ELSE value

sens_dbu(value, pad_on, sens_max) ==
  SENS_REF_DBU - sens_clamp(value, sens_max) * SENS_STEP_DB
    + (IF pad_on THEN PAD_DB ELSE 0)

(* Seeded fault: the pad taken off instead of added.                       *)
sens_value_pad_off(dbu, pad_on, sens_max) ==
  LET want == SENS_REF_DBU - (IF pad_on THEN PAD_DB ELSE 0) - dbu
      step == want \div SENS_STEP_DB
  IN  IF want <= 0 THEN 0
      ELSE IF step > ceiling(sens_max) THEN ceiling(sens_max) ELSE step

sens_value(dbu, pad_on, sens_max) ==
  LET want == SENS_REF_DBU + (IF pad_on THEN PAD_DB ELSE 0) - dbu
      step == want \div SENS_STEP_DB
  IN  IF want <= 0 THEN 0
      ELSE IF step > ceiling(sens_max) THEN ceiling(sens_max) ELSE step

-----------------------------------------------------------------------------
(* The parsers of the published values.                                    *)

sens_max_parse(t) ==
  IF t # NotDecimal /\ t[1] \in 1..255 THEN t[1] ELSE SENS_MAX_DEFAULT

(* Seeded fault: no upper bound.                                           *)
base_parse_unbounded(t) == IF t # NotDecimal /\ t[1] >= 0 THEN t[1] ELSE -1

base_parse(t) ==
  IF t # NotDecimal /\ t[1] \in 0..(MAX_CH - 1) THEN t[1] ELSE -1

AnyCell   == [ch : Int, param : Int, value : Int]
Malformed == [ch |-> -1, param |-> -1, value |-> -1]

CellOK(c) ==
  /\ c.ch \in 0..(MAX_CH - 1)
  /\ c.param \in 0..(NPARAMS - 1)
  /\ c.value \in Byte

(* The places of the well formed cells of a list, and the k-th of places.  *)
formed(list) == {i \in 1..Len(list) : CellOK(list[i])}
kth(places, k) == CHOOSE i \in places : Cardinality({j \in places : j <= i}) = k

(* Seeded fault: a malformed cell takes up room.                           *)
asserted_parse_counting(list, max) ==
  LET ok == {i \in formed(list) : i <= max}
  IN  [k \in 1..Cardinality(ok) |-> list[kth(ok, k)]]

(* The well formed cells in their order, as many as there is room for.     *)
asserted_parse(list, max) ==
  LET ok == formed(list)
      n  == IF Cardinality(ok) < max THEN Cardinality(ok) ELSE max
  IN  [k \in 1..n |-> list[kth(ok, k)]]

(* Where a list speaks of (ch, p).                                         *)
cells_of(cells, ch, p) ==
  {i \in 1..Len(cells) : cells[i].ch = ch /\ cells[i].param = param_from_name(p)}

first_cell(cells, ch, p) ==
  cells[CHOOSE i \in cells_of(cells, ch, p) : \A j \in cells_of(cells, ch, p) : i <= j]

(* Seeded fault: a cell nothing was said of reads 0.                       *)
cell_lookup_zero(cells, ch, p) ==
  IF cells_of(cells, ch, p) = {} THEN 0 ELSE first_cell(cells, ch, p).value

(* The first cell of the list for (ch, p), or -1: an honest "unset".       *)
cell_lookup(cells, ch, p) ==
  IF cells_of(cells, ch, p) = {} THEN -1 ELSE first_cell(cells, ch, p).value

caps_has(caps, token) == token # "" /\ token \in caps

-----------------------------------------------------------------------------
(* Is this segment's head-amp reachable?  The most specific reason first.  *)

(* Seeded fault: the base is not asked for.                                *)
availability_no_base(have_sink_door, link_state, channels, base, refused, have_asserted) ==
  IF      ~have_sink_door             THEN "no-control-door"
  ELSE IF refused = "box-master"      THEN "box-master"
  ELSE IF channels <= 0               THEN "no-box"
  ELSE IF link_state # "established"  THEN "not-established"
  ELSE IF ~have_asserted              THEN "no-readback"
  ELSE "ok"

availability(have_sink_door, link_state, channels, base, refused, have_asserted) ==
  IF      ~have_sink_door             THEN "no-control-door"
  ELSE IF refused = "box-master"      THEN "box-master"
  ELSE IF channels <= 0               THEN "no-box"
  ELSE IF base_parse(base) < 0        THEN "no-base"
  ELSE IF link_state # "established"  THEN "not-established"
  ELSE IF ~have_asserted              THEN "no-readback"
  ELSE "ok"
=============================================================================
