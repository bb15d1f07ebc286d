----------------------------- MODULE BoxFeedProofs -----------------------------
(* One box, fed with any dicts in any order.                               *)
EXTENDS BoxFeed, RsBoxProofs

(* The cells are those of the dict merged last, if it published any.       *)
CellsAreLast ==
  "asserted" \in DOMAIN last =>
    /\ last \in Dicts
    /\ box.readback /\ box.cells = asserted_parse(last.asserted, N_CELLS)

FeedInv ==
  /\ box \in Box({1}, {"seg"})
  /\ RestampIsSilent
  /\ CellsAreLast

-----------------------------------------------------------------------------
(* A dict that says nothing changes nothing.                               *)
LEMMA MergeNothing ==
  ASSUME NEW b \in Box({1}, {"seg"})
  PROVE  update_from_dict(b, [x \in {} |-> ""]) = b
  BY DEF update_from_dict, take_str, take_int, take, take_cells, Box

LEMMA FeedInvariant == Spec => []FeedInv
<1>1. Init => FeedInv
  <2>. SUFFICES ASSUME Init  PROVE FeedInv
    OBVIOUS
  <2>1. box \in Box({1}, {"seg"})
    BY NewBoxType DEF Init
  <2>. QED  BY <2>1, MergeNothing DEF Init, FeedInv, RestampIsSilent, CellsAreLast
<1>2. FeedInv /\ [Next]_vars => FeedInv'
  <2>. SUFFICES ASSUME FeedInv, [Next]_vars  PROVE FeedInv'
    OBVIOUS
  <2>1. ASSUME NEW d \in Dicts, Publish(d)
        PROVE  FeedInv'
    <3>1. box' \in Box({1}, {"seg"})
      BY <2>1, UpdateType DEF Publish, FeedInv
    <3>2. update_from_dict(box', last') = box'
      BY <2>1, MergeTwice DEF Publish, FeedInv
    <3>3. CellsAreLast'
      BY <2>1 DEF CellsAreLast, Publish, FeedInv, Box, update_from_dict, take, take_cells
    <3>. QED  BY <3>1, <3>2, <3>3 DEF FeedInv, RestampIsSilent
  <2>2. CASE UNCHANGED vars
    BY <2>2 DEF vars, FeedInv, RestampIsSilent, CellsAreLast
  <2>. QED  BY <2>1, <2>2 DEF Next
<1>. QED  BY <1>1, <1>2, PTL DEF Spec

(* The daemon's 200 ms timer never makes the merge report a change,        *)
(* whatever dict it repeats.                                               *)
THEOREM FeedRestampIsSilent == Spec => []RestampIsSilent
<1>1. FeedInv => RestampIsSilent
  BY DEF FeedInv
<1>. QED  BY <1>1, FeedInvariant, PTL

-----------------------------------------------------------------------------
(* The readback.                                                           *)

(* Every field of a box is its seed or what some dict gave it, and no      *)
(* readback list writes past the array of struct _RsBox or puts a cell     *)
(* there that is not one of the wire.                                      *)
THEOREM FeedBoxType == Spec => []BoxType
<1>1. FeedInv => BoxType
  BY CellsType DEF FeedInv, BoxType
<1>. QED  BY <1>1, FeedInvariant, PTL

(* What an input shows, the daemon has said of that input: an input it     *)
(* says nothing of is unset, never zero.                                   *)
THEOREM FeedShownWasAsserted == Spec => []ShownWasAsserted
<1>1. FeedInv => ShownWasAsserted
  <2>. SUFFICES ASSUME FeedInv, NEW input \in 0..(MAX_CH + 1), NEW p \in Params,
                       box_asserted(box, input, p) >= 0
                PROVE  /\ box.base >= 0
                       /\ \E i \in 1..Len(box.cells) :
                            box.cells[i] = [ch |-> box.base + input - 1,
                                            param |-> param_from_name(p),
                                            value |-> box_asserted(box, input, p)]
    BY DEF ShownWasAsserted
  <2>. DEFINE ch == box_wire_ch(box, input)
  <2>1. box \in Box({1}, {"seg"}) /\ box.base \in Bases
    BY DEF FeedInv, Box
  <2>2. ch >= 0 /\ box_asserted(box, input, p) = cell_lookup(box.cells, ch, p)
    BY DEF box_asserted
  <2>3. box.base >= 0 /\ ch = box.base + input - 1
    BY <2>1, <2>2, HeadampAssumption DEF box_wire_ch, wire_ch, Bases
  <2>4. box.cells \in Seq(AnyCell)
    BY <2>1, CellsType
  <2>5. PICK i \in cells_of(box.cells, ch, p) :
          cell_lookup(box.cells, ch, p) = box.cells[i].value
    BY <2>2, <2>4, LookupCell
  <2>6. /\ i \in 1..Len(box.cells) /\ box.cells[i] \in AnyCell
        /\ box.cells[i].ch = ch /\ box.cells[i].param = param_from_name(p)
    BY <2>4, <2>5 DEF cells_of
  <2>7. box.cells[i] = [ch |-> ch, param |-> param_from_name(p),
                        value |-> cell_lookup(box.cells, ch, p)]
    BY <2>5, <2>6 DEF AnyCell
  <2>. QED  BY <2>2, <2>3, <2>6, <2>7
<1>. QED  BY <1>1, FeedInvariant, PTL

(* Every well formed cell of a list that names none twice is shown on its  *)
(* input, for any number of channels and any malformed cells between: the  *)
(* array is never too short and no cell hides another.                     *)
THEOREM FeedReadbackComplete == Spec => []ReadbackComplete
<1>1. FeedInv => ReadbackComplete
  <2>. DEFINE list == last.asserted
  <2>. SUFFICES ASSUME FeedInv, "asserted" \in DOMAIN last, box.base >= 0,
                       \A i, j \in formed(list) : SameCell(list[i], list[j]) => i = j,
                       NEW i \in formed(list), list[i].ch >= box.base
                PROVE  box_asserted(box, list[i].ch - box.base + 1,
                                    ParamNames[list[i].param + 1]) = list[i].value
    BY DEF ReadbackComplete, formed
  <2>. DEFINE ch == list[i].ch
              p  == ParamNames[list[i].param + 1]
              cells == box.cells
  <2>1. /\ box \in Box({1}, {"seg"}) /\ box.base \in Bases
        /\ box.readback /\ cells = asserted_parse(list, N_CELLS)
        /\ list \in Seq(AnyCell)
    BY BoxAssumption DEF FeedInv, Box, CellsAreLast
  <2>2. /\ ch \in 0..(MAX_CH - 1) /\ list[i].param \in 0..2
        /\ list[i].value \in Byte
    BY DEF formed, CellOK, NPARAMS
  <2>3. param_from_name(p) = list[i].param
    <3>1. /\ ParamNames[1] = "phantom" /\ ParamNames[2] = "pad" /\ ParamNames[3] = "sens"
          /\ list[i].param = 0 \/ list[i].param = 1 \/ list[i].param = 2
      BY <2>2 DEF ParamNames
    <3>2. \A k \in 1..3 : ParamNames[k] = p <=> k = list[i].param + 1
      BY <3>1
    <3>. QED  BY <2>2, <3>2 DEF param_from_name, NPARAMS
  <2>4. box_wire_ch(box, ch - box.base + 1) = ch
    BY <2>1, <2>2, HeadampAssumption DEF box_wire_ch, wire_ch, Bases
  <2>5. box_asserted(box, ch - box.base + 1, p) = cell_lookup(cells, ch, p)
    BY <2>1, <2>2, <2>4 DEF box_asserted
  <2>6. /\ cells \in Seq(AnyCell)
        /\ \A k \in 1..Len(cells) : \E j \in formed(list) : cells[k] = list[j]
        /\ \A j \in formed(list) : \E k \in 1..Len(cells) : cells[k] = list[j]
    BY <2>1, AllParsed DEF SameCell
  <2>. HIDE DEF list, p, ch, cells
  <2>7. PICK k \in 1..Len(cells) : cells[k] = list[i]
    BY <2>6
  <2>8. k \in cells_of(cells, ch, p)
    BY <2>3, <2>7 DEF cells_of, ch
  <2>9. PICK l \in cells_of(cells, ch, p) : cell_lookup(cells, ch, p) = cells[l].value
    BY <2>6, <2>8, LookupCell
  <2>10. l \in 1..Len(cells) /\ cells[l].ch = ch /\ cells[l].param = list[i].param
    BY <2>3, <2>9 DEF cells_of
  <2>11. PICK j \in formed(list) : cells[l] = list[j]
    BY <2>6, <2>10
  <2>12. j = i
    BY <2>10, <2>11 DEF SameCell, ch
  <2>. QED  BY <2>5, <2>9, <2>11, <2>12 DEF ch, p
<1>. QED  BY <1>1, FeedInvariant, PTL

-----------------------------------------------------------------------------
(* The step sent for a dBu is the reachable one nearest to it.             *)
LEMMA NearestOfAll ==
  ASSUME NEW sens_max \in Ceilings, NEW dbu \in Int, NEW pad \in BOOLEAN
  PROVE  /\ sens_value(dbu, pad, sens_max) \in 0..sens_max
         /\ \A s \in (0..sens_max) \ {sens_value(dbu, pad, sens_max)} :
              Dist(sens_dbu(sens_value(dbu, pad, sens_max), pad, sens_max), dbu)
                < Dist(sens_dbu(s, pad, sens_max), dbu)
<1>. DEFINE top  == SENS_REF_DBU + (IF pad THEN PAD_DB ELSE 0)
            step == sens_value(dbu, pad, sens_max)
<1>1. top \in Int /\ sens_max \in Nat /\ ceiling(sens_max) = sens_max
  BY DEF SENS_REF_DBU, PAD_DB, Ceilings, ceiling
<1>2. \A s \in 0..sens_max : sens_dbu(s, pad, sens_max) = top - s
  BY <1>1 DEF sens_dbu, sens_clamp, SENS_STEP_DB, SENS_REF_DBU, PAD_DB
<1>3. step = IF top - dbu <= 0 THEN 0
             ELSE IF top - dbu > sens_max THEN sens_max ELSE top - dbu
  <2>1. \A x \in Int : x \div SENS_STEP_DB = x
    BY DEF SENS_STEP_DB
  <2>2. top - dbu \in Int
    BY <1>1
  <2>. QED  BY <1>1, <2>1, <2>2 DEF sens_value, SENS_REF_DBU, PAD_DB
<1>. HIDE DEF top, step
<1>4. step \in 0..sens_max
  BY <1>1, <1>3
<1>5. ASSUME NEW s \in (0..sens_max) \ {step}
      PROVE  Dist(sens_dbu(step, pad, sens_max), dbu) < Dist(sens_dbu(s, pad, sens_max), dbu)
  <2>1. Dist(top - step, dbu) < Dist(top - s, dbu)
    BY <1>1, <1>3, <1>4 DEF Dist
  <2>. QED  BY <1>2, <1>4, <2>1
<1>. QED  BY <1>4, <1>5 DEF step

(* The slider carries dBu and the wire a step: for every ceiling a box     *)
(* publishes, the step a gesture sends is the one nearest to what was      *)
(* asked for.                                                              *)
THEOREM FeedNearestStep == Spec => []NearestStep
<1>1. FeedInv => NearestStep
  <2>. SUFFICES ASSUME FeedInv  PROVE NearestStep
    OBVIOUS
  <2>1. box.sens_max \in Ceilings
    BY DEF FeedInv, Box
  <2>. QED  BY <2>1, NearestOfAll, FeedAssumption DEF NearestStep
<1>. QED  BY <1>1, FeedInvariant, PTL

-----------------------------------------------------------------------------
(* A page that offers its controls has somewhere to send them: the first   *)
(* input of a box that is "ok" has an address and every write of it a pod. *)
THEOREM FeedOkIsWritable == Spec => []OkIsWritable
<1>1. FeedInv => OkIsWritable
  <2>. SUFFICES ASSUME FeedInv, box_availability(box) = "ok"  PROVE
                /\ box.sink /\ box.readback
                /\ box.channels > 0
                /\ \A p \in Params : build_headamp(box_wire_ch(box, 1), p, 1) # NoKey
    BY Zenon DEF OkIsWritable
  <2>1. box \in Box({1}, {"seg"})
    BY DEF FeedInv
  <2>2. /\ box.sink /\ box.readback /\ box.channels > 0
        /\ box_wire_ch(box, 1) = box.base
    BY <2>1, AvailabilityOk
  <2>3. box.base \in Bases
    BY <2>1 DEF Box
  <2>4. box.base >= 0
    BY <2>3 DEF box_availability, availability, base_parse, Bases
  <2>5. ASSUME NEW p \in Params
        PROVE  build_headamp(box.base, p, 1) # NoKey
    <3>1. param_key(box.base, p) = <<box.base, p>>
      BY <2>3, <2>4, HeadampAssumption DEF param_key, Bases
    <3>2. param_key(box.base, p) # NoKey
      BY <3>1 DEF NoKey
    <3>3. build_headamp(box.base, p, 1) = <<param_key(box.base, p), 1>>
      BY <3>2 DEF build_headamp, Byte
    <3>. QED  BY <3>3 DEF NoKey
  <2>. QED  BY <2>2, <2>5
<1>. QED  BY <1>1, FeedInvariant, PTL
=============================================================================
