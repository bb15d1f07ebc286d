------------------------------ MODULE MCBoxFeed ------------------------------
(* The model of BoxFeed: one preamp channel, so that three cells fill the  *)
(* box's array, and readback lists one cell longer than that.              *)
EXTENDS BoxFeed, SequencesExt

Valid   == {[ch |-> 0, param |-> p, value |-> 255] : p \in 0..2}
Invalid == {Malformed, [ch |-> 1, param |-> 0, value |-> 1],
            [ch |-> 0, param |-> 1, value |-> 256]}

Lists ==
  UNION {[1..n -> Valid \cup Invalid] : n \in 0..1}
    \cup [1..2 -> Valid \cup {[ch |-> 0, param |-> 0, value |-> 0]}]
    \cup {<<x>> \o l : x \in Invalid, l \in SetToSeqs(Valid)}

MCDicts ==
  {[asserted |-> l] : l \in Lists}
    \cup {[base |-> <<0>>, channels |-> <<1>>, caps |-> {"phantom", "sens"}],
          [base |-> NotDecimal, channels |-> <<2>>],
          [base |-> <<1>>, channels |-> <<9>>],
          [base |-> <<0>>, channels |-> NotDecimal]}
    \cup {[sens_max |-> t] : t \in {NotDecimal, <<0>>, <<3>>, <<256>>}}
    \cup {[link |-> "established", refused |-> "none", badge |-> "S-1608"],
          [link |-> "dropped"], [refused |-> "box-master"]}

MCDbus == -18..12
=============================================================================
