----------------------------- MODULE RsBoxProofs -----------------------------
(* The pure parts of the program, for every value of their arguments: the  *)
(* containers, the head-amp vocabulary and the merge of a dict into a box. *)
EXTENDS RsBox, Containers, Integers, TLAPS, WellFoundedInduction, FiniteSetTheorems

-----------------------------------------------------------------------------
(* The containers, for every array and element.                            *)

(* An array is empty exactly when it has no elements.                      *)
LEMMA ElementsEmpty ==
  ASSUME NEW T, NEW s \in Seq(T)
  PROVE  s = <<>> <=> Elements(s) = {}
<1>1. s # <<>> => s[1] \in Elements(s)
  BY DEF Elements
<1>2. s = <<>> => Elements(s) = {}
  <2>1. SUFFICES ASSUME s = <<>>, NEW i \in 1..Len(s)  PROVE FALSE
    BY DEF Elements
  <2>. QED  BY <2>1
<1>. QED  BY <1>1, <1>2

(* g_ptr_array_add at the end of the array.                                *)
LEMMA AppendElements ==
  ASSUME NEW T, NEW s \in Seq(T), NEW x \in T
  PROVE  /\ Append(s, x) \in Seq(T)
         /\ Elements(Append(s, x)) = Elements(s) \cup {x}
         /\ Distinct(s) /\ x \notin Elements(s) => Distinct(Append(s, x))
<1>1. Append(s, x) \in Seq(T) /\ Len(Append(s, x)) = Len(s) + 1
  OBVIOUS
<1>2. \A i \in 1..(Len(s) + 1) : Append(s, x)[i] = IF i = Len(s) + 1 THEN x ELSE s[i]
  OBVIOUS
<1>3. Elements(Append(s, x)) = Elements(s) \cup {x}
  <2>1. ASSUME NEW e \in Elements(s) \cup {x}  PROVE  e \in Elements(Append(s, x))
    <3>1. CASE e = x
      BY <1>1, <1>2, <3>1, Len(s) + 1 \in 1..(Len(s) + 1) DEF Elements
    <3>2. CASE e \in Elements(s)
      <4>1. PICK i \in 1..Len(s) : e = s[i]
        BY <3>2 DEF Elements
      <4>. QED  BY <1>1, <1>2, <4>1, i \in 1..(Len(s) + 1) DEF Elements
    <3>. QED  BY <3>1, <3>2
  <2>2. ASSUME NEW e \in Elements(Append(s, x))  PROVE  e \in Elements(s) \cup {x}
    BY <1>1, <1>2, <2>2 DEF Elements
  <2>. QED  BY <2>1, <2>2
<1>4. ASSUME Distinct(s), x \notin Elements(s)  PROVE  Distinct(Append(s, x))
  BY <1>1, <1>2, <1>4 DEF Distinct, Elements
<1>. QED  BY <1>1, <1>3, <1>4

(* Adding a node to its segment's array keeps each node there once.        *)
LEMMA AddOnceElements ==
  ASSUME NEW T, NEW s \in Seq(T), NEW x \in T, Distinct(s)
  PROVE  /\ AddOnce(s, x) \in Seq(T)
         /\ Elements(AddOnce(s, x)) = Elements(s) \cup {x}
         /\ Distinct(AddOnce(s, x))
  BY AppendElements DEF AddOnce

(* g_ptr_array_remove_fast takes out the one element asked for, whatever   *)
(* the order it leaves behind.                                             *)
LEMMA RemoveFastElements ==
  ASSUME NEW T, NEW s \in Seq(T), NEW x, Distinct(s)
  PROVE  /\ RemoveFast(s, x) \in Seq(T)
         /\ Elements(RemoveFast(s, x)) = Elements(s) \ {x}
         /\ Distinct(RemoveFast(s, x))
<1>1. CASE x \notin Elements(s)
  BY <1>1 DEF RemoveFast
<1>2. CASE x \in Elements(s)
  <2>. DEFINE hole == PlaceOf(s, x)
              r == RemoveFast(s, x)
              n == Len(s)
  <2>1. n \in Nat /\ s \in [1..n -> T]
    OBVIOUS
  <2>2. hole \in 1..n /\ s[hole] = x
    BY <1>2 DEF PlaceOf, Elements
  <2>3. \A i \in 1..n : s[i] = x => i = hole
    BY <2>2 DEF Distinct
  <2>4. n - 1 \in Nat
    BY <2>1, <2>2
  <2>5. r = [i \in 1..(n - 1) |-> IF i = hole THEN s[n] ELSE s[i]]
    BY <1>2 DEF RemoveFast
  <2>. HIDE DEF r, hole, n
  <2>6. r \in [1..(n - 1) -> T]
    BY <2>1, <2>4, <2>5
  <2>7. r \in Seq(T) /\ Len(r) = n - 1
    BY <2>4, <2>6
  <2>8. \A i \in 1..(n - 1) : r[i] = IF i = hole THEN s[n] ELSE s[i]
    BY <2>5
  <2>9. Distinct(r)
    BY <2>1, <2>2, <2>3, <2>4, <2>7, <2>8 DEF Distinct, n
  <2>10. Elements(r) = Elements(s) \ {x}
    <3>1. ASSUME NEW e \in Elements(r)  PROVE  e \in Elements(s) \ {x}
      <4>1. PICK i \in 1..(n - 1) : e = r[i]
        BY <2>7 DEF Elements
      <4>2. PICK j \in 1..n : e = s[j] /\ j # hole
        <5>1. CASE i = hole
          BY <2>1, <2>4, <2>8, <4>1, <5>1, n \in 1..n
        <5>2. CASE i # hole
          BY <2>1, <2>4, <2>8, <4>1, <5>2, i \in 1..n
        <5>. QED  BY <5>1, <5>2
      <4>. QED  BY <2>3, <4>2 DEF Elements, n
    <3>2. ASSUME NEW e \in Elements(s) \ {x}  PROVE  e \in Elements(r)
      <4>1. PICK j \in 1..n : e = s[j]
        BY <3>2 DEF Elements, n
      <4>2. j # hole
        BY <2>2, <3>2, <4>1
      <4>3. CASE j = n
        BY <2>2, <2>4, <2>7, <2>8, <4>1, <4>2, <4>3, hole \in 1..(n - 1) DEF Elements
      <4>4. CASE j # n
        BY <2>1, <2>4, <2>7, <2>8, <4>1, <4>2, <4>4, j \in 1..(n - 1) DEF Elements
      <4>. QED  BY <4>3, <4>4
    <3>. QED  BY <3>1, <3>2
  <2>. QED  BY <2>7, <2>9, <2>10 DEF r
<1>. QED  BY <1>1, <1>2

(* gtk_list_box_remove takes out the one row asked for.                    *)
LEMMA RemoveInOrderElements ==
  ASSUME NEW T, NEW s \in Seq(T), NEW x, Distinct(s)
  PROVE  /\ RemoveInOrder(s, x) \in Seq(T)
         /\ Elements(RemoveInOrder(s, x)) = Elements(s) \ {x}
         /\ Distinct(RemoveInOrder(s, x))
<1>1. CASE x \notin Elements(s)
  BY <1>1 DEF RemoveInOrder
<1>2. CASE x \in Elements(s)
  <2>. DEFINE hole == PlaceOf(s, x)
              r == RemoveInOrder(s, x)
              n == Len(s)
  <2>1. n \in Nat /\ s \in [1..n -> T]
    OBVIOUS
  <2>2. hole \in 1..n /\ s[hole] = x
    BY <1>2 DEF PlaceOf, Elements
  <2>3. \A i \in 1..n : s[i] = x => i = hole
    BY <2>2 DEF Distinct
  <2>4. n - 1 \in Nat
    BY <2>1, <2>2
  <2>5. r = [i \in 1..(n - 1) |-> IF i < hole THEN s[i] ELSE s[i + 1]]
    BY <1>2 DEF RemoveInOrder
  <2>. HIDE DEF r, hole, n
  <2>6. \A i \in 1..(n - 1) : i \in 1..n /\ i + 1 \in 1..n
    BY <2>1
  <2>7. r \in [1..(n - 1) -> T]
    BY <2>1, <2>5, <2>6
  <2>8. r \in Seq(T) /\ Len(r) = n - 1
    BY <2>4, <2>7
  <2>9. \A i \in 1..(n - 1) : r[i] = IF i < hole THEN s[i] ELSE s[i + 1]
    BY <2>5
  <2>10. Distinct(r)
    BY <2>1, <2>2, <2>6, <2>8, <2>9 DEF Distinct, n
  <2>11. Elements(r) = Elements(s) \ {x}
    <3>1. ASSUME NEW e \in Elements(r)  PROVE  e \in Elements(s) \ {x}
      <4>1. PICK i \in 1..(n - 1) : e = r[i]
        BY <2>8 DEF Elements
      <4>2. PICK j \in 1..n : e = s[j] /\ j # hole
        BY <2>1, <2>2, <2>6, <2>9, <4>1
      <4>. QED  BY <2>3, <4>2 DEF Elements, n
    <3>2. ASSUME NEW e \in Elements(s) \ {x}  PROVE  e \in Elements(r)
      <4>1. PICK j \in 1..n : e = s[j]
        BY <3>2 DEF Elements, n
      <4>2. j # hole
        BY <2>2, <3>2, <4>1
      <4>3. CASE j < hole
        BY <2>1, <2>2, <2>8, <2>9, <4>1, <4>3, j \in 1..(n - 1) DEF Elements
      <4>4. CASE j > hole
        <5>1. j - 1 \in 1..(n - 1) /\ ~(j - 1 < hole) /\ (j - 1) + 1 = j
          BY <2>1, <2>2, <4>4
        <5>. QED  BY <2>8, <2>9, <4>1, <5>1 DEF Elements
      <4>. QED  BY <2>1, <2>2, <4>2, <4>3, <4>4
    <3>. QED  BY <3>1, <3>2
  <2>. QED  BY <2>8, <2>10, <2>11 DEF r
<1>. QED  BY <1>1, <1>2

(* Every non-empty set of positions has a first one.                       *)
LEMMA FirstExists ==
  ASSUME NEW S, S \subseteq Nat, S # {}
  PROVE  \E i \in S : \A j \in S : i <= j
<1>. DEFINE R == {p \in Nat \X Nat : p[1] < p[2]}
<1>1. IsWellFoundedOn(R, Nat)
  BY NatLessThanWellFounded DEF OpToRel
<1>. HIDE DEF R
<1>2. PICK i \in S : \A j \in S : ~ (<<j, i>> \in R)
  BY <1>1, WFMin
<1>3. \A j \in S : ~ (j < i)
  BY <1>2 DEF R
<1>. QED  BY <1>3

(* What is put behind a queue leaves the queue as it was.                  *)
LEMMA JoinElements ==
  ASSUME NEW T, NEW s \in Seq(T), NEW u \in Seq(T)
  PROVE  /\ s \o u \in Seq(T) /\ Len(s \o u) = Len(s) + Len(u)
         /\ \A k \in 1..Len(s) : k \in 1..Len(s \o u) /\ (s \o u)[k] = s[k]
         /\ \A k \in 1..Len(s \o u) :
              k \notin 1..Len(s) => k > Len(s) /\ (s \o u)[k] \in Elements(u)
         /\ \A e \in Elements(u) : \E k \in 1..Len(s \o u) : k > Len(s) /\ (s \o u)[k] = e
         /\ Elements(s \o u) = Elements(s) \cup Elements(u)
<1>1. /\ s \o u \in Seq(T) /\ Len(s \o u) = Len(s) + Len(u)
      /\ \A k \in 1..(Len(s) + Len(u)) :
           (s \o u)[k] = IF k <= Len(s) THEN s[k] ELSE u[k - Len(s)]
  OBVIOUS
<1>2. Len(s) \in Nat /\ Len(u) \in Nat
  OBVIOUS
<1>3. \A k \in 1..Len(s) : k \in 1..Len(s \o u) /\ (s \o u)[k] = s[k]
  BY <1>1, <1>2
<1>4. ASSUME NEW k \in 1..Len(s \o u), k \notin 1..Len(s)
      PROVE  k > Len(s) /\ (s \o u)[k] \in Elements(u)
  <2>1. k > Len(s) /\ k - Len(s) \in 1..Len(u) /\ (s \o u)[k] = u[k - Len(s)]
    BY <1>1, <1>2, <1>4
  <2>. QED  BY <2>1 DEF Elements
<1>5. ASSUME NEW e \in Elements(u)
      PROVE  \E k \in 1..Len(s \o u) : k > Len(s) /\ (s \o u)[k] = e
  <2>1. PICK j \in 1..Len(u) : e = u[j]
    BY DEF Elements
  <2>2. /\ Len(s) + j \in 1..Len(s \o u) /\ Len(s) + j > Len(s)
        /\ (s \o u)[Len(s) + j] = u[j]
    BY <1>1, <1>2
  <2>. QED  BY <2>1, <2>2
<1>6. Elements(s \o u) = Elements(s) \cup Elements(u)
  <2>1. ASSUME NEW e \in Elements(s \o u)  PROVE  e \in Elements(s) \cup Elements(u)
    <3>1. PICK k \in 1..Len(s \o u) : e = (s \o u)[k]
      BY DEF Elements
    <3>2. CASE k \in 1..Len(s)
      BY <1>3, <3>1, <3>2 DEF Elements
    <3>. QED  BY <1>4, <3>1, <3>2
  <2>2. ASSUME NEW e \in Elements(s)  PROVE  e \in Elements(s \o u)
    BY <1>3, <2>2 DEF Elements
  <2>3. ASSUME NEW e \in Elements(u)  PROVE  e \in Elements(s \o u)
    BY <1>5, <2>3 DEF Elements
  <2>. QED  BY <2>1, <2>2, <2>3
<1>. QED  BY <1>1, <1>3, <1>4, <1>5, <1>6

(* What is taken from a queue is its first; the others move up by one.     *)
LEMMA TailElements ==
  ASSUME NEW T, NEW s \in Seq(T), s # <<>>
  PROVE  /\ Head(s) = s[1] /\ s[1] \in T /\ 1 \in 1..Len(s)
         /\ Tail(s) \in Seq(T) /\ Len(Tail(s)) = Len(s) - 1
         /\ \A k \in 1..Len(Tail(s)) : k + 1 \in 1..Len(s) /\ Tail(s)[k] = s[k + 1]
         /\ \A k \in 1..Len(s) :
              k # 1 => k - 1 \in 1..Len(Tail(s)) /\ Tail(s)[k - 1] = s[k]
<1>1. Len(s) \in Nat \ {0}
  OBVIOUS
<1>2. Tail(s) \in Seq(T) /\ Len(Tail(s)) = Len(s) - 1
  OBVIOUS
<1>3. \A k \in 1..(Len(s) - 1) : Tail(s)[k] = s[k + 1]
  OBVIOUS
<1>4. ASSUME NEW k \in 1..Len(s), k # 1
      PROVE  k - 1 \in 1..Len(Tail(s)) /\ Tail(s)[k - 1] = s[k]
  <2>1. k - 1 \in 1..(Len(s) - 1) /\ (k - 1) + 1 = k
    BY <1>1, <1>4
  <2>. QED  BY <1>2, <1>3, <2>1
<1>5. ASSUME NEW k \in 1..Len(Tail(s))
      PROVE  k + 1 \in 1..Len(s) /\ Tail(s)[k] = s[k + 1]
  BY <1>1, <1>2, <1>3
<1>6. Head(s) = s[1] /\ s[1] \in T /\ 1 \in 1..Len(s)
  BY <1>1
<1>. QED  BY <1>2, <1>4, <1>5, <1>6

-----------------------------------------------------------------------------
(* The head-amp vocabulary.                                                *)

(* A base that parses is an address, whatever the text was: "none", "" and *)
(* a number out of the channel space are never read as base 0.             *)
LEMMA BaseParseType ==
  ASSUME NEW t, IsText(t)
  PROVE  base_parse(t) \in Bases
<1>1. CASE t = NotDecimal
  BY <1>1, HeadampAssumption DEF base_parse, Bases
<1>2. CASE t # NotDecimal
  BY <1>2, HeadampAssumption DEF base_parse, Bases, IsText
<1>. QED  BY <1>1, <1>2

LEMMA SensMaxParseType ==
  ASSUME NEW t, IsText(t)
  PROVE  sens_max_parse(t) \in Ceilings
  BY HeadampAssumption DEF sens_max_parse, Ceilings, IsText

(* No two (base, input) pairs share a wire channel unless their positions  *)
(* coincide: two boxes strapped to ranges that do not overlap never get    *)
(* each other's writes, and neither do two inputs of one box.              *)
THEOREM WireChannelsDisjoint ==
  ASSUME NEW b1 \in Int, NEW i1 \in Int, NEW b2 \in Int, NEW i2 \in Int,
         wire_ch(b1, i1) >= 0, wire_ch(b1, i1) = wire_ch(b2, i2)
  PROVE  /\ b1 + i1 = b2 + i2
         /\ wire_ch(b1, i1) \in 0..(MAX_CH - 1)
  BY HeadampAssumption DEF wire_ch

(* The slider and the wire agree: the step a dBu reading stands for is the *)
(* step that is shown as that reading, at every ceiling and with the pad   *)
(* on or off.                                                              *)
THEOREM SensRoundTrip ==
  ASSUME NEW sens_max \in Int, NEW pad \in BOOLEAN,
         NEW v \in Int, 0 <= v, v <= ceiling(sens_max)
  PROVE  sens_value(sens_dbu(v, pad, sens_max), pad, sens_max) = v
<1>1. ceiling(sens_max) \in Int /\ sens_clamp(v, sens_max) = v
  BY HeadampAssumption DEF ceiling, sens_clamp
<1>2. SENS_REF_DBU + (IF pad THEN PAD_DB ELSE 0) - sens_dbu(v, pad, sens_max) = v
  BY <1>1 DEF sens_dbu, SENS_REF_DBU, SENS_STEP_DB, PAD_DB
<1>3. v \div SENS_STEP_DB = v
  BY DEF SENS_STEP_DB
<1>. QED  BY <1>1, <1>2, <1>3 DEF sens_value

(* The ids of the parameters and their names.                              *)
LEMMA ParamNamed ==
  /\ \A p, q \in Params :
       /\ param_from_name(p) \in 0..(NPARAMS - 1)
       /\ param_from_name(p) = param_from_name(q) => p = q
  /\ \A p \in Params, n \in 0..(NPARAMS - 1) :
       ParamNames[n + 1] = p <=> n = param_from_name(p)
<1>1. ASSUME NEW p \in Params
      PROVE  /\ param_from_name(p) \in 0..(NPARAMS - 1)
             /\ ParamNames[param_from_name(p) + 1] = p
  <2>1. \E i \in 1..NPARAMS : ParamNames[i] = p
    BY DEF Params, ParamNames, NPARAMS
  <2>. QED  BY <2>1 DEF param_from_name, NPARAMS
<1>2. \A m, n \in 0..(NPARAMS - 1) : ParamNames[m + 1] = ParamNames[n + 1] => m = n
  BY DEF ParamNames, NPARAMS
<1>. QED  BY <1>1, <1>2

-----------------------------------------------------------------------------
(* The readback list.                                                      *)

(* The places of a list can be counted off: each has a rank, no two have   *)
(* the same, and there is one of every rank.                               *)
LEMMA PlacesRanked ==
  ASSUME NEW n \in Nat, NEW S \in SUBSET (1..n)
  PROVE  /\ IsFiniteSet(S) /\ Cardinality(S) \in Nat
         /\ \A k \in 1..Cardinality(S) : kth(S, k) \in S
         /\ \A k, l \in 1..Cardinality(S) : kth(S, k) = kth(S, l) => k = l
         /\ \A i \in S : \E k \in 1..Cardinality(S) : kth(S, k) = i
<1>. DEFINE upto(i) == {j \in S : j <= i}
            c == Cardinality(S)
            rank == [i \in S |-> Cardinality(upto(i))]
<1>1. IsFiniteSet(S) /\ c \in Nat
  <2>1. IsFiniteSet(1..n)
    BY FS_Interval
  <2>. QED  BY <2>1, FS_Subset, FS_CardinalityType
<1>2. \A i \in S : IsFiniteSet(upto(i)) /\ rank[i] \in 1..c
  <2>. SUFFICES ASSUME NEW i \in S  PROVE IsFiniteSet(upto(i)) /\ rank[i] \in 1..c
    OBVIOUS
  <2>1. upto(i) \in SUBSET S /\ i \in upto(i) /\ rank[i] = Cardinality(upto(i))
    OBVIOUS
  <2>. HIDE DEF upto, rank
  <2>2. IsFiniteSet(upto(i)) /\ Cardinality(upto(i)) <= c
    BY <1>1, <2>1, FS_Subset
  <2>3. Cardinality(upto(i)) # 0 /\ Cardinality(upto(i)) \in Nat
    BY <2>1, <2>2, FS_EmptySet, FS_CardinalityType
  <2>. QED  BY <1>1, <2>1, <2>2, <2>3
<1>3. \A i, j \in S : rank[i] = rank[j] => i = j
  <2>1. ASSUME NEW i \in S, NEW j \in S, i < j  PROVE rank[i] # rank[j]
    <3>1. /\ upto(i) \in SUBSET upto(j) /\ j \in upto(j) /\ j \notin upto(i)
          /\ rank[i] = Cardinality(upto(i)) /\ rank[j] = Cardinality(upto(j))
      <4>1. i \in Int /\ j \in Int /\ \A e \in S : e \in Int
        OBVIOUS
      <4>2. \A e \in S : e <= i => e <= j
        BY <2>1, <4>1
      <4>3. ~(j <= i) /\ j <= j
        BY <2>1, <4>1
      <4>4. upto(i) \in SUBSET upto(j)
        BY <4>2
      <4>. QED  BY <4>3, <4>4
    <3>2. IsFiniteSet(upto(j))
      BY <1>2
    <3>. HIDE DEF upto, rank
    <3>. QED  BY <3>1, <3>2, FS_Subset
  <2>2. \A i, j \in S : i = j \/ i < j \/ j < i
    OBVIOUS
  <2>. HIDE DEF rank
  <2>. QED  BY <2>1, <2>2
<1>4. rank \in Injection(S, 1..c)
  <2>1. rank \in [S -> 1..c]
    BY <1>2
  <2>. QED  BY <1>3, <2>1 DEF Injection, IsInjective
<1>5. rank \in Surjection(S, 1..c)
  <2>1. IsFiniteSet(1..c) /\ Cardinality(1..c) = c
    BY <1>1, FS_Interval
  <2>. HIDE DEF rank
  <2>. QED  BY <1>4, <2>1, FS_Injection
<1>6. \A k \in 1..c : \E i \in S : rank[i] = k
  BY <1>5 DEF Surjection
<1>7. \A k \in 1..c : kth(S, k) \in S /\ rank[kth(S, k)] = k
  <2>. SUFFICES ASSUME NEW k \in 1..c  PROVE kth(S, k) \in S /\ rank[kth(S, k)] = k
    OBVIOUS
  <2>1. \A i \in S : rank[i] = Cardinality({j \in S : j <= i})
    OBVIOUS
  <2>2. PICK i \in S : rank[i] = k
    BY <1>6
  <2>. HIDE DEF rank
  <2>. QED  BY <2>1, <2>2 DEF kth
<1>. HIDE DEF rank
<1>8. \A i \in S : kth(S, rank[i]) = i
  BY <1>2, <1>3, <1>7
<1>. QED  BY <1>1, <1>2, <1>7, <1>8

(* rs_headamp_asserted_parse gives well formed cells of the list, each     *)
(* once, all of them if there is room.                                     *)
LEMMA ParseCells ==
  ASSUME NEW list \in Seq(AnyCell), NEW max \in Nat,
         NEW cells, cells = asserted_parse(list, max)
  PROVE  /\ cells \in Seq(AnyCell) /\ Len(cells) <= max
         /\ \A k \in 1..Len(cells) : \E i \in formed(list) : cells[k] = list[i]
         /\ Cardinality(formed(list)) <= max =>
              \A i \in formed(list) : \E k \in 1..Len(cells) : cells[k] = list[i]
<1>. DEFINE ok == formed(list)
            n == IF Cardinality(ok) < max THEN Cardinality(ok) ELSE max
<1>1. ok \in SUBSET (1..Len(list)) /\ Len(list) \in Nat
  BY DEF formed
<1>2. /\ IsFiniteSet(ok) /\ Cardinality(ok) \in Nat
      /\ \A k \in 1..Cardinality(ok) : kth(ok, k) \in ok
      /\ \A i \in ok : \E k \in 1..Cardinality(ok) : kth(ok, k) = i
  BY <1>1, PlacesRanked
<1>3. n \in Nat /\ n <= max /\ 1..n \subseteq 1..Cardinality(ok)
  BY <1>2
<1>4. cells = [k \in 1..n |-> list[kth(ok, k)]]
  BY DEF asserted_parse
<1>. HIDE DEF ok, n
<1>5. \A i \in ok : list[i] \in AnyCell
  BY <1>1
<1>6. cells \in [1..n -> AnyCell]
  BY <1>2, <1>3, <1>4, <1>5
<1>7. cells \in Seq(AnyCell) /\ Len(cells) = n
  BY <1>3, <1>6
<1>8. \A k \in 1..n : kth(ok, k) \in ok /\ cells[k] = list[kth(ok, k)]
  BY <1>2, <1>3, <1>4
<1>9. ASSUME Cardinality(ok) <= max, NEW i \in ok
      PROVE  \E k \in 1..Len(cells) : cells[k] = list[i]
  <2>1. n = Cardinality(ok)
    BY <1>2, <1>9 DEF n
  <2>. QED  BY <1>2, <1>7, <1>8, <2>1
<1>. QED  BY <1>2, <1>3, <1>7, <1>8, <1>9 DEF ok

(* A list that names no cell of the wire twice never fills the box's array *)
(* before its end, however many malformed cells it holds.                  *)
LEMMA TableFits ==
  ASSUME NEW list \in Seq(AnyCell),
         \A i, j \in formed(list) :
           list[i].ch = list[j].ch /\ list[i].param = list[j].param => i = j
  PROVE  Cardinality(formed(list)) <= N_CELLS
<1>. DEFINE place == [i \in formed(list) |-> <<list[i].ch, list[i].param>>]
            A == 0..(MAX_CH - 1)
            B == 0..(NPARAMS - 1)
<1>1. place \in Injection(formed(list), A \X B)
  <2>1. place \in [formed(list) -> A \X B]
    BY DEF formed, CellOK
  <2>. QED  BY <2>1 DEF Injection, IsInjective
<1>2. IsFiniteSet(A) /\ Cardinality(A) = MAX_CH
  BY HeadampAssumption, FS_Interval
<1>3. IsFiniteSet(B) /\ Cardinality(B) = NPARAMS
  <2>1. 0 \in Int /\ NPARAMS - 1 \in Int /\ NPARAMS - 1 - 0 + 1 = NPARAMS /\ ~(0 > NPARAMS - 1)
    BY DEF NPARAMS
  <2>. QED  BY <2>1, FS_Interval
<1>. HIDE DEF A, B, place
<1>4. IsFiniteSet(A \X B) /\ Cardinality(A \X B) = MAX_CH * NPARAMS
  BY <1>2, <1>3, FS_Product
<1>. QED  BY <1>1, <1>4, FS_Injection DEF N_CELLS

(* So the array holds all of the list that is well formed.                 *)
LEMMA AllParsed ==
  ASSUME NEW list \in Seq(AnyCell),
         \A i, j \in formed(list) :
           list[i].ch = list[j].ch /\ list[i].param = list[j].param => i = j,
         NEW cells, cells = asserted_parse(list, N_CELLS)
  PROVE  /\ cells \in Seq(AnyCell)
         /\ \A k \in 1..Len(cells) : \E i \in formed(list) : cells[k] = list[i]
         /\ \A i \in formed(list) : \E k \in 1..Len(cells) : cells[k] = list[i]
<1>1. N_CELLS \in Nat
  BY HeadampAssumption DEF N_CELLS, NPARAMS
<1>2. Cardinality(formed(list)) <= N_CELLS
  BY TableFits
<1>. QED  BY <1>1, <1>2, ParseCells

(* rs_headamp_cell_lookup reads the first cell of its kind, or nothing.    *)
LEMMA LookupCell ==
  ASSUME NEW cells \in Seq(AnyCell), NEW ch, NEW p
  PROVE  \/ cell_lookup(cells, ch, p) = -1 /\ cells_of(cells, ch, p) = {}
         \/ \E i \in cells_of(cells, ch, p) : cell_lookup(cells, ch, p) = cells[i].value
<1>. DEFINE S == cells_of(cells, ch, p)
<1>1. CASE S = {}
  BY <1>1 DEF cell_lookup
<1>2. CASE S # {}
  <2>1. S \subseteq Nat
    BY DEF cells_of
  <2>. HIDE DEF S
  <2>2. \E i \in S : \A j \in S : i <= j
    BY <1>2, <2>1, FirstExists
  <2>. DEFINE first == CHOOSE i \in S : \A j \in S : i <= j
  <2>3. first \in S
    BY <2>2
  <2>4. cell_lookup(cells, ch, p) = cells[first].value
    BY <1>2 DEF cell_lookup, first_cell, S
  <2>. QED  BY <2>3, <2>4 DEF S
<1>. QED  BY <1>1, <1>2

-----------------------------------------------------------------------------
(* The box.                                                                *)

LEMMA NewBoxType ==
  ASSUME NEW ids, NEW segs, NEW id \in ids, NEW seg \in segs, NEW sink \in BOOLEAN
  PROVE  /\ box_new(id, seg, sink) \in Box(ids, segs)
         /\ box_new(id, seg, sink).id = id
         /\ box_new(id, seg, sink).sink = sink
<1>1. /\ "none" \in Values("none", "badge")
      /\ "probing" \in Values("probing", "link")
      /\ {} \in Values({}, "caps")
      /\ NULL \in Values(NULL, "refused")
      /\ <<>> \in Readbacks
  BY DEF Values, Readbacks
<1>2. -1 \in Bases /\ SENS_MAX_DEFAULT \in Ceilings
  BY HeadampAssumption DEF Bases, Ceilings
<1>. QED  BY <1>1, <1>2 DEF box_new, Box

LEMMA SetDoorType ==
  ASSUME NEW ids, NEW segs, NEW b \in Box(ids, segs), NEW id \in ids, NEW sink \in BOOLEAN
  PROVE  /\ set_door(b, id, sink) \in Box(ids, segs)
         /\ set_door(b, id, sink).id = id
         /\ set_door(b, id, sink).sink = sink
  BY DEF set_door, Box

LEMMA TakeStrType ==
  ASSUME NEW d \in Dicts, NEW key, NEW seed, NEW old \in Values(seed, key)
  PROVE  take_str(old, d, key) \in Values(seed, key)
  BY DEF take_str, Values, With

(* A count that fits an int is stored as it is.                            *)
LEMMA CountFits ==
  ASSUME NEW n \in 0..(INT_SPAN \div 2 - 1)
  PROVE  ToInt(n) = n
<1>1. INT_SPAN \in Nat /\ INT_SPAN > 0
  BY BoxAssumption, HeadampAssumption
<1>2. /\ INT_SPAN \div 2 \in Nat
      /\ n + INT_SPAN \div 2 \in 0..(INT_SPAN - 1)
  BY <1>1
<1>3. (n + INT_SPAN \div 2) % INT_SPAN = n + INT_SPAN \div 2
  BY <1>1, <1>2
<1>. QED  BY <1>2, <1>3 DEF ToInt

LEMMA TakeIntType ==
  ASSUME NEW old \in Int, NEW d \in Dicts
  PROVE  take_int(old, d, "channels") \in Int
<1>. SUFFICES ASSUME "channels" \in DOMAIN d, d.channels # NotDecimal
              PROVE  ToInt(d.channels[1]) \in Int
  BY DEF take_int
<1>1. d.channels[1] \in Int
  BY BoxAssumption DEF IsText
<1>2. INT_SPAN \in Nat \ {0}
  BY BoxAssumption, HeadampAssumption
<1>3. INT_SPAN \div 2 \in Int
  BY <1>2
<1>. HIDE DEF NotDecimal
<1>. QED  BY <1>1, <1>2, <1>3 DEF ToInt

(* Merging a dict never touches which node the box is written to, nor      *)
(* which segment it is: a write goes where set_door pointed it.            *)
LEMMA UpdateType ==
  ASSUME NEW ids, NEW segs, NEW b \in Box(ids, segs), NEW d \in Dicts
  PROVE  /\ update_from_dict(b, d) \in Box(ids, segs)
         /\ update_from_dict(b, d).id = b.id
         /\ update_from_dict(b, d).segment = b.segment
         /\ update_from_dict(b, d).sink = b.sink
<1>1. take_str(b.badge, d, "badge") \in Values("none", "badge")
  BY TakeStrType DEF Box
<1>2. take_str(b.link, d, "link") \in Values("probing", "link")
  BY TakeStrType DEF Box
<1>3. take_str(b.caps, d, "caps") \in Values({}, "caps")
  BY TakeStrType DEF Box
<1>4. take_str(b.refused, d, "refused") \in Values(NULL, "refused")
  BY TakeStrType DEF Box
<1>5. take_int(b.channels, d, "channels") \in Int
  BY TakeIntType DEF Box
<1>6. take(b.base, d, "base", base_parse(d.base)) \in Bases
  BY BaseParseType, BoxAssumption DEF take, Box
<1>7. take(b.sens_max, d, "sens_max", sens_max_parse(d.sens_max)) \in Ceilings
  BY SensMaxParseType, BoxAssumption DEF take, Box
<1>8. /\ take(b.sens_max_published, d, "sens_max", TRUE) \in BOOLEAN
      /\ take(b.readback, d, "asserted", TRUE) \in BOOLEAN
  BY DEF take, Box
<1>9. take(b.cells, d, "asserted", asserted_parse(d.asserted, N_CELLS)) \in Readbacks
  BY DEF take, Box, Readbacks, With
<1>. QED
  BY <1>1, <1>2, <1>3, <1>4, <1>5, <1>6, <1>7, <1>8, <1>9, ZenonT(40)
     DEF update_from_dict, take_cells, Box

(* The merge of a dict the box has just taken.                             *)
LEMMA MergeTwice ==
  ASSUME NEW ids, NEW segs, NEW b \in Box(ids, segs), NEW d \in Dicts
  PROVE  update_from_dict(update_from_dict(b, d), d) = update_from_dict(b, d)
<1>. DEFINE u == update_from_dict(b, d)
            w == update_from_dict(u, d)
<1>1. u \in Box(ids, segs) /\ w \in Box(ids, segs)
  BY UpdateType
<1>2. /\ u.badge = take_str(b.badge, d, "badge") /\ w.badge = take_str(u.badge, d, "badge")
      /\ u.link = take_str(b.link, d, "link") /\ w.link = take_str(u.link, d, "link")
      /\ u.caps = take_str(b.caps, d, "caps") /\ w.caps = take_str(u.caps, d, "caps")
      /\ u.refused = take_str(b.refused, d, "refused")
      /\ w.refused = take_str(u.refused, d, "refused")
  BY <1>1 DEF update_from_dict, Box
<1>3. /\ u.channels = take_int(b.channels, d, "channels")
      /\ w.channels = take_int(u.channels, d, "channels")
      /\ u.base = take(b.base, d, "base", base_parse(d.base))
      /\ w.base = take(u.base, d, "base", base_parse(d.base))
      /\ u.sens_max = take(b.sens_max, d, "sens_max", sens_max_parse(d.sens_max))
      /\ w.sens_max = take(u.sens_max, d, "sens_max", sens_max_parse(d.sens_max))
      /\ u.sens_max_published = take(b.sens_max_published, d, "sens_max", TRUE)
      /\ w.sens_max_published = take(u.sens_max_published, d, "sens_max", TRUE)
      /\ u.readback = take(b.readback, d, "asserted", TRUE)
      /\ w.readback = take(u.readback, d, "asserted", TRUE)
      /\ u.cells = take_cells(b.cells, d) /\ w.cells = take_cells(u.cells, d)
  BY <1>1 DEF update_from_dict, Box
<1>4. /\ w.id = u.id /\ w.segment = u.segment /\ w.sink = u.sink
  BY <1>1, UpdateType
<1>. HIDE DEF u, w
<1>5. /\ w.badge = u.badge /\ w.link = u.link /\ w.caps = u.caps /\ w.refused = u.refused
  BY <1>2 DEF take_str
<1>6. /\ w.channels = u.channels /\ w.base = u.base /\ w.sens_max = u.sens_max
      /\ w.sens_max_published = u.sens_max_published
      /\ w.readback = u.readback /\ w.cells = u.cells
  BY <1>3 DEF take_int, take, take_cells
<1>7. w = u
  BY <1>1, <1>4, <1>5, <1>6 DEF Box
<1>. QED  BY <1>7 DEF u, w

(* A box that has taken a dict has taken it on another door as well.       *)
LEMMA MergeOnDoor ==
  ASSUME NEW ids, NEW segs, NEW b \in Box(ids, segs), NEW d \in Dicts,
         update_from_dict(b, d) = b, NEW id \in ids, NEW sink \in BOOLEAN
  PROVE  update_from_dict(set_door(b, id, sink), d) = set_door(b, id, sink)
<1>. DEFINE c == set_door(b, id, sink)
            w == update_from_dict(c, d)
<1>1. c \in Box(ids, segs) /\ w \in Box(ids, segs)
  BY SetDoorType, UpdateType
<1>2. w.id = c.id /\ w.segment = c.segment /\ w.sink = c.sink
  BY <1>1, UpdateType
<1>3. /\ b.badge = take_str(b.badge, d, "badge")
      /\ b.link = take_str(b.link, d, "link")
      /\ b.caps = take_str(b.caps, d, "caps")
      /\ b.refused = take_str(b.refused, d, "refused")
      /\ b.channels = take_int(b.channels, d, "channels")
      /\ b.base = take(b.base, d, "base", base_parse(d.base))
      /\ b.sens_max = take(b.sens_max, d, "sens_max", sens_max_parse(d.sens_max))
      /\ b.sens_max_published = take(b.sens_max_published, d, "sens_max", TRUE)
      /\ b.readback = take(b.readback, d, "asserted", TRUE)
      /\ b.cells = take_cells(b.cells, d)
  BY DEF update_from_dict, Box
<1>4. /\ c.badge = b.badge /\ c.link = b.link /\ c.caps = b.caps /\ c.refused = b.refused
      /\ c.channels = b.channels /\ c.base = b.base /\ c.sens_max = b.sens_max
      /\ c.sens_max_published = b.sens_max_published
      /\ c.readback = b.readback /\ c.cells = b.cells
  BY DEF set_door, Box
<1>5. /\ w.badge = take_str(c.badge, d, "badge")
      /\ w.link = take_str(c.link, d, "link")
      /\ w.caps = take_str(c.caps, d, "caps")
      /\ w.refused = take_str(c.refused, d, "refused")
      /\ w.channels = take_int(c.channels, d, "channels")
      /\ w.base = take(c.base, d, "base", base_parse(d.base))
      /\ w.sens_max = take(c.sens_max, d, "sens_max", sens_max_parse(d.sens_max))
      /\ w.sens_max_published = take(c.sens_max_published, d, "sens_max", TRUE)
      /\ w.readback = take(c.readback, d, "asserted", TRUE)
      /\ w.cells = take_cells(c.cells, d)
  BY <1>1 DEF update_from_dict, Box
<1>. HIDE DEF c, w
<1>6. /\ w.badge = c.badge /\ w.link = c.link /\ w.caps = c.caps /\ w.refused = c.refused
      /\ w.channels = c.channels /\ w.base = c.base /\ w.sens_max = c.sens_max
      /\ w.sens_max_published = c.sens_max_published
      /\ w.readback = c.readback /\ w.cells = c.cells
  BY <1>3, <1>4, <1>5
<1>7. w = c
  BY <1>1, <1>2, <1>6 DEF Box
<1>. QED  BY <1>7 DEF c, w

(* The cells of a box are cells of the wire, and fit its array.            *)
LEMMA CellsType ==
  ASSUME NEW ids, NEW segs, NEW b \in Box(ids, segs)
  PROVE  /\ b.cells \in Seq(AnyCell) /\ Len(b.cells) <= N_CELLS
         /\ \A k \in 1..Len(b.cells) : CellOK(b.cells[k])
<1>1. N_CELLS \in Nat
  BY HeadampAssumption DEF N_CELLS, NPARAMS
<1>2. CASE b.cells = <<>>
  BY <1>1, <1>2
<1>3. ASSUME NEW d \in With("asserted"), b.cells = asserted_parse(d.asserted, N_CELLS)
      PROVE  /\ b.cells \in Seq(AnyCell) /\ Len(b.cells) <= N_CELLS
             /\ \A k \in 1..Len(b.cells) : CellOK(b.cells[k])
  <2>1. d.asserted \in Seq(AnyCell)
    BY BoxAssumption DEF With
  <2>2. /\ b.cells \in Seq(AnyCell) /\ Len(b.cells) <= N_CELLS
        /\ \A k \in 1..Len(b.cells) : \E i \in formed(d.asserted) : b.cells[k] = d.asserted[i]
    BY <1>1, <1>3, <2>1, ParseCells
  <2>3. \A i \in formed(d.asserted) : CellOK(d.asserted[i])
    BY DEF formed
  <2>. QED  BY <2>2, <2>3
<1>. QED  BY <1>2, <1>3 DEF Box, Readbacks

(* An input shows the byte that is asserted of it, or that it is unset.    *)
LEMMA AssertedType ==
  ASSUME NEW ids, NEW segs, NEW b \in Box(ids, segs), NEW input, NEW p
  PROVE  box_asserted(b, input, p) \in {-1} \cup Byte
<1>. DEFINE ch == box_wire_ch(b, input)
<1>1. /\ b.cells \in Seq(AnyCell)
      /\ \A k \in 1..Len(b.cells) : b.cells[k].value \in Byte
  BY CellsType DEF CellOK
<1>2. cell_lookup(b.cells, ch, p) \in {-1} \cup Byte
  BY <1>1, LookupCell DEF cells_of
<1>. QED  BY <1>2 DEF box_asserted

(* A page whose availability is "ok" has a sink to write to, a readback to *)
(* confirm the write with, and an address for the first input.             *)
THEOREM AvailabilityOk ==
  ASSUME NEW ids, NEW segs, NEW b \in Box(ids, segs), box_availability(b) = "ok"
  PROVE  /\ b.sink /\ b.readback /\ b.link = "established"
         /\ b.channels > 0
         /\ box_wire_ch(b, 1) = b.base
<1>1. b.base \in -1..(MAX_CH - 1) /\ b.channels \in Int
  BY DEF Box, Bases
<1>2. ~(base_parse(IF b.base >= 0 THEN <<b.base>> ELSE NotDecimal) < 0)
  BY DEF box_availability, availability
<1>3. b.base >= 0
  BY <1>1, <1>2 DEF base_parse
<1>4. box_wire_ch(b, 1) = b.base
  BY <1>1, <1>3, HeadampAssumption DEF box_wire_ch, wire_ch
<1>. QED  BY <1>1, <1>4 DEF box_availability, availability
=============================================================================
