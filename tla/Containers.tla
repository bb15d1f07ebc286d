------------------------------ MODULE Containers ------------------------------
(***************************************************************************)
(* The GLib containers the program keeps its state in: a GHashTable is a   *)
(* function on its keys, a GPtrArray a sequence.                           *)
(***************************************************************************)
EXTENDS Naturals, Sequences

Insert(f, k, v) == [x \in DOMAIN f \cup {k} |-> IF x = k THEN v ELSE f[x]]

Drop(f, k) == [x \in DOMAIN f \ {k} |-> f[x]]

Elements(s) == {s[i] : i \in 1..Len(s)}

Distinct(s) == \A i, j \in 1..Len(s) : s[i] = s[j] => i = j

(* The place of an element the array holds once.                           *)
PlaceOf(s, x) == CHOOSE i \in 1..Len(s) : s[i] = x

(* g_ptr_array_add, unless the element is there.                           *)
AddOnce(s, x) == IF x \in Elements(s) THEN s ELSE Append(s, x)

(* g_ptr_array_remove_fast: the last element moves into the hole.          *)
RemoveFast(s, x) ==
  IF x \notin Elements(s) THEN s
  ELSE [i \in 1..(Len(s) - 1) |-> IF i = PlaceOf(s, x) THEN s[Len(s)] ELSE s[i]]

(* gtk_list_box_remove: the rows behind the one taken out close up.        *)
RemoveInOrder(s, x) ==
  IF x \notin Elements(s) THEN s
  ELSE [i \in 1..(Len(s) - 1) |-> IF i < PlaceOf(s, x) THEN s[i] ELSE s[i + 1]]
=============================================================================
