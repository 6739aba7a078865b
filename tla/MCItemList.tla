----------------------------- MODULE MCItemList -----------------------------
(* Module ItemList with up to four items: a delete_items batch can take     *)
(* neighbours, both ends, or leave one item between two removed ones.       *)
EXTENDS ItemList

Symmetry == Permutations(Ids)
=============================================================================
