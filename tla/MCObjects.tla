----------------------------- MODULE MCObjects -----------------------------
(* Module Objects with two calls at a time.  Items 1 and 2 are in c1, 3 in  *)
(* c2; 4 is an id not yet given out.                                        *)
EXTENDS Objects, TLC

CONSTANTS c1, c2

HomeOf == 1 :> c1 @@ 2 :> c1 @@ 3 :> c2 @@ 4 :> c1

Ask(kind, its) == [kind |-> kind, col |-> c1, items |-> its]

Few ==
    {Ask("OpenSession", {}), Ask("Close", {}), Ask("GetSecret", {1}),
     Ask("GetSecrets", {1, 3}), Ask("SetSecret", {1}), Ask("CreateItem", {}),
     Ask("CreateItem", {1}), Ask("Delete", {1}), Ask("DeleteItems", {}),
     Ask("DeleteItems", {1, 2}), Ask("DeleteItems", {1, 3}),
     Ask("DeleteItems", {4}), Ask("Lock", {1, 3})}

Symmetry == Permutations(Slots) \cup Permutations(Clients)
=============================================================================
