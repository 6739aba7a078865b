--------------------------- MODULE MCCollections ---------------------------
(* Module Collections on small instances.                                   *)
EXTENDS Collections

CONSTANTS a, b, c, n1, n2, d1, d2, w1, w2

ThreeNames == <<a, b, c>>

(* A create beside a delete and item writes; two creates and `sm init` that *)
(* compete for a name; a Reload that meets a delete, item writes and files  *)
(* from `sm init`.                                                          *)
Compatible ==
    {{n1, d1, w1, w2}, {n1, n2, w1, Offline}, {d1, w1, w2, Reload, Offline}}

TwoDeletes == {{d1, d2, w1}}
CreateAndReload == {{n1, Reload}}
=============================================================================
