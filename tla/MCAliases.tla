----------------------------- MODULE MCAliases -----------------------------
(* Module Aliases on small instances.  AllOps: every caller of              *)
(* update_aliases, on names the table does not hold at the start.          *)
EXTENDS Aliases, TLC

CONSTANTS a, b, d, e, c1

NewNames == {a, b}
AllOps == {o \in Op : o.kind = "drop" \/ o.name \in NewNames}

OtherName == [n \in Names |-> IF n = e THEN c1 ELSE Free]
DefaultTaken == [n \in Names |-> IF n = d THEN c1 ELSE Free]
MCStart == {Empty, OtherName, DefaultTaken}

Symmetry == Permutations(Writers) \cup Permutations(NewNames)
=============================================================================
