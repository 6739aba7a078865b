----------------------------- MODULE MCPrompts -----------------------------
(* Module Prompts on small instances. *)
EXTENDS Prompts, TLC

CONSTANTS k1, k2, p1, p2, c1, c2

OneCaller == {[p \in Prompts |-> k1]}
TwoCallers == {(p1 :> k1) @@ (p2 :> k1), (p1 :> k1) @@ (p2 :> k2)}
Both == {<<c1, c2>>}
One == {<<c1>>}
=============================================================================
