----------------------------- MODULE MCPinentry -----------------------------
(* Instances of Pinentry for TLC. *)
EXTENDS Pinentry, TLC

CONSTANTS r1, r2, r3

(* An unlock that may retry, a create that derives without the slot, and a *)
(* delete that only asks.                                                  *)
MCKinds == {f \in [Requests -> {"unlock", "create", "delete"}] :
              f[r1] = "unlock" /\ f[r2] = "create" /\ f[r3] = "delete"}
=============================================================================
