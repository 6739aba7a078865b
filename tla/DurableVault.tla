---------------------------- MODULE DurableVault ----------------------------
(***************************************************************************)
(* What a collection promises its clients, with no files, headers, nonces  *)
(* or roll-backs: a labelled set of items sealed under one key, which      *)
(* changes in whole operations, only while it is unlocked, and which a     *)
(* crash does not touch.  Module Vault implements it.                      *)
(***************************************************************************)
CONSTANTS Contents, Keys, Gone

VARIABLES
    contents,   \* the stored label and items, or Gone once deleted
    sealKey,    \* the key the collection is sealed under
    open        \* it is unlocked

vars == <<contents, sealKey, open>>

Init == contents \in Contents /\ sealKey \in Keys /\ open = TRUE

(* An operation on items or label that returned Ok. *)
Update ==
    /\ open
    /\ contents # Gone
    /\ contents' \in Contents
    /\ UNCHANGED <<sealKey, open>>

(* A key rotation: the contents and the lock state stay as they are. *)
Rekey ==
    /\ contents # Gone
    /\ sealKey' \in Keys \ {sealKey}
    /\ UNCHANGED <<contents, open>>

Unlock(k) == contents # Gone /\ k = sealKey /\ open' = TRUE /\ UNCHANGED <<contents, sealKey>>

(* Locking, or a restart of the daemon. *)
Lock == open' = FALSE /\ UNCHANGED <<contents, sealKey>>

Delete == open /\ contents' = Gone /\ UNCHANGED <<sealKey, open>>

Next ==
    \/ Update
    \/ Rekey
    \/ \E k \in Keys : Unlock(k)
    \/ Lock
    \/ Delete

Spec == Init /\ [][Next]_vars

=============================================================================
