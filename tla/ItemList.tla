------------------------------ MODULE ItemList ------------------------------
(***************************************************************************)
(* The item list of an unlocked vault, in order: the edits of              *)
(* src/src/vault/store.rs and the deltas that undo them when the save      *)
(* fails.  A list position is 1-based here.  Module Vault takes the items  *)
(* as a map and says what a failed save must bring back; this module says  *)
(* that the deltas do bring it back, slot by slot.                         *)
(***************************************************************************)
EXTENDS Naturals, FiniteSets, SequencesExt

CONSTANTS
    Ids,         \* item ids; a new item draws one that is not in the list
    Attrs,       \* attribute sets
    Bodies,      \* label, secret, content type and times
    TooLarge,    \* a body over one of the caps of check_caps
    MaxLen,      \* bound: items in the list
    MaxBatch     \* bound: items in one import

Item == [id : Ids, attrs : Attrs, body : Bodies]

ASSUME ItemListAssumption == TooLarge \notin Bodies /\ MaxLen \in Nat /\ MaxBatch \in Nat

VARIABLES
    items,    \* the list in State::Unlocked
    delta,    \* the undo record of the save in progress
    before    \* history: the list when that operation began

vars == <<items, delta, before>>

None == [kind |-> "none"]
Pushed == [kind |-> "pushed"]
Replaced(index, prior) == [kind |-> "replaced", index |-> index, prior |-> prior]
Removed(index, prior) == [kind |-> "removed", index |-> index, prior |-> prior]
RemovedMany(removed) == [kind |-> "removed many", removed |-> removed]
Truncate(len) == [kind |-> "truncate", len |-> len]

Init == items = <<>> /\ delta = None /\ before = <<>>

-----------------------------------------------------------------------------
ListIds == {items[n].id : n \in DOMAIN items}

Position(Test(_)) == SelectInSeq(items, Test)

Begin(list, undo) ==
    /\ delta = None
    /\ before' = items
    /\ items' = list
    /\ delta' = undo

(* insert_item: with replace, the first item with these attributes keeps    *)
(* its id and its place; otherwise a new item is pushed.                    *)
insert_item(attrs, body, replace) ==
    LET pos == IF replace THEN Position(LAMBDA i : i.attrs = attrs) ELSE 0 IN
    /\ body # TooLarge
    /\ IF pos # 0
       THEN Begin([items EXCEPT ![pos].body = body], Replaced(pos, items[pos]))
       ELSE /\ Len(items) < MaxLen
            /\ \E id \in Ids \ ListIds :
                 Begin(Append(items, [id |-> id, attrs |-> attrs, body |-> body]), Pushed)

(* update_item: the closure may write anything; over a cap, the item is put *)
(* back and nothing is saved.                                               *)
update_item(id, attrs, body) ==
    LET pos == Position(LAMBDA i : i.id = id) IN
    /\ pos # 0
    /\ body # TooLarge
    /\ Begin([items EXCEPT ![pos].attrs = attrs, ![pos].body = body],
             Replaced(pos, items[pos]))

delete_item(id) ==
    LET pos == Position(LAMBDA i : i.id = id) IN
    /\ pos # 0
    /\ Begin(RemoveAt(items, pos), Removed(pos, items[pos]))

(* delete_items: one pass that moves each item to the survivors or, with    *)
(* the place it had, to the delta.                                          *)
delete_items(ids) ==
    LET placed == [n \in DOMAIN items |-> [index |-> n, prior |-> items[n]]] IN
    /\ ids # {}
    /\ ids \subseteq ListIds
    /\ Begin(SelectSeq(items, LAMBDA i : i.id \notin ids),
             RemovedMany(SelectSeq(placed, LAMBDA r : r.prior.id \in ids)))

(* import_items: refused as a whole if one item is over a cap, else every   *)
(* item is appended, duplicates included.                                   *)
import_items(batch) ==
    /\ batch # <<>>
    /\ Len(items) + Len(batch) <= MaxLen
    /\ \A n \in DOMAIN batch : batch[n].body # TooLarge
    /\ \E ids \in [DOMAIN batch -> Ids \ ListIds] :
         /\ IsInjective(ids)
         /\ Begin(items \o [n \in DOMAIN batch |->
                               [id |-> ids[n], attrs |-> batch[n].attrs,
                                body |-> batch[n].body]],
                  Truncate(Len(items)))

-----------------------------------------------------------------------------
(* save_or_restore *)

SaveOk ==
    /\ delta # None
    /\ delta' = None
    /\ UNCHANGED <<items, before>>

(* The list with a removed item back at its index, if the index is there. *)
Reinsert(list, r) ==
    IF r.index <= Len(list) + 1 THEN InsertAt(list, r.index, r.prior) ELSE list

(* Variant: the removed items are put back in the opposite order. *)
RestoreBackwards(list, d) ==
    CASE d.kind = "pushed" -> Front(list)
      [] d.kind = "replaced" -> [list EXCEPT ![d.index] = d.prior]
      [] d.kind = "removed" -> Reinsert(list, d)
      [] d.kind = "removed many" -> FoldLeft(Reinsert, list, Reverse(d.removed))
      [] d.kind = "truncate" -> SubSeq(list, 1, d.len)

(* restore_delta and truncate_items.  Removed items go back in ascending    *)
(* order of the place they had.                                             *)
restore_delta(list, d) ==
    CASE d.kind = "pushed" -> Front(list)
      [] d.kind = "replaced" -> [list EXCEPT ![d.index] = d.prior]
      [] d.kind = "removed" -> Reinsert(list, d)
      [] d.kind = "removed many" -> FoldLeft(Reinsert, list, d.removed)
      [] d.kind = "truncate" -> SubSeq(list, 1, d.len)

SaveFails ==
    /\ delta # None
    /\ items' = restore_delta(items, delta)
    /\ delta' = None
    /\ UNCHANGED before

ImportItem == [attrs : Attrs, body : Bodies \cup {TooLarge}]

Next ==
    \/ \E attrs \in Attrs, body \in Bodies \cup {TooLarge}, replace \in BOOLEAN :
          insert_item(attrs, body, replace)
    \/ \E id \in Ids, attrs \in Attrs, body \in Bodies \cup {TooLarge} :
          update_item(id, attrs, body)
    \/ \E id \in Ids : delete_item(id)
    \/ \E ids \in SUBSET Ids : delete_items(ids)
    \/ \E batch \in BoundedSeq(ImportItem, MaxBatch) : import_items(batch)
    \/ SaveOk
    \/ SaveFails

Spec == Init /\ [][Next]_vars

-----------------------------------------------------------------------------
(* Properties *)

(* The list holds items with ids of their own, all within the caps. *)
TypeOK ==
    /\ items \in Seq(Item)
    /\ Len(items) <= MaxLen
    /\ IsInjective([n \in DOMAIN items |-> items[n].id])

(* The undo record always leads back to the list the operation found, order *)
(* included, so a save that fails leaves memory as the file describes it.   *)
(* For delete_items that takes every removed item to be reinserted at an    *)
(* index of the original list, in ascending order (ItemDelta).              *)
DeltaUndoes == delta # None => restore_delta(items, delta) = before

=============================================================================
