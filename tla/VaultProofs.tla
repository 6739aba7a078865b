---------------------------- MODULE VaultProofs ----------------------------
(***************************************************************************)
(* Proofs about module Vault for every choice of its constants.            *)
(***************************************************************************)
EXTENDS Vault, FiniteSetTheorems, TLAPS

(* A header stays a header whatever field an operation assigns. *)
LEMMA HeaderTypes ==
    ASSUME NEW h \in Header
    PROVE  /\ \A l \in Labels : [h EXCEPT !.label = l] \in Header
           /\ \A s \in Salts, x \in IndexSalts :
                [h EXCEPT !.salt = s, !.isalt = x] \in Header
           /\ \A n \in Nonces, x \in Index :
                [h EXCEPT !.nonce = n, !.index = x] \in Header
BY Zenon DEF Header

(* build_index yields an index, whichever policy it is given. *)
LEMMA IndexType ==
    ASSUME NEW x \in IndexSalts, NEW m \in ItemMap, NEW b \in BOOLEAN
    PROVE  build_index(x, m, b) \in Index
<1>1. ASSUME NEW i \in Ids, m[i] # NoItem
      PROVE  [attr_hashes |-> IF b THEN {x} \X m[i].attrs ELSE {}] \in IndexEntry
  <2>1. m[i] \in Item
    BY <1>1, Zenon DEF ItemMap
  <2>2. m[i].attrs \subseteq Pairs
    BY <2>1, Zenon DEF Item
  <2>3. {x} \X m[i].attrs \subseteq IndexSalts \X Pairs
    BY <2>2, Zenon
  <2> QED BY <2>3, Zenon DEF IndexEntry
<1> QED BY <1>1, Zenon DEF build_index, Index

(* The initial states satisfy the inductive invariant. *)
LEMMA InitInv == Init => IndInv
<1> SUFFICES ASSUME Init PROVE IndInv
  BY Zenon
<1> PICK password \in Passwords, salt \in Salts, isalt \in IndexSalts,
         nonce \in Nonces, label \in Labels, enabled \in BOOLEAN :
        LET h == [label |-> label, salt |-> salt, isalt |-> isalt,
                  nonce |-> nonce, index |-> build_index(isalt, NoItems, TRUE)]
            k == derive_key(password, salt)
            c == seal(k, nonce, h, NoItems)
        IN  /\ header = h /\ aad = h /\ ct = c
            /\ disk = [aad |-> h, ct |-> c]
            /\ tmp = NoFile /\ temps = {}
            /\ key = k /\ items = NoItems
            /\ policy = enabled /\ warning = FALSE /\ retired = FALSE
            /\ task = Idle /\ saved = NoHeader /\ revoked = {}
  BY Zenon DEF Init
<1>1. NoItems \in ItemMap
  BY Zenon DEF NoItems, ItemMap
<1>2. build_index(isalt, NoItems, TRUE) \in Index
  BY <1>1, IndexType, Zenon
<1>3. header \in Header /\ key \in Key
  BY <1>2, Zenon DEF Header, Key, derive_key
<1>4. ct \in Ciphertext
  BY <1>1, <1>3, Zenon DEF Ciphertext, seal, Header
<1>5. TypeOK
  BY <1>1, <1>3, <1>4, Zenon DEF TypeOK, File, Task, Idle
<1>6. FitsLimit(NoItems)
  <2>1. Present(NoItems) = {}
    BY Zenon DEF Present, NoItems
  <2> QED BY <2>1, FS_EmptySet, ConstantsAssumption DEF FitsLimit
<1>7. FilesInv
  BY <1>6, Zenon DEF FilesInv, WellFormed, Opens, seal, derive_key
<1>8. TaskInv
  BY ConstantsAssumption, <1>3, Zenon DEF TaskInv, Idle, is_locked, seal, derive_key
<1>9. KeysInv
  BY Zenon DEF KeysInv, Idle, seal
<1> QED BY <1>5, <1>7, <1>8, <1>9, Zenon DEF IndInv

-----------------------------------------------------------------------------
(* One lemma per action: it preserves the inductive invariant. *)

(* lock() drops the key and the items; the cached file stays. *)
LEMMA LockInv == IndInv /\ lock => IndInv'
<1> SUFFICES ASSUME IndInv, lock PROVE IndInv'
  BY Zenon
<1> USE DEF IndInv
<1>1. TypeOK'
  BY Zenon DEF TypeOK, lock, NoItems, ItemMap
<1>2. FilesInv'
  BY Zenon DEF FilesInv, TaskInv, TypeOK, lock, Saving, Idle, WellFormed, Opens
<1>3. TaskInv'
  BY Zenon DEF TaskInv, lock, Idle, is_locked, Saving, RestoredHeader, RestoredItems
<1>4. KeysInv'
  BY ConstantsAssumption, Zenon DEF TypeOK, KeysInv, lock, Idle
<1> QED BY <1>1, <1>2, <1>3, <1>4, Zenon

(* unlock_with_key installs the key that opened the cached ciphertext. *)
LEMMA UnlockInv ==
    ASSUME IndInv, NEW k \in Key, unlock_with_key(k)
    PROVE  IndInv'
<1> USE DEF IndInv
<1>1. k = ct.key /\ ct \in Ciphertext
  BY Zenon DEF unlock_with_key, Decrypts, Opens, TypeOK
<1>0. RescrubTask(NoRotation) \in Task /\ Idle \in Task
  BY Zenon DEF Task, RescrubTask
<1>2. TypeOK'
  BY <1>0, <1>1, Zenon DEF TypeOK, unlock_with_key, Ciphertext
<1>3. FilesInv'
  BY Zenon DEF FilesInv, TaskInv, TypeOK, unlock_with_key, Saving, Idle, WellFormed, Opens
<1>4. TaskInv'
  BY <1>1, ConstantsAssumption DEF FilesInv, TaskInv, unlock_with_key, Idle, RescrubTask, is_locked, Saving,
     RestoredHeader, WellFormed
<1>5. KeysInv'
  BY <1>1 DEF KeysInv, unlock_with_key, Idle, RescrubTask
<1> QED BY <1>2, <1>3, <1>4, <1>5, Zenon

(* Unlinking the file of a retired vault. *)
LEMMA DeleteInv == IndInv /\ delete_collection => IndInv'
<1> SUFFICES ASSUME IndInv, delete_collection PROVE IndInv'
  OBVIOUS
<1> USE DEF IndInv
<1>1. TypeOK'
  BY Zenon DEF TypeOK, delete_collection
<1>2. FilesInv'
  BY Zenon DEF FilesInv, TaskInv, TypeOK, delete_collection, Saving, Idle, WellFormed, Opens
<1>3. TaskInv'
  BY Zenon DEF TaskInv, delete_collection, Idle, is_locked, Saving, RestoredHeader, RestoredItems
<1>4. KeysInv'
  BY Zenon DEF KeysInv, delete_collection
<1> QED BY <1>1, <1>2, <1>3, <1>4

(* A crash forgets memory and the operation in progress; open() reads the   *)
(* file back, which is the one memory had cached.                           *)
LEMMA CrashInv ==
    ASSUME IndInv, NEW enabled \in BOOLEAN, CrashAndOpen(enabled)
    PROVE  IndInv'
<1> USE DEF IndInv
<1>1. disk \in File /\ disk = [aad |-> aad, ct |-> ct] /\ disk # NoFile
  BY Zenon DEF TypeOK, FilesInv, CrashAndOpen
<1>2. tmp # NoFile => tmp.ct.key = key
  BY DEF FilesInv, seal
<1>3. temps' \subseteq temps \cup {key} /\ temps' \subseteq Key
  BY <1>2, Zenon DEF CrashAndOpen, TypeOK, File, Ciphertext
<1>4. TypeOK'
  BY <1>1, <1>3, Zenon DEF TypeOK, CrashAndOpen, File, Task, Idle, NoItems, ItemMap
<1>5. FilesInv'
  BY <1>1, Zenon DEF FilesInv, CrashAndOpen, WellFormed, Opens
<1>6. TaskInv'
  BY <1>1, Zenon DEF TaskInv, CrashAndOpen, Idle, is_locked, Saving
<1>7. KeysInv'
  BY <1>1, <1>3, ConstantsAssumption DEF TypeOK, KeysInv, CrashAndOpen, Idle
<1> QED BY <1>4, <1>5, <1>6, <1>7, Zenon

(* Another collection's rotation removes the temporary files. *)
LEMMA ForeignSweepInv == IndInv /\ ForeignSweep => IndInv'
<1> SUFFICES ASSUME IndInv, ForeignSweep PROVE IndInv'
  OBVIOUS
<1> USE DEF IndInv, ForeignSweep, memory
<1>1. TypeOK'
  BY Zenon DEF TypeOK
<1>2. FilesInv'
  BY Zenon DEF FilesInv, WellFormed, Opens
<1>3. TaskInv'
  BY Zenon DEF TaskInv, is_locked, Saving, RestoredHeader, RestoredItems
<1>4. KeysInv'
  BY Zenon DEF KeysInv
<1> QED BY <1>1, <1>2, <1>3, <1>4, Zenon

(* An edit of the items records a delta whose undo is the list before it,   *)
(* provided it leaves alone the ids it does not name.                       *)
LEMMA EditInv ==
    ASSUME IndInv, NEW ids \in SUBSET Ids, NEW m \in ItemMap,
           \A i \in Ids \ ids : m[i] = items[i],
           Edit(ids, m)
    PROVE  IndInv'
<1> USE DEF IndInv
<1>1. items \in ItemMap /\ NoItem \in Item \cup {NoItem}
  BY Zenon DEF TypeOK
<1>2. EditTask(ids) \in Task
  <2>1. EditTask(ids).prior \in ItemMap
    BY <1>1, Zenon DEF EditTask, ItemMap
  <2> QED BY <2>1, Zenon DEF EditTask, Task
<1>3. TypeOK'
  BY <1>2, Zenon DEF TypeOK, Edit
<1>4. saved = NoHeader /\ tmp = NoFile
  BY Zenon DEF Edit, TaskInv, FilesInv, Saving, Idle
<1>5. FilesInv'
  BY <1>4, Zenon DEF FilesInv, Edit, WellFormed, Opens
<1>6. RestoredItems' = items
  <2>1. RestoredItems' = [i \in Ids |-> IF i \in ids THEN items[i] ELSE m[i]]
    BY Zenon DEF RestoredItems, Edit, EditTask
  <2> QED BY <1>1, <2>1, Zenon DEF ItemMap
<1>7. items = ct.items /\ key = ct.key /\ header = aad
  BY Zenon DEF Edit, TaskInv, Idle
<1>8. TaskInv'
  BY <1>4, <1>6, <1>7, Zenon DEF TaskInv, Edit, Idle, EditTask, is_locked, Saving, RestoredHeader
<1>9. KeysInv'
  BY Zenon DEF KeysInv, Edit, EditTask, Idle
<1> QED BY <1>3, <1>5, <1>8, <1>9, Zenon

(* insert_item touches the one item it replaces or pushes. *)
LEMMA InsertItemInv ==
    ASSUME IndInv, NEW attrs \in SUBSET Pairs, NEW body \in Bodies,
           NEW replace \in BOOLEAN, insert_item(attrs, body, replace)
    PROVE  IndInv'
<1> DEFINE same == {i \in Present(items) : items[i].attrs = attrs}
           new == [attrs |-> attrs, body |-> body]
<1>1. items \in ItemMap
  BY Zenon DEF IndInv, TypeOK
<1>2. CASE \E i \in same : Edit({i}, [items EXCEPT ![i].body = body])
  <2> PICK i \in same : Edit({i}, [items EXCEPT ![i].body = body])
    BY <1>2, Zenon
  <2>1. i \in Ids /\ items[i] \in Item
    BY <1>1, Zenon DEF Present, ItemMap
  <2>2. [items[i] EXCEPT !.body = body] \in Item
    BY <2>1, Zenon DEF Item
  <2>3. [items EXCEPT ![i].body = body] \in ItemMap
    BY <1>1, <2>1, <2>2, Zenon DEF ItemMap
  <2>4. \A j \in Ids \ {i} : [items EXCEPT ![i].body = body][j] = items[j]
    BY <1>1, Zenon DEF ItemMap
  <2> QED BY <2>1, <2>3, <2>4, EditInv, Zenon
<1>3. CASE \E i \in Ids \ Present(items) : Edit({i}, [items EXCEPT ![i] = new])
  <2> PICK i \in Ids \ Present(items) : Edit({i}, [items EXCEPT ![i] = new])
    BY <1>3, Zenon
  <2>1. [items EXCEPT ![i] = new] \in ItemMap
    BY <1>1, Zenon DEF ItemMap, Item
  <2>2. \A j \in Ids \ {i} : [items EXCEPT ![i] = new][j] = items[j]
    BY <1>1, Zenon DEF ItemMap
  <2> QED BY <2>1, <2>2, EditInv, Zenon
<1> QED BY <1>2, <1>3, Zenon DEF insert_item

(* update_item touches the item it names. *)
LEMMA UpdateItemInv ==
    ASSUME IndInv, NEW i \in Ids, NEW item \in Item, update_item(i, item)
    PROVE  IndInv'
<1>1. items \in ItemMap
  BY Zenon DEF IndInv, TypeOK
<1>2. [items EXCEPT ![i] = item] \in ItemMap
  BY <1>1, Zenon DEF ItemMap
<1>3. \A j \in Ids \ {i} : [items EXCEPT ![i] = item][j] = items[j]
  BY <1>1, Zenon DEF ItemMap
<1> QED BY <1>2, <1>3, EditInv, Zenon DEF update_item

(* delete_item touches the item it names. *)
LEMMA DeleteItemInv ==
    ASSUME IndInv, NEW i \in Ids, delete_item(i)
    PROVE  IndInv'
<1>1. items \in ItemMap
  BY Zenon DEF IndInv, TypeOK
<1>2. [items EXCEPT ![i] = NoItem] \in ItemMap
  BY <1>1, Zenon DEF ItemMap
<1>3. \A j \in Ids \ {i} : [items EXCEPT ![i] = NoItem][j] = items[j]
  BY <1>1, Zenon DEF ItemMap
<1> QED BY <1>2, <1>3, EditInv, Zenon DEF delete_item

(* delete_items touches the batch it names. *)
LEMMA DeleteItemsInv ==
    ASSUME IndInv, NEW ids \in SUBSET Ids, delete_items(ids)
    PROVE  IndInv'
<1> DEFINE m == [i \in Ids |-> IF i \in ids THEN NoItem ELSE items[i]]
<1>1. m \in ItemMap
  BY Zenon DEF IndInv, TypeOK, ItemMap
<1>2. \A j \in Ids \ ids : m[j] = items[j]
  BY Zenon
<1>3. Edit(ids, m)
  BY Zenon DEF delete_items
<1> HIDE DEF m
<1> QED BY <1>1, <1>2, <1>3, EditInv, Zenon

(* import_items touches the ids it draws. *)
LEMMA ImportItemsInv ==
    ASSUME IndInv, NEW batch \in ItemMap, import_items(batch)
    PROVE  IndInv'
<1> DEFINE ids == Present(batch)
           m == [i \in Ids |-> IF i \in ids THEN batch[i] ELSE items[i]]
<1>1. m \in ItemMap
  BY Zenon DEF IndInv, TypeOK, ItemMap
<1>2. \A j \in Ids \ ids : m[j] = items[j]
  BY Zenon
<1>3. Edit(ids, m) /\ ids \in SUBSET Ids
  BY Zenon DEF import_items, Present
<1> HIDE DEF m, ids
<1> QED BY <1>1, <1>2, <1>3, EditInv, Zenon

(* set_label changes the label in the header only. *)
LEMMA SetLabelInv ==
    ASSUME IndInv, NEW label \in Labels, set_label(label)
    PROVE  IndInv'
<1> USE DEF IndInv
<1>0. header \in Header /\ header' = [header EXCEPT !.label = label]
  BY Zenon DEF TypeOK, set_label
<1>1. TypeOK'
  <2>1. LabelTask(header.label) \in Task
    BY <1>0, Zenon DEF LabelTask, Task, Header
  <2> QED BY <1>0, <2>1, HeaderTypes, Zenon DEF TypeOK, set_label
<1>2. saved = NoHeader /\ tmp = NoFile /\ header = aad /\ key = ct.key /\ items = ct.items
  BY Zenon DEF set_label, TaskInv, FilesInv, Saving, Idle
<1>3. FilesInv'
  BY <1>2, Zenon DEF FilesInv, set_label, WellFormed, Opens
<1>4. [RestoredHeader' EXCEPT !.label = task'.label] = header
  BY <1>0, <1>2, Zenon DEF RestoredHeader, set_label, LabelTask, Header
<1>5. header'.salt = header.salt
  BY <1>0, Zenon DEF Header
<1>6. TaskInv'
  BY <1>2, <1>4, <1>5, Zenon DEF TaskInv, set_label, Idle, LabelTask, is_locked, Saving
<1>7. KeysInv'
  BY Zenon DEF KeysInv, set_label, LabelTask, Idle
<1> QED BY <1>1, <1>3, <1>6, <1>7, Zenon

-----------------------------------------------------------------------------
(* Installing a new key from header `h` sealed under `old`: the roll-back   *)
(* of the rotation leads back to `h` and `old`.                             *)
LEMMA InstallNewKeyStep ==
    ASSUME NEW h \in Header, NEW old \in Key, NEW relock \in BOOLEAN,
           NEW rotation \in RotationSpace,
           InstallNewKey(h, rotation, old, relock),
           rotation.key[2] = rotation.salt,
           rotation.key \notin revoked \cup {old},
           saved' = NoHeader, aad' = h, ct'.key = old, items' = ct'.items
    PROVE  /\ header' \in Header /\ key' \in Key /\ task' \in Task
           /\ TaskInv'
           /\ key' \notin revoked \cup {task'.key}
           /\ task'.kind = "rotate" /\ task'.key = old
<1>2. rotation.salt \in Salts /\ rotation.isalt \in IndexSalts /\ rotation.key \in Key
  BY Zenon DEF RotationSpace
<1>3. header' = [h EXCEPT !.salt = rotation.salt, !.isalt = rotation.isalt]
  BY Zenon DEF InstallNewKey
<1>4. header' \in Header /\ key' \in Key
  BY <1>2, <1>3, Zenon DEF InstallNewKey, Header
<1>5. task' \in Task
  BY Zenon DEF InstallNewKey, RotateTask, Task, Header
<1>6. [RestoredHeader' EXCEPT !.salt = task'.salt, !.isalt = task'.isalt] = h
  <2>1. RestoredHeader' = header'
    BY Zenon DEF RestoredHeader
  <2>2. task'.salt = h.salt /\ task'.isalt = h.isalt
    BY Zenon DEF InstallNewKey, RotateTask
  <2> QED BY <1>2, <1>3, <2>1, <2>2, Zenon DEF Header
<1>7. header'.salt = rotation.salt /\ key' = rotation.key
  BY <1>3, Zenon DEF InstallNewKey, Header
<1>8. task'.kind = "rotate" /\ task'.key = old
  BY Zenon DEF InstallNewKey, RotateTask
<1>9. TaskInv'
  BY <1>4, <1>6, <1>7, <1>8, ConstantsAssumption, Zenon DEF TaskInv, is_locked, Saving
<1> QED BY <1>4, <1>5, <1>7, <1>8, <1>9, Zenon

(* change_key up to its save: refused, or the new key is in place. *)
LEMMA ChangeKeyInv ==
    ASSUME IndInv, NEW old \in Key, NEW password \in Passwords,
           NEW salt \in FreshSalts, NEW isalt \in IndexSalts,
           change_key(old, password, salt, isalt)
    PROVE  IndInv'
<1> DEFINE k == derive_key(password, salt)
           rotation == Rotation(salt, isalt, k)
<1> USE DEF IndInv
<1>1. rotation \in RotationSpace /\ rotation.key = k /\ rotation.salt = salt
      /\ k \in Key /\ k[2] = salt
  BY Zenon DEF Rotation, RotationSpace, derive_key, Key, FreshSalts
<1>2. task = Idle /\ saved = NoHeader /\ tmp = NoFile /\ header = aad
      /\ ct.key[2] = aad.salt /\ ct \in Ciphertext
  BY Zenon DEF change_key, TaskInv, FilesInv, WellFormed, Saving, Idle, TypeOK
<1>3. k \notin revoked \cup {ct.key}
  BY <1>1, <1>2, Zenon DEF FreshSalts, change_key
<1>4. FilesInv'
  BY <1>2, Zenon DEF FilesInv, change_key, WellFormed, Opens
<1>5. CASE UNCHANGED <<header, key, items, warning, task>>
  <2>1. TypeOK'
    BY <1>5, Zenon DEF TypeOK, change_key
  <2>2. TaskInv'
    BY <1>2, <1>5 DEF TaskInv, change_key, Idle, is_locked, Saving
  <2>3. KeysInv'
    BY <1>2, <1>5, Zenon DEF KeysInv, change_key, Idle
  <2> QED BY <1>4, <2>1, <2>2, <2>3, Zenon
<1>6. ASSUME NEW relock \in BOOLEAN,
             InstallNewKey(aad, rotation, ct.key, relock),
             items' = ct.items, warning' \in BOOLEAN
      PROVE  IndInv'
  <2>0. saved' = NoHeader /\ aad' = aad /\ ct' = ct /\ temps' = {} /\ revoked' = revoked
    BY <1>2, Zenon DEF change_key
  <2> HIDE DEF rotation
  <2>1. /\ header' \in Header /\ key' \in Key /\ task' \in Task
        /\ TaskInv'
        /\ key' \notin revoked \cup {task'.key}
        /\ task'.kind = "rotate" /\ task'.key = ct.key
    <3>1. aad \in Header /\ ct.key \in Key
      BY <1>2, Zenon DEF TypeOK, Ciphertext
    <3>2. rotation.key[2] = rotation.salt
      BY <1>1, Zenon
    <3>3. rotation.key \notin revoked \cup {ct.key}
      BY <1>1, <1>3, Zenon
    <3>4. ct'.key = ct.key /\ items' = ct'.items
      BY <1>6, <2>0, Zenon
    <3> HIDE DEF IndInv, k
    <3> QED BY ONLY <1>1, <1>6, <2>0, <3>1, <3>2, <3>3, <3>4, InstallNewKeyStep, Zenon
  <2>2. TypeOK'
    BY <1>2, <1>6, <2>0, <2>1, Zenon DEF TypeOK, change_key, Ciphertext
  <2>3. KeysInv'
    BY <2>0, <2>1, Zenon DEF KeysInv
  <2> QED BY <1>4, <2>1, <2>2, <2>3, Zenon
<1>7. CASE ~is_locked /\ key = old
           /\ InstallNewKey(header, rotation, old, FALSE) /\ UNCHANGED <<items, warning>>
  <2>1. key = ct.key /\ items = ct.items
    BY <1>2, <1>7, Zenon DEF TaskInv, Idle
  <2>2. InstallNewKey(aad, rotation, ct.key, FALSE) /\ items' = ct.items
        /\ warning' \in BOOLEAN
    BY <1>2, <1>7, <2>1, Zenon DEF TypeOK
  <2> QED BY <1>6, <2>2, Zenon
<1>8. CASE /\ Decrypts(old) /\ items' = ct.items
           /\ InstallNewKey(header, rotation, old, TRUE) /\ warning' = FALSE
  <2>1. InstallNewKey(aad, rotation, ct.key, TRUE)
    BY <1>2, <1>8, Zenon DEF Decrypts, Opens
  <2> QED BY <1>6, <1>8, <2>1, Zenon
<1>9. CASE /\ Decrypts(old) /\ items' = ct.items /\ key' = old
           /\ task' = RescrubTask(rotation) /\ UNCHANGED <<header, warning>>
  <2> HIDE DEF rotation
  <2>1. old = ct.key
    BY <1>9, Zenon DEF Decrypts, Opens
  <2>2. task' \in Task
    BY <1>1, <1>9, Zenon DEF RescrubTask, Task
  <2>3. TypeOK'
    BY <1>2, <1>9, <2>2, Zenon DEF TypeOK, change_key, Ciphertext
  <2>4. TaskInv'
    BY <1>1, <1>2, <1>9, <2>1, ConstantsAssumption, Zenon
    DEF TaskInv, change_key, RescrubTask, is_locked, Saving, RestoredHeader
  <2>5. KeysInv'
    BY <1>1, <1>2, <1>3, <1>9, <2>1, Zenon DEF KeysInv, change_key, RescrubTask
  <2> QED BY <1>4, <2>3, <2>4, <2>5
<1> QED BY <1>5, <1>7, <1>8, <1>9, Zenon DEF change_key

(* The task of a rotation holds a key and whether to lock again. *)
LEMMA RotationTaskFields ==
    ASSUME task \in Task, task.kind \in {"rotate", "sweep"}
    PROVE  task.key \in Key /\ task.relock \in BOOLEAN
<1>1. task # Idle
  BY DEF Idle
<1>2. task \notin [kind : {"edit"}, ids : SUBSET Ids, prior : ItemMap]
  BY Zenon
<1>3. task \notin [kind : {"label"}, label : Labels]
  BY Zenon
<1>4. task \notin [kind : {"rescrub"}, rotation : RotationSpace \cup {NoRotation}]
  BY Zenon
<1>5. \/ task \in [kind : {"rotate"}, salt : Salts, isalt : IndexSalts, key : Key,
                  relock : BOOLEAN]
      \/ task \in [kind : {"sweep"}, key : Key, relock : BOOLEAN]
  BY <1>1, <1>2, <1>3, <1>4, Zenon DEF Task
<1> QED BY <1>5, Zenon

(* The task of an unlock's own save holds the rotation it is part of. *)
LEMMA RescrubTaskFields ==
    ASSUME task \in Task, task.kind = "rescrub"
    PROVE  task.rotation \in RotationSpace \cup {NoRotation}
<1>1. task # Idle
  BY DEF Idle
<1>2. task \notin [kind : {"edit"}, ids : SUBSET Ids, prior : ItemMap]
  BY Zenon
<1>3. task \notin [kind : {"label"}, label : Labels]
  BY Zenon
<1>4. task \notin [kind : {"rotate"}, salt : Salts, isalt : IndexSalts, key : Key,
                  relock : BOOLEAN]
  BY Zenon
<1>5. task \notin [kind : {"sweep"}, key : Key, relock : BOOLEAN]
  BY Zenon
<1>6. task \in [kind : {"rescrub"}, rotation : RotationSpace \cup {NoRotation}]
  BY <1>1, <1>2, <1>3, <1>4, <1>5, Zenon DEF Task
<1> QED BY <1>6, Zenon

(* The tail of change_key: the old key joins the revoked ones once nothing  *)
(* in the directory opens with it.                                          *)
LEMMA FinishChangeKeyInv == IndInv /\ finish_change_key => IndInv'
<1> SUFFICES ASSUME IndInv, finish_change_key PROVE IndInv'
  OBVIOUS
<1> USE DEF IndInv
<1>1. task.kind = "sweep" /\ task.key \in Key /\ task.relock \in BOOLEAN
  <2>1. task.kind = "sweep" /\ task \in Task
    BY Zenon DEF finish_change_key, TypeOK
  <2> QED BY <2>1, RotationTaskFields, Zenon
<1>2. saved = NoHeader /\ tmp = NoFile /\ header = aad /\ key = ct.key
      /\ items = ct.items /\ key # NoKey
  BY <1>1, Zenon DEF TaskInv, FilesInv, Saving, is_locked
<1>3. TypeOK'
  BY <1>1, Zenon DEF TypeOK, finish_change_key, Task, NoItems, ItemMap
<1>4. FilesInv'
  BY <1>2, Zenon DEF FilesInv, finish_change_key, WellFormed, Opens
<1>5. TaskInv'
  BY <1>2, Zenon DEF TaskInv, finish_change_key, Idle, is_locked, Saving
<1>6. KeysInv'
  <2>1. /\ revoked' = revoked \cup {task.key} /\ temps' = {} /\ ct' = ct
        /\ task'.kind = "idle" /\ key' \in {key, NoKey}
    BY Zenon DEF finish_change_key, Idle
  <2>2. ct.key \notin revoked /\ ct.key # task.key
    BY <1>1, <1>2, Zenon DEF KeysInv
  <2>3. NoKey \notin revoked /\ NoKey # task.key
    BY <1>1, ConstantsAssumption, Zenon DEF TypeOK
  <2>4. revoked' \cap (temps' \cup {key', ct'.key}) = {}
    BY <1>2, <2>1, <2>2, <2>3, Zenon
  <2> QED BY <2>1, <2>4, Zenon DEF KeysInv
<1> QED BY <1>3, <1>4, <1>5, <1>6

-----------------------------------------------------------------------------
(* save_with *)

(* save_with up to the temporary file: the header changes, the snapshot     *)
(* keeps what it was, the file is sealed from the new header.               *)
LEMMA WriteTempInv == IndInv /\ WriteTemp => IndInv'
<1> SUFFICES ASSUME IndInv, WriteTemp PROVE IndInv'
  OBVIOUS
<1> USE DEF IndInv
<1>1. PICK nonce \in Nonces \ {header.nonce} :
        LET h == [header EXCEPT !.nonce = nonce,
                                !.index = build_index(header.isalt, items, policy)]
        IN  /\ header' = h
            /\ tmp' = [aad |-> h, ct |-> seal(key, nonce, h, items)]
  BY Zenon DEF WriteTemp
<1>2. header \in Header /\ header.isalt \in IndexSalts /\ items \in ItemMap
      /\ policy \in BOOLEAN
  BY Zenon DEF TypeOK, Header
<1>3. header' \in Header /\ header'.salt = header.salt /\ header'.nonce = nonce
  <2> DEFINE x == build_index(header.isalt, items, policy)
  <2>1. x \in Index
    BY <1>2, IndexType, Zenon
  <2>2. header' = [header EXCEPT !.nonce = nonce, !.index = x]
    BY <1>1, Zenon
  <2> HIDE DEF x
  <2> QED BY <1>2, <2>1, <2>2, Zenon DEF Header
<1>4. task.kind # "idle" /\ key \in Key /\ header \in Header /\ saved' = header
  BY Zenon DEF WriteTemp, TypeOK, TaskInv, Saving, is_locked
<1>5. tmp' = [aad |-> header', ct |-> seal(key, header'.nonce, header', items)]
  BY <1>1, <1>3, Zenon
<1>6. tmp' \in File
  BY <1>2, <1>3, <1>4, <1>5, Zenon DEF File, Ciphertext, seal
<1>7. TypeOK'
  BY <1>3, <1>4, <1>6, Zenon DEF TypeOK, WriteTemp
<1>8. saved' # NoHeader
  BY <1>4, ConstantsAssumption, Zenon
<1>9. FilesInv'
  BY <1>5, <1>8, Zenon DEF FilesInv, WriteTemp, WellFormed, Opens
<1>10. RestoredHeader' = RestoredHeader /\ RestoredItems' = RestoredItems
  BY <1>4, <1>8, Zenon DEF RestoredHeader, RestoredItems, WriteTemp
<1>11. TaskInv'
  BY <1>3, <1>4, <1>10, Zenon DEF TaskInv, WriteTemp, is_locked, Saving
<1>12. KeysInv'
  BY Zenon DEF KeysInv, WriteTemp
<1> QED BY <1>7, <1>9, <1>11, <1>12, Zenon

(* The state right after the rename: the cached file is the one that was    *)
(* sealed from memory, so it holds what memory holds.                       *)
LEMMA PublishedFacts ==
    ASSUME IndInv, Published, task.kind \in {"edit", "label", "rescrub", "rotate"}
    PROVE  /\ aad' = header /\ aad' \in Header /\ ct' \in Ciphertext
           /\ ct' = seal(key, header.nonce, header, items)
           /\ disk' = [aad |-> aad', ct |-> ct'] /\ disk' \in File
           /\ WellFormed([aad |-> aad', ct |-> ct'])
           /\ ~retired /\ key \in Key /\ key[2] = header.salt
           /\ saved' = NoHeader /\ tmp' = NoFile /\ header \in Header
<1> USE DEF IndInv
<1>1. tmp \in File /\ tmp = [aad |-> header, ct |-> seal(key, header.nonce, header, items)]
      /\ FitsLimit(items) /\ ~retired
  BY Zenon DEF Published, TypeOK, FilesInv, TaskInv
<1>2. key \in Key /\ key[2] = header.salt /\ header \in Header
  BY Zenon DEF TypeOK, TaskInv, is_locked
<1>3. aad' = header /\ ct' = seal(key, header.nonce, header, items) /\ disk' = tmp
      /\ aad' \in Header /\ ct' \in Ciphertext
  BY <1>1, Zenon DEF Published, File
<1>4. WellFormed([aad |-> aad', ct |-> ct'])
  BY <1>1, <1>2, <1>3, Zenon DEF WellFormed, Opens, seal
<1> QED BY <1>1, <1>2, <1>3, <1>4, Zenon DEF Published

(* The rename succeeds: memory and file agree again. *)
LEMMA SaveInv == IndInv /\ Save => IndInv'
<1> SUFFICES ASSUME IndInv, Save PROVE IndInv'
  OBVIOUS
<1> USE DEF IndInv
<1>0. Published /\ task.kind \in {"edit", "label", "rescrub", "rotate"}
  BY Zenon DEF Save
<1>1. /\ aad' = header /\ aad' \in Header /\ ct' \in Ciphertext
      /\ ct' = seal(key, header.nonce, header, items)
      /\ disk' = [aad |-> aad', ct |-> ct'] /\ disk' \in File
      /\ WellFormed([aad |-> aad', ct |-> ct'])
      /\ ~retired /\ key \in Key /\ key[2] = header.salt
      /\ saved' = NoHeader /\ tmp' = NoFile /\ header \in Header
  BY <1>0, PublishedFacts, Zenon
<1>2. ct'.key = key /\ ct'.items = items
  BY <1>1, Zenon DEF seal
<1>3. FilesInv'
  <2>1. WellFormed([aad |-> aad, ct |-> ct])'
    BY <1>1, Zenon DEF WellFormed, Opens
  <2> QED BY <1>0, <1>1, <2>1, Zenon DEF FilesInv, Published
<1>4. temps' = temps /\ policy' = policy /\ retired' = retired /\ revoked' = revoked
  BY <1>0, Zenon DEF Published
<1>5. CASE task.kind \in {"edit", "label"} /\ task' = Idle
           /\ UNCHANGED <<header, key, items, warning>>
  <2>1. TypeOK'
    BY <1>1, <1>4, <1>5, Zenon DEF TypeOK, Task
  <2>2. TaskInv'
    BY <1>1, <1>2, <1>4, <1>5, ConstantsAssumption, Zenon DEF TaskInv, Idle, is_locked, Saving
  <2>3. KeysInv'
    BY <1>2, <1>4, <1>5, Zenon DEF KeysInv, Idle
  <2> QED BY <1>3, <2>1, <2>2, <2>3, Zenon
<1>6. CASE task.kind = "rotate" /\ task' = SweepTask(task.key, task.relock)
           /\ UNCHANGED <<header, key, items, warning>>
  <2>0. task' \in Task
    <3>1. task.key \in Key /\ task.relock \in BOOLEAN
      BY <1>6, RotationTaskFields, Zenon DEF TypeOK
    <3>2. task' \in [kind : {"sweep"}, key : Key, relock : BOOLEAN]
      BY <1>6, <3>1, Zenon DEF SweepTask
    <3> QED BY <3>2, Zenon DEF Task
  <2>1. TypeOK'
    BY <1>1, <1>4, <1>6, <2>0, Zenon DEF TypeOK
  <2>2. TaskInv'
    BY <1>1, <1>2, <1>4, <1>6, ConstantsAssumption, Zenon DEF TaskInv, SweepTask, is_locked, Saving
  <2>3. KeysInv'
    BY <1>2, <1>4, <1>6, Zenon DEF KeysInv, SweepTask
  <2> QED BY <1>3, <2>1, <2>2, <2>3
<1>7. CASE task.kind = "rescrub" /\ warning' = FALSE
           /\ AfterRescrub(header) /\ UNCHANGED items
  <2>0. task.rotation \in RotationSpace \cup {NoRotation} /\ key = ct.key
    BY <1>7 DEF TypeOK, Task, Idle, TaskInv
  <2>1. CASE task.rotation = NoRotation
    <3>1. header' = header /\ task' = Idle /\ key' = key
      BY <1>7, <2>1, Zenon DEF AfterRescrub
    <3>2. TypeOK'
      BY <1>1, <1>4, <1>7, <3>1, Zenon DEF TypeOK, Task
    <3>3. TaskInv'
      BY <1>1, <1>2, <1>4, <1>7, <3>1, ConstantsAssumption, Zenon DEF TaskInv, Idle, is_locked, Saving
    <3>4. KeysInv'
      BY <1>2, <1>4, <3>1, Zenon DEF KeysInv, Idle
    <3> QED BY <1>3, <3>2, <3>3, <3>4
  <2>2. CASE task.rotation # NoRotation
    <3>1. InstallNewKey(header, task.rotation, key, TRUE) /\ task.rotation \in RotationSpace
      BY <1>7, <2>0, <2>2, Zenon DEF AfterRescrub
    <3>2. task.rotation.key[2] = task.rotation.salt
          /\ task.rotation.key \notin revoked \cup {key}
      BY <1>7, <2>0, <2>2, Zenon DEF TaskInv, KeysInv
    <3>3. /\ header' \in Header /\ key' \in Key /\ task' \in Task
          /\ TaskInv'
          /\ key' \notin revoked \cup {task'.key}
          /\ task'.kind = "rotate" /\ task'.key = key
      BY <1>1, <1>2, <1>7, <3>1, <3>2, InstallNewKeyStep, Zenon
    <3>4. TypeOK'
      BY <1>1, <1>4, <1>7, <3>3, Zenon DEF TypeOK
    <3>5. KeysInv'
      BY <1>2, <1>4, <2>0, <3>3, Zenon DEF KeysInv
    <3> QED BY <1>3, <3>3, <3>4, <3>5, Zenon
  <2> QED BY <2>1, <2>2, Zenon
<1> QED BY <1>5, <1>6, <1>7, Zenon DEF Save

(* The save fails: each operation's roll-back brings back the cached file's *)
(* header, key and items.                                                   *)
LEMMA SaveFailsInv == IndInv /\ SaveFails => IndInv'
<1> SUFFICES ASSUME IndInv, SaveFails PROVE IndInv'
  OBVIOUS
<1> USE DEF IndInv
<1>1. tmp' = NoFile /\ saved' = NoHeader /\ disk' = disk /\ aad' = aad /\ ct' = ct
      /\ policy' = policy /\ retired' = retired /\ revoked' = revoked
  BY Zenon DEF SaveFails, SaveError
<1>2. temps' \subseteq temps \cup {key} /\ temps' \subseteq Key
  BY DEF SaveFails, SaveError, FilesInv, seal, TypeOK, File, Ciphertext
<1>3. FilesInv'
  BY <1>1, Zenon DEF FilesInv, WellFormed, Opens
<1>4. aad \in Header /\ ct \in Ciphertext /\ ct.key \in Key /\ ct.key[2] = aad.salt
      /\ items \in ItemMap /\ NoItems \in ItemMap /\ ct.items \in ItemMap
  BY Zenon DEF TypeOK, Ciphertext, FilesInv, WellFormed, NoItems, ItemMap
<1>5. ASSUME header' = aad, task' = Idle, items' \in ItemMap, warning' \in BOOLEAN,
             \/ key' = ct.key /\ items' = ct.items
             \/ key' = NoKey
      PROVE  IndInv'
  <2>1. key' \in {ct.key, NoKey}
    BY <1>5, Zenon
  <2>2. TypeOK'
    BY <1>1, <1>2, <1>4, <1>5, <2>1, Zenon DEF TypeOK, Task
  <2>3. TaskInv'
    BY <1>1, <1>4, <1>5, Zenon DEF TaskInv, Idle, is_locked
  <2>4. KeysInv'
    BY <1>1, <1>2, <1>5, <2>1, ConstantsAssumption, Zenon DEF KeysInv, TypeOK, Idle
  <2> QED BY <1>3, <2>2, <2>3, <2>4
<1>6. CASE /\ task.kind = "edit" /\ header' = RestoredHeader /\ items' = RestoredItems
           /\ task' = Idle /\ UNCHANGED <<key, warning>>
  <2>1. header' = aad /\ key' = ct.key /\ items' = ct.items /\ warning' \in BOOLEAN
    BY <1>6, Zenon DEF TaskInv, TypeOK
  <2> QED BY <1>4, <1>5, <1>6, <2>1, Zenon
<1>7. CASE /\ task.kind = "label" /\ task' = Idle
           /\ header' = [RestoredHeader EXCEPT !.label = task.label]
           /\ UNCHANGED <<key, items, warning>>
  <2>1. header' = aad /\ key' = ct.key
    BY <1>7, Zenon DEF TaskInv
  <2>2. items' = ct.items /\ warning' \in BOOLEAN
    BY <1>7, Zenon DEF TaskInv, TypeOK
  <2> QED BY <1>4, <1>5, <1>7, <2>1, <2>2, Zenon
<1>8. CASE /\ task.kind = "rescrub" /\ warning' = TRUE
           /\ AfterRescrub(RestoredHeader) /\ UNCHANGED items
  <2>0. task.rotation \in RotationSpace \cup {NoRotation}
    BY <1>8, RescrubTaskFields, Zenon DEF TypeOK
  <2>1. RestoredHeader = aad /\ key = ct.key /\ items' = ct.items
    BY <1>8, Zenon DEF TaskInv
  <2>2. CASE task.rotation = NoRotation
    <3>1. header' = aad /\ task' = Idle /\ key' = ct.key
      BY <1>8, <2>1, <2>2, Zenon DEF AfterRescrub
    <3> QED BY <1>4, <1>5, <1>8, <2>1, <3>1, Zenon
  <2>3. CASE task.rotation # NoRotation
    <3>1. InstallNewKey(aad, task.rotation, ct.key, TRUE) /\ task.rotation \in RotationSpace
      BY <1>8, <2>0, <2>1, <2>3, Zenon DEF AfterRescrub
    <3>2. task.rotation.key[2] = task.rotation.salt
          /\ task.rotation.key \notin revoked \cup {ct.key}
      BY <1>8, <2>3, Zenon DEF TaskInv, KeysInv
    <3>3. /\ header' \in Header /\ key' \in Key /\ task' \in Task
          /\ TaskInv'
          /\ key' \notin revoked \cup {task'.key}
          /\ task'.kind = "rotate" /\ task'.key = ct.key
      BY <1>1, <1>4, <2>1, <3>1, <3>2, InstallNewKeyStep, Zenon
    <3>4. TypeOK'
      BY <1>1, <1>2, <1>4, <1>8, <3>3, Zenon DEF TypeOK
    <3>5. KeysInv'
      BY <1>1, <1>2, <2>1, <3>3, Zenon DEF KeysInv
    <3> QED BY <1>3, <3>3, <3>4, <3>5, Zenon
  <2> QED BY <2>2, <2>3
<1>9. CASE /\ task.kind = "rotate" /\ task' = Idle
           /\ header' = [RestoredHeader EXCEPT !.salt = task.salt, !.isalt = task.isalt]
           /\ key' = IF task.relock THEN NoKey ELSE task.key
           /\ items' = IF task.relock THEN NoItems ELSE items
           /\ UNCHANGED warning
  <2>1. header' = aad /\ task.key = ct.key
    BY <1>9, Zenon DEF TaskInv
  <2>2. items = ct.items /\ warning' \in BOOLEAN
    BY <1>9, Zenon DEF TaskInv, TypeOK
  <2> QED BY <1>4, <1>5, <1>9, <2>1, <2>2, Zenon
<1> QED BY <1>6, <1>7, <1>8, <1>9, Zenon DEF SaveFails

-----------------------------------------------------------------------------
(* Every step preserves the inductive invariant. *)
LEMMA NextInv == IndInv /\ [Next]_vars => IndInv'
<1> SUFFICES ASSUME IndInv, [Next]_vars PROVE IndInv'
  BY Zenon
<1>1. CASE UNCHANGED vars
  BY <1>1 DEF vars, IndInv, TypeOK, FilesInv, TaskInv, KeysInv, WellFormed, Opens,
     is_locked, Saving, RestoredHeader, RestoredItems
<1>2. CASE Next
  BY <1>2, LockInv, UnlockInv, DeleteInv, CrashInv, ForeignSweepInv, InsertItemInv,
     UpdateItemInv, DeleteItemInv, DeleteItemsInv, ImportItemsInv, SetLabelInv,
     ChangeKeyInv, FinishChangeKeyInv, WriteTempInv, SaveInv, SaveFailsInv, Zenon
  DEF Next
<1> QED BY <1>1, <1>2, Zenon

(* The inductive invariant holds in every reachable state. *)
THEOREM Invariance == Spec => []IndInv
BY InitInv, NextInv, PTL DEF Spec

(* Every variable keeps its type (module Vault, TypeOK). *)
THEOREM TypeCorrect == Spec => []TypeOK
<1>1. IndInv => TypeOK
  BY Zenon DEF IndInv
<1> QED BY <1>1, Invariance, PTL

(* For any number of items, salts, passwords and crashes: the published     *)
(* file is always a complete vault that open() accepts and the right        *)
(* password decrypts.                                                       *)
THEOREM FileAlwaysOpensThm == Spec => []FileAlwaysOpens
<1>1. IndInv => FileAlwaysOpens
  BY Zenon DEF IndInv, FilesInv, FileAlwaysOpens
<1> QED BY <1>1, Invariance, PTL

(* Between operations the cached header, aad, ciphertext, key and items     *)
(* belong together: the roll-backs of save_with, restore_delta, set_label   *)
(* and change_key are complete.                                             *)
THEOREM ReopenableThm == Spec => []Reopenable
<1>1. IndInv => Reopenable
  BY DEF IndInv, FilesInv, TaskInv, Reopenable, Idle
<1> QED BY <1>1, Invariance, PTL

(* Between operations memory and the published file agree. *)
THEOREM MemoryIsDiskThm == Spec => []MemoryIsDisk
<1>1. IndInv => MemoryIsDisk
  BY Zenon DEF IndInv, FilesInv, MemoryIsDisk
<1> QED BY <1>1, Invariance, PTL

(* A key that change_key rotated away opens nothing in the directory. *)
THEOREM RevokedKeyOpensNothingThm == Spec => []RevokedKeyOpensNothing
<1>1. IndInv => RevokedKeyOpensNothing
  <2> SUFFICES ASSUME IndInv, NEW k \in revoked
               PROVE  /\ k \notin temps
                      /\ tmp # NoFile => tmp.ct.key # k
                      /\ disk # NoFile => disk.ct.key # k
    BY Zenon DEF RevokedKeyOpensNothing
  <2>0. revoked \cap (temps \cup {key, ct.key}) = {}
    BY Zenon DEF IndInv, KeysInv
  <2>1. k \notin temps /\ k # key /\ k # ct.key
    BY <2>0, Zenon
  <2>2. tmp # NoFile => tmp.ct.key = key
    <3> SUFFICES ASSUME tmp # NoFile PROVE tmp.ct.key = key
      BY Zenon
    <3>1. tmp = [aad |-> header, ct |-> seal(key, header.nonce, header, items)]
      BY Zenon DEF IndInv, FilesInv
    <3>2. tmp.ct = seal(key, header.nonce, header, items)
      BY <3>1, Zenon
    <3> QED BY <3>2 DEF seal
  <2>3. disk # NoFile => disk.ct.key = ct.key
    BY Zenon DEF IndInv, FilesInv
  <2> QED
    BY <2>1, <2>2, <2>3, Zenon
<1> QED BY <1>1, Invariance, PTL

-----------------------------------------------------------------------------
(* Searching *)

(* An index has an entry for every item and for nothing else. *)
LEMMA IndexEntries ==
    ASSUME NEW x \in IndexSalts, NEW m \in ItemMap, NEW b \in BOOLEAN
    PROVE  /\ Present(build_index(x, m, b)) = Present(m)
           /\ \A i \in Present(m) :
                build_index(x, m, b)[i].attr_hashes
                   = IF b THEN {x} \X m[i].attrs ELSE {}
<1>1. ASSUME NEW i \in Ids
      PROVE  build_index(x, m, b)[i] = NoItem <=> m[i] = NoItem
  <2>1. build_index(x, m, b)[i]
          = IF m[i] = NoItem THEN NoItem
            ELSE [attr_hashes |-> IF b THEN {x} \X m[i].attrs ELSE {}]
    BY Zenon DEF build_index
  <2>2. CASE m[i] # NoItem
    <3>1. m[i] \in Item
      BY <2>2, Zenon DEF ItemMap
    <3>2. (IF b THEN {x} \X m[i].attrs ELSE {}) \in SUBSET (IndexSalts \X Pairs)
      BY <3>1, Zenon DEF Item
    <3>3. [attr_hashes |-> IF b THEN {x} \X m[i].attrs ELSE {}] \in IndexEntry
      BY <3>2, Zenon DEF IndexEntry
    <3> QED BY <2>1, <2>2, <3>3, ConstantsAssumption, Zenon
  <2> QED BY <2>1, <2>2, Zenon
<1> QED BY <1>1, Zenon DEF Present, build_index

(* An index whose attributes are there exactly when the policy wants some   *)
(* is the index the policy builds.                                          *)
LEMMA Settled ==
    ASSUME NEW x \in IndexSalts, NEW m \in ItemMap, NEW b \in BOOLEAN,
           policy \in BOOLEAN, NEW h, h.index = build_index(x, m, b),
           index_has_attributes(h) <=> WantsAttributes(m)
    PROVE  h.index = build_index(x, m, policy)
<1>1. /\ Present(h.index) = Present(m)
      /\ \A i \in Present(m) :
           h.index[i].attr_hashes = IF b THEN {x} \X m[i].attrs ELSE {}
  BY IndexEntries
<1>2. CASE b = policy
  BY <1>2, Zenon
<1>3. CASE b # policy
  <2>1. \A i \in Present(m) : m[i].attrs = {}
    <3>1. CASE b /\ ~policy
      <4>1. ~index_has_attributes(h)
        BY <3>1, Zenon DEF WantsAttributes
      <4>2. \A i \in Present(m) : {x} \X m[i].attrs = {}
        BY <1>1, <3>1, <4>1, Zenon DEF index_has_attributes
      <4>3. \A i \in Present(m) : \A a \in m[i].attrs : <<x, a>> \in {x} \X m[i].attrs
        BY Zenon
      <4> QED BY <4>2, <4>3, Zenon
    <3>2. CASE ~b /\ policy
      <4>1. ~index_has_attributes(h)
        BY <1>1, <3>2, Zenon DEF index_has_attributes
      <4> QED BY <3>2, <4>1, Zenon DEF WantsAttributes
    <3> QED BY <1>3, <3>1, <3>2
  <2>2. \A i \in Ids : m[i] # NoItem => {x} \X m[i].attrs = {}
    BY <2>1, Zenon DEF Present
  <2> QED BY <2>2, Zenon DEF build_index
<1> QED BY <1>2, <1>3, Zenon

(* A new vault has an empty index. *)
LEMMA InitIndex == Init => IndexInv
<1> SUFFICES ASSUME Init PROVE IndexInv
  BY Zenon
<1>1. aad.index = build_index(aad.isalt, ct.items, TRUE) /\ saved = NoHeader
      /\ ct.items = NoItems /\ policy \in BOOLEAN
  BY DEF Init, seal
<1>2. build_index(aad.isalt, NoItems, TRUE) = build_index(aad.isalt, NoItems, policy)
  BY Zenon DEF build_index, NoItems
<1> QED BY <1>1, <1>2, Zenon DEF IndexInv

(* unlock_with_key, alone or at the start of change_key, finds the index    *)
(* as the policy has it, or rewrites it.                                    *)
LEMMA UnlockedIndex ==
    ASSUME IndInv, IndexInv, task = Idle, ~IndexOutOfDate
    PROVE  aad.index = build_index(aad.isalt, ct.items, policy)
<1>1. PICK b \in BOOLEAN : aad.index = build_index(aad.isalt, ct.items, b)
  BY Zenon DEF IndexInv
<1>2. aad \in Header /\ aad.isalt \in IndexSalts /\ ct.items \in ItemMap
      /\ policy \in BOOLEAN /\ header = aad
  BY Zenon DEF IndInv, TypeOK, Header, Ciphertext, TaskInv, Idle
<1>3. index_has_attributes(aad) <=> WantsAttributes(ct.items)
  BY <1>2, Zenon DEF IndexOutOfDate, index_has_attributes, WantsAttributes
<1> QED BY <1>1, <1>2, <1>3, Settled, Zenon

(* Every step keeps the index in order. *)
LEMMA NextIndex == IndInv /\ IndexInv /\ [Next]_vars => IndexInv'
<1> SUFFICES ASSUME IndInv, IndexInv, [Next]_vars PROVE IndexInv'
  BY Zenon
<1> DEFINE Good == aad.index = build_index(aad.isalt, ct.items, policy)
<1>0. task = Idle => saved = NoHeader /\ task.kind = "idle"
  BY DEF IndInv, TaskInv, Saving, Idle
<1>1. ASSUME UNCHANGED <<aad, ct, policy>>, saved' = NoHeader,
             ~is_locked' /\ ~warning' /\ task'.kind # "rescrub" => Good
      PROVE  IndexInv'
  BY <1>1, Zenon DEF IndexInv, is_locked
<1>2. CASE UNCHANGED vars
  BY <1>2, Zenon DEF vars, IndexInv, is_locked
<1>3. ASSUME NEW k \in Key, unlock_with_key(k) PROVE IndexInv'
  BY <1>0, <1>1, <1>3, UnlockedIndex DEF unlock_with_key, RescrubTask
<1>4. CASE lock
  BY <1>0, <1>1, <1>4, Zenon DEF lock, is_locked
<1>5. ASSUME NEW ids, NEW m, Edit(ids, m) PROVE IndexInv'
  BY <1>0, <1>1, <1>5, Zenon DEF Edit, is_locked, IndexInv
<1>6. ASSUME NEW label \in Labels, set_label(label) PROVE IndexInv'
  BY <1>0, <1>1, <1>6, Zenon DEF set_label, is_locked, IndexInv
<1>7. ASSUME NEW old \in Key, NEW password \in Passwords, NEW salt \in FreshSalts,
             NEW isalt \in IndexSalts, change_key(old, password, salt, isalt)
      PROVE  IndexInv'
  <2>1. task = Idle /\ UNCHANGED <<aad, ct, policy>> /\ saved' = NoHeader
    BY <1>0, <1>7, Zenon DEF change_key
  <2>2. \/ UNCHANGED <<key, warning, task>>
        \/ ~is_locked /\ UNCHANGED warning
        \/ ~IndexOutOfDate
        \/ \E rotation : task' = RescrubTask(rotation)
    BY <1>7, Zenon DEF change_key
  <2>3. \A rotation : RescrubTask(rotation).kind = "rescrub"
    BY Zenon DEF RescrubTask
  <2> QED BY <1>0, <1>1, <2>1, <2>2, <2>3, UnlockedIndex, Zenon DEF IndexInv, is_locked
<1>8. CASE finish_change_key
  <2>1. saved = NoHeader /\ ~is_locked
    BY <1>8, Zenon DEF finish_change_key, IndInv, TaskInv, Saving
  <2>2. UNCHANGED <<aad, ct, policy, warning, saved>> /\ task.kind # "rescrub"
    BY <1>8, Zenon DEF finish_change_key
  <2> QED BY <1>1, <2>1, <2>2, Zenon DEF IndexInv
<1>9. CASE WriteTemp
  <2>1. PICK nonce \in Nonces :
          header' = [header EXCEPT !.nonce = nonce,
                                   !.index = build_index(header.isalt, items, policy)]
    BY <1>9, Zenon DEF WriteTemp
  <2>2. header \in Header /\ saved' = header
        /\ UNCHANGED <<aad, ct, policy, key, warning, task, items>>
    BY <1>9, Zenon DEF WriteTemp, IndInv, TypeOK
  <2>3. header'.label = header.label /\ header'.isalt = header.isalt
        /\ header'.index = build_index(header.isalt, items, policy)
    BY <2>1, <2>2, Zenon DEF Header
  <2> QED BY <2>2, <2>3, Zenon DEF IndexInv, is_locked
<1>10. CASE Save
  <2>1. Published /\ task.kind \in {"edit", "label", "rescrub", "rotate"}
    BY <1>10, Zenon DEF Save
  <2>2. aad' = header /\ ct'.items = items /\ saved' = NoHeader /\ policy' = policy
        /\ policy \in BOOLEAN
    BY <2>1, PublishedFacts DEF seal, Published, IndInv, TypeOK
  <2>3. aad'.index = build_index(aad'.isalt, ct'.items, policy')
    BY <2>1, <2>2, Zenon DEF IndexInv, Published
  <2> QED BY <2>2, <2>3, Zenon DEF IndexInv
<1>11. CASE SaveFails
  <2>1. UNCHANGED <<aad, ct, policy>> /\ saved' = NoHeader
    BY <1>11, Zenon DEF SaveFails, SaveError
  <2>2. \/ warning' = TRUE
        \/ task.kind # "rescrub" /\ task.kind # "idle" /\ UNCHANGED warning
    BY <1>11, Zenon DEF SaveFails
  <2> QED BY <1>1, <2>1, <2>2, Zenon DEF IndexInv, IndInv, TaskInv
<1>12. CASE delete_collection
  BY <1>0, <1>1, <1>12, Zenon DEF delete_collection, is_locked, IndexInv
<1>13. ASSUME NEW enabled \in BOOLEAN, CrashAndOpen(enabled) PROVE IndexInv'
  <2>1. aad' = aad /\ ct' = ct /\ saved' = NoHeader /\ key' = NoKey
    BY <1>13, Zenon DEF CrashAndOpen, IndInv, FilesInv
  <2> QED BY <2>1, Zenon DEF IndexInv, is_locked
<1>14. CASE ForeignSweep
  BY <1>14, Zenon DEF ForeignSweep, memory, IndexInv, is_locked
<1>15. CASE Next
  BY <1>15, <1>3, <1>4, <1>5, <1>6, <1>7, <1>8, <1>9, <1>10, <1>11, <1>12, <1>13,
     <1>14, Zenon
  DEF Next, insert_item, update_item, delete_item, delete_items, import_items
<1> QED BY <1>2, <1>15, Zenon

(* The index stays in order in every reachable state. *)
THEOREM IndexInvariance == Spec => []IndexInv
BY InitIndex, NextIndex, Invariance, PTL DEF Spec

(* Whatever was saved, failed or crashed before: between operations a       *)
(* search of the header lists every item, reports none that does not match, *)
(* and once an unlock has settled the policy finds exactly what it should.  *)
THEOREM SearchAgreesThm == Spec => []SearchAgrees
<1>1. IndInv /\ IndexInv => SearchAgrees
  <2> SUFFICES ASSUME IndInv, IndexInv, task = Idle
               PROVE  /\ search_ids(header, {}) = Present(ct.items)
                      /\ \A query \in (SUBSET Pairs) \ {{}} :
                           LET hits == search_ids(header, query) IN
                           /\ hits \subseteq search(ct.items, query)
                           /\ ~is_locked /\ ~warning =>
                                 hits = IF policy THEN search(items, query) ELSE {}
    BY Zenon DEF SearchAgrees
  <2> DEFINE x == header.isalt
             m == ct.items
  <2>1. /\ header = aad /\ x \in IndexSalts /\ m \in ItemMap /\ policy \in BOOLEAN
        /\ task.kind = "idle" /\ (~is_locked => items = m)
    BY Zenon DEF IndInv, TypeOK, Header, Ciphertext, TaskInv, Idle
  <2>2. PICK b \in BOOLEAN : header.index = build_index(x, m, b)
    BY <2>1, Zenon DEF IndexInv
  <2>3. ~is_locked /\ ~warning => header.index = build_index(x, m, policy)
    BY <2>1, Zenon DEF IndexInv
  <2> HIDE DEF x, m
  <2>4. ASSUME NEW c \in BOOLEAN, header.index = build_index(x, m, c),
               NEW query \in SUBSET Pairs, query # {}
        PROVE  search_ids(header, query) = IF c THEN search(m, query) ELSE {}
    <3>1. /\ Present(header.index) = Present(m)
          /\ \A i \in Present(m) :
               header.index[i].attr_hashes = IF c THEN {x} \X m[i].attrs ELSE {}
      BY <2>1, <2>4, IndexEntries
    <3>2. CASE ~c
      <4>1. ~index_has_attributes(header)
        BY <3>1, <3>2, Zenon DEF index_has_attributes
      <4> QED BY <2>4, <3>2, <4>1, Zenon DEF search_ids
    <3>3. CASE c
      <4>1. ASSUME NEW i \in Present(m)
            PROVE  matches_hashes(header.index[i], {x} \X query) <=> query \subseteq m[i].attrs
        <5>1. PICK q : q \in query
          BY <2>4, Zenon
        <5>2. <<x, q>> \in {x} \X query
          BY <5>1, Zenon
        <5>3. query \subseteq m[i].attrs => {x} \X query \subseteq {x} \X m[i].attrs
          BY Zenon
        <5>4. ASSUME {x} \X query \subseteq {x} \X m[i].attrs, NEW a \in query
              PROVE  a \in m[i].attrs
          <6>1. <<x, a>> \in {x} \X query
            BY Zenon
          <6> QED BY <5>4, <6>1, Zenon
        <5>5. header.index[i].attr_hashes = {x} \X m[i].attrs
          BY <3>1, <3>3, Zenon
        <5> QED BY <5>2, <5>3, <5>4, <5>5, Zenon DEF matches_hashes
      <4>2. ASSUME NEW i \in search(m, query)
            PROVE  index_has_attributes(header)
        <5>1. PICK q : q \in query
          BY <2>4, Zenon
        <5>2. i \in Present(m) /\ q \in m[i].attrs
          BY <5>1, Zenon DEF search
        <5>3. <<x, q>> \in header.index[i].attr_hashes
          BY <3>1, <3>3, <5>2, Zenon
        <5> QED BY <3>1, <5>2, <5>3, Zenon DEF index_has_attributes
      <4>3. CASE index_has_attributes(header)
        BY <2>4, <3>1, <3>3, <4>1, <4>3, Zenon DEF search_ids, search, x
      <4>4. CASE ~index_has_attributes(header)
        BY <2>4, <3>3, <4>2, <4>4, Zenon DEF search_ids
      <4> QED BY <4>3, <4>4, Zenon
    <3> QED BY <3>2, <3>3, Zenon
  <2>5. search_ids(header, {}) = Present(m)
    <3>1. Present(header.index) = Present(m)
      BY <2>1, <2>2, IndexEntries
    <3>2. {x} \X {} = {}
      BY Zenon
    <3> QED BY <3>1, <3>2, Zenon DEF search_ids, matches_hashes, x
  <2>6. ASSUME NEW query \in (SUBSET Pairs) \ {{}}
        PROVE  /\ search_ids(header, query) \subseteq search(m, query)
               /\ ~is_locked /\ ~warning =>
                     search_ids(header, query) = IF policy THEN search(m, query) ELSE {}
    <3>1. query \in SUBSET Pairs /\ query # {}
      BY Zenon
    <3>2. search_ids(header, query) = IF b THEN search(m, query) ELSE {}
      BY <2>2, <2>4, <3>1, Zenon
    <3>3. ~is_locked /\ ~warning =>
            search_ids(header, query) = IF policy THEN search(m, query) ELSE {}
      BY <2>1, <2>3, <2>4, <3>1, Zenon
    <3> QED BY <3>2, <3>3, Zenon
  <2> QED BY <2>1, <2>5, <2>6, Zenon DEF m
<1> QED BY <1>1, Invariance, IndexInvariance, PTL

-----------------------------------------------------------------------------
(* Refinement of DurableVault *)

(* As long as the vault is not retired, the abstract contents are those of  *)
(* the cached file; afterwards they are gone.                               *)
CachedContents ==
    /\ ~retired => /\ AbstractContents = [label |-> aad.label, items |-> ct.items]
                   /\ AbstractContents \in Contents
                   /\ AbstractContents # NoFile
                   /\ disk # NoFile
    /\ retired => AbstractContents = NoFile /\ disk = NoFile
    /\ ct.key \in Key

LEMMA ContentsAre == IndInv => CachedContents
<1> SUFFICES ASSUME IndInv PROVE CachedContents
  OBVIOUS
<1> USE DEF CachedContents
<1>1. aad \in Header /\ ct \in Ciphertext /\ aad.label \in Labels /\ ct.items \in ItemMap
      /\ ct.key \in Key
  BY Zenon DEF IndInv, TypeOK, Header, Ciphertext
<1>2. CASE ~retired
  <2>1. disk = [aad |-> aad, ct |-> ct]
    BY <1>2, Zenon DEF IndInv, FilesInv
  <2>2. disk \in File
    BY <1>1, <2>1, Zenon DEF File
  <2>3. disk # NoFile
    BY <2>2, ConstantsAssumption, Zenon
  <2>4. AbstractContents = [label |-> aad.label, items |-> ct.items]
    BY <2>1, <2>3, Zenon DEF AbstractContents
  <2>5. AbstractContents \in Contents
    BY <1>1, <2>4, Zenon DEF Contents
  <2> QED BY <1>1, <1>2, <2>3, <2>4, <2>5, ConstantsAssumption, Zenon
<1>3. CASE retired
  BY <1>1, <1>3, Zenon DEF IndInv, FilesInv, AbstractContents
<1> QED BY <1>2, <1>3, Zenon

(* Initial states of Vault are initial states of DurableVault. *)
LEMMA DurableInit == Init => Durable!Init
<1> SUFFICES ASSUME Init PROVE Durable!Init
  OBVIOUS
<1>1. IndInv
  BY InitInv, Zenon
<1>2. ~retired /\ task = Idle /\ key = ct.key
  BY DEF Init, seal
<1>3. AbstractOpen = TRUE
  BY <1>1, <1>2, ContentsAre, ConstantsAssumption, Zenon DEF CachedContents, AbstractOpen, Idle, is_locked
<1> QED BY <1>1, <1>2, <1>3, ContentsAre, Zenon DEF CachedContents, Durable!Init

(* A step that leaves the cached file and its retirement alone does not     *)
(* change the abstract contents.                                            *)
LEMMA KeepsContents ==
    ASSUME IndInv, IndInv', ct'.items = ct.items, aad'.label = aad.label,
           retired \in BOOLEAN, retired' = retired
    PROVE  AbstractContents' = AbstractContents
<1>1. CachedContents /\ CachedContents'
  BY ContentsAre, PTL
<1> QED BY <1>1, Zenon DEF CachedContents

(* The lock state a client sees: a rotation in progress shows the one it    *)
(* found.                                                                   *)
ShownOpen ==
    /\ task.kind \in {"idle", "edit", "label"} => AbstractOpen = ~is_locked
    /\ task.kind = "rescrub" => AbstractOpen = (task.rotation = NoRotation)
    /\ task.kind \in {"rotate", "sweep"} => AbstractOpen = ~task.relock

LEMMA OpenIs == ShownOpen
BY Zenon DEF ShownOpen, AbstractOpen

(* The rename is where an operation takes effect: an edit or a new label is *)
(* an update of an open vault, a rotation a change of key, the rewrite of   *)
(* the index nothing at all.                                                *)
LEMMA SaveRefines ==
    ASSUME IndInv, IndInv', IndexInv, Save
    PROVE  Durable!Next \/ UNCHANGED Durable!vars
<1>1. Published /\ task.kind \in {"edit", "label", "rescrub", "rotate"} /\ task \in Task
  BY Zenon DEF Save, IndInv, TypeOK
<1>2. /\ aad' = header /\ ct'.items = items /\ ct'.key = key /\ key \in Key
      /\ ~retired /\ ~retired' /\ header \in Header /\ saved \in Header
      /\ RestoredHeader = saved /\ ~is_locked /\ header.label = saved.label
  BY <1>1, PublishedFacts, ConstantsAssumption
  DEF seal, Published, IndInv, TypeOK, RestoredHeader, is_locked, IndexInv
<1>3. CachedContents /\ CachedContents' /\ ShownOpen /\ ShownOpen'
  BY ContentsAre, OpenIs, PTL
<1>4. /\ AbstractContents = [label |-> aad.label, items |-> ct.items]
      /\ AbstractContents' = [label |-> aad'.label, items |-> ct'.items]
      /\ AbstractContents # NoFile /\ AbstractContents' \in Contents
      /\ ct.key \in Key
  BY <1>2, <1>3, Zenon DEF CachedContents
<1>5. CASE task.kind \in {"edit", "label"}
  <2>1. task' = Idle /\ UNCHANGED key /\ key = ct.key
    BY <1>5, Zenon DEF Save, IndInv, TaskInv
  <2>2. AbstractOpen = TRUE /\ AbstractOpen' = TRUE
    BY <1>2, <1>3, <1>5, <2>1, Zenon DEF ShownOpen, Idle, is_locked
  <2>3. Durable!Update
    BY <1>2, <1>4, <2>1, <2>2, Zenon DEF Durable!Update
  <2> QED BY <2>3, Zenon DEF Durable!Next
<1>6. CASE task.kind = "rescrub"
  <2>1. key = ct.key /\ saved = aad /\ items = ct.items /\ AfterRescrub(header)
    BY <1>2, <1>6, Zenon DEF Save, IndInv, TaskInv
  <2>2. AbstractContents' = AbstractContents /\ ct'.key = ct.key
    BY <1>2, <1>4, <2>1, Zenon
  <2>3. AbstractOpen' = AbstractOpen
    <3>1. CASE task.rotation = NoRotation
      BY <1>2, <1>3, <1>6, <2>1, <3>1 DEF ShownOpen, AfterRescrub, Idle, is_locked
    <3>2. CASE task.rotation # NoRotation
      BY <1>3, <1>6, <2>1, <3>2 DEF ShownOpen, AfterRescrub, InstallNewKey, RotateTask
    <3> QED BY <3>1, <3>2, Zenon
  <2> QED BY <2>2, <2>3, Zenon DEF Durable!vars
<1>7. CASE task.kind = "rotate"
  <2>1. /\ [saved EXCEPT !.salt = task.salt, !.isalt = task.isalt] = aad
        /\ task.key = ct.key /\ items = ct.items /\ key # task.key
        /\ task' = SweepTask(task.key, task.relock)
    BY <1>2, <1>7, Zenon DEF Save, IndInv, TaskInv, KeysInv
  <2>2. aad.label = saved.label
    BY <1>2, <2>1, Zenon DEF Header
  <2>3. AbstractContents' = AbstractContents /\ ct'.key \in Key \ {ct.key}
    BY <1>2, <1>4, <2>1, <2>2, Zenon
  <2>4. AbstractOpen' = AbstractOpen
    BY <1>3, <1>7, <2>1 DEF ShownOpen, SweepTask
  <2>5. Durable!Rekey
    BY <1>4, <2>3, <2>4, Zenon DEF Durable!Rekey
  <2> QED BY <2>5, Zenon DEF Durable!Next
<1> QED BY <1>1, <1>5, <1>6, <1>7, Zenon

(* change_key shows nothing until its save: a vault found locked is shown   *)
(* locked.                                                                  *)
LEMMA ChangeKeyRefines ==
    ASSUME IndInv, NEW old \in Key, NEW password \in Passwords,
           NEW salt \in FreshSalts, NEW isalt \in IndexSalts,
           change_key(old, password, salt, isalt)
    PROVE  AbstractOpen' = AbstractOpen
<1> DEFINE rotation == Rotation(salt, isalt, derive_key(password, salt))
<1>1. rotation.kind = "rotation"
  BY Zenon DEF Rotation
<1>2. rotation # NoRotation
  BY <1>1 DEF NoRotation
<1>3. ShownOpen /\ ShownOpen'
  BY OpenIs, PTL
<1>4. \/ UNCHANGED <<key, task>>
      \/ ~is_locked /\ InstallNewKey(header, rotation, old, FALSE)
      \/ is_locked /\ task' = RescrubTask(rotation)
      \/ is_locked /\ InstallNewKey(header, rotation, old, TRUE)
  BY Zenon DEF change_key, Decrypts
<1>5. task.kind = "idle" /\ AbstractOpen = ~is_locked
  BY <1>3, Zenon DEF change_key, Idle, ShownOpen
<1> HIDE DEF rotation
<1>6. CASE UNCHANGED <<key, task>>
  BY <1>3, <1>5, <1>6, Zenon DEF ShownOpen, is_locked
<1>7. ASSUME NEW relock \in BOOLEAN, InstallNewKey(header, rotation, old, relock)
      PROVE  AbstractOpen' = ~relock
  <2>1. task'.kind = "rotate" /\ task'.relock = relock
    BY <1>7, Zenon DEF InstallNewKey, RotateTask
  <2> QED BY <1>3, <2>1, Zenon DEF ShownOpen
<1>8. CASE task' = RescrubTask(rotation)
  <2>1. task'.kind = "rescrub" /\ task'.rotation = rotation
    BY <1>8, Zenon DEF RescrubTask
  <2> QED BY <1>2, <1>3, <1>4, <1>5, <1>7, <2>1, Zenon DEF ShownOpen
<1> QED BY <1>4, <1>5, <1>6, <1>7, <1>8, Zenon

(* Every step of Vault is a step of DurableVault or changes nothing of it.  *)
LEMMA DurableStep ==
    IndInv /\ IndInv' /\ IndexInv /\ [Next]_vars => [Durable!Next]_(Durable!vars)
<1> SUFFICES ASSUME IndInv, IndInv', IndexInv, [Next]_vars
             PROVE  Durable!Next \/ UNCHANGED Durable!vars
  BY Zenon
<1>0. /\ CachedContents /\ CachedContents' /\ ShownOpen /\ ShownOpen'
      /\ retired \in BOOLEAN /\ (task = Idle => task.kind = "idle")
  <2>1. CachedContents /\ CachedContents' /\ ShownOpen /\ ShownOpen'
    BY ContentsAre, OpenIs, PTL
  <2> QED BY <2>1 DEF IndInv, TypeOK, Idle
<1>1. ASSUME ct' = ct, aad' = aad, retired' = retired, AbstractOpen' = AbstractOpen
      PROVE  UNCHANGED Durable!vars
  BY <1>0, <1>1, KeepsContents, Zenon DEF Durable!vars
<1>2. CASE UNCHANGED vars
  <2>1. AbstractOpen' = AbstractOpen
    BY <1>2, Zenon DEF vars, AbstractOpen, is_locked
  <2> QED BY <1>1, <1>2, <2>1, Zenon DEF vars
<1>3. ASSUME NEW k \in Key, unlock_with_key(k) PROVE Durable!Next
  <2>1. ct' = ct /\ aad' = aad /\ retired' = retired /\ ~retired /\ k = ct.key
        /\ key' = k /\ (task' = RescrubTask(NoRotation) \/ task' = Idle)
    BY <1>3, Zenon DEF unlock_with_key, Decrypts, Opens
  <2>2. AbstractOpen' = TRUE
    <3>1. CASE task' = RescrubTask(NoRotation)
      BY <1>0, <3>1, Zenon DEF ShownOpen, RescrubTask
    <3>2. CASE task' = Idle
      BY <1>0, <2>1, <3>2, ConstantsAssumption, Zenon DEF ShownOpen, Idle, is_locked
    <3> QED BY <2>1, <3>1, <3>2, Zenon
  <2>3. AbstractContents' = AbstractContents /\ AbstractContents # NoFile
    BY <1>0, <2>1, KeepsContents, Zenon DEF CachedContents
  <2>4. Durable!Unlock(k)
    BY <2>1, <2>2, <2>3, Zenon DEF Durable!Unlock
  <2> QED BY <2>4, Zenon DEF Durable!Next
<1>4. ASSUME ct' = ct, aad' = aad, retired' = retired, task' = Idle, key' = NoKey
      PROVE  Durable!Next
  <2>1. AbstractOpen' = FALSE
    BY <1>0, <1>4, Zenon DEF ShownOpen, Idle, is_locked
  <2>2. AbstractContents' = AbstractContents
    BY <1>0, <1>4, KeepsContents, Zenon
  <2>3. Durable!Lock
    BY <1>4, <2>1, <2>2, Zenon DEF Durable!Lock
  <2> QED BY <2>3, Zenon DEF Durable!Next
<1>5. CASE lock
  BY <1>4, <1>5, Zenon DEF lock
<1>6. ASSUME NEW ids, NEW m, Edit(ids, m) PROVE UNCHANGED Durable!vars
  <2>1. task'.kind = "edit" /\ task.kind = "idle" /\ key' = key
    BY <1>0, <1>6, Zenon DEF Edit, EditTask
  <2> QED BY <1>0, <1>1, <1>6, <2>1, Zenon DEF Edit, ShownOpen, is_locked
<1>7. ASSUME NEW label \in Labels, set_label(label) PROVE UNCHANGED Durable!vars
  <2>1. task'.kind = "label" /\ task.kind = "idle" /\ key' = key
    BY <1>0, <1>7, Zenon DEF set_label, LabelTask
  <2> QED BY <1>0, <1>1, <1>7, <2>1, Zenon DEF set_label, ShownOpen, is_locked
<1>8. ASSUME NEW old \in Key, NEW password \in Passwords, NEW salt \in FreshSalts,
             NEW isalt \in IndexSalts, change_key(old, password, salt, isalt)
      PROVE  UNCHANGED Durable!vars
  BY <1>1, <1>8, ChangeKeyRefines, Zenon DEF change_key
<1>9. CASE finish_change_key
  <2>1. /\ task.kind = "sweep" /\ task \in Task /\ key \in Key
        /\ task'.kind = "idle" /\ key' = IF task.relock THEN NoKey ELSE key
    BY <1>9, Zenon DEF finish_change_key, IndInv, TypeOK, TaskInv, is_locked, Idle
  <2>2. task.relock \in BOOLEAN
    BY <2>1, RotationTaskFields, Zenon
  <2>3. AbstractOpen' = AbstractOpen
    BY <1>0, <2>1, <2>2, ConstantsAssumption DEF ShownOpen, is_locked
  <2> QED BY <1>1, <1>9, <2>3, Zenon DEF finish_change_key
<1>10. CASE WriteTemp
  <2>1. AbstractOpen' = AbstractOpen
    BY <1>10, Zenon DEF WriteTemp, AbstractOpen, is_locked
  <2> QED BY <1>1, <1>10, <2>1, Zenon DEF WriteTemp
<1>11. CASE Save
  BY <1>11, SaveRefines, Zenon
<1>12. CASE SaveFails
  <2>1. ct' = ct /\ aad' = aad /\ retired' = retired /\ task \in Task
        /\ (task.kind # "idle" => key # NoKey)
    BY <1>12, Zenon DEF SaveFails, SaveError, IndInv, TypeOK, TaskInv, is_locked
  <2>2. CASE task.kind \in {"edit", "label"} /\ task' = Idle /\ UNCHANGED key
    BY <1>0, <1>1, <2>1, <2>2, Zenon DEF ShownOpen, Idle, is_locked
  <2>3. CASE task.kind = "rescrub" /\ AfterRescrub(RestoredHeader)
    <3>1. CASE task.rotation = NoRotation
      BY <1>0, <1>1, <2>1, <2>3, <3>1 DEF ShownOpen, AfterRescrub, Idle, is_locked
    <3>2. CASE task.rotation # NoRotation
      BY <1>0, <1>1, <2>1, <2>3, <3>2 DEF ShownOpen, AfterRescrub, InstallNewKey, RotateTask
    <3> QED BY <3>1, <3>2, Zenon
  <2>4. CASE /\ task.kind = "rotate" /\ task' = Idle
             /\ key' = IF task.relock THEN NoKey ELSE task.key
    <3>1. task.key \in Key /\ task.relock \in BOOLEAN
      BY <2>1, <2>4, RotationTaskFields, Zenon
    <3> QED BY <1>0, <1>1, <2>1, <2>4, <3>1, ConstantsAssumption, Zenon DEF ShownOpen, Idle, is_locked
  <2> QED BY <1>12, <2>2, <2>3, <2>4, Zenon DEF SaveFails
<1>13. CASE delete_collection
  <2>1. /\ task.kind = "idle" /\ ~is_locked /\ retired' = TRUE
        /\ ct' = ct /\ task' = task /\ key' = key
    BY <1>0, <1>13, Zenon DEF delete_collection
  <2>2. AbstractOpen = TRUE /\ AbstractOpen' = TRUE
    BY <1>0, <2>1, Zenon DEF ShownOpen, is_locked
  <2>3. Durable!Delete
    BY <1>0, <2>1, <2>2, Zenon DEF Durable!Delete, CachedContents
  <2> QED BY <2>3, Zenon DEF Durable!Next
<1>14. ASSUME NEW enabled \in BOOLEAN, CrashAndOpen(enabled) PROVE Durable!Next
  <2>1. ~retired /\ disk = [aad |-> aad, ct |-> ct]
    BY <1>14, Zenon DEF CrashAndOpen, IndInv, TypeOK, FilesInv
  <2> QED BY <1>4, <1>14, <2>1, Zenon DEF CrashAndOpen, IndInv, TypeOK
<1>15. CASE ForeignSweep
  <2>1. AbstractOpen' = AbstractOpen
    BY <1>15, Zenon DEF ForeignSweep, memory, AbstractOpen, is_locked
  <2> QED BY <1>1, <1>15, <2>1, Zenon DEF ForeignSweep, memory
<1>16. CASE Next
  BY <1>16, <1>3, <1>5, <1>6, <1>7, <1>8, <1>9, <1>10, <1>11, <1>12, <1>13, <1>14,
     <1>15, Zenon
  DEF Next, insert_item, update_item, delete_item, delete_items, import_items
<1> QED BY <1>2, <1>16, Zenon

(* The vault, with its files, headers, roll-backs, crashes and sweeps,      *)
(* implements a collection whose operations take effect in one step, only   *)
(* while it is open, and survive what happens to the process.               *)
THEOREM ImplementsDurableThm == Spec => ImplementsDurable
BY DurableInit, DurableStep, Invariance, IndexInvariance, PTL
DEF Spec, ImplementsDurable, Durable!Spec
=============================================================================
