------------------------------- MODULE Vault -------------------------------
(***************************************************************************)
(* One collection of the daemon and its file: src/src/vault/store.rs.      *)
(*                                                                         *)
(* Every method of the Rust type Vault runs under the collection's mutex,  *)
(* so two operations on one vault never overlap.  What does overlap with   *)
(* them is the rest of the machine: the process can die between the write  *)
(* of the temporary file and the rename that publishes it, a system call   *)
(* can fail, and the key rotation of another collection sweeps temporary   *)
(* files out of the shared directory.  An operation is therefore a short   *)
(* sequence of steps: the edit of the in-memory state, the temporary file, *)
(* the rename, and the commit or the roll-back.                            *)
(*                                                                         *)
(* Cryptography is symbolic.  A key is the pair (password, salt) it was    *)
(* derived from, a ciphertext records what it was sealed with and opens    *)
(* with exactly that, an index hash is the pair (index salt, attribute).   *)
(* The order of the items in the list is modelled in module ItemList.      *)
(***************************************************************************)
EXTENDS Naturals, FiniteSets

CONSTANTS
    Ids,          \* item ids; a new item draws one that is not in use
    Pairs,        \* attributes, each a (name, value) pair
    Bodies,       \* the rest of an item: label, secret, content type, times
    Labels,       \* collection labels
    Passwords,
    Salts,        \* KDF salt together with its parameters
    IndexSalts,   \* the salt of the attribute index
    Nonces,       \* AEAD nonces
    SizeLimit,    \* MAX_VAULT_BYTES, counted in items
    NoItem, NoKey, NoFile, NoHeader

VARIABLES
    disk,      \* the published file, or NoFile once it was deleted
    tmp,       \* the temporary file of the save in progress, or NoFile
    temps,     \* keys that open a temporary file some earlier save left behind
    header,    \* Vault.header
    aad,       \* Vault.aad: the header bytes the ciphertext is bound to
    ct,        \* Vault.ciphertext
    key,       \* the key in State::Unlocked, or NoKey for State::Locked
    items,     \* the items in State::Unlocked; none when locked
    policy,    \* Vault.index_attributes
    warning,   \* Vault.index_warning is set
    retired,   \* Vault.retired
    task,      \* what the operation holding the mutex still has to do
    saved,     \* saved_header: what save_with rolls back to once it has
               \* changed the header; NoHeader outside it
    revoked    \* history: old keys of the rotations that returned Ok

vars == <<disk, tmp, temps, header, aad, ct, key, items, policy, warning,
          retired, task, saved, revoked>>

memory == <<header, aad, ct, key, items, policy, warning, retired>>

-----------------------------------------------------------------------------
(* Data *)

Item == [attrs : SUBSET Pairs, body : Bodies]
ItemMap == [Ids -> Item \cup {NoItem}]
IndexEntry == [attr_hashes : SUBSET (IndexSalts \X Pairs)]
Index == [Ids -> IndexEntry \cup {NoItem}]
Header == [label : Labels, salt : Salts, isalt : IndexSalts,
           nonce : Nonces, index : Index]
Key == Passwords \X Salts
Ciphertext == [key : Key, nonce : Nonces, aad : Header, items : ItemMap]
File == [aad : Header, ct : Ciphertext]
Contents == [label : Labels, items : ItemMap]

ASSUME ConstantsAssumption ==
    /\ IsFiniteSet(Ids)
    /\ SizeLimit \in Nat
    /\ Labels # {} /\ Salts # {} /\ IndexSalts # {} /\ Nonces # {}
    /\ NoItem \notin Item
    /\ NoItem \notin IndexEntry
    /\ NoKey \notin Key
    /\ NoFile \notin File \cup Contents
    /\ NoHeader \notin Header

NoItems == [i \in Ids |-> NoItem]
Present(m) == {i \in Ids : m[i] # NoItem}

derive_key(password, salt) == <<password, salt>>

seal(k, nonce, a, plain) ==
    [key |-> k, nonce |-> nonce, aad |-> a, items |-> plain]

(* crypto::open succeeds: right key, right nonce, the header it is bound to. *)
Opens(k, nonce, a, c) == c.key = k /\ c.nonce = nonce /\ c.aad = a

build_index(isalt, m, with_attributes) ==
    [i \in Ids |->
        IF m[i] = NoItem THEN NoItem
        ELSE [attr_hashes |-> IF with_attributes THEN {isalt} \X m[i].attrs
                              ELSE {}]]

index_has_attributes(h) == 
    \E i \in Present(h.index) : h.index[i].attr_hashes # {}

WantsAttributes(m) == policy /\ \E i \in Present(m) : m[i].attrs # {}

matches_hashes(entry, hashes) ==
    hashes = {} \/ (entry.attr_hashes # {} /\ hashes \subseteq entry.attr_hashes)

(* Vault::search_ids: what a search answers from the header alone. *)
search_ids(h, query) ==
    IF query # {} /\ ~index_has_attributes(h) THEN {}
    ELSE {i \in Present(h.index) :
             matches_hashes(h.index[i], {h.isalt} \X query)}

(* Vault::search: what a search answers from the decrypted items. *)
search(m, query) == {i \in Present(m) : query \subseteq m[i].attrs}

(* check_vault_size_against: the same limit is applied when a file is saved *)
(* and when it is opened.                                                   *)
FitsLimit(m) == Cardinality(Present(m)) <= SizeLimit

is_locked == key = NoKey

-----------------------------------------------------------------------------
(* Tasks: the code after the point an operation has reached. *)

Idle == [kind |-> "idle"]

(* An edit of the items, with the delta restore_delta or truncate_items     *)
(* undoes it by: the ids touched and what each held before.                 *)
EditTask(ids) ==
    [kind |-> "edit", ids |-> ids,
     prior |-> [i \in Ids |-> IF i \in ids THEN items[i] ELSE NoItem]]

LabelTask(old) == [kind |-> "label", label |-> old]

NoRotation == [kind |-> "none"]
Rotation(salt, isalt, k) ==
    [kind |-> "rotation", salt |-> salt, isalt |-> isalt, key |-> k]

(* The save unlock_with_key makes when the index does not follow the        *)
(* policy, and the rotation that goes on after it, if the unlock was the    *)
(* one change_key makes.                                                    *)
RescrubTask(rotation) == [kind |-> "rescrub", rotation |-> rotation]

(* change_key: old_salt (with old_kdf), old_index_salt, old_key, was_locked. *)
RotateTask(salt, isalt, k, relock) ==
    [kind |-> "rotate", salt |-> salt, isalt |-> isalt, key |-> k,
     relock |-> relock]

(* change_key after its save succeeded: the second sweep is outstanding. *)
SweepTask(old, relock) == [kind |-> "sweep", key |-> old, relock |-> relock]

RotationSpace ==
    [kind : {"rotation"}, salt : Salts, isalt : IndexSalts, key : Key]

Task ==
    {Idle}
    \cup [kind : {"edit"}, ids : SUBSET Ids, prior : ItemMap]
    \cup [kind : {"label"}, label : Labels]
    \cup [kind : {"rescrub"}, rotation : RotationSpace \cup {NoRotation}]
    \cup [kind : {"rotate"}, salt : Salts, isalt : IndexSalts, key : Key,
          relock : BOOLEAN]
    \cup [kind : {"sweep"}, key : Key, relock : BOOLEAN]

Saving == task.kind \in {"edit", "label", "rescrub", "rotate"}

-----------------------------------------------------------------------------
(* Initial states: a collection Vault::create has just published. *)

Init ==
    \E password \in Passwords, salt \in Salts, isalt \in IndexSalts,
       nonce \in Nonces, label \in Labels, enabled \in BOOLEAN :
        LET h == [label |-> label, salt |-> salt, isalt |-> isalt,
                  nonce |-> nonce, index |-> build_index(isalt, NoItems, TRUE)]
            k == derive_key(password, salt)
            c == seal(k, nonce, h, NoItems)
        IN  /\ header = h /\ aad = h /\ ct = c
            /\ disk = [aad |-> h, ct |-> c]
            /\ tmp = NoFile /\ temps = {}
            /\ key = k /\ items = NoItems
            /\ policy = enabled /\ warning = FALSE /\ retired = FALSE
            /\ task = Idle /\ saved = NoHeader /\ revoked = {}

-----------------------------------------------------------------------------
(* Operations: the step each one takes before it calls save. *)

Decrypts(k) == ~retired /\ is_locked /\ Opens(k, header.nonce, aad, ct)

(* Variant: unlock leaves an index of the other policy in place. *)
IndexNeverOutOfDate == FALSE

(* What unlock_with_key compares once it has the items: the index holds     *)
(* attributes exactly when the policy would put some there.                 *)
IndexOutOfDate == index_has_attributes(header) # WantsAttributes(ct.items)

(* A vault that is unlocked already only has the key verified, which        *)
(* changes nothing.                                                         *)
unlock_with_key(k) ==
    /\ task = Idle
    /\ Decrypts(k)
    /\ key' = k
    /\ items' = ct.items
    /\ IF IndexOutOfDate
       THEN task' = RescrubTask(NoRotation) /\ UNCHANGED warning
       ELSE task' = Idle /\ warning' = FALSE
    /\ UNCHANGED <<disk, tmp, temps, header, aad, ct, policy, retired, saved,
                   revoked>>

lock ==
    /\ task = Idle
    /\ key' = NoKey
    /\ items' = NoItems
    /\ UNCHANGED <<disk, tmp, temps, header, aad, ct, policy, warning,
                   retired, task, saved, revoked>>

(* The common part of the item operations: memory holds `m` and the save is *)
(* outstanding, with the delta over `ids` recorded.                         *)
Edit(ids, m) ==
    /\ task = Idle
    /\ ~is_locked
    /\ task' = EditTask(ids)
    /\ items' = m
    /\ UNCHANGED <<disk, tmp, temps, header, aad, ct, key, policy, warning,
                   retired, saved, revoked>>

(* replace: an item with exactly these attributes keeps its id and gets the *)
(* new body; without one, or without replace, an item is pushed.            *)
insert_item(attrs, body, replace) ==
    LET same == {i \in Present(items) : items[i].attrs = attrs} IN
    \/ /\ replace
       /\ \E i \in same : Edit({i}, [items EXCEPT ![i].body = body])
    \/ /\ ~replace \/ same = {}
       /\ \E i \in Ids \ Present(items) :
             Edit({i}, [items EXCEPT ![i] = [attrs |-> attrs, body |-> body]])

update_item(i, item) ==
    /\ i \in Present(items)
    /\ Edit({i}, [items EXCEPT ![i] = item])

delete_item(i) ==
    /\ i \in Present(items)
    /\ Edit({i}, [items EXCEPT ![i] = NoItem])

delete_items(ids) ==
    /\ ids # {}
    /\ ids \subseteq Present(items)
    /\ Edit(ids, [i \in Ids |-> IF i \in ids THEN NoItem ELSE items[i]])

import_items(batch) ==
    /\ Present(batch) # {}
    /\ Present(batch) \cap Present(items) = {}
    /\ Edit(Present(batch),
            [i \in Ids |-> IF i \in Present(batch) THEN batch[i] ELSE items[i]])

set_label(label) ==
    /\ task = Idle
    /\ ~is_locked
    /\ task' = LabelTask(header.label)
    /\ header' = [header EXCEPT !.label = label]
    /\ UNCHANGED <<disk, tmp, temps, aad, ct, key, items, policy, warning,
                   retired, saved, revoked>>

-----------------------------------------------------------------------------
(* change_key.  Both sweeps empty the directory of temporary files.         *)

(* From header `h` with the vault unlocked under `old`: the new salts and   *)
(* the new key are in place and the save is outstanding.                    *)
InstallNewKey(h, rotation, old, relock) ==
    /\ header' = [h EXCEPT !.salt = rotation.salt, !.isalt = rotation.isalt]
    /\ key' = rotation.key
    /\ task' = RotateTask(h.salt, h.isalt, old, relock)

change_key(old, password, salt, isalt) ==
    LET rotation == Rotation(salt, isalt, derive_key(password, salt)) IN
    /\ task = Idle
    /\ salt # header.salt
    /\ temps' = {}
    /\ \/ /\ IF is_locked THEN ~Decrypts(old) ELSE key # old
          /\ UNCHANGED <<header, key, items, warning, task>>
       \/ /\ ~is_locked /\ key = old
          /\ InstallNewKey(header, rotation, old, FALSE)
          /\ UNCHANGED <<items, warning>>
       \/ /\ Decrypts(old)
          /\ items' = ct.items
          /\ IF IndexOutOfDate
             THEN /\ key' = old
                  /\ task' = RescrubTask(rotation)
                  /\ UNCHANGED <<header, warning>>
             ELSE /\ InstallNewKey(header, rotation, old, TRUE)
                  /\ warning' = FALSE
    /\ UNCHANGED <<disk, tmp, aad, ct, policy, retired, saved, revoked>>

(* Variant: without the second sweep. *)
FinishWithoutSweep ==
    /\ task.kind = "sweep"
    /\ revoked' = revoked \cup {task.key}
    /\ key' = IF task.relock THEN NoKey ELSE key
    /\ items' = IF task.relock THEN NoItems ELSE items
    /\ task' = Idle
    /\ UNCHANGED <<disk, tmp, temps, header, aad, ct, policy, warning, retired, saved>>

(* After the rotated file is published: sweep again, and lock the vault if  *)
(* it was locked on entry.                                                  *)
finish_change_key ==
    /\ task.kind = "sweep"
    /\ temps' = {}
    /\ revoked' = revoked \cup {task.key}
    /\ key' = IF task.relock THEN NoKey ELSE key
    /\ items' = IF task.relock THEN NoItems ELSE items
    /\ task' = Idle
    /\ UNCHANGED <<disk, tmp, header, aad, ct, policy, warning, retired, saved>>

-----------------------------------------------------------------------------
(* save_with *)

(* Variant: the size limit is not checked before the file is written. *)
WriteAnySize ==
    /\ Saving
    /\ saved = NoHeader
    /\ ~retired
    /\ \E nonce \in Nonces \ {header.nonce} :
         LET h == [header EXCEPT !.nonce = nonce,
                                 !.index = build_index(header.isalt, items, policy)]
         IN  header' = h /\ tmp' = [aad |-> h, ct |-> seal(key, nonce, h, items)]
    /\ saved' = header
    /\ UNCHANGED <<disk, temps, aad, ct, key, items, policy, warning, retired,
                   task, revoked>>

(* Everything up to write_atomic's fsync.  The nonce is drawn at random.    *)
WriteTemp ==
    /\ Saving
    /\ saved = NoHeader
    /\ ~retired
    /\ FitsLimit(items)
    /\ \E nonce \in Nonces \ {header.nonce} :
         LET h == [header EXCEPT !.nonce = nonce,
                                 !.index = build_index(header.isalt, items, policy)]
         IN  /\ header' = h
             /\ tmp' = [aad |-> h, ct |-> seal(key, nonce, h, items)]
    /\ saved' = header
    /\ UNCHANGED <<disk, temps, aad, ct, key, items, policy, warning, retired,
                   task, revoked>>

(* The rename and the commit of the cached bytes. *)
Published ==
    /\ saved # NoHeader
    /\ tmp # NoFile
    /\ disk' = tmp
    /\ tmp' = NoFile
    /\ aad' = tmp.aad
    /\ ct' = tmp.ct
    /\ saved' = NoHeader
    /\ UNCHANGED <<temps, policy, retired, revoked>>

(* After the save inside change_key's unlock, change_key goes on. *)
AfterRescrub(h) ==
    IF task.rotation = NoRotation
    THEN header' = h /\ task' = Idle /\ UNCHANGED key
    ELSE InstallNewKey(h, task.rotation, key, TRUE)

Save ==
    /\ Published
    /\ \/ /\ task.kind \in {"edit", "label"}
          /\ task' = Idle
          /\ UNCHANGED <<header, key, items, warning>>
       \/ /\ task.kind = "rescrub"
          /\ warning' = FALSE
          /\ AfterRescrub(header)
          /\ UNCHANGED items
       \/ /\ task.kind = "rotate"
          /\ task' = SweepTask(task.key, task.relock)
          /\ UNCHANGED <<header, key, items, warning>>

(* save_with fails: before it changed the header (saved = NoHeader), or     *)
(* after.  The live temporary file is removed if the unlink succeeds.       *)
SaveError ==
    /\ tmp' = NoFile
    /\ temps' \in {temps, temps \cup (IF tmp = NoFile THEN {} ELSE {tmp.ct.key})}
    /\ saved' = NoHeader
    /\ UNCHANGED <<disk, aad, ct, policy, retired, revoked>>

RestoredHeader == IF saved = NoHeader THEN header ELSE saved

RestoredItems ==
    [i \in Ids |-> IF i \in task.ids THEN task.prior[i] ELSE items[i]]

SaveFails ==
    /\ SaveError
    /\ \/ /\ task.kind = "edit"
          /\ header' = RestoredHeader
          /\ items' = RestoredItems
          /\ task' = Idle
          /\ UNCHANGED <<key, warning>>
       \/ /\ task.kind = "label"
          /\ header' = [RestoredHeader EXCEPT !.label = task.label]
          /\ task' = Idle
          /\ UNCHANGED <<key, items, warning>>
       \/ /\ task.kind = "rescrub"
          /\ warning' = TRUE
          /\ AfterRescrub(RestoredHeader)
          /\ UNCHANGED items
       \/ /\ task.kind = "rotate"
          /\ header' = [RestoredHeader EXCEPT !.salt = task.salt, !.isalt = task.isalt]
          /\ key' = IF task.relock THEN NoKey ELSE task.key
          /\ items' = IF task.relock THEN NoItems ELSE items
          /\ task' = Idle
          /\ UNCHANGED warning

-----------------------------------------------------------------------------
(* The file goes away, the process dies, the directory is swept. *)

(* Variants: the vault is not retired; a locked vault is deleted too. *)
DeleteWithoutRetire ==
    /\ task = Idle
    /\ ~is_locked
    /\ disk # NoFile
    /\ disk' = NoFile
    /\ UNCHANGED <<tmp, temps, header, aad, ct, key, items, policy, warning,
                   retired, task, saved, revoked>>

DeleteLocked ==
    /\ task = Idle
    /\ disk # NoFile
    /\ retired' = TRUE
    /\ disk' = NoFile
    /\ UNCHANGED <<tmp, temps, header, aad, ct, key, items, policy, warning,
                   task, saved, revoked>>

(* delete_collection in dbus/prompt.rs, under the collection's lock: retire *)
(* and unlink.  A failed unlink un-retires, which changes nothing.          *)
delete_collection ==
    /\ task = Idle
    /\ ~is_locked
    /\ disk # NoFile
    /\ retired' = TRUE
    /\ disk' = NoFile
    /\ UNCHANGED <<tmp, temps, header, aad, ct, key, items, policy, warning,
                   task, saved, revoked>>

(* The process dies at any point and the daemon is started again: Vault::open *)
(* reads the file, and the start-up sweep removes the temporary files that    *)
(* are older than STALE_TEMP_AGE.                                             *)
CrashAndOpen(enabled) ==
    /\ disk # NoFile
    /\ FitsLimit(disk.ct.items)
    /\ temps' \in SUBSET (temps \cup (IF tmp = NoFile THEN {} ELSE {tmp.ct.key}))
    /\ tmp' = NoFile
    /\ header' = disk.aad /\ aad' = disk.aad /\ ct' = disk.ct
    /\ key' = NoKey /\ items' = NoItems
    /\ policy' = enabled /\ warning' = FALSE /\ retired' = FALSE
    /\ task' = Idle /\ saved' = NoHeader
    /\ UNCHANGED <<disk, revoked>>

(* change_key of another collection sweeps the directory this vault is in. *)
ForeignSweep ==
    /\ tmp' = NoFile
    /\ temps' = {}
    /\ UNCHANGED <<disk, memory, task, saved, revoked>>

-----------------------------------------------------------------------------
(* A salt drawn at random is not the salt of a key that was rotated away. *)
FreshSalts == {s \in Salts : \A k \in revoked : k[2] # s}

Next ==
    \/ \E k \in Key : unlock_with_key(k)
    \/ lock
    \/ \E attrs \in SUBSET Pairs, body \in Bodies, replace \in BOOLEAN :
          insert_item(attrs, body, replace)
    \/ \E i \in Ids, item \in Item : update_item(i, item)
    \/ \E i \in Ids : delete_item(i)
    \/ \E ids \in SUBSET Ids : delete_items(ids)
    \/ \E batch \in ItemMap : import_items(batch)
    \/ \E label \in Labels : set_label(label)
    \/ \E old \in Key, password \in Passwords, salt \in FreshSalts,
          isalt \in IndexSalts \ {header.isalt} :
          change_key(old, password, salt, isalt)
    \/ finish_change_key
    \/ WriteTemp
    \/ Save
    \/ SaveFails
    \/ delete_collection
    \/ \E enabled \in BOOLEAN : CrashAndOpen(enabled)
    \/ ForeignSweep

Spec == Init /\ [][Next]_vars

-----------------------------------------------------------------------------
(* Properties *)

(* Every variable stays in its domain; in particular each task is one of    *)
(* the operations that call save, or the tail of change_key.                *)
TypeOK ==
    /\ disk \in File \cup {NoFile}
    /\ tmp \in File \cup {NoFile}
    /\ temps \subseteq Key
    /\ header \in Header
    /\ aad \in Header
    /\ ct \in Ciphertext
    /\ key \in Key \cup {NoKey}
    /\ items \in ItemMap
    /\ policy \in BOOLEAN
    /\ warning \in BOOLEAN
    /\ retired \in BOOLEAN
    /\ task \in Task
    /\ saved \in Header \cup {NoHeader}
    /\ revoked \subseteq Key

(* A file whose header matches its ciphertext, whose recorded salt derives  *)
(* the key that opens it, and which open() does not refuse for its size.    *)
WellFormed(file) ==
    /\ Opens(file.ct.key, file.aad.nonce, file.aad, file.ct)
    /\ file.ct.key[2] = file.aad.salt
    /\ FitsLimit(file.ct.items)

(* Whatever save was cut short by a crash, whatever failed, the published   *)
(* file is a complete vault that the next start of the daemon opens and     *)
(* the right password decrypts (save_with: temp, fsync, rename; size limit  *)
(* checked before the rename).                                              *)
FileAlwaysOpens == disk # NoFile => WellFormed(disk)

(* Between operations the cached header, aad and ciphertext belong          *)
(* together and hold what the unlocked state shows, so lock() followed by   *)
(* unlock with the same key always succeeds and returns the same items.     *)
(* The roll-backs in save_with, restore_delta, set_label and change_key     *)
(* exist for this ("a later lock()+unlock() would fail decryption           *)
(* permanently").                                                           *)
Reopenable ==
    task = Idle =>
        /\ header = aad
        /\ WellFormed([aad |-> aad, ct |-> ct])
        /\ ~is_locked => key = ct.key /\ items = ct.items

(* Between operations memory and the published file agree, so a failed      *)
(* operation has left no trace in either and a successful one is in both.   *)
MemoryIsDisk ==
    task = Idle /\ ~retired => disk = [aad |-> aad, ct |-> ct]

(* Once change_key has returned Ok, the old key opens neither the vault nor *)
(* any temporary copy of it in the directory, now or later.                 *)
RevokedKeyOpensNothing ==
    \A k \in revoked :
        /\ k \notin temps
        /\ tmp # NoFile => tmp.ct.key # k
        /\ disk # NoFile => disk.ct.key # k

(* Searching the header index, which needs no unlock, agrees with searching *)
(* the decrypted items: it lists every item, it never reports an item that  *)
(* does not match, and once an unlock has settled the index policy without  *)
(* a warning it finds every match, or none if the policy hides attributes.  *)
SearchAgrees ==
    task = Idle =>
        /\ search_ids(header, {}) = Present(ct.items)
        /\ \A query \in (SUBSET Pairs) \ {{}} :
              LET hits == search_ids(header, query) IN
              /\ hits \subseteq search(ct.items, query)
              /\ ~is_locked /\ ~warning =>
                    hits = IF policy THEN search(items, query) ELSE {}

(* The published file is what memory caches, as long as there is one; the   *)
(* temporary file is the sealed form of what memory holds now.              *)
FilesInv ==
    /\ WellFormed([aad |-> aad, ct |-> ct])
    /\ disk = IF retired THEN NoFile ELSE [aad |-> aad, ct |-> ct]
    /\ tmp # NoFile =>
         /\ saved # NoHeader
         /\ tmp = [aad |-> header, ct |-> seal(key, header.nonce, header, items)]
         /\ FitsLimit(items)

(* What the roll-back of the operation in progress would bring back is      *)
(* exactly what the cached file holds.                                      *)
TaskInv ==
    /\ saved # NoHeader => Saving /\ ~retired
    /\ saved # NoHeader => saved.salt = header.salt
    /\ ~is_locked => key[2] = header.salt
    /\ task.kind # "idle" => ~is_locked
    /\ task.kind = "idle" => header = aad /\ (~is_locked => key = ct.key)
    /\ task.kind = "edit" =>
         RestoredHeader = aad /\ key = ct.key /\ RestoredItems = ct.items
    /\ task.kind = "label" =>
         [RestoredHeader EXCEPT !.label = task.label] = aad /\ key = ct.key
    /\ task.kind = "rescrub" =>
         /\ RestoredHeader = aad /\ key = ct.key
         /\ task.rotation # NoRotation => task.rotation.key[2] = task.rotation.salt
    /\ task.kind = "rotate" =>
         /\ [RestoredHeader EXCEPT !.salt = task.salt, !.isalt = task.isalt] = aad
         /\ task.key = ct.key
    /\ task.kind = "sweep" => header = aad /\ key = ct.key
    /\ task.kind # "edit" /\ ~is_locked => items = ct.items

(* No key in use, now or by the roll-back or the rotation in progress, was  *)
(* rotated away; the key being rotated away is no longer in use.            *)
KeysInv ==
    /\ revoked \cap (temps \cup {key, ct.key}) = {}
    /\ task.kind = "rescrub" /\ task.rotation # NoRotation =>
         task.rotation.key \notin revoked \cup {ct.key}
    /\ task.kind \in {"rotate", "sweep"} => key # task.key

(* The inductive invariant of the specification. *)
IndInv == TypeOK /\ FilesInv /\ TaskInv /\ KeysInv

(* The index in the header lists the items the ciphertext holds, with the   *)
(* attributes of all or of none; a save in progress changes nothing else in *)
(* the header; and an unlock that ended without a warning has made the      *)
(* index follow the policy.                                                 *)
IndexInv ==
    /\ \E b \in BOOLEAN : aad.index = build_index(aad.isalt, ct.items, b)
    /\ saved # NoHeader =>
         /\ header.label = saved.label
         /\ header.index = build_index(header.isalt, items, policy)
    /\ ~is_locked /\ ~warning /\ task.kind # "rescrub" =>
         aad.index = build_index(aad.isalt, ct.items, policy)

(* The vault implements DurableVault: contents and seal key are those of    *)
(* the published file; a rotation keeps the lock state it found.            *)
AbstractContents ==
    IF disk = NoFile THEN NoFile
    ELSE [label |-> disk.aad.label, items |-> disk.ct.items]

AbstractOpen ==
    CASE task.kind = "rescrub" -> task.rotation = NoRotation
      [] task.kind \in {"rotate", "sweep"} -> ~task.relock
      [] OTHER -> ~is_locked

Durable == INSTANCE DurableVault WITH
    Contents <- Contents,
    Keys <- Key,
    Gone <- NoFile,
    contents <- AbstractContents,
    sealKey <- ct.key,
    open <- AbstractOpen

(* Seen from outside, every operation takes effect in one step, the rename, *)
(* and only in an unlocked vault; failures and crashes change nothing; a    *)
(* rotation changes the key and nothing else; the deleted stays deleted.    *)
ImplementsDurable == Durable!Spec

=============================================================================
