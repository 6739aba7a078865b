---------------------------- MODULE Collections ----------------------------
(***************************************************************************)
(* Which collections the daemon has: the map ServiceState.collections, the *)
(* vault files in the directory, and the operations that change both.      *)
(*                                                                         *)
(* The state mutex guards the map and every vault has a mutex of its own;  *)
(* no one holds two of them, and files are read and published with neither *)
(* held.  An operation therefore takes a reference to a vault in one step  *)
(* and uses it in a later one.  What a single vault does under its mutex   *)
(* is module Vault; here a vault is the set of writers whose item is in it.*)
(***************************************************************************)
EXTENDS Naturals, Sequences, FiniteSets, Functions

CONSTANTS
    Ids,          \* candidate collection ids, in the order
                  \* unique_collection_id_in tries them for one label
    Creators,     \* create prompts, each confirmed once
    Deleters,     \* delete prompts, each confirmed once
    Writers,      \* item writes, one item each
    Attempts,     \* NAME_ATTEMPTS
    MaxReloads,   \* bound: Reload requests in a behaviour
    MaxVaults,    \* bound: Vault values ever constructed for one id
    Reload, Offline,   \* Reload requests; `sm init` beside a running daemon
    Calls,        \* sets of the above: what is going on at the same time
    NoFile

ASSUME CollectionsAssumption ==
    /\ Ids \in Seq(Range(Ids)) /\ IsInjective(Ids) /\ Len(Ids) > 0
    /\ Attempts \in Nat \ {0} /\ MaxReloads \in Nat /\ MaxVaults \in Nat
    /\ Creators \cap Deleters = {} /\ Creators \cap Writers = {} /\ Deleters \cap Writers = {}
    /\ \A calls \in Calls :
         calls \subseteq Creators \cup Deleters \cup Writers \cup {Reload, Offline}
    /\ \A items \in SUBSET Writers : NoFile # items

Id == Range(Ids)
NoVault == 0                 \* vaults are numbered from 1 on

VARIABLES
    file,      \* per id: the items in <id>.vault, or NoFile
    map,       \* per id: the vault in ServiceState.collections, or NoVault
    vaults,    \* per id: the Vault values constructed so far, as a sequence
    pc,        \* where each creator, deleter and writer is
    id,        \* the id it works on
    ref,       \* the VaultRef it has taken
    known,     \* loaded_ids a creator or the Reload has read
    attempt,   \* per creator
    scanned,   \* the Reload: "idle", or the ids it has read and what it opened
    exported,  \* the ids whose collection object is on the bus
    exporting, \* the ids the Reload still has to export
    reloads,   \* Reload requests so far
    offline,   \* `sm init` may create files; never changes
    purged     \* history: items whose file a delete has unlinked

bus == <<exported, exporting>>
rest == <<offline, purged>>
vars == <<file, map, vaults, pc, id, ref, known, attempt, scanned, reloads, bus, rest>>

Actors == Creators \cup Deleters \cup Writers
Idle == [on |-> FALSE, seen |-> {}, opened |-> [i \in Id |-> NoFile], known |-> {}]

loaded_ids == {i \in Id : map[i] # NoVault}

NewVault(items, open) == [items |-> items, open |-> open, retired |-> FALSE]

(* The daemon has started with one collection, which is unlocked.  A call   *)
(* that is not made counts as one that failed at once.                      *)
Init ==
  \E calls \in Calls :
    /\ file = [i \in Id |-> IF i = Ids[1] THEN {} ELSE NoFile]
    /\ map = [i \in Id |-> IF i = Ids[1] THEN 1 ELSE NoVault]
    /\ vaults = [i \in Id |-> IF i = Ids[1] THEN <<NewVault({}, TRUE)>> ELSE <<>>]
    /\ pc = [a \in Actors |-> IF a \in calls THEN "start" ELSE "failed"]
    /\ id = [a \in Actors |-> Ids[1]]
    /\ ref = [a \in Actors |-> NoVault]
    /\ known = [a \in Creators |-> {}]
    /\ attempt = [a \in Creators |-> 1]
    /\ scanned = Idle /\ purged = {}
    /\ exported = {Ids[1]} /\ exporting = {}
    /\ reloads = IF Reload \in calls THEN 0 ELSE MaxReloads
    /\ offline = (Offline \in calls)

Goto(a, l) == pc' = [pc EXCEPT ![a] = l]

-----------------------------------------------------------------------------
(* create_collection, from its claim of the commit gate on *)

(* loaded_ids, under the state lock. *)
ReadLoaded(a) ==
    /\ pc[a] = "start"
    /\ known' = [known EXCEPT ![a] = loaded_ids]
    /\ Goto(a, "pick")
    /\ UNCHANGED <<file, map, vaults, id, ref, attempt, scanned, reloads, bus, rest>>

(* unique_collection_id_in: the first name that is neither in that snapshot *)
(* nor in the directory.  The bound: some name is free.                     *)
Taken(a, i) == i \in known[a] \/ file[i] # NoFile

unique_collection_id_in(a) ==
    /\ pc[a] = "pick"
    /\ \E n \in DOMAIN Ids :
         /\ ~Taken(a, Ids[n])
         /\ \A m \in 1..(n - 1) : Taken(a, Ids[m])
         /\ id' = [id EXCEPT ![a] = Ids[n]]
    /\ Goto(a, "create")
    /\ UNCHANGED <<file, map, vaults, ref, known, attempt, scanned, reloads, bus, rest>>

MayRetry(a) == attempt[a] < Attempts

(* A rename that refuses to replace, or a reservation of the name first. *)
publish_new(i) == file[i] = NoFile /\ file' = [file EXCEPT ![i] = {}]

(* Vault::create publishes the file only if the name is still free. *)
Create(a) ==
    /\ pc[a] = "create"
    /\ \/ /\ publish_new(id[a])
          /\ Len(vaults[id[a]]) < MaxVaults
          /\ vaults' = [vaults EXCEPT ![id[a]] = Append(@, NewVault({}, TRUE))]
          /\ ref' = [ref EXCEPT ![a] = Len(vaults[id[a]]) + 1]
          /\ Goto(a, "insert")
          /\ UNCHANGED attempt
       \/ /\ file[id[a]] # NoFile
          /\ IF MayRetry(a)
             THEN attempt' = [attempt EXCEPT ![a] = @ + 1] /\ Goto(a, "start")
             ELSE Goto(a, "failed") /\ UNCHANGED attempt
          /\ UNCHANGED <<file, vaults, ref>>
    /\ UNCHANGED <<map, id, known, scanned, reloads, bus, rest>>

Insert(a) ==
    /\ pc[a] = "insert"
    /\ map' = [map EXCEPT ![id[a]] = ref[a]]
    /\ Goto(a, "register")
    /\ UNCHANGED <<file, vaults, id, ref, known, attempt, scanned, reloads, bus, rest>>

(* After the alias work: the collection's object, by its id. *)
register_collection(a) ==
    /\ pc[a] = "register"
    /\ exported' = exported \cup {id[a]}
    /\ Goto(a, "done")
    /\ UNCHANGED <<file, map, vaults, id, ref, known, attempt, scanned, reloads, exporting,
                   rest>>

-----------------------------------------------------------------------------
(* delete_collection *)

(* Collection.Delete: refused while the collection is locked; otherwise a   *)
(* prompt that remembers the id.                                            *)
delete(a) ==
    /\ pc[a] = "start"
    /\ \E i \in exported :
         /\ id' = [id EXCEPT ![a] = i]
         /\ Goto(a, IF map[i] # NoVault /\ vaults[i][map[i]].open THEN "prompt" ELSE "failed")
    /\ UNCHANGED <<file, map, vaults, ref, known, attempt, scanned, reloads, bus, rest>>

(* Reads the map when the prompt is performed; the dialog comes after. *)
TakeForDelete(a) ==
    LET i == id[a] IN
    /\ pc[a] = "prompt"
    /\ ref' = [ref EXCEPT ![a] = map[i]]
    /\ Goto(a, IF map[i] = NoVault THEN "failed" ELSE "unlink")
    /\ UNCHANGED <<file, map, vaults, id, known, attempt, scanned, reloads, bus, rest>>

(* Under the vault's lock: retire and unlink.  remove_file fails when the   *)
(* file is not there, and the vault is un-retired.                          *)
Unlink(a) ==
    LET v == ref[a]  i == id[a] IN
    /\ pc[a] = "unlink"
    /\ \/ /\ ~vaults[i][v].open
          /\ Goto(a, "failed")
          /\ UNCHANGED <<vaults, file, purged>>
       \/ /\ vaults[i][v].open
          /\ file[i] # NoFile
          /\ vaults' = [vaults EXCEPT ![i][v].retired = TRUE]
          /\ purged' = purged \cup file[i]
          /\ file' = [file EXCEPT ![i] = NoFile]
          /\ Goto(a, "remove")
       \/ /\ vaults[i][v].open
          /\ file[i] = NoFile
          /\ vaults' = [vaults EXCEPT ![i][v].retired = FALSE]
          /\ Goto(a, "failed")
          /\ UNCHANGED <<file, purged>>
    /\ UNCHANGED <<map, id, ref, known, attempt, scanned, reloads, bus, offline>>

(* Variant: the collection stays in the map. *)
UnlistForgotten(a) ==
    /\ pc[a] = "remove"
    /\ Goto(a, "unregister")
    /\ UNCHANGED <<file, map, vaults, id, ref, known, attempt, scanned, reloads, bus, rest>>

(* collections.remove(id), by name. *)
Unlist(a) ==
    /\ pc[a] = "remove"
    /\ map' = [map EXCEPT ![id[a]] = NoVault]
    /\ Goto(a, "unregister")
    /\ UNCHANGED <<file, vaults, id, ref, known, attempt, scanned, reloads, bus, rest>>

(* A task of its own takes the object off the bus, by its id. *)
unregister_collection(a) ==
    /\ pc[a] = "unregister"
    /\ exported' = exported \ {id[a]}
    /\ Goto(a, "done")
    /\ UNCHANGED <<file, map, vaults, id, ref, known, attempt, scanned, reloads, exporting,
                   rest>>

-----------------------------------------------------------------------------
(* CreateItem and the other item writes; Lock and Unlock *)

TakeForWrite(a) ==
    /\ pc[a] = "start"
    /\ \E i \in loaded_ids :
         /\ id' = [id EXCEPT ![a] = i]
         /\ ref' = [ref EXCEPT ![a] = map[i]]
    /\ Goto(a, "write")
    /\ UNCHANGED <<file, map, vaults, known, attempt, scanned, reloads, bus, rest>>

(* Variant: a retired vault is written. *)
WriteRetired(a) ==
    LET v == ref[a]  i == id[a] IN
    /\ pc[a] = "write"
    /\ IF vaults[i][v].open
       THEN /\ vaults' = [vaults EXCEPT ![i][v].items = @ \cup {a}]
            /\ file' = [file EXCEPT ![i] = vaults'[i][v].items]
            /\ Goto(a, "done")
       ELSE Goto(a, "failed") /\ UNCHANGED <<vaults, file>>
    /\ UNCHANGED <<map, id, ref, known, attempt, scanned, reloads, bus, rest>>

(* Under the vault's lock: the item is added and the whole vault saved over *)
(* its path, unless the vault is locked or retired.                         *)
Write(a) ==
    LET v == ref[a]  i == id[a] IN
    /\ pc[a] = "write"
    /\ IF vaults[i][v].open /\ ~vaults[i][v].retired
       THEN /\ vaults' = [vaults EXCEPT ![i][v].items = @ \cup {a}]
            /\ file' = [file EXCEPT ![i] = vaults'[i][v].items]
            /\ Goto(a, "done")
       ELSE Goto(a, "failed") /\ UNCHANGED <<vaults, file>>
    /\ UNCHANGED <<map, id, ref, known, attempt, scanned, reloads, bus, rest>>

SetOpen(i, open) ==
    /\ map[i] # NoVault
    /\ vaults[i][map[i]].open # open
    /\ open => ~vaults[i][map[i]].retired
    /\ vaults' = [vaults EXCEPT ![i][map[i]].open = open]
    /\ UNCHANGED <<file, map, pc, id, ref, known, attempt, scanned, reloads, bus, rest>>

Unlock(i) == SetOpen(i, TRUE)
Lock(i) == SetOpen(i, FALSE)

-----------------------------------------------------------------------------
(* Reload *)

StartReload ==
    /\ ~scanned.on /\ exporting = {}
    /\ reloads < MaxReloads
    /\ reloads' = reloads + 1
    /\ scanned' = [Idle EXCEPT !.on = TRUE, !.known = loaded_ids]
    /\ UNCHANGED <<file, map, vaults, pc, id, ref, known, attempt, bus, rest>>

(* Variant: loaded collections are read again. *)
ScanEverything(i) ==
    /\ scanned.on
    /\ i \notin scanned.seen
    /\ scanned' = [scanned EXCEPT !.seen = @ \cup {i}, !.opened[i] = file[i]]
    /\ UNCHANGED <<file, map, vaults, pc, id, ref, known, attempt, reloads, bus, rest>>

(* scan_vault_dir reads one directory entry: a file the snapshot does not   *)
(* know is opened.                                                          *)
scan_vault_dir(i) ==
    /\ scanned.on
    /\ i \notin scanned.seen
    /\ scanned' = [scanned EXCEPT !.seen = @ \cup {i},
                                  !.opened[i] = IF i \in scanned.known THEN NoFile
                                                ELSE file[i]]
    /\ UNCHANGED <<file, map, vaults, pc, id, ref, known, attempt, reloads, bus, rest>>

(* merge_scan inserts every vault the scan opened, locked. *)
merge_scan ==
    LET new == {i \in Id : scanned.opened[i] # NoFile} IN
    /\ scanned.on
    /\ scanned.seen = Id
    /\ \A i \in new : Len(vaults[i]) < MaxVaults
    /\ vaults' = [i \in Id |-> IF i \in new
                               THEN Append(vaults[i], NewVault(scanned.opened[i], FALSE))
                               ELSE vaults[i]]
    /\ map' = [i \in Id |-> IF i \in new THEN Len(vaults[i]) + 1 ELSE map[i]]
    /\ scanned' = Idle
    /\ exporting' = {i \in Id : map'[i] # NoVault}
    /\ UNCHANGED <<file, pc, id, ref, known, attempt, reloads, exported, rest>>

(* register_all then exports, one by one, what the map held at that time.   *)
register_all(i) ==
    /\ i \in exporting
    /\ exported' = exported \cup {i}
    /\ exporting' = exporting \ {i}
    /\ UNCHANGED <<file, map, vaults, pc, id, ref, known, attempt, scanned, reloads, rest>>

(* `sm init` writes a vault file beside the running daemon. *)
InitOffline(i) ==
    /\ offline
    /\ publish_new(i)
    /\ UNCHANGED <<map, vaults, pc, id, ref, known, attempt, scanned, reloads, bus, rest>>

-----------------------------------------------------------------------------
Next ==
    \/ \E a \in Creators :
          ReadLoaded(a) \/ unique_collection_id_in(a) \/ Create(a) \/ Insert(a)
          \/ register_collection(a)
    \/ \E a \in Deleters : delete(a) \/ TakeForDelete(a) \/ Unlink(a) \/ Unlist(a)
          \/ unregister_collection(a)
    \/ \E a \in Writers : TakeForWrite(a) \/ Write(a)
    \/ \E i \in Id : Unlock(i) \/ Lock(i) \/ scan_vault_dir(i) \/ InitOffline(i)
          \/ register_all(i)
    \/ StartReload
    \/ merge_scan

Spec == Init /\ [][Next]_vars

-----------------------------------------------------------------------------
(* Properties *)

Vault == [items : SUBSET Writers, open : BOOLEAN, retired : BOOLEAN]
Labels == {"start", "pick", "create", "insert", "register", "prompt", "unlink", "remove",
           "unregister", "write", "done", "failed"}

(* Every variable stays in its domain. *)
TypeOK ==
    /\ file \in [Id -> {NoFile} \cup SUBSET Writers]
    /\ vaults \in [Id -> Seq(Vault)]
    /\ map \in [Id -> Nat] /\ \A i \in Id : map[i] <= Len(vaults[i])
    /\ pc \in [Actors -> Labels] /\ id \in [Actors -> Id] /\ ref \in [Actors -> Nat]
    /\ scanned \in [on : BOOLEAN, seen : SUBSET Id, known : SUBSET Id,
                    opened : [Id -> {NoFile} \cup SUBSET Writers]]
    /\ exported \subseteq Id /\ exporting \subseteq Id

AtRest == (\A a \in Actors : pc[a] \in {"start", "done", "failed"}) /\ ~scanned.on /\ exporting = {}

(* A write that returned Ok is in the collection's file until a delete      *)
(* unlinks that file: no other operation, on the map or through another     *)
(* reference, takes it out again.                                           *)
WrittenIsStored ==
    \A w \in Writers :
        pc[w] = "done" =>
            w \in purged \/ (file[id[w]] # NoFile /\ w \in file[id[w]])

(* A collection whose file a delete has unlinked comes back only as a new,  *)
(* empty one that someone creates under that name: a writer that was        *)
(* waiting for the vault's lock is refused (Vault.retired: it "cannot       *)
(* recreate the file it just deleted").  Fails with two deletes of one      *)
(* collection: the second finds no file and un-retires the vault.           *)
DeletedStaysDeleted ==
    [][\A i \in Id : file[i] = NoFile /\ file'[i] # NoFile => file'[i] = {}]_vars

(* When no operation is under way, the daemon lists only collections that   *)
(* have a file, and each of them is on the bus unless a delete of that name *)
(* has ended: unregister_collection goes by name, and may meet a collection *)
(* created since.                                                           *)
ListedHasFile ==
    AtRest => \A i \in loaded_ids :
        /\ file[i] # NoFile
        /\ i \in exported \/ \E d \in Deleters : pc[d] = "done" /\ id[d] = i

(* scan_vault_dir: "Read every `<id>.vault` in `dir` that is not already    *)
(* loaded."  A Reload never replaces the vault of a loaded collection, which *)
(* others hold references to.  Fails when a collection is created after the  *)
(* Reload read loaded_ids: the scan finds its file, the merge replaces it.   *)
ReloadKeepsLoaded ==
    [][\A i \in Id : map[i] # NoVault => map'[i] \in {map[i], NoVault}]_vars

-----------------------------------------------------------------------------
(* What the properties rest on *)

(* The calls at one time do not include two deletes, nor a create beside a  *)
(* Reload.                                                                  *)
CallsFit ==
    \A calls \in Calls :
        /\ \A d, e \in calls \cap Deleters : d = e
        /\ Reload \in calls => calls \cap Creators = {}

Live(i, n) == n \in 1..Len(vaults[i]) /\ ~vaults[i][n].retired

(* Of the vaults for one id only the last can be unretired, and it holds    *)
(* what the file holds.                                                     *)
FileInv ==
    \A i \in Id : \A n \in Nat :
        Live(i, n) => n = Len(vaults[i]) /\ file[i] = vaults[i][n].items

(* A listed collection is unretired, or a delete is about to unlist it. *)
MapInv ==
    \A i \in Id :
        map[i] # NoVault =>
            Live(i, map[i]) \/ \E d \in Deleters : pc[d] = "remove" /\ id[d] = i

(* A Reload that is under way or may come is without creates, and a delete  *)
(* without another one.                                                     *)
MayScan == scanned.on \/ reloads < MaxReloads
ModeInv ==
    /\ MayScan => \A c \in Creators : pc[c] = "failed"
    /\ \A d, e \in Deleters : pc[d] = "failed" \/ pc[e] = "failed" \/ d = e

(* What a call has taken is still what it was when it took it. *)
RefInv ==
    /\ \A w \in Writers : pc[w] = "write" => ref[w] \in 1..Len(vaults[id[w]])
    /\ \A d \in Deleters : pc[d] = "unlink" => Live(id[d], ref[d])
    /\ \A c \in Creators :
          pc[c] = "insert" =>
              /\ Live(id[c], ref[c]) /\ map[id[c]] # ref[c]
              /\ \A d \in Deleters : pc[d] = "unlink" => id[d] # id[c]
              /\ \A e \in Creators : pc[e] = "insert" /\ id[e] = id[c] => e = c

(* Beside a Reload, what is not listed is retired; so what its scan opens   *)
(* stays as it was read until the merge.                                    *)
ScanInv ==
    MayScan =>
        /\ \A i \in Id : \A n \in Nat : Live(i, n) => map[i] = n
        /\ \A d \in Deleters : pc[d] = "remove" =>
              map[id[d]] # NoVault /\ ~Live(id[d], map[id[d]])
        /\ scanned.on => \A i \in Id :
              /\ map[i] # NoVault => i \in scanned.known
              /\ scanned.opened[i] # NoFile =>
                    map[i] = NoVault /\ file[i] = scanned.opened[i]

(* A listed collection is on the bus, or on its way there, or a delete of   *)
(* that name has ended.                                                     *)
ExportInv ==
    \A i \in loaded_ids :
        \/ i \in exported \cup exporting
        \/ \E c \in Creators : pc[c] = "register" /\ id[c] = i
        \/ \E d \in Deleters : pc[d] = "done" /\ id[d] = i

IndInv == TypeOK /\ FileInv /\ MapInv /\ ModeInv /\ RefInv /\ ScanInv

=============================================================================
