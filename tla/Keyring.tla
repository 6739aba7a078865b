------------------------------ MODULE Keyring -------------------------------
(***************************************************************************)
(* Reading a gnome-keyring: import/gnome.rs, and extract_gnome in          *)
(* cli/import.rs.  A copy of the keyring directory is served by a private  *)
(* gnome-keyring-daemon on a private bus; both are children of the         *)
(* command.  The daemon answers each call as it likes.                     *)
(***************************************************************************)
EXTENDS Extraction

CONSTANTS MAX_ITEMS_PER_COLLECTION

ASSUME ItemLimit == MAX_ITEMS_PER_COLLECTION \in Nat

VARIABLES keyring,      \* what the keyring directory holds (fixed)
          owned,        \* the directories and child processes the command has
          collections,  \* the collections still to visit
          matched,      \* the collections visited under the wanted name, by position
          items,        \* the items of the current collection still to ask about
          candidates,   \* the items whose secret is wanted
          carried,      \* whether a candidate of this collection was carried
          failure       \* whether one was not

keyringVars == <<keyring, owned, collections, matched, items, candidates, carried, failure>>

KeyringInit ==
    /\ owned = {} /\ collections = <<>> /\ matched = 0 /\ items = <<>>
    /\ candidates = <<>> /\ carried = FALSE /\ failure = FALSE

Walking == <<collections, matched, items, candidates, carried, failure>>

----------------------------------------------------------------------------
(* The private daemon                                                      *)

(* The directories go with the values that name them.                      *)
Dropped == {"snapshot", "control"}

(* The children, the daemon first.                                         *)
shutdown == {"daemon", "bus"}

(* A child is killed and waited for.                                       *)
reap(children) == owned \ children

Fails(children) ==
    /\ pc' = "failed"
    /\ owned' = reap(children) \ Dropped
Gains(to, what) ==
    /\ pc' = to
    /\ owned' = owned \union what

(* A copy of the directory, and who else serves secrets.                   *)
snapshot ==
    /\ pc = "gnome"
    /\ \E warned \in BOOLEAN : out' = Note(Nothing, warned, "foreign provider")
    /\ Gains("keyring password", {"snapshot"}) \/ Fails({})
    /\ UNCHANGED <<keyring, Walking>>

read_password ==
    /\ pc = "keyring password"
    /\ Gains("start", {}) \/ Fails({})
    /\ UNCHANGED <<out, keyring, Walking>>

start_bus ==
    /\ pc = "start"
    /\ Gains("address", {"control", "bus"}) \/ Fails({})
    /\ UNCHANGED <<out, keyring, Walking>>

(* A bus that does not tell its address in time is reaped.                 *)
read_address ==
    /\ pc = "address"
    /\ Gains("daemon", {}) \/ Fails({"bus"})
    /\ UNCHANGED <<out, keyring, Walking>>

(* Without a daemon to serve, the bus is killed as its value is dropped.   *)
start_daemon ==
    /\ pc = "daemon"
    /\ Gains("name", {"daemon"}) \/ Fails({"bus"})
    /\ UNCHANGED <<out, keyring, Walking>>

(* The password is fed, the name awaited.                                  *)
await_name ==
    /\ pc = "name"
    /\ Gains("session", {}) \/ Fails(shutdown)
    /\ UNCHANGED <<out, keyring, Walking>>

open_session ==
    /\ pc = "session"
    /\ \E plain \in BOOLEAN : out' = Note(out, plain, "plain session")
    /\ Gains("collections", {}) \/ Fails(shutdown)
    /\ UNCHANGED <<keyring, Walking>>

(* The walk ended; the session is closed and both children are reaped.     *)
Return(ok) ==
    /\ pc' = IF ok THEN "extracted" ELSE "failed"
    /\ owned' = reap(shutdown) \ Dropped
    /\ collections' = <<>> /\ matched' = 0 /\ items' = <<>> /\ candidates' = <<>>
    /\ carried' = FALSE /\ failure' = FALSE

----------------------------------------------------------------------------
(* The walk                                                                *)

list_collections ==
    /\ pc = "collections"
    /\ \/ Return(FALSE)
       \/ /\ pc' = "visit"
          /\ collections' = keyring.collections
          /\ UNCHANGED <<owned, matched, items, candidates, carried, failure>>
    /\ UNCHANGED <<out, keyring>>

Current == Head(collections)
Wanted(c) == ~c.session /\ c.label = keyring.name
NextCollection == collections' = Tail(collections)

(* What a prompt comes to.  One nobody answers in time is dismissed; one   *)
(* that completes need not have opened anything.                           *)
await_prompt == {"opened", "opened nothing", "dismissed", "unanswered", "error"}

(* Service.Unlock: opened at once, by a prompt, or neither.                *)
unlock == await_prompt \union {"nothing offered"}

(* A collection that is not the wanted one is passed over.  A second one   *)
(* of its name ends the walk.  A locked one is unlocked or passed over.    *)
visit ==
    /\ pc = "visit" /\ collections # <<>>
    /\ \/ /\ ~Wanted(Current)
          /\ NextCollection
          /\ UNCHANGED <<pc, out, owned, matched, items, candidates, carried, failure>>
       \/ /\ Wanted(Current) /\ matched # 0
          /\ Return(FALSE) /\ UNCHANGED out
       \/ /\ Wanted(Current) /\ matched = 0
          /\ \E o \in IF Current.locked THEN unlock ELSE {"opened", "error"} :
             \/ o = "error" /\ Return(FALSE) /\ UNCHANGED out
             \/ o = "opened" /\ Len(Current.items) > MAX_ITEMS_PER_COLLECTION
                /\ Return(FALSE) /\ UNCHANGED out
             \/ /\ o \notin {"opened", "error"}
                /\ out' = Note(out, TRUE, "unanswerable prompt")
                /\ matched' = 1
                /\ NextCollection
                /\ UNCHANGED <<pc, owned, items, candidates, carried, failure>>
             \/ /\ o = "opened" /\ Len(Current.items) <= MAX_ITEMS_PER_COLLECTION
                /\ pc' = "metadata"
                /\ items' = Current.items
                /\ matched' = 1
                /\ UNCHANGED <<out, owned, collections, candidates, carried, failure>>
    /\ UNCHANGED keyring

(* Label, attributes, type and times of one item, as far as they can be    *)
(* read.  A source need not have types.                                    *)
read_metadata(it) ==
    {"attributes unreadable", "type unreadable", "no type",
     IF it.credential THEN "credential" ELSE "plain"}

(* What cannot be read is refused, and so is an item known to be a         *)
(* credential that unlocks another keyring: its secret is not asked for.   *)
FirstPass ==
    /\ pc = "metadata" /\ items # <<>>
    /\ \E meta \in read_metadata(keyring.items[Head(items)]) :
          IF meta \notin {"plain", "no type"}
          THEN out' = Refuse(out, gnome(Head(items))) /\ UNCHANGED candidates
          ELSE candidates' = Append(candidates, Head(items)) /\ UNCHANGED out
    /\ items' = Tail(items)
    /\ UNCHANGED <<pc, keyring, owned, collections, matched, carried, failure>>

(* One call for all secrets; what it leaves out is asked for one by one.   *)
fetch_secrets ==
    /\ pc = "metadata" /\ items = <<>>
    /\ pc' = "drain"
    /\ UNCHANGED <<out, keyring, owned, collections, matched, items, candidates, carried,
                   failure>>

source_item(id) ==
    LET it == keyring.items[id]
    IN [prov |-> gnome(id), label |-> it.label, attrs |-> it.attrs, secret |-> it.secret,
        inserted |-> {}, ctype |-> it.ctype, created |-> it.created, modified |-> it.modified]

(* One candidate: its secret from the batch or by a call of its own.  One  *)
(* that cannot be had or decrypted is skipped, without its id.             *)
drain_batch ==
    /\ pc = "drain" /\ candidates # <<>>
    /\ LET item  == source_item(Head(candidates))
           total == out.bytes + Len(item.secret)
           read  == [out EXCEPT !.bytes = total]
       IN \/ /\ out' = Skip(out, Nowhere)
             /\ failure' = TRUE
             /\ candidates' = Tail(candidates)
             /\ UNCHANGED <<pc, owned, collections, matched, items, carried>>
          \/ Return(FALSE) /\ UNCHANGED out
          \/ /\ total <= MAX_SECRET_BYTES
             /\ out' = IF check_caps(item) = "none" THEN Keep(read, item)
                       ELSE Refuse(read, item.prov)
             /\ carried' = TRUE
             /\ candidates' = Tail(candidates)
             /\ UNCHANGED <<pc, owned, collections, matched, items, failure>>
    /\ UNCHANGED keyring

(* Failures only, and nothing carried, is a failure of the whole.          *)
Drained ==
    /\ pc = "drain" /\ candidates = <<>>
    /\ IF failure /\ ~carried
       THEN Return(FALSE)
       ELSE /\ pc' = "visit"
            /\ NextCollection
            /\ carried' = FALSE /\ failure' = FALSE
            /\ UNCHANGED <<owned, matched, items, candidates>>
    /\ UNCHANGED <<out, keyring>>

AllVisited ==
    /\ pc = "visit" /\ collections = <<>>
    /\ Return(matched # 0)
    /\ UNCHANGED <<out, keyring>>

KeyringNext ==
    \/ snapshot \/ read_password \/ start_bus \/ read_address \/ start_daemon
    \/ await_name \/ open_session \/ list_collections \/ visit \/ FirstPass
    \/ fetch_secrets \/ drain_batch \/ Drained \/ AllVisited
=============================================================================
