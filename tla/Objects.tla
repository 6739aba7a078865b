------------------------------ MODULE Objects ------------------------------
(***************************************************************************)
(* The objects on the bus and the calls that read and write secrets:       *)
(* Service.OpenSession, GetSecrets and Lock, Session.Close, the methods of *)
(* Item, Collection.CreateItem and the batch DeleteItems, with the watch   *)
(* that reclaims a departed client's sessions and the idle timer.          *)
(*                                                                         *)
(* A call holds the state mutex in one step, a vault's mutex in another,   *)
(* and neither while it exports objects; an unexport is a task of its own. *)
(* The collections stay loaded here (module Collections lets them come and *)
(* go), and what a save does is module Vault.                              *)
(***************************************************************************)
EXTENDS Naturals, FiniteSets

CONSTANTS
    Clients,      \* unique bus names
    Slots,        \* method calls being served
    Cols,         \* loaded collections
    ItemIds,      \* item ids, used or not
    ColOf,        \* the collection each id belongs to
    Stored,       \* the ids that are items at the start
    Requests,     \* what the calls may ask for
    MaxSessions,  \* MAX_SESSIONS_PER_SENDER
    MaxOpened,    \* bound: sessions ever opened
    MaxSecret,    \* MAX_ITEM_SECRET
    Block,        \* the cipher's block size, 16
    None

Reads == {"GetSecret", "GetSecrets"}
Writes == {"SetSecret", "CreateItem"}
Deletes == {"Delete", "DeleteItems"}
Methods == Reads \cup Writes \cup Deletes \cup {"OpenSession", "Close", "Lock"}

ASSUME ObjectsAssumption ==
    /\ ColOf \in [ItemIds -> Cols] /\ Stored \subseteq ItemIds
    /\ Requests \subseteq [kind : Methods, col : Cols, items : SUBSET ItemIds]
    /\ MaxSessions \in Nat \ {0} /\ MaxOpened \in Nat \ {0}
    /\ MaxSecret \in Nat /\ Block \in Nat \ {0}
    /\ None \notin Clients

VARIABLES
    here,      \* clients on the bus
    departed,  \* NameOwnerChanged signals the watch has not handled
    sessions,  \* per session number: the owner of its entry, or None
    opened,    \* next_session
    objects,   \* exported Session objects
    dropped,   \* sessions whose objects are about to be unexported
    open,      \* collections that are unlocked
    items,     \* ids of the items in the vaults
    used,      \* ids ever given to an item
    exported,  \* exported Item objects
    doomed,    \* items whose objects are about to be unexported
    active,    \* last_activity is recent
    idle,      \* collections the idle timer is about to lock
    call       \* per slot: the call

busy == <<here, departed>>
sess == <<sessions, opened, objects, dropped>>
data == <<open, items, used, exported, doomed>>
vars == <<busy, sess, data, active, idle, call>>

Sessions == 1..MaxOpened
Names(k) == call[k].items

(* A call: its request, what it has still to do, whether its secret is      *)
(* within the cap, and, for the properties, whether it proved to hold a     *)
(* session, what it removed and why it was refused.                         *)
Fresh(r, who) ==
    [kind |-> r.kind, col |-> r.col, items |-> r.items, who |-> who,
     pc |-> "start", ses |-> 0, fits |-> TRUE, todo |-> {}, held |-> FALSE,
     removed |-> {}, error |-> "none"]

(* One client already has a session. *)
Init ==
    /\ here = Clients /\ departed = {}
    /\ \E c \in Clients : sessions = [s \in Sessions |-> IF s = 1 THEN c ELSE None]
    /\ opened = 1 /\ objects = {1} /\ dropped = {}
    /\ open \in {{}, Cols}
    /\ items = Stored /\ used = Stored /\ exported = Stored /\ doomed = {}
    /\ active = TRUE /\ idle = {}
    /\ \E r \in [Slots -> Requests], w \in [Slots -> Clients] :
          call = [k \in Slots |-> Fresh(r[k], w[k])]

Is(k, kind, pc) == call[k].kind = kind /\ call[k].pc = pc
Goto(k, pc) == call' = [call EXCEPT ![k].pc = pc]
Ends(k, e) ==
    call' = [call EXCEPT ![k].pc = "done", ![k].ses = 0, ![k].todo = {},
                         ![k].error = e]
Fail(k, e) == Ends(k, e)
Done(k) == Ends(k, "none")
Touch == active' = TRUE

(* A method is called by a client that is on the bus, on an object that is  *)
(* exported.                                                                *)
Arrives(k, kind) ==
    /\ Is(k, kind, "start")
    /\ call[k].who \in here
    /\ kind \in {"GetSecret", "SetSecret", "Delete"} => Names(k) \subseteq exported

Held(who) == Cardinality({s \in Sessions : sessions[s] = who})

check_session_quota(who) == Held(who) < MaxSessions

(* ServiceState::cipher: a session, for the client that opened it. *)
cipher(s, who) == sessions[s] = who

-----------------------------------------------------------------------------
(* OpenSession *)

OpenCheck(k) ==
    /\ Arrives(k, "OpenSession")
    /\ IF check_session_quota(call[k].who) THEN Goto(k, "keys") ELSE Fail(k, "quota")
    /\ UNCHANGED <<busy, sess, data, active, idle>>

(* The algorithm is unknown, or the peer's key is not acceptable. *)
OpenRefused(k) ==
    /\ Is(k, "OpenSession", "keys")
    /\ Fail(k, "algorithm")
    /\ UNCHANGED <<busy, sess, data, active, idle>>

OpenInsert(k) ==
    /\ Is(k, "OpenSession", "keys")
    /\ IF check_session_quota(call[k].who)
       THEN /\ opened < MaxOpened
            /\ opened' = opened + 1
            /\ sessions' = [sessions EXCEPT ![opened'] = call[k].who]
            /\ call' = [call EXCEPT ![k].pc = "export", ![k].ses = opened']
       ELSE Fail(k, "quota") /\ UNCHANGED <<opened, sessions>>
    /\ UNCHANGED <<busy, objects, dropped, data, active, idle>>

(* Exporting the object may fail; the entry is then taken out again. *)
OpenExport(k) ==
    LET s == call[k].ses IN
    /\ Is(k, "OpenSession", "export")
    /\ \/ /\ objects' = objects \cup {s}
          /\ Done(k)
          /\ UNCHANGED sessions
       \/ /\ sessions' = [sessions EXCEPT ![s] = None]
          /\ Fail(k, "export")
          /\ UNCHANGED objects
    /\ UNCHANGED <<busy, opened, dropped, data, active, idle>>

(* Session.Close, on an exported object; someone else's session and one     *)
(* that is gone get the same answer.                                        *)
Close(k) ==
    /\ Arrives(k, "Close")
    /\ \E s \in objects :
          IF cipher(s, call[k].who)
          THEN /\ sessions' = [sessions EXCEPT ![s] = None]
               /\ dropped' = dropped \cup {s}
               /\ Done(k)
          ELSE Fail(k, "NoSession") /\ UNCHANGED <<sessions, dropped>>
    /\ UNCHANGED <<busy, opened, objects, data, active, idle>>

UnexportSession(s) ==
    /\ s \in dropped
    /\ dropped' = dropped \ {s}
    /\ objects' = objects \ {s}
    /\ UNCHANGED <<busy, sessions, opened, data, active, idle, call>>

-----------------------------------------------------------------------------
(* Sizes.  A dh session pads to whole blocks and adds one if none is        *)
(* missing; a plain one sends the secret as it is.                          *)

Ciphertext(dh, n) == IF dh THEN n + Block - (n % Block) ELSE n

NoRoomForPadding == MaxSecret      \* variant
MAX_ITEM_CIPHERTEXT == MaxSecret + Block

(* Variant: activity is recorded before the session is looked at. *)
TouchFirst(k) ==
    /\ \E kind \in Reads : Arrives(k, kind)
    /\ \E s \in Sessions :
          IF cipher(s, call[k].who)
          THEN call' = [call EXCEPT ![k].pc = "vault", ![k].held = TRUE,
                                    ![k].todo = {ColOf[i] : i \in Names(k)}]
          ELSE Fail(k, "NoSession")
    /\ Touch
    /\ UNCHANGED <<busy, sess, data, idle>>

(* GetSecret and GetSecrets name a session first, under the state mutex;    *)
(* GetSecrets counts as activity from here on.                              *)
LookToRead(k) ==
    /\ \E kind \in Reads : Arrives(k, kind)
    /\ \E s \in Sessions :
          IF cipher(s, call[k].who)
          THEN /\ call' = [call EXCEPT ![k].pc = "vault", ![k].held = TRUE,
                                       ![k].todo = {ColOf[i] : i \in Names(k)}]
               /\ active' = (active \/ call[k].kind = "GetSecrets")
          ELSE Fail(k, "NoSession") /\ UNCHANGED active
    /\ UNCHANGED <<busy, sess, data, idle>>

(* SetSecret and CreateItem carry a secret of n bytes sealed for a session. *)
(* One whose ciphertext is too long is refused before it is decrypted.      *)
LookToWrite(k) ==
    /\ \E kind \in Writes : Arrives(k, kind)
    /\ \E s \in Sessions, n \in 0..(MaxSecret + Block + 1), dh \in BOOLEAN :
          IF ~cipher(s, call[k].who) THEN Fail(k, "NoSession")
          ELSE call' = [call EXCEPT
                  ![k].held = TRUE, ![k].fits = (n <= MaxSecret),
                  ![k].pc = IF Ciphertext(dh, n) > MAX_ITEM_CIPHERTEXT
                            THEN "done" ELSE "vault",
                  ![k].error = IF Ciphertext(dh, n) > MAX_ITEM_CIPHERTEXT
                               THEN "too large" ELSE @]
    /\ UNCHANGED <<busy, sess, data, active, idle>>

(* GetSecrets reads one collection at a time, and leaves out what it cannot *)
(* read.                                                                    *)
ReadSome(k, c) ==
    /\ Is(k, "GetSecrets", "vault")
    /\ c \in call[k].todo
    /\ IF call[k].todo = {c} THEN Done(k)
       ELSE call' = [call EXCEPT ![k].todo = @ \ {c}]
    /\ UNCHANGED <<busy, sess, data, active, idle>>

ReadOne(k) ==
    /\ Is(k, "GetSecret", "vault")
    /\ IF call[k].col \in open /\ Names(k) \subseteq items
       THEN Goto(k, "touch") ELSE Fail(k, "vault")
    /\ UNCHANGED <<busy, sess, data, active, idle>>

(* The checks of SetSecret and CreateItem under the vault's mutex. *)
Refusal(k) ==
    IF call[k].col \notin open THEN "vault"
    ELSE IF ~call[k].fits THEN "too large"
    ELSE IF call[k].kind = "SetSecret" /\ ~(Names(k) \subseteq items) THEN "vault"
    ELSE "none"

SetSecret(k) ==
    /\ Is(k, "SetSecret", "vault")
    /\ IF Refusal(k) = "none" THEN Goto(k, "touch") ELSE Fail(k, Refusal(k))
    /\ UNCHANGED <<busy, sess, data, active, idle>>

Unused(c) == {i \in ItemIds \ used : ColOf[i] = c}

(* CreateItem replaces the item it names as its equal, if that is there;    *)
(* otherwise it makes a new one, which is to be exported.                   *)
Insert(k) ==
    /\ Is(k, "CreateItem", "vault")
    /\ \/ /\ Refusal(k) # "none"
          /\ Fail(k, Refusal(k))
          /\ UNCHANGED <<items, used>>
       \/ /\ Refusal(k) = "none"
          /\ Names(k) # {} /\ Names(k) \subseteq items
          /\ Goto(k, "touch")
          /\ UNCHANGED <<items, used>>
       \/ /\ Refusal(k) = "none"
          /\ ~(Names(k) # {} /\ Names(k) \subseteq items)
          /\ Unused(call[k].col) # {}
          /\ LET i == CHOOSE j \in Unused(call[k].col) : TRUE IN
             /\ items' = items \cup {i}
             /\ used' = used \cup {i}
             /\ call' = [call EXCEPT ![k].pc = "touch", ![k].todo = {i}]
    /\ UNCHANGED <<busy, sess, open, exported, doomed, active, idle>>

(* The state mutex again, to record the activity. *)
TouchAfter(k) ==
    /\ call[k].kind \in {"GetSecret", "SetSecret", "CreateItem"}
    /\ call[k].pc = "touch"
    /\ Touch
    /\ IF call[k].todo # {} /\ call[k].kind = "CreateItem"
       THEN Goto(k, "export") ELSE Done(k)
    /\ UNCHANGED <<busy, sess, data, idle>>

(* Variant: nothing is exported. *)
RegisterNothing(k) ==
    /\ Is(k, "CreateItem", "export")
    /\ Done(k)
    /\ UNCHANGED <<busy, sess, data, active, idle>>

register_item(k) ==
    /\ Is(k, "CreateItem", "export")
    /\ exported' = exported \cup call[k].todo
    /\ Done(k)
    /\ UNCHANGED <<busy, sess, open, items, used, doomed, active, idle>>

-----------------------------------------------------------------------------
(* Item.Delete and CollectionAdmin.DeleteItems *)

(* Delete only looks the vault up.  DeleteItems checks every path, the      *)
(* items' existence under the mutexes of the vaults they are in: one that   *)
(* is missing, or in another collection, refuses the batch.                 *)
LookToDelete(k) ==
    /\ Arrives(k, "Delete") \/ Arrives(k, "DeleteItems")
    /\ IF \/ call[k].kind = "Delete"
          \/ \A i \in Names(k) : i \in items /\ ColOf[i] = call[k].col
       THEN Goto(k, "vault") ELSE Fail(k, "vault")
    /\ UNCHANGED <<busy, sess, data, active, idle>>

(* Variant: what is still there is removed. *)
RemoveWhatIsThere(k) ==
    /\ call[k].kind \in Deletes /\ call[k].pc = "vault"
    /\ IF call[k].col \in open
       THEN /\ items' = items \ Names(k)
            /\ call' = [call EXCEPT ![k].pc = "touch",
                                    ![k].removed = Names(k) \cap items]
       ELSE Fail(k, "vault") /\ UNCHANGED items
    /\ UNCHANGED <<busy, sess, open, used, exported, doomed, active, idle>>

(* Vault::delete_items looks every id up again: all of them or none.  An    *)
(* empty batch ends here.                                                   *)
Remove(k) ==
    /\ call[k].kind \in Deletes /\ call[k].pc = "vault"
    /\ IF call[k].col \in open /\ Names(k) \subseteq items
       THEN /\ items' = items \ Names(k)
            /\ call' = [call EXCEPT ![k].pc = IF Names(k) = {} THEN "done" ELSE "touch",
                                    ![k].removed = Names(k)]
       ELSE Fail(k, "vault") /\ UNCHANGED items
    /\ UNCHANGED <<busy, sess, open, used, exported, doomed, active, idle>>

(* Activity is recorded and a task is spawned to unexport the objects. *)
AfterRemove(k) ==
    /\ call[k].kind \in Deletes /\ call[k].pc = "touch"
    /\ Touch
    /\ doomed' = doomed \cup Names(k)
    /\ Done(k)
    /\ UNCHANGED <<busy, sess, open, items, used, exported, idle>>

UnexportItem(i) ==
    /\ i \in doomed
    /\ doomed' = doomed \ {i}
    /\ exported' = exported \ {i}
    /\ UNCHANGED <<busy, sess, open, items, used, active, idle, call>>

-----------------------------------------------------------------------------
(* Locking, unlocking, and the two background tasks *)

(* Service.Lock resolves its objects, then locks each collection that one   *)
(* of them really is in.                                                    *)
LookToLock(k) ==
    /\ Arrives(k, "Lock")
    /\ call' = [call EXCEPT ![k].pc = "vault", ![k].todo = {ColOf[i] : i \in Names(k)}]
    /\ UNCHANGED <<busy, sess, data, active, idle>>

LockOne(k, c) ==
    /\ Is(k, "Lock", "vault")
    /\ c \in call[k].todo
    /\ open' = IF \E i \in Names(k) \cap items : ColOf[i] = c THEN open \ {c} ELSE open
    /\ IF call[k].todo = {c} THEN Done(k)
       ELSE call' = [call EXCEPT ![k].todo = @ \ {c}]
    /\ UNCHANGED <<busy, sess, items, used, exported, doomed, active, idle>>

(* A prompt or a login (module Prompts). *)
Unlocked(c) ==
    /\ c \notin open
    /\ open' = open \cup {c}
    /\ UNCHANGED <<busy, sess, items, used, exported, doomed, active, idle, call>>

(* auto_lock_after has passed since the last activity. *)
Quiet ==
    /\ active
    /\ active' = FALSE
    /\ UNCHANGED <<busy, sess, data, idle, call>>

idle_lock ==
    /\ ~active /\ idle = {}
    /\ idle' = Cols
    /\ UNCHANGED <<busy, sess, data, active, call>>

IdleLocks(c) ==
    /\ c \in idle
    /\ idle' = idle \ {c}
    /\ open' = open \ {c}
    /\ UNCHANGED <<busy, sess, items, used, exported, doomed, active, call>>

Leave(c) ==
    /\ c \in here
    /\ here' = here \ {c}
    /\ departed' = departed \cup {c}
    /\ UNCHANGED <<sess, data, active, idle, call>>

(* watch_clients_once: the departed client's sessions go. *)
Watch(c) ==
    /\ c \in departed
    /\ departed' = departed \ {c}
    /\ sessions' = [s \in Sessions |-> IF sessions[s] = c THEN None ELSE sessions[s]]
    /\ dropped' = dropped \cup {s \in Sessions : sessions[s] = c}
    /\ UNCHANGED <<here, opened, objects, data, active, idle, call>>

-----------------------------------------------------------------------------
Serve(k) ==
    \/ OpenCheck(k) \/ OpenRefused(k) \/ OpenInsert(k) \/ OpenExport(k)
    \/ Close(k)
    \/ LookToRead(k) \/ ReadOne(k) \/ (\E c \in Cols : ReadSome(k, c))
    \/ LookToWrite(k) \/ SetSecret(k) \/ Insert(k)
    \/ TouchAfter(k) \/ register_item(k)
    \/ LookToDelete(k) \/ Remove(k) \/ AfterRemove(k)
    \/ LookToLock(k) \/ (\E c \in Cols : LockOne(k, c))

Next ==
    \/ \E k \in Slots : Serve(k)
    \/ \E s \in Sessions : UnexportSession(s)
    \/ \E i \in ItemIds : UnexportItem(i)
    \/ \E c \in Cols : Unlocked(c) \/ IdleLocks(c)
    \/ \E c \in Clients : Leave(c) \/ Watch(c)
    \/ Quiet
    \/ idle_lock

Spec == Init /\ [][Next]_vars

-----------------------------------------------------------------------------
(* Properties *)

(* DeleteItems: "Delete every item in `items`, or none of them."  A call    *)
(* that succeeds has itself removed all of its items, one that fails none:  *)
(* of two overlapping batches at most one succeeds.                         *)
BatchIsWhole ==
    \A k \in Slots :
        call[k].kind \in Deletes /\ call[k].pc = "done" =>
            call[k].removed = IF call[k].error = "none" THEN Names(k) ELSE {}

AtRest ==
    /\ \A k \in Slots : call[k].pc \in {"start", "done"}
    /\ doomed = {} /\ dropped = {}

(* When no call is being served every item can be called: its object is     *)
(* exported, whatever deletes and replaces went on beside its creation.     *)
(* Every session entry has its object too.                                  *)
StoredIsExported ==
    AtRest => /\ items \subseteq exported
              /\ \A s \in Sessions : sessions[s] # None => s \in objects

(* The other direction: "Between a delete and the `object_server` unexport  *)
(* that follows it, the object is still on the bus with nothing behind it"  *)
(* (Item.Locked), and at no other time.  Fails when an item is deleted      *)
(* between its creation and its export.                                     *)
NoGhosts == AtRest => exported \subseteq items

(* A secret is refused for its size exactly when it exceeds MAX_ITEM_SECRET,*)
(* on plain and on padded sessions: the bound on the ciphertext "must never *)
(* refuse something the plaintext check would have accepted".               *)
SizeIsJudgedExactly ==
    \A k \in Slots :
        call[k].kind \in Writes /\ call[k].pc = "done" /\ call[k].held =>
            /\ call[k].error = "too large" => ~call[k].fits
            /\ call[k].error = "none" => call[k].fits

(* Only a call that proved to hold a session, or that deleted something,    *)
(* postpones the idle lock.                                                 *)
OnlyWorkIsActivity ==
    [][active' /\ ~active =>
          \E k \in Slots :
              /\ call'[k] # call[k]
              /\ call'[k].held \/ call[k].removed # {}]_vars

(* "Drop sessions and prompts whose owning client left the bus": when every  *)
(* departure has been handled, the sessions belong to clients on the bus.   *)
(* Fails when a client leaves while its OpenSession generates a key.        *)
NoOrphans ==
    AtRest /\ departed = {} =>
        \A s \in Sessions : sessions[s] # None => sessions[s] \in here

-----------------------------------------------------------------------------
(* What the properties rest on *)

Errors == {"none", "quota", "algorithm", "export", "NoSession", "vault", "too large"}

(* A call and its locals. *)
Call == [kind : Methods, col : Cols, items : SUBSET ItemIds, who : Clients,
         pc : {"start", "keys", "vault", "touch", "export", "done"},
         ses : 0..MaxOpened, fits : BOOLEAN, todo : SUBSET (Cols \cup ItemIds),
         held : BOOLEAN, removed : SUBSET ItemIds, error : Errors]

(* Every variable stays in its domain. *)
TypeOK ==
    /\ here \subseteq Clients /\ departed \subseteq Clients
    /\ sessions \in [Sessions -> Clients \cup {None}] /\ opened \in Sessions
    /\ objects \subseteq Sessions /\ dropped \subseteq Sessions
    /\ open \subseteq Cols /\ idle \subseteq Cols
    /\ items \subseteq ItemIds /\ used \subseteq ItemIds
    /\ exported \subseteq ItemIds /\ doomed \subseteq ItemIds
    /\ active \in BOOLEAN
    /\ call \in [Slots -> Call]

(* A delete is past its removal exactly when it has removed all it was      *)
(* given; what touches the vault has proved to hold a session; a write past *)
(* the vault fits, and is refused for its size only if it does not.         *)
CallInv(k) ==
    /\ call[k].pc # "done" => call[k].error = "none"
    /\ call[k].kind \in Deletes =>
          /\ call[k].pc \in {"start", "vault"} => call[k].removed = {}
          /\ call[k].pc = "touch" => call[k].removed = Names(k) /\ Names(k) # {}
          /\ call[k].pc = "done" =>
                call[k].removed = IF call[k].error = "none" THEN Names(k) ELSE {}
    /\ call[k].kind = "CreateItem" => call[k].todo \subseteq ItemIds
    /\ call[k].kind \in Writes \cup {"GetSecret"} =>
          (call[k].pc \in {"vault", "touch", "export"} => call[k].held)
    /\ call[k].kind \in Writes =>
          /\ call[k].pc \in {"touch", "export"} => call[k].fits
          /\ call[k].pc = "done" /\ call[k].held =>
                /\ call[k].error = "too large" => ~call[k].fits
                /\ call[k].error = "none" => call[k].fits

(* An id is never used twice, so an object that is to go, now or after the  *)
(* delete that spawns the task, is not an item's; an item that has no       *)
(* object yet is still to be exported by the call that made it.             *)
ItemInv ==
    /\ items \subseteq used /\ doomed \subseteq used \ items
    /\ \A k \in Slots : call[k].kind \in Deletes /\ call[k].pc = "touch" =>
                         Names(k) \subseteq used \ items
    /\ \A i \in items :
          \/ i \in exported
          \/ \E k \in Slots : /\ call[k].kind = "CreateItem" /\ i \in call[k].todo
                              /\ call[k].pc \in {"touch", "export"}

(* The same for sessions and next_session. *)
SessionInv ==
    /\ dropped \subseteq 1..opened
    /\ \A k \in Slots : Is(k, "OpenSession", "export") => call[k].ses \in 1..opened
    /\ \A s \in Sessions : sessions[s] # None =>
          /\ s \in 1..opened /\ s \notin dropped
          /\ \/ s \in objects
             \/ \E k \in Slots : Is(k, "OpenSession", "export") /\ call[k].ses = s

(* A client never has more sessions than MAX_SESSIONS_PER_SENDER, although  *)
(* the check of OpenSession and its insertion are two acquisitions of the   *)
(* state mutex.                                                             *)
SessionsBounded == \A c \in Clients : Held(c) <= MaxSessions

=============================================================================
