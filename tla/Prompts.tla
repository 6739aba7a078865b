------------------------------ MODULE Prompts ------------------------------
(***************************************************************************)
(* The life of a D-Bus Prompt object: src/src/dbus/prompt.rs, the calls    *)
(* that create one (dbus/service.rs, dbus/collection.rs), and the client   *)
(* watch that reclaims one when its owner leaves the bus (daemon.rs).      *)
(* With them, everything else that locks or unlocks a collection: Lock,    *)
(* the control socket's Unlock, and the idle timer.                        *)
(*                                                                         *)
(* A prompt task runs concurrently with Dismiss, with the watch and with   *)
(* other tasks; a step here is what it does between two awaits or two      *)
(* atomics.  An abort is a request: the task dies at the next await that   *)
(* suspends, and may take further steps before it.                         *)
(***************************************************************************)
EXTENDS Naturals, Sequences, FiniteSets

CONSTANTS
    Clients, Prompts, Colls,
    Callers,       \* which clients may create which prompts
    Nobody,        \* no one has opened the collection
    Control,       \* it was opened through the control socket
    Kinds,         \* subset of {"unlock", "modify"}; modify: create or delete
    Requests,      \* the lists of collections an Unlock call may name
    Pins,          \* the values of pin in the control socket's Unlock
    MaxPrompts,    \* MAX_PROMPTS_PER_OWNER
    MaxTries       \* password attempts per collection: 3

ASSUME PromptsAssumption ==
    /\ Callers \subseteq [Prompts -> Clients]
    /\ Kinds \subseteq {"unlock", "modify"}
    /\ Requests \subseteq Seq(Colls)
    /\ Pins \subseteq BOOLEAN
    /\ {Nobody, Control} \cap Prompts = {} /\ Nobody # Control
    /\ MaxPrompts \in Nat \ {0} /\ MaxTries \in Nat \ {0}

VARIABLES
    locked, pinned,   \* per collection: Vault::is_locked, Vault.pinned
    connected,        \* per client: on the bus
    watched,          \* per client: the watch has handled its departure
    relock,           \* collections the watch still has to lock
    caller, kind,     \* per prompt: the client that asks for it, its PromptAction
    call,             \* the call that creates it: "none", "resolving", then
                      \* "exported" or "returned" without a prompt
    armed,            \* Prompt.action has not been taken
    owned,            \* it has its entry in prompt_owners
    handle, commit,   \* it has its entries in prompt_tasks, prompt_commits
    record,           \* its entry in prompt_unlocked
    gate, cancelled,  \* Prompt.committed, Prompt.cancelled
    dis,              \* the Dismiss call: "none", "marked", "won" the gate,
                      \* "finished" after that, or "late"
    task,             \* where the spawned task is
    aborted,          \* its AbortHandle was used
    todo,             \* collections still to unlock; Head(todo) is current
    tries, now, any,  \* its locals: attempts, unlocked_now, any_unlocked
    completed,        \* Completed signals sent
    effect,           \* how much of a create or delete has happened
    opener,           \* history: who decrypted the open collection
    lastPin,          \* history: the pin the last successful unlock asked for
    abandoned         \* history: reclaimed before its last owner check

collections == <<locked, pinned, opener, lastPin>>
bus == <<connected, watched, relock>>
object == <<caller, kind, call, armed, owned, handle, commit>>
sync == <<gate, cancelled, dis, aborted>>
locals == <<todo, tries, now, any>>
outcome == <<completed, effect, abandoned>>
vars == <<collections, bus, object, sync, locals, outcome, record, task>>

Init ==
    /\ locked = [c \in Colls |-> TRUE] /\ pinned = [c \in Colls |-> FALSE]
    /\ opener = [c \in Colls |-> Nobody] /\ lastPin = [c \in Colls |-> FALSE]
    /\ connected = [k \in Clients |-> TRUE] /\ watched = [k \in Clients |-> FALSE]
    /\ relock = {}
    /\ caller \in Callers /\ kind \in [Prompts -> Kinds]
    /\ call = [p \in Prompts |-> "none"] /\ armed = [p \in Prompts |-> TRUE]
    /\ owned = [p \in Prompts |-> FALSE]
    /\ handle = [p \in Prompts |-> FALSE] /\ commit = [p \in Prompts |-> FALSE]
    /\ gate = [p \in Prompts |-> FALSE] /\ cancelled = [p \in Prompts |-> FALSE]
    /\ dis = [p \in Prompts |-> "none"] /\ aborted = [p \in Prompts |-> FALSE]
    /\ todo = [p \in Prompts |-> <<>>] /\ tries = [p \in Prompts |-> 0]
    /\ now = [p \in Prompts |-> {}] /\ any = [p \in Prompts |-> FALSE]
    /\ completed = [p \in Prompts |-> 0] /\ effect = [p \in Prompts |-> "none"]
    /\ abandoned = [p \in Prompts |-> FALSE]
    /\ record = [p \in Prompts |-> {}] /\ task = [p \in Prompts |-> "none"]

-----------------------------------------------------------------------------
(* Locking and unlocking a collection *)

(* Vault::lock: wipes the plaintext and clears the pin. *)
LockVaults(cs) ==
    /\ locked' = [c \in Colls |-> locked[c] \/ c \in cs]
    /\ pinned' = [c \in Colls |-> pinned[c] /\ c \notin cs]
    /\ opener' = [c \in Colls |-> IF c \in cs THEN Nobody ELSE opener[c]]
    /\ UNCHANGED lastPin

(* Vault::unlock_with_key with the right key.  An open vault only has the   *)
(* key verified.                                                            *)
UnlockVault(c, who) ==
    /\ locked' = [locked EXCEPT ![c] = FALSE]
    /\ opener' = IF locked[c] THEN [opener EXCEPT ![c] = who] ELSE opener

(* Service.Lock and the control socket's Lock. *)
Lock(c) ==
    /\ ~locked[c]
    /\ LockVaults({c})
    /\ UNCHANGED <<bus, object, sync, locals, outcome, record, task>>

idle_lock(c) ==
    /\ ~pinned[c] /\ ~locked[c]
    /\ LockVaults({c})
    /\ UNCHANGED <<bus, object, sync, locals, outcome, record, task>>

(* The control socket's Unlock; pin is TRUE when a PAM login sends it. *)
ControlUnlock(c, pin) ==
    /\ UnlockVault(c, Control)
    /\ pinned' = [pinned EXCEPT ![c] = pin]
    /\ lastPin' = [lastPin EXCEPT ![c] = pin]
    /\ UNCHANGED <<bus, object, sync, locals, outcome, record, task>>

-----------------------------------------------------------------------------
(* Creating a prompt: Service.Unlock, CreateCollection, Collection.Delete *)

(* The handler resolves what it was asked; its client may leave the bus     *)
(* before it takes the state lock again.                                    *)
Resolve(p) ==
    /\ connected[caller[p]]
    /\ call[p] = "none"
    /\ \/ /\ kind[p] = "modify"
          /\ call' = [call EXCEPT ![p] = "resolving"]
          /\ UNCHANGED todo
       \/ /\ kind[p] = "unlock"
          /\ \E request \in Requests :
               LET wanted == SelectSeq(request, LAMBDA c : locked[c]) IN
               /\ todo' = [todo EXCEPT ![p] = wanted]
               /\ call' = [call EXCEPT ![p] = IF wanted = <<>> THEN "returned"
                                              ELSE "resolving"]
    /\ UNCHANGED <<collections, bus, caller, kind, armed, owned, handle,
                   commit, sync,
                   tries, now, any, outcome, record, task>>

check_prompt_quota(k) ==
    Cardinality({p \in Prompts : caller[p] = k /\ owned[p]}) < MaxPrompts

(* The quota check and the owner entry, under one acquisition.  A call over *)
(* the quota is refused; an object that cannot be exported has its entry    *)
(* taken back.                                                              *)
Export(p) ==
    /\ call[p] = "resolving"
    /\ \/ /\ check_prompt_quota(caller[p])
          /\ call' = [call EXCEPT ![p] = "exported"]
          /\ owned' = [owned EXCEPT ![p] = TRUE]
       \/ /\ call' = [call EXCEPT ![p] = "returned"]
          /\ UNCHANGED owned
    /\ UNCHANGED <<collections, bus, caller, kind, armed, handle, commit, sync,
                   locals, outcome, record, task>>

(* check_owner: only the owner may call Prompt or Dismiss. *)
check_owner(p) == call[p] = "exported" /\ owned[p] /\ connected[caller[p]]

-----------------------------------------------------------------------------
(* Prompt and Dismiss *)

(* Prompt takes the action... *)
Perform(p) ==
    /\ check_owner(p)
    /\ armed[p]
    /\ armed' = [armed EXCEPT ![p] = FALSE]
    /\ task' = [task EXCEPT ![p] = "spawning"]
    /\ UNCHANGED <<collections, bus, caller, kind, call, owned, handle,
                   commit, sync,
                   locals, outcome, record>>

(* ...and registers the task under the state lock. *)
Register(p) ==
    /\ task[p] = "spawning"
    /\ task' = [task EXCEPT ![p] = "top"]
    /\ handle' = [handle EXCEPT ![p] = TRUE]
    /\ commit' = [commit EXCEPT ![p] = TRUE]
    /\ UNCHANGED <<collections, bus, caller, kind, call, armed, owned, sync,
                   locals,
                   outcome, record>>

(* Dismiss takes the action and records the cancellation... *)
Dismiss(p) ==
    /\ check_owner(p)
    /\ dis[p] = "none"
    /\ armed' = [armed EXCEPT ![p] = FALSE]
    /\ cancelled' = [cancelled EXCEPT ![p] = TRUE]
    /\ dis' = [dis EXCEPT ![p] = "marked"]
    /\ UNCHANGED <<collections, bus, caller, kind, call, owned, handle,
                   commit, gate,
                   aborted, locals, outcome, record, task>>

(* ...then, under the state lock, claims the gate and takes the handle, or  *)
(* finds the task past it.                                                  *)
DismissClaim(p) ==
    /\ dis[p] = "marked"
    /\ \/ /\ gate[p]
          /\ dis' = [dis EXCEPT ![p] = "late"]
          /\ UNCHANGED <<gate, handle, aborted>>
       \/ /\ ~gate[p]
          /\ gate' = [gate EXCEPT ![p] = TRUE]
          /\ aborted' = [aborted EXCEPT ![p] = handle[p]]
          /\ handle' = [handle EXCEPT ![p] = FALSE]
          /\ dis' = [dis EXCEPT ![p] = "won"]
    /\ UNCHANGED <<collections, bus, caller, kind, call, armed, owned, commit,
                   cancelled, locals, outcome, record, task>>

(* Variant: Completed goes out whoever came first. *)
FinishAlways(p) ==
    /\ handle' = [handle EXCEPT ![p] = FALSE]
    /\ commit' = [commit EXCEPT ![p] = FALSE]
    /\ record' = [record EXCEPT ![p] = {}]
    /\ owned' = [owned EXCEPT ![p] = FALSE]
    /\ completed' = [completed EXCEPT ![p] = @ + 1]
    /\ UNCHANGED <<caller, kind, call, armed, effect, abandoned>>

(* finish: forget the prompt; Completed goes out if it was still there. *)
finish(p) ==
    /\ handle' = [handle EXCEPT ![p] = FALSE]
    /\ commit' = [commit EXCEPT ![p] = FALSE]
    /\ record' = [record EXCEPT ![p] = {}]
    /\ owned' = [owned EXCEPT ![p] = FALSE]
    /\ completed' = [completed EXCEPT ![p] = IF owned[p] THEN @ + 1 ELSE @]
    /\ UNCHANGED <<caller, kind, call, armed, effect, abandoned>>

(* Variant: the task is aborted and nobody completes the prompt. *)
DismissAbortsOnly(p) ==
    /\ dis[p] = "won"
    /\ dis' = [dis EXCEPT ![p] = "finished"]
    /\ UNCHANGED <<collections, bus, object, gate, cancelled, aborted, locals,
                   outcome, record, task>>

DismissFinish(p) ==
    /\ dis[p] = "won"
    /\ finish(p)
    /\ dis' = [dis EXCEPT ![p] = "finished"]
    /\ UNCHANGED <<collections, bus, gate, cancelled, aborted, locals, task>>

-----------------------------------------------------------------------------
(* The task: run, unlock_collection_inner, create_collection and            *)
(* delete_collection                                                        *)

Goto(p, l) == task' = [task EXCEPT ![p] = l]

(* Top of the loop: the gate is reset before cancelled is read.  Create and *)
(* delete have no loop and do not reset it.                                 *)
Top(p) ==
    /\ task[p] = "top"
    /\ IF kind[p] = "unlock" /\ todo[p] = <<>>
       THEN Goto(p, "end") /\ UNCHANGED gate
       ELSE /\ gate' = IF kind[p] = "unlock" THEN [gate EXCEPT ![p] = FALSE] ELSE gate
            /\ Goto(p, "cancelled?")
    /\ tries' = [tries EXCEPT ![p] = 0]
    /\ UNCHANGED <<collections, bus, object, cancelled, dis, aborted, todo,
                   now, any, outcome, record>>

(* The cancellation check before the dialog; only the unlock loop goes on   *)
(* to check that the owner is there.                                        *)
CheckCancelled(p) ==
    /\ task[p] = "cancelled?"
    /\ Goto(p, IF kind[p] = "modify"
               THEN IF cancelled[p] THEN "finish" ELSE "dialog"
               ELSE IF cancelled[p] THEN "end" ELSE "owner?")
    /\ UNCHANGED <<collections, bus, object, sync, locals, outcome, record>>

(* Variant: the loop does not look for its owner. *)
SkipOwnerCheck(p) ==
    /\ task[p] = "owner?"
    /\ Goto(p, "locked?")
    /\ UNCHANGED <<collections, bus, object, sync, locals, outcome, record>>

CheckOwner(p) ==
    /\ task[p] = "owner?"
    /\ Goto(p, IF owned[p] THEN "locked?" ELSE "end")
    /\ UNCHANGED <<collections, bus, object, sync, locals, outcome, record>>

NextColl(p) == todo' = [todo EXCEPT ![p] = Tail(@)] /\ Goto(p, "top")

(* AlreadyUnlocked: a success, but not this prompt's. *)
CheckLocked(p) ==
    /\ task[p] = "locked?"
    /\ IF locked[Head(todo[p])]
       THEN Goto(p, "dialog") /\ UNCHANGED <<todo, any>>
       ELSE NextColl(p) /\ any' = [any EXCEPT ![p] = TRUE]
    /\ UNCHANGED <<collections, bus, object, sync, tries, now, outcome, record>>

(* The dialog ends: an answer, a cancel, busy or a failure to show it. *)
Dialog(p) ==
    /\ task[p] = "dialog"
    /\ \/ Goto(p, IF kind[p] = "unlock" THEN "claim" ELSE "confirmed") /\ UNCHANGED todo
       \/ Goto(p, IF kind[p] = "unlock" THEN "end" ELSE "finish") /\ UNCHANGED todo
       \/ kind[p] = "unlock" /\ NextColl(p)
    /\ UNCHANGED <<collections, bus, object, sync, tries, now, any, outcome,
                   record>>

(* Create and delete read cancelled again after the dialog. *)
CheckCancelledAgain(p) ==
    /\ task[p] = "confirmed"
    /\ Goto(p, IF cancelled[p] THEN "finish" ELSE "claim")
    /\ UNCHANGED <<collections, bus, object, sync, locals, outcome, record>>

(* Variant: the gate is set, not compared and set. *)
ClaimBlindly(p) ==
    /\ task[p] = "claim"
    /\ gate' = [gate EXCEPT ![p] = TRUE]
    /\ Goto(p, IF kind[p] = "unlock" THEN "derive" ELSE "act")
    /\ UNCHANGED <<collections, bus, object, cancelled, dis, aborted, locals,
                   outcome, record>>

(* The first answer for a collection claims the gate, or finds that Dismiss *)
(* has it.                                                                  *)
Claim(p) ==
    /\ task[p] = "claim"
    /\ IF tries[p] > 0 \/ ~gate[p]
       THEN /\ gate' = [gate EXCEPT ![p] = TRUE]
            /\ Goto(p, IF kind[p] = "unlock" THEN "derive" ELSE "act")
       ELSE /\ Goto(p, IF kind[p] = "unlock" THEN "end" ELSE "finish")
            /\ UNCHANGED gate
    /\ UNCHANGED <<collections, bus, object, cancelled, dis, aborted, locals,
                   outcome, record>>

(* Key derivation, which always suspends the task, then the claim on the    *)
(* collection.  The collection may have left the daemon, or Argon2 fail.    *)
Derive(p) ==
    /\ task[p] = "derive"
    /\ ~aborted[p]
    /\ \/ NextColl(p) /\ UNCHANGED record
       \/ /\ record' = [record EXCEPT ![p] = @ \cup {Head(todo[p])}]
          /\ Goto(p, "open")
          /\ UNCHANGED todo
    /\ UNCHANGED <<collections, bus, object, sync, tries, now, any, outcome>>

(* unlock_with_key under the collection's lock; this path does not touch    *)
(* the pin.                                                                 *)
Open(p) ==
    /\ task[p] = "open"
    /\ LET c == Head(todo[p]) IN
       \/ /\ UnlockVault(c, p)
          /\ lastPin' = [lastPin EXCEPT ![c] = FALSE]
          /\ now' = [now EXCEPT ![p] = @ \cup {c}]
          /\ any' = [any EXCEPT ![p] = TRUE]
          /\ NextColl(p)
          /\ UNCHANGED pinned
       \/ /\ Goto(p, "drop")
          /\ UNCHANGED <<collections, todo, now, any>>
    /\ UNCHANGED <<bus, object, sync, tries, outcome, record>>

MoreTries(p) == tries[p] + 1 < MaxTries

(* The open failed: the claim is dropped.  A wrong password asks again, up  *)
(* to MaxTries dialogs; another error gives the collection up.              *)
Drop(p) ==
    /\ task[p] = "drop"
    /\ record' = [record EXCEPT ![p] = @ \ {Head(todo[p])}]
    /\ \/ /\ MoreTries(p)
          /\ tries' = [tries EXCEPT ![p] = @ + 1]
          /\ Goto(p, "dialog")
          /\ UNCHANGED todo
       \/ NextColl(p) /\ UNCHANGED tries
    /\ UNCHANGED <<collections, bus, object, sync, now, any, outcome>>

(* Variant: the task does not look for its owner at the end. *)
EndUnchecked(p) ==
    /\ task[p] = "end"
    /\ Goto(p, "finish")
    /\ UNCHANGED <<collections, bus, object, sync, locals, outcome, record>>

(* After the loop: an owner that is gone has its collections locked again. *)
End(p) ==
    /\ task[p] = "end"
    /\ IF owned[p]
       THEN Goto(p, "finish") /\ UNCHANGED record
       ELSE record' = [record EXCEPT ![p] = {}] /\ Goto(p, "relock")
    /\ UNCHANGED <<collections, bus, object, sync, locals, outcome>>

Relock(p) ==
    /\ task[p] = "relock"
    /\ IF now[p] = {}
       THEN Goto(p, "finish") /\ UNCHANGED <<collections, now>>
       ELSE \E c \in now[p] :
              /\ LockVaults({c})
              /\ now' = [now EXCEPT ![p] = @ \ {c}]
              /\ UNCHANGED task
    /\ UNCHANGED <<bus, object, sync, todo, tries, any, outcome, record>>

(* The irreversible part of create and delete: the file is published or     *)
(* unlinked, or that fails...                                               *)
Act(p) ==
    /\ task[p] = "act"
    /\ \/ effect' = [effect EXCEPT ![p] = "file"] /\ Goto(p, "settle")
       \/ UNCHANGED effect /\ Goto(p, "finish")
    /\ UNCHANGED <<collections, bus, object, sync, locals, completed,
                   abandoned, record>>

(* ...then, under the state lock, the collection enters or leaves the map,  *)
(* and its aliases and D-Bus objects follow.                                *)
Settle(p) ==
    /\ task[p] = "settle"
    /\ effect' = [effect EXCEPT ![p] = "whole"]
    /\ Goto(p, "finish")
    /\ UNCHANGED <<collections, bus, object, sync, locals, completed,
                   abandoned, record>>

Finish(p) ==
    /\ task[p] = "finish"
    /\ finish(p)
    /\ Goto(p, "done")
    /\ UNCHANGED <<collections, bus, sync, locals>>

Running(p) == task[p] \notin {"none", "spawning", "done", "dead"}

(* An aborted task is dropped where it suspends. *)
Die(p) ==
    /\ aborted[p] /\ Running(p)
    /\ Goto(p, "dead")
    /\ UNCHANGED <<collections, bus, object, sync, locals, outcome, record>>

-----------------------------------------------------------------------------
(* The client watch *)

Disconnect(k) ==
    /\ connected[k]
    /\ connected' = [connected EXCEPT ![k] = FALSE]
    /\ UNCHANGED <<collections, watched, relock, object, sync, locals, outcome,
                   record, task>>

(* reclaim_prompt leaves a registered task alone that is past its gate. *)
Committed(p) == handle[p] /\ commit[p] /\ gate[p]

(* Those whose task will not lock again what it opened: aborted here, or by *)
(* a Dismiss that has already taken the handle.                             *)
Stopped(k) == {p \in Prompts : caller[p] = k /\ owned[p] /\ ~Committed(p)}

(* One NameOwnerChanged: every prompt of the client is reclaimed under one  *)
(* acquisition of the state lock. *)
Reclaim(k) ==
    LET gone == {p \in Prompts : caller[p] = k /\ owned[p]}
        stopped == Stopped(k)
        Without(f, s, v) == [p \in Prompts |-> IF p \in s THEN v ELSE f[p]]
    IN
    /\ ~connected[k] /\ ~watched[k]
    /\ relock = {}
    /\ watched' = [watched EXCEPT ![k] = TRUE]
    /\ owned' = Without(owned, gone, FALSE)
    /\ commit' = Without(commit, gone, FALSE)
    /\ handle' = Without(handle, gone, FALSE)
    /\ aborted' = [p \in Prompts |-> aborted[p] \/ (p \in stopped /\ handle[p])]
    /\ relock' = UNION {record[p] : p \in stopped}
    /\ record' = Without(record, stopped, {})
    /\ abandoned' = [p \in Prompts |->
                        abandoned[p] \/ (p \in gone /\ task[p] # "finish")]
    /\ UNCHANGED <<collections, connected, caller, kind, call, armed, gate,
                   cancelled,
                   dis, locals, completed, effect, task>>

WatchRelock(c) ==
    /\ c \in relock
    /\ relock' = relock \ {c}
    /\ LockVaults({c})
    /\ UNCHANGED <<connected, watched, object, sync, locals, outcome, record,
                   task>>

-----------------------------------------------------------------------------
TaskStep(p) ==
    \/ Register(p) \/ Top(p) \/ CheckCancelled(p) \/ CheckOwner(p)
    \/ CheckLocked(p) \/ Dialog(p) \/ CheckCancelledAgain(p) \/ Claim(p) \/ Derive(p)
    \/ Open(p) \/ Drop(p) \/ End(p) \/ Relock(p) \/ Act(p) \/ Settle(p)
    \/ Finish(p) \/ Die(p)

DismissStep(p) == DismissClaim(p) \/ DismissFinish(p)

Next ==
    \/ \E c \in Colls : Lock(c) \/ idle_lock(c) \/ WatchRelock(c)
    \/ \E c \in Colls, pin \in Pins : ControlUnlock(c, pin)
    \/ \E p \in Prompts : Resolve(p) \/ Export(p) \/ Perform(p) \/ Dismiss(p)
    \/ \E p \in Prompts : TaskStep(p) \/ DismissStep(p)
    \/ \E k \in Clients : Disconnect(k) \/ Reclaim(k)

Spec == Init /\ [][Next]_vars

(* What runs on without anyone's help: spawned tasks (a dialog ends by its  *)
(* timeout if not by an answer), handlers past their first step, the watch. *)
FairSpec ==
    /\ Spec
    /\ \A p \in Prompts : WF_vars(TaskStep(p)) /\ WF_vars(DismissStep(p))
                          /\ WF_vars(Export(p))
    /\ \A k \in Clients : WF_vars(Reclaim(k))
    /\ \A c \in Colls : WF_vars(WatchRelock(c))

-----------------------------------------------------------------------------
(* Properties *)

(* Every variable stays in its domain. *)
TypeOK ==
    /\ locked \in [Colls -> BOOLEAN] /\ pinned \in [Colls -> BOOLEAN]
    /\ opener \in [Colls -> Prompts \cup {Nobody, Control}]
    /\ lastPin \in [Colls -> BOOLEAN]
    /\ connected \in [Clients -> BOOLEAN] /\ watched \in [Clients -> BOOLEAN]
    /\ relock \subseteq Colls
    /\ caller \in Callers /\ kind \in [Prompts -> Kinds] /\ armed \in [Prompts -> BOOLEAN]
    /\ call \in [Prompts -> {"none", "resolving", "exported", "returned"}]
    /\ owned \in [Prompts -> BOOLEAN] /\ handle \in [Prompts -> BOOLEAN]
    /\ commit \in [Prompts -> BOOLEAN] /\ record \in [Prompts -> SUBSET Colls]
    /\ gate \in [Prompts -> BOOLEAN] /\ cancelled \in [Prompts -> BOOLEAN]
    /\ dis \in [Prompts -> {"none", "marked", "won", "finished", "late"}]
    /\ aborted \in [Prompts -> BOOLEAN] /\ tries \in [Prompts -> 0..(MaxTries - 1)]
    /\ now \in [Prompts -> SUBSET Colls] /\ any \in [Prompts -> BOOLEAN]
    /\ completed \in [Prompts -> Nat] /\ effect \in [Prompts -> {"none", "file", "whole"}]
    /\ task \in [Prompts -> {"none", "spawning", "top", "cancelled?", "owner?",
                             "locked?", "dialog", "confirmed", "claim",
                             "derive", "open", "drop", "end", "relock", "act",
                             "settle", "finish", "done", "dead"}]

(* One Completed per prompt: the task's finish and the one Dismiss calls    *)
(* may both run, in either order, with a disconnect between them.           *)
CompletedOnce == \A p \in Prompts : completed[p] <= 1

(* A Dismiss that claimed the gate stops the prompt for good: it opens no   *)
(* collection, creates none and deletes none afterwards.  A Dismiss that    *)
(* came too late still stops the collections the loop has not reached.      *)
DismissStops ==
    [][\A p \in Prompts :
          /\ dis[p] \in {"won", "finished"} =>
                effect'[p] = effect[p] /\ record'[p] \subseteq record[p]
          /\ dis[p] = "late" => ~(task[p] = "locked?" /\ task'[p] = "dialog")]_vars

(* A collection that a prompt decrypted for a client that left before the   *)
(* prompt's last owner check is locked again, by the task or by the watch,  *)
(* whoever was first; as long as it is open, one of the two knows of it.    *)
AbandonedIsRelocked ==
    \A p \in Prompts, c \in Colls :
        abandoned[p] /\ opener[c] = p =>
            \/ c \in relock
            \/ Running(p) /\ c \in now[p]

(* A decrypted collection is always on record against the prompt that       *)
(* opened it, until the prompt completes: an abort at any await finds it.   *)
OpenIsRecorded ==
    \A p \in Prompts, c \in Colls :
        opener[c] = p /\ owned[p] => c \in record[p]

(* A pin never outlives the lock: an explicit lock, the re-lock of a        *)
(* reclaimed prompt and the idle timer all leave the collection unpinned.   *)
LockedIsUnpinned == \A c \in Colls : locked[c] => ~pinned[c]

(* An owner never has more prompts than MAX_PROMPTS_PER_OWNER, although the *)
(* calls that create them interleave.                                       *)
QuotaHolds ==
    \A k \in Clients :
        Cardinality({p \in Prompts : caller[p] = k /\ owned[p]}) <= MaxPrompts

(* A prompt whose owner stays is answered: the task or the Dismiss sends    *)
(* Completed, whatever the dialog and the race between them do.             *)
PromptIsAnswered ==
    \A p \in Prompts :
        task[p] = "spawning" ~> completed[p] = 1 \/ ~connected[caller[p]]

(* No dialog is on the screen for a client that is gone, unless its task    *)
(* has been told to stop or had an answer before ("aborting any prompt task *)
(* (and its pinentry) still running for that client").  Holds for unlock    *)
(* prompts, which check the owner; fails for create and delete when the     *)
(* client leaves between Prompt's owner check and the task's registration.  *)
DialogHasOwner ==
    \A p \in Prompts :
        task[p] = "dialog" /\ ~gate[p] => owned[p] \/ aborted[p]

(* reclaim_prompt: "Aborting it there would drop a change the user already  *)
(* confirmed and leave the daemon disagreeing with the disk, so let it      *)
(* finish".  Fails because the gate is read, not claimed, before the abort: *)
(* the task can claim it in between, and die after the unlink.              *)
ConfirmedIsWhole == \A p \in Prompts : task[p] = "dead" => effect[p] # "file"

(* Vault.pinned: "the pin always reflects the *last* successful unlock".    *)
(* Fails when a prompt's unlock follows a PAM login's.                      *)
PinReflectsLastUnlock == \A c \in Colls : ~locked[c] => pinned[c] = lastPin[c]

-----------------------------------------------------------------------------
(* What the properties rest on *)

(* An owner entry, a task, a Dismiss and a Completed only after the export; one *)
(* Completed, after which the owner entry is gone for good.                 *)
LifeInv(p) ==
    /\ call[p] # "exported" =>
          /\ task[p] = "none" /\ dis[p] = "none" /\ completed[p] = 0
          /\ ~owned[p] /\ ~abandoned[p]
    /\ completed[p] = 0 \/ (completed[p] = 1 /\ ~owned[p])
    /\ abandoned[p] => ~owned[p]
    /\ armed[p] => task[p] = "none"

Ending == {"end", "relock", "finish", "done", "dead"}

(* The handle is there for a task that runs and has not been stopped; it    *)
(* outlives its owner only if the task was registered after the owner left. *)
HandleInv(p) ==
    /\ handle[p] => commit[p] /\ ~aborted[p] /\ Running(p)
    /\ aborted[p] => task[p] \notin {"none", "spawning", "open"}
    /\ handle[p] /\ abandoned[p] /\ kind[p] = "unlock" =>
          task[p] \in {"top", "cancelled?", "owner?"} \cup Ending

(* A task between its claim and the end of the collection has the gate; no  *)
(* one else can take it there.  Only a Dismiss that won holds it before.    *)
GateInv(p) ==
    /\ task[p] \in {"derive", "open", "drop", "act", "settle"} => gate[p]
    /\ tries[p] > 0 => gate[p] \/ task[p] \in Ending \cup {"top"}
    /\ gate[p] /\ dis[p] \in {"none", "marked"} /\ kind[p] = "unlock" =>
          task[p] \notin {"cancelled?", "owner?", "locked?"}

(* A Dismiss past its first step has left its mark, and one that won meets  *)
(* no task that is past the gate or can get there.                          *)
DismissInv(p) ==
    /\ dis[p] # "none" => cancelled[p]
    /\ dis[p] \in {"won", "finished"} =>
          \/ task[p] \in {"none", "spawning", "top", "cancelled?"} \cup Ending
          \/ task[p] \in {"owner?", "locked?", "dialog", "confirmed", "claim"}
                /\ gate[p] /\ tries[p] = 0
    /\ dis[p] = "late" => task[p] \notin {"owner?", "locked?"}

(* A collection that a prompt opened is in its unlocked_now and, as long as *)
(* it has an owner, on record; it is not the one the prompt works on.       *)
OpenerInv(p) ==
    /\ task[p] \in {"confirmed", "act", "settle"} => kind[p] = "modify"
    /\ task[p] \in {"owner?", "locked?", "derive", "open", "drop"} => kind[p] = "unlock"
    /\ task[p] = "open" /\ owned[p] => Head(todo[p]) \in record[p]
    /\ \A c \in Colls : opener[c] = p =>
          /\ c \in now[p] /\ kind[p] = "unlock" /\ task[p] \notin {"none", "spawning"}
          /\ task[p] \in {"dialog", "claim", "derive", "open", "drop"} => c # Head(todo[p])
          /\ owned[p] => c \in record[p]
          /\ handle[p] => ~abandoned[p]
          /\ abandoned[p] => c \in relock
                \/ (~aborted[p] /\ task[p] \notin {"finish", "done", "dead"})

(* The watch finds the handle of every task that runs for an owner, unless  *)
(* a Dismiss has it; and between its owner check and its answer an unlock   *)
(* has an owner or has been told to stop.                                   *)
WatchInv(p) ==
    /\ Running(p) /\ owned[p] => handle[p] \/ dis[p] \in {"won", "finished"}
    /\ kind[p] = "unlock" /\ task[p] \in {"locked?", "dialog"} /\ ~gate[p] =>
          owned[p] \/ aborted[p]

PromptInv ==
    /\ \A c \in Colls : locked[c] => opener[c] = Nobody /\ ~pinned[c]
    /\ \A p \in Prompts :
          LifeInv(p) /\ HandleInv(p) /\ GateInv(p) /\ DismissInv(p) /\ OpenerInv(p)

=============================================================================
