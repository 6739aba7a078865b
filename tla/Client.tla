------------------------------- MODULE Client -------------------------------
(***************************************************************************)
(* The commands of cli/ that talk to the secret service: get, set, delete, *)
(* ssh and gpg; those that talk to the control socket about a password;    *)
(* and the daemon's task that feeds gpg-agent after an unlock              *)
(* (dbus/gpg_preset.rs, gpg.rs).  A command is a sequence of calls;        *)
(* between two of them anybody may lock a collection.  A call may be       *)
(* answered, be refused, or its answer be lost.                            *)
(***************************************************************************)
EXTENDS Naturals, Sequences, FiniteSets, SequencesExt

CONSTANTS Collections,   \* ids of collections
          Scenarios,     \* a command, what is stored, and who may interfere
          Ring,          \* gpg -K: its lines, with the key each is really of
                         \* and whether that key can sign
          Filter,        \* the configured allowlist of key ids; none is all
          MaxTasks       \* unlock hooks followed

(* The commands modelled here; init and import are in modules of their own. *)
Command ==
    {"get", "set", "delete", "list", "lock", "unlock", "change-password", "ssh add",
     "ssh list", "ssh remove", "ssh askpass", "gpg enroll", "gpg preset"}

ASSUME ClientConstants ==
    /\ IsFiniteSet(Collections) /\ MaxTasks \in Nat
    /\ \A s \in Scenarios : s.cmd.op \in Command

VARIABLES items,     \* the items of all collections
          locked,    \* the locked collections
          cmd,       \* the command, with the key it is about and its secret
          pc,        \* its next call
          found,     \* the items it goes on with
          want,      \* the locked items it asked to have unlocked
          todo,      \* the items still to be asked about or deleted
          failed,    \* the items reported as not deleted
          targets,   \* the items its search named (history)
          touched,   \* whether it unlocked or read anything (history)
          consent,   \* whether the user agreed to the use of a key
          result,    \* the exit status
          answer,    \* the secret printed
          tasks,     \* the unlock hooks that run
          agent,     \* what gpg-agent holds, by keygrip
          header,    \* of each collection: its password and salt
          salt,      \* the salt the command has read from the file
          other      \* another change of password beside the command

cmdVars == <<cmd, pc, found, want, todo, failed, targets, touched, consent, result, answer>>
keyVars == <<header, salt, other>>
vars == <<items, locked, cmdVars, tasks, agent, keyVars>>

None == 0
NoSecret == [for |-> None, n |-> 0]

----------------------------------------------------------------------------
(* Key ids and gpg's listing                                               *)

(* A key id is a key and a spelling: "long" and "full" may have a prefix,  *)
(* a "short" one is refused.                                               *)
normalize_id(id) == IF id.form \in {"long", "full"} THEN id.key ELSE None
keyid_matches(id, key) == normalize_id(id) # None /\ normalize_id(id) = key
key_allowed(id) ==
    Filter = {} \/ normalize_id(id) \in {normalize_id(f) : f \in Filter} \ {None}
same_enrollment(a, b) ==
    IF None \notin {normalize_id(a), normalize_id(b)} THEN normalize_id(a) = normalize_id(b)
    ELSE a = b

(* Variant: a record keeps the fingerprint of the one before.              *)
KeepsFingerprint(lines) ==
    LET step(acc, l) ==
          CASE l.rec \in {"sec", "ssb"} -> [acc EXCEPT !.sign = l.valid /\ l.sign]
            [] l.rec = "fpr" /\ acc.fpr = None -> [acc EXCEPT !.fpr = l.value]
            [] l.rec = "grp" ->
                 [keys |-> IF acc.sign /\ None \notin {l.value, acc.fpr}
                           THEN Append(acc.keys, [fpr |-> acc.fpr, grip |-> l.value]) ELSE acc.keys,
                  sign |-> FALSE, fpr |-> None]
            [] OTHER -> acc
    IN FoldLeft(step, [keys |-> <<>>, sign |-> FALSE, fpr |-> None], lines).keys

(* The signing keys that are neither expired nor revoked.  The fpr and grp *)
(* lines after a record belong to it; a malformed value is None.           *)
parse_colons(lines) ==
    LET step(acc, l) ==
          CASE l.rec \in {"sec", "ssb"} ->
                 [acc EXCEPT !.sign = l.valid /\ l.sign, !.fpr = None]
            [] l.rec = "fpr" /\ acc.fpr = None -> [acc EXCEPT !.fpr = l.value]
            [] l.rec = "grp" ->
                 [keys |-> IF acc.sign /\ None \notin {l.value, acc.fpr}
                           THEN Append(acc.keys, [fpr |-> acc.fpr, grip |-> l.value]) ELSE acc.keys,
                  sign |-> FALSE, fpr |-> None]
            [] OTHER -> acc
    IN FoldLeft(step, [keys |-> <<>>, sign |-> FALSE, fpr |-> None], lines).keys

discover == parse_colons(Ring)

(* The key of the ring a command means: the only one that matches.         *)
pick_key(key) == {i \in DOMAIN discover : discover[i].fpr = key}

(* The keygrips a preset of an enrolled id goes to: the first key's.       *)
GripsOf(id) ==
    LET at == {i \in DOMAIN discover : normalize_id(id) # None /\ discover[i].fpr = normalize_id(id)}
    IN IF at = {} THEN {} ELSE {discover[CHOOSE i \in at : \A j \in at : i <= j].grip}

(* The enrolled ids and secrets of one vault, added to those of others.    *)
collect_enrolled(stored, pairs) ==
    LET add(acc, it) ==
          IF /\ it.schema = "gpg" /\ key_allowed(it.id) /\ it.secret.n # 0
             /\ \A i \in DOMAIN acc : ~same_enrollment(acc[i].id, it.id)
          THEN Append(acc, [id |-> it.id, secret |-> it.secret]) ELSE acc
    IN FoldLeft(add, pairs, SetToSortSeq(stored, LAMBDA a, b : a.at < b.at))

----------------------------------------------------------------------------

Init ==
    /\ \E s \in Scenarios : cmd = s.cmd /\ items = s.items /\ locked = s.locked
    /\ pc = "start" /\ result = "none" /\ answer = NoSecret
    /\ found = {} /\ want = {} /\ todo = {} /\ failed = {} /\ targets = {}
    /\ touched = FALSE /\ consent = FALSE /\ tasks = <<>>
    /\ agent = [g \in {l.value : l \in {m \in Range(Ring) : m.rec = "grp"}} |-> NoSecret]
    /\ header = [c \in Collections |-> [pw |-> "first", salt |-> 0]]
    /\ salt = 0
    /\ other = [at |-> IF "changes" \in cmd.rivals THEN "header" ELSE "off", salt |-> 0]

Exit(status) == pc' = "done" /\ result' = status

(* One more unlock hook, if they are enabled.                              *)
note_unlocked(opened) ==
    tasks' = IF opened # {} /\ cmd.hook /\ Len(tasks) < MaxTasks
             THEN Append(tasks, [cols |-> SetToSeq(Collections), pairs |-> <<>>])
             ELSE tasks

(* find and find_all.                                                      *)
Lenient == {"get", "ssh list"}
Strict == {"delete", "ssh remove", "ssh add", "gpg enroll", "gpg preset"}

(* The commands that delete what they find, those that store instead, and  *)
(* those that only look.                                                   *)
remove == {"delete", "ssh remove"}
add == {"ssh add", "gpg enroll"}
list == {"list", "ssh list"}

(* What ssh asks: the explicit tag first, then a single line that is the   *)
(* passphrase question, then whatever looks like yes or no.                *)
passphrase_path(p) == p.line /\ p.path
classify_prompt(p) ==
    IF ~p.tagged /\ passphrase_path(p) THEN "passphrase"
    ELSE IF p.tagged \/ p.question THEN "confirm" ELSE "other"

(* Before any call: the key to enroll, the ring to preset.  Without gpg    *)
(* there is nothing to preset.                                             *)
dispatch ==
    /\ pc = "start"
    /\ CASE cmd.op = "ssh askpass" ->
              /\ pc' = IF classify_prompt(cmd.prompt) = "passphrase" THEN "connect" ELSE "fallback"
              /\ UNCHANGED result
         [] cmd.op = "gpg enroll" ->
              \/ Cardinality(pick_key(cmd.key)) = 1 /\ pc' = "connect" /\ UNCHANGED result
              \/ Exit("failed")
         [] cmd.op = "gpg preset" ->
              (pc' = "connect" /\ UNCHANGED result) \/ Exit("failed") \/ Exit("ok")
         [] cmd.op \in {"unlock", "change-password"} -> pc' = "header" /\ UNCHANGED result
         [] cmd.op = "lock" -> pc' = "send" /\ UNCHANGED result
         [] OTHER -> pc' = "connect" /\ UNCHANGED result
    /\ UNCHANGED <<items, locked, cmd, found, want, todo, failed, targets, touched, consent,
                   answer, tasks, agent>>

(* No service: askpass asks the user itself, a preset has nothing to do.   *)
connect ==
    /\ pc = "connect"
    /\ \/ pc' = (IF cmd.op = "set" THEN "store" ELSE "search") /\ UNCHANGED result
       \/ CASE cmd.op = "ssh askpass" -> pc' = "fallback" /\ UNCHANGED result
            [] cmd.op = "gpg preset" -> Exit("ok")
            [] OTHER -> Exit("unreachable")
    /\ UNCHANGED <<items, locked, cmd, found, want, todo, failed, targets, touched, consent,
                   answer, tasks, agent>>

(* The items a search names.  ssh cuts a long path: if nothing has the     *)
(* path as given, askpass takes the open items it is a prefix of.          *)
Exact == {it \in items : /\ it.schema = cmd.schema
                         /\ cmd.schema = "gpg" \/ cmd.op = "ssh list" \/ it.id.key = cmd.key}
registered_keys ==
    IF Exact # {} \/ cmd.prefix = {} THEN Exact
    ELSE {it \in items : it.schema = "ssh" /\ it.id.key \in cmd.prefix /\ it.col \notin locked}

(* Variant: askpass opens what it finds and asks about it then.            *)
OpenFirst(shut) == IF shut # {} THEN "unlock" ELSE IF cmd.op = "ssh askpass" THEN "asking" ELSE "found"

(* Where a search leads, by what of it is locked: askpass asks first, and  *)
(* a list opens nothing.                                                   *)
AfterSearch(shut) ==
    CASE cmd.op = "ssh askpass" -> "asking"
      [] cmd.op # "ssh askpass" /\ shut # {} /\ cmd.op # "list" -> "unlock"
      [] OTHER -> "found"

search ==
    /\ pc = "search"
    /\ \/ LET all  == IF cmd.op = "ssh askpass" THEN registered_keys ELSE Exact
               shut == {it \in all : it.col \in locked}
           IN /\ want' = shut
              /\ found' = IF cmd.op = "list" THEN all ELSE all \ shut
              /\ targets' = all
              /\ pc' = AfterSearch(shut)
              /\ UNCHANGED result
       \/ /\ IF cmd.op = "ssh askpass" THEN pc' = "fallback" /\ UNCHANGED result ELSE Exit("failed")
          /\ UNCHANGED <<want, found, targets>>
    /\ UNCHANGED <<items, locked, cmd, todo, failed, touched, consent, answer, tasks, agent>>

(* None or several is not ours to answer.                                  *)
consented ==
    /\ pc = "asking"
    /\ IF Cardinality(targets) # 1 THEN pc' = "fallback" /\ UNCHANGED <<consent, result>>
       ELSE \/ consent' = TRUE /\ pc' = (IF want = {} THEN "secret" ELSE "unlock") /\ UNCHANGED result
            \/ (Exit("not found") \/ Exit("failed")) /\ UNCHANGED consent
    /\ UNCHANGED <<items, locked, cmd, found, want, todo, failed, targets, touched, answer,
                   tasks, agent>>

(* Variant: an answer is enough.                                           *)
AnyAnswer(got) == TRUE

(* Every path asked for must be in the answer.                             *)
covers_all(got) == want \subseteq got

(* Unlock and its prompt.  Some of what is locked opens; the answer names  *)
(* what is open now, says dismissed if nothing opened, or does not come.   *)
unlock ==
    /\ pc = "unlock"
    /\ touched' = TRUE
    /\ \E opened \in SUBSET ({it.col : it \in want} \intersect locked),
          reply \in {"answer", "lost"} :
          LET got       == {it \in want : it.col \notin locked \ opened}
              dismissed == opened = {} /\ {it.col : it \in want} \intersect locked # {}
          IN /\ locked' = locked \ opened
             /\ note_unlocked(opened)
             /\ \/ /\ reply = "answer"
                   /\ IF dismissed THEN cmd.op \in Lenient /\ found # {}
                      ELSE cmd.op \in Strict => covers_all(got)
                   /\ pc' = IF cmd.op = "ssh askpass" THEN "secret" ELSE "found"
                   /\ found' = found \union (IF dismissed THEN {} ELSE got)
                   /\ UNCHANGED result
                \/ /\ reply = "lost" \/ (dismissed /\ ~(cmd.op \in Lenient /\ found # {}))
                      \/ (cmd.op \in Strict /\ ~covers_all(got))
                   /\ CASE cmd.op = "ssh askpass" -> pc' = "fallback" /\ UNCHANGED result
                        [] cmd.op # "ssh askpass" /\ reply = "answer" /\ cmd.op # "gpg preset" ->
                             Exit("not found")
                        [] OTHER -> Exit("failed")
                   /\ UNCHANGED found
    /\ want' = {}
    /\ UNCHANGED <<items, cmd, todo, failed, targets, consent, answer, agent>>

(* What the command does with the items.                                   *)
Go ==
    /\ pc = "found"
    /\ todo' = found
    /\ IF found = {} /\ cmd.op \in remove THEN Exit("not found")
       ELSE /\ pc' = IF cmd.op \in {"gpg enroll", "gpg preset", "get"} \union list THEN "info" ELSE "delete"
            /\ UNCHANGED result
    /\ UNCHANGED <<items, locked, cmd, found, want, failed, targets, touched, consent, answer,
                   tasks, agent>>

(* Whether an item is a registration of the command's key.                 *)
find_key_items(it) == keyid_matches(it.id, cmd.key)

Keeps(it) ==
    CASE cmd.op = "gpg enroll" -> find_key_items(it)
      [] cmd.op = "get" -> cmd.label \in {None, it.label}
      [] OTHER -> TRUE

item_info ==
    /\ pc = "info" /\ todo # {}
    /\ \E it \in todo :
          /\ todo' = todo \ {it}
          /\ \/ /\ it \in items
                /\ found' = IF Keeps(it) THEN found ELSE found \ {it}
                /\ UNCHANGED <<pc, result, failed>>
             \/ /\ cmd.op = "gpg preset"
                /\ found' = found \ {it} /\ failed' = failed \union {it}
                /\ UNCHANGED <<pc, result>>
             \/ cmd.op # "gpg preset" /\ Exit("failed") /\ UNCHANGED <<found, failed>>
    /\ UNCHANGED <<items, locked, cmd, want, targets, touched, consent, answer, tasks, agent>>

AllLooked ==
    /\ pc = "info" /\ todo = {}
    /\ todo' = found
    /\ targets' = IF cmd.op = "gpg enroll" THEN {it \in targets : keyid_matches(it.id, cmd.key)}
                  ELSE targets
    /\ CASE cmd.op \in list -> Exit("ok")
         [] cmd.op = "get" /\ found = {} -> Exit("not found")
         [] OTHER -> /\ pc' = CASE cmd.op = "get" -> "secret" [] cmd.op = "gpg preset" -> "read"
                                [] OTHER -> "delete"
                     /\ UNCHANGED result
    /\ UNCHANGED <<items, locked, cmd, found, want, failed, touched, consent, answer, tasks,
                   agent>>

(* delete_each: one batch per collection.  It succeeds as a whole, is      *)
(* refused as a whole, or its answer is lost; a daemon without batches is  *)
(* asked item by item.                                                     *)
delete_items ==
    /\ pc = "delete" /\ todo # {}
    /\ \E c \in {it.col : it \in todo} :
        \E group \in {{it \in todo : it.col = c}} :
          /\ todo' = todo \ group
          /\ \/ /\ cmd.batch /\ c \notin locked /\ group \subseteq items
                /\ items' = items \ group
                /\ failed' \in {failed, failed \union group}
             \/ cmd.batch /\ failed' = failed \union group /\ UNCHANGED items
             \/ /\ ~cmd.batch
                /\ \E gone, told \in SUBSET (group \intersect items) :
                      /\ gone = {} \/ c \notin locked
                      /\ told \subseteq gone
                      /\ items' = items \ gone
                      /\ failed' = failed \union (group \ told)
    /\ UNCHANGED <<locked, cmd, pc, found, want, targets, touched, consent, result, answer,
                   tasks, agent>>

partial_delete_report == failed # {}

Deleted ==
    /\ pc = "delete" /\ todo = {}
    /\ CASE partial_delete_report -> Exit("failed")
         [] ~partial_delete_report /\ cmd.op \in remove -> Exit("ok")
         [] ~partial_delete_report /\ cmd.op \in add -> pc' = "store" /\ UNCHANGED result
    /\ UNCHANGED <<items, locked, cmd, found, want, todo, failed, targets, touched, consent,
                   answer, tasks, agent>>

(* Into the default collection, opened first if it is locked.              *)
store ==
    /\ pc = "store"
    /\ \/ Exit("failed") /\ UNCHANGED <<locked, touched, tasks>>
       \/ \E c \in cmd.default, opened \in BOOLEAN :
            /\ touched' = (touched \/ c \in locked)
            /\ locked' = IF opened THEN locked \ {c} ELSE locked
            /\ note_unlocked({c} \intersect (locked \ locked'))
            /\ \/ c \in locked' /\ Exit("not found")
               \/ c \notin locked' /\ pc' = "create" /\ UNCHANGED result
               \/ c \notin locked' /\ Exit("failed")
    /\ UNCHANGED <<items, cmd, found, want, todo, failed, targets, consent, answer, agent>>

(* An item with the same attributes is replaced.  The answer may be lost.  *)
NewItem(c) == [col |-> c, schema |-> cmd.schema, id |-> [key |-> cmd.key, form |-> "long"],
               secret |-> cmd.secret, label |-> 1, at |-> 9]
Same(a, b) == a.col = b.col /\ a.schema = b.schema /\ a.id = b.id

create_item ==
    /\ pc = "create"
    /\ \/ Exit("failed") /\ UNCHANGED items
       \/ \E c \in cmd.default \ locked :
            /\ items' = {it \in items : ~Same(it, NewItem(c))} \union {NewItem(c)}
            /\ \/ IF cmd.op = "gpg enroll" THEN pc' = "preset" /\ UNCHANGED result ELSE Exit("ok")
               \/ Exit("failed")
    /\ UNCHANGED <<locked, cmd, found, want, todo, failed, targets, touched, consent, answer,
                   tasks, agent>>

(* The item get reads is the last modified, the one askpass reads its only.*)
Newest == LET from == IF cmd.op = "get" THEN found ELSE targets
          IN CHOOSE it \in from : \A o \in from : o.at <= it.at
get_secret ==
    /\ pc = "secret"
    /\ touched' = TRUE
    /\ \/ /\ Newest \in items /\ Newest.col \notin locked
          /\ IF cmd.op = "ssh askpass" /\ Newest.secret.n = 0
             THEN pc' = "fallback" /\ UNCHANGED <<result, answer>>
             ELSE answer' = Newest.secret /\ Exit("ok")
       \/ /\ IF cmd.op = "ssh askpass" THEN pc' = "fallback" /\ UNCHANGED result ELSE Exit("failed")
          /\ UNCHANGED answer
    /\ UNCHANGED <<items, locked, cmd, found, want, todo, failed, targets, consent, tasks, agent>>

(* askpass passes the question on to the user.  A passphrase may be        *)
(* cancelled or empty, a question is always answered; no dialog fails.     *)
fallback ==
    /\ pc = "fallback"
    /\ \/ Exit("ok") \/ Exit("failed")
       \/ classify_prompt(cmd.prompt) # "confirm" /\ Exit("not found")
    /\ UNCHANGED <<items, locked, cmd, found, want, todo, failed, targets, touched, consent,
                   answer, tasks, agent>>

----------------------------------------------------------------------------
(* gpg-agent                                                               *)

preset_one(id, secret) ==
    agent' = [g \in DOMAIN agent |-> IF g \in GripsOf(id) THEN secret ELSE agent[g]]

(* enroll: the agent is given the new passphrase and tried.                *)
EnrollPreset ==
    /\ pc = "preset"
    /\ \/ preset_one([key |-> cmd.key, form |-> "long"], cmd.secret) /\ pc' = "testsign" /\ UNCHANGED result
       \/ Exit("failed") /\ UNCHANGED agent
    /\ UNCHANGED <<items, locked, cmd, found, want, todo, failed, targets, touched, consent,
                   answer, tasks>>

testsign ==
    /\ pc = "testsign"
    /\ \/ (\A g \in GripsOf([key |-> cmd.key, form |-> "long"]) : agent[g] = cmd.secret) /\ Exit("ok")
       \/ Exit("failed")
    /\ UNCHANGED <<items, locked, cmd, found, want, todo, failed, targets, touched, consent,
                   answer, tasks, agent>>

(* preset: for every allowed key of the ring the first copy that can be    *)
(* read; an empty one is passed over with the key.  The agent may refuse   *)
(* some, and nothing given because nothing could be read is a failure.     *)
preset ==
    /\ pc = "read"
    /\ \E readable \in SUBSET {it \in found : it \in items /\ it.col \notin locked} :
        LET asked == {k \in Range(discover) : key_allowed([key |-> k.fpr, form |-> "long"])}
            copies(k, among) == {it \in among : keyid_matches(it.id, k.fpr)}
            read   == {k \in asked : copies(k, readable) # {}}
            unread == {k \in asked \ read : copies(k, found) # {}}
        IN \E first \in {f \in [read -> readable] : \A k \in read : f[k] \in copies(k, readable)} :
           \E done \in SUBSET {k \in read : first[k].secret.n # 0} :
              /\ agent' = [g \in DOMAIN agent |->
                             IF \E k \in done : k.grip = g
                             THEN first[CHOOSE k \in done : k.grip = g].secret ELSE agent[g]]
              /\ \/ done # {k \in read : first[k].secret.n # 0} /\ Exit("failed")
                 \/ /\ done = {k \in read : first[k].secret.n # 0}
                    /\ Exit(IF done = {} /\ (failed # {} \/ unread # {}) THEN "failed" ELSE "ok")
    /\ UNCHANGED <<items, locked, cmd, found, want, todo, failed, targets, touched, consent,
                   answer, tasks>>

(* run_preset: one collection at a time, read if it is not locked.         *)
ReadVault ==
    /\ \E t \in DOMAIN tasks :
          /\ tasks[t].cols # <<>>
          /\ LET c == Head(tasks[t].cols)
                 stored == IF c \in locked THEN {} ELSE {it \in items : it.col = c}
             IN tasks' = [tasks EXCEPT ![t] = [cols |-> Tail(@.cols),
                                              pairs |-> collect_enrolled(stored, @.pairs)]]
    /\ UNCHANGED <<items, locked, cmdVars, agent>>

(* preset_enrolled: then the agent, one pair at a time.  It may refuse.    *)
preset_enrolled ==
    /\ \E t \in DOMAIN tasks :
          /\ tasks[t].cols = <<>> /\ tasks[t].pairs # <<>>
          /\ \/ preset_one(Head(tasks[t].pairs).id, Head(tasks[t].pairs).secret)
             \/ UNCHANGED agent
          /\ tasks' = [tasks EXCEPT ![t].pairs = Tail(@)]
    /\ UNCHANGED <<items, locked, cmdVars>>

----------------------------------------------------------------------------
(* The control socket                                                      *)

(* The salt comes from the file, not from whoever answers the socket.      *)
header_params ==
    /\ pc = "header"
    /\ \/ salt' = header[cmd.col].salt /\ pc' = "password" /\ UNCHANGED result
       \/ (Exit("not found") \/ Exit("failed")) /\ UNCHANGED salt
    /\ UNCHANGED <<items, locked, cmd, found, want, todo, failed, targets, touched, consent,
                   answer, tasks, agent, header, other>>

(* The passwords are asked for next, which takes its time.                 *)
read_new_password ==
    /\ pc = "password"
    /\ (pc' = "send" /\ UNCHANGED result) \/ Exit("failed")
    /\ UNCHANGED <<items, locked, cmd, found, want, todo, failed, targets, touched, consent,
                   answer, tasks, agent, keyVars>>

derive_key(pw, s) == [pw |-> pw, salt |-> s]

(* The daemon's answer to an unlock and to a change, under the vault's     *)
(* lock: the key must be the one the collection has now.                   *)
unlock_with_key(key) ==
    /\ key = header[cmd.col]
    /\ locked' = locked \ {cmd.col}
    /\ note_unlocked({cmd.col})
    /\ UNCHANGED header

change_key(col, old, new) ==
    /\ old = header[col]
    /\ new.salt # header[col].salt
    /\ header' = [header EXCEPT ![col] = new]

Request ==
    CASE cmd.op = "unlock" -> unlock_with_key(derive_key(cmd.old, salt))
      [] cmd.op = "change-password" ->
           /\ change_key(cmd.col, derive_key(cmd.old, salt), derive_key(cmd.new, 1))
           /\ UNCHANGED <<locked, tasks>>
      [] cmd.op = "lock" -> locked' = locked \union {cmd.col} /\ UNCHANGED <<header, tasks>>

(* One request.  It is done and answered, done and the answer lost, or not *)
(* done: refused, not saved, or no daemon there.                           *)
control ==
    /\ pc = "send"
    /\ \/ Request /\ (Exit("ok") \/ Exit("failed"))
       \/ (Exit("failed") \/ Exit("unreachable")) /\ UNCHANGED <<locked, tasks, header>>
    /\ UNCHANGED <<items, cmd, found, want, todo, failed, targets, touched, consent, answer,
                   agent, salt, other>>

(* Another change from the first password, by passwd or a second sm.       *)
OtherReads ==
    /\ other.at = "header"
    /\ other' = [at |-> "send", salt |-> header[cmd.col].salt]
    /\ UNCHANGED <<items, locked, cmdVars, tasks, agent, header, salt>>

OtherChanges ==
    /\ other.at = "send"
    /\ \/ /\ change_key(cmd.col, derive_key("first", other.salt), derive_key("third", 2))
          /\ other' = [other EXCEPT !.at = "ok"]
       \/ other' = [other EXCEPT !.at = "refused"] /\ UNCHANGED header
    /\ UNCHANGED <<items, locked, cmdVars, tasks, agent, salt>>

----------------------------------------------------------------------------

(* Somebody locks a collection: a timer, a client, sm lock.                *)
Lock ==
    /\ pc # "done" /\ "locks" \in cmd.rivals
    /\ \E c \in Collections \ locked : locked' = locked \union {c}
    /\ UNCHANGED <<items, cmdVars, tasks, agent>>

(* Another client deletes an item.                                         *)
Vanish ==
    /\ pc # "done" /\ "deletes" \in cmd.rivals
    /\ \E it \in {i \in items : i.col \notin locked} : items' = items \ {it}
    /\ UNCHANGED <<locked, cmdVars, tasks, agent>>

StoreNext ==
    \/ dispatch \/ connect \/ search \/ consented \/ unlock \/ Go \/ item_info \/ AllLooked
    \/ delete_items \/ Deleted \/ store \/ create_item \/ get_secret \/ fallback
    \/ EnrollPreset \/ testsign \/ preset \/ ReadVault \/ preset_enrolled \/ Lock \/ Vanish

Next ==
    \/ StoreNext /\ UNCHANGED keyVars
    \/ header_params \/ read_new_password \/ control \/ OtherReads \/ OtherChanges

Spec == Init /\ [][Next]_vars

----------------------------------------------------------------------------
(* Properties                                                              *)

(* delete_each, find_all, find_key_items: when delete, ssh remove, ssh add *)
(* or gpg enroll exits 0, nothing its search named under any spelling is   *)
(* left, locked as it may have been, and what it stored is there unless    *)
(* somebody deleted it since.  When change-password exits 0 the new        *)
(* password is the collection's, and no other change from the same old one *)
(* was accepted; when unlock does, its password was the collection's.      *)
OkMeansDone ==
    /\ result = "ok" /\ cmd.op \in Strict \ {"gpg preset"} =>
          \A it \in targets : it \in items => \E c \in cmd.default : it = NewItem(c)
    /\ pc \in {"preset", "testsign"} => failed = {} /\ todo = {}
    /\ result = "ok" /\ cmd.op = "gpg enroll" =>
          \A it \in items : it.schema = "gpg" /\ keyid_matches(it.id, cmd.key) =>
             it.secret = cmd.secret
    /\ result = "ok" /\ cmd.op = "change-password" =>
          header[cmd.col].pw = cmd.new /\ (other.at = "ok" => cmd.old # "first")
    /\ result = "ok" /\ cmd.op = "unlock" => header[cmd.col].pw = cmd.old \/ other.at = "ok"

(* release_passphrase: before the user has agreed to the use of a key,     *)
(* askpass has opened nothing and read no secret, and what it prints is    *)
(* the passphrase of the only item that claims the key ssh asked for.      *)
ConsentFirst ==
    cmd.op = "ssh askpass" =>
        /\ touched => consent
        /\ answer # NoSecret =>
              Cardinality(targets) = 1 /\ answer.for \in {cmd.key} \union cmd.prefix

(* parse_colons, collect_enrolled, preset: whoever feeds gpg-agent, what   *)
(* it holds for a keygrip is a passphrase enrolled for the key with that   *)
(* keygrip, a signing key on the allowlist or just enrolled, and not empty.*)
AgentGetsItsOwn ==
    \A g \in DOMAIN agent : agent[g] # NoSecret =>
        /\ agent[g].n > 0
        /\ \E i \in DOMAIN Ring :
              /\ Ring[i].rec = "grp" /\ Ring[i].value = g /\ Ring[i].of = agent[g].for
              /\ Ring[i].usable
        /\ \/ key_allowed([key |-> agent[g].for, form |-> "long"])
           \/ cmd.op = "gpg enroll" /\ cmd.key = agent[g].for

(* "delete every spelling of this key's registration, so a later preset    *)
(* cannot prefer a stale copy" (gpg enroll): once it has succeeded the     *)
(* agent keeps the new passphrase.  Fails when the daemon's hook read the  *)
(* old one before the enroll and presets it after.                         *)
LaterPresetIsFresh ==
    cmd.op = "gpg enroll" /\ result = "ok" =>
        \A g \in GripsOf([key |-> cmd.key, form |-> "long"]) : agent[g] = cmd.secret

(* "on the batch path a failure means nothing was deleted" (delete_items). *)
(* Fails when the daemon deletes the batch and its answer is lost.         *)
UntouchedIsUntouched == cmd.batch => failed \subseteq items
=============================================================================
