------------------------------ MODULE Aliases ------------------------------
(***************************************************************************)
(* The alias table and aliases.toml: update_aliases and its three callers  *)
(* (SetAlias, the create prompt, the delete prompt), the Reload that       *)
(* replaces the table by what a directory scan read, and `sm init`, which  *)
(* edits aliases.toml from outside the daemon.                             *)
(*                                                                         *)
(* The state mutex is held while an edit is computed and while it is       *)
(* committed, not while aliases.toml is written, so an update is three     *)
(* steps: Edit (locked), WriteFile (unlocked), Commit (locked); the        *)
(* caller's Register follows.  A Reload is a scan (unlocked), merge_scan   *)
(* (locked) and register_all.                                              *)
(***************************************************************************)
EXTENDS Naturals, FiniteSets

CONSTANTS
    Writers,      \* concurrent calls of update_aliases, one edit each
    Names, Ids,   \* alias names, collection ids
    Free,         \* no collection: the name is not in the table
    Corrupt,      \* an aliases.toml that does not parse
    NoScan,       \* no Reload between its scan and its merge
    Ops,          \* the edits the writers may ask for
    Start,        \* the tables aliases.toml may hold when the daemon starts
    MaxAliases,   \* MAX_ALIASES
    Attempts,     \* ALIAS_UPDATE_ATTEMPTS
    WriteFaults,  \* may a write of aliases.toml fail
    Damages,      \* may something outside the daemon damage aliases.toml
    MaxReloads,   \* bound: Reload requests in a behaviour
    Inits,        \* may `sm init` run beside the daemon
    Default, NewId  \* the name `sm init` claims, for the vault it created

Table == [Names -> Ids \cup {Free}]

(* SetAlias to a collection or to "/", and what the create prompt (an alias *)
(* for its new collection) and the delete prompt (drop a collection's       *)
(* aliases) do.                                                             *)
Op == [kind : {"set", "create"}, name : Names, id : Ids]
      \cup [kind : {"clear"}, name : Names]
      \cup [kind : {"drop"}, id : Ids]

ASSUME AliasesAssumption ==
    /\ Free \notin Ids
    /\ Corrupt \notin Table /\ NoScan \notin Table /\ Corrupt # NoScan
    /\ Ops \subseteq Op
    /\ Start \subseteq Table
    /\ IsFiniteSet(Names)
    /\ MaxAliases \in Nat /\ Attempts \in Nat \ {0} /\ MaxReloads \in Nat
    /\ WriteFaults \in BOOLEAN /\ Damages \in BOOLEAN /\ Inits \in BOOLEAN
    /\ Default \in Names /\ NewId \in Ids

VARIABLES
    file,      \* aliases.toml
    table,     \* AliasTable: the known mappings
    degraded,  \* AliasTable::Degraded
    loaded,    \* the ids in ServiceState.collections
    pc, op,    \* per writer: where it is, what it was asked
    attempt, base, next, written,   \* its locals
    result,    \* its AliasUpdate
    scan,      \* aliases of the VaultScan a Reload holds, or NoScan
    reloads,   \* Reload requests so far
    exported,  \* names with an alias object on the bus
    announce,  \* register_all: where it is, and the names it has read
    init, claim,  \* `sm init`: where it is, the table it will write
    disturbed  \* history: a write failed, or something damaged the file

bus == <<exported, announce>>
outside == <<init, claim>>
vars == <<file, table, degraded, loaded, pc, op, attempt, base, next, written,
          result, scan, reloads, bus, outside, disturbed>>

Empty == [n \in Names |-> Free]
Known(t) == {n \in Names : t[n] # Free}
Quiet == [at |-> "idle", names |-> {}]

Size(t) == Cardinality(Known(t))

(* check_alias_room: replacing a known name always fits. *)
check_alias_room(t, name) == t[name] # Free \/ Size(t) < MaxAliases

(* The edit closure of each caller. *)
Apply(o, t) ==
    CASE o.kind = "clear" -> [t EXCEPT ![o.name] = Free]
      [] o.kind = "drop"  -> [n \in Names |-> IF t[n] = o.id THEN Free ELSE t[n]]
      [] OTHER            -> [t EXCEPT ![o.name] = o.id]

(* SetAlias on a collection that is not loaded, or no room for the name. *)
Refused(o, t) ==
    \/ o.kind = "set" /\ o.id \notin loaded
    \/ o.kind \in {"set", "create"} /\ ~check_alias_room(t, o.name)

on_write_error(o) == IF o.kind \in {"set", "clear"} THEN "Refuse" ELSE "Keep"

Init ==
    /\ file \in Start /\ table = file /\ degraded = FALSE
    /\ op \in [Writers -> Ops]
    /\ loaded = Ids
    /\ pc = [w \in Writers |-> IF op[w].kind = "drop" THEN "unload" ELSE "edit"]
    /\ attempt = [w \in Writers |-> 1]
    /\ base = [w \in Writers |-> Empty]
    /\ next = [w \in Writers |-> Empty]
    /\ written = [w \in Writers |-> FALSE]
    /\ result = [w \in Writers |-> "none"]
    /\ scan = NoScan /\ reloads = 0 /\ disturbed = FALSE
    /\ exported = Known(table) /\ announce = Quiet
    /\ init = (IF Inits THEN "load" ELSE "done") /\ claim = Empty

-----------------------------------------------------------------------------
Return(w, r) ==
    /\ pc' = [pc EXCEPT ![w] = "done"]
    /\ result' = [result EXCEPT ![w] = r]

(* The delete prompt has unlinked the file and takes the collection out. *)
Unload(w) ==
    /\ pc[w] = "unload"
    /\ loaded' = loaded \ {op[w].id}
    /\ pc' = [pc EXCEPT ![w] = "edit"]
    /\ UNCHANGED <<file, table, degraded, op, attempt, base, next, written,
                   result, scan, reloads, disturbed, bus, outside>>

(* The first locked section: clone the table and edit the copy. *)
Edit(w) ==
    /\ pc[w] = "edit"
    /\ \/ /\ degraded
          /\ Return(w, "unusable")
          /\ UNCHANGED <<base, next>>
       \/ /\ ~degraded
          /\ Refused(op[w], table)
          /\ Return(w, "rejected")
          /\ UNCHANGED <<base, next>>
       \/ /\ ~degraded
          /\ ~Refused(op[w], table)
          /\ base' = [base EXCEPT ![w] = table]
          /\ next' = [next EXCEPT ![w] = Apply(op[w], table)]
          /\ pc' = [pc EXCEPT ![w] = "write"]
          /\ UNCHANGED result
    /\ UNCHANGED <<file, table, degraded, loaded, op, attempt, written, scan,
                   reloads, disturbed, bus, outside>>

(* save_aliases_to, with the state mutex released: atomic, or no effect. *)
WriteFile(w) ==
    /\ pc[w] = "write"
    /\ \/ /\ file' = next[w]
          /\ written' = [written EXCEPT ![w] = TRUE]
          /\ UNCHANGED disturbed
       \/ /\ WriteFaults
          /\ written' = [written EXCEPT ![w] = FALSE]
          /\ disturbed' = TRUE
          /\ UNCHANGED file
    /\ pc' = [pc EXCEPT ![w] = "commit"]
    /\ UNCHANGED <<table, degraded, loaded, op, attempt, base, next, result,
                   scan, reloads, bus, outside>>

(* The second locked section: compare with the table the edit was based on, *)
(* and commit, or start over.                                               *)
NeverStale(w) == FALSE                      \* variant: no comparison
Stale(w) == table # base[w]

MayRetry(w) == attempt[w] < Attempts

Commit(w) ==
    /\ pc[w] = "commit"
    /\ \/ /\ degraded
          /\ Return(w, "unusable")
          /\ UNCHANGED <<table, attempt>>
       \/ /\ ~degraded
          /\ Stale(w) /\ MayRetry(w)
          /\ attempt' = [attempt EXCEPT ![w] = @ + 1]
          /\ pc' = [pc EXCEPT ![w] = "edit"]
          /\ UNCHANGED <<table, result>>
       \/ /\ ~degraded
          /\ ~(Stale(w) /\ MayRetry(w))
          /\ table' = IF written[w] \/ on_write_error(op[w]) = "Keep"
                      THEN next[w] ELSE table
          /\ result' = [result EXCEPT ![w] =
                           IF written[w] THEN "committed" ELSE "not written"]
          /\ pc' = [pc EXCEPT ![w] =
                       IF op[w].kind # "drop"
                          /\ (written[w] \/ on_write_error(op[w]) = "Keep")
                       THEN "register" ELSE "done"]
          /\ UNCHANGED attempt
    /\ UNCHANGED <<file, degraded, loaded, op, base, next, written, scan,
                   reloads, bus, outside, disturbed>>

(* Variant: the object of a new alias is not exported. *)
ExportForgotten(w) ==
    /\ pc[w] = "register"
    /\ exported' = exported \ (IF op[w].kind = "clear" THEN {op[w].name} ELSE {})
    /\ pc' = [pc EXCEPT ![w] = "done"]
    /\ UNCHANGED <<file, table, degraded, loaded, op, attempt, base, next, written,
                   result, scan, reloads, announce, outside, disturbed>>

(* register_alias, or unregister_alias for a name that was cleared; with no *)
(* mutex held.  The delete prompt leaves the objects of the names it drops. *)
Register(w) ==
    /\ pc[w] = "register"
    /\ exported' = IF op[w].kind = "clear" THEN exported \ {op[w].name}
                   ELSE exported \cup {op[w].name}
    /\ pc' = [pc EXCEPT ![w] = "done"]
    /\ UNCHANGED <<file, table, degraded, loaded, op, attempt, base, next, written,
                   result, scan, reloads, announce, outside, disturbed>>

-----------------------------------------------------------------------------
(* A Reload reads the file without the mutex; one Reload runs at a time.    *)
Scan ==
    /\ scan = NoScan /\ announce = Quiet
    /\ reloads < MaxReloads
    /\ scan' = file
    /\ reloads' = reloads + 1
    /\ UNCHANGED <<file, table, degraded, loaded, pc, op, attempt, base, next,
                   written, result, disturbed, bus, outside>>

(* Variant: an unreadable file empties the table. *)
MergeDiscards ==
    /\ scan # NoScan
    /\ degraded' = (scan = Corrupt)
    /\ table' = IF scan = Corrupt THEN Empty ELSE scan
    /\ scan' = NoScan
    /\ announce' = [Quiet EXCEPT !.at = "read"]
    /\ UNCHANGED <<file, loaded, pc, op, attempt, base, next, written, result,
                   reloads, disturbed, exported, outside>>

(* merge_scan: the table becomes what the scan read; an unreadable file     *)
(* keeps the known table and degrades it.                                   *)
merge_scan ==
    /\ scan # NoScan
    /\ degraded' = (scan = Corrupt)
    /\ table' = IF scan = Corrupt THEN table ELSE scan
    /\ scan' = NoScan
    /\ announce' = [Quiet EXCEPT !.at = "read"]
    /\ UNCHANGED <<file, loaded, pc, op, attempt, base, next, written, result,
                   reloads, disturbed, exported, outside>>

(* register_all: the names under the mutex, the objects without it. *)
ReadNames ==
    /\ announce.at = "read"
    /\ announce' = [at |-> "export", names |-> Known(table)]
    /\ UNCHANGED <<file, table, degraded, loaded, pc, op, attempt, base, next,
                   written, result, scan, reloads, exported, outside, disturbed>>

register_all ==
    /\ announce.at = "export"
    /\ exported' = exported \cup announce.names
    /\ announce' = Quiet
    /\ UNCHANGED <<file, table, degraded, loaded, pc, op, attempt, base, next,
                   written, result, scan, reloads, outside, disturbed>>

-----------------------------------------------------------------------------
(* `sm init` has created a vault; it claims the default alias if no one has *)
(* it, and leaves a file it cannot read alone.  The Reload it asks for then *)
(* is one of the above.                                                     *)
InitLoad ==
    /\ init = "load"
    /\ IF file = Corrupt THEN init' = "done" /\ UNCHANGED claim
       ELSE IF file[Default] # Free THEN init' = "done" /\ UNCHANGED claim
       ELSE init' = "save" /\ claim' = [file EXCEPT ![Default] = NewId]
    /\ UNCHANGED <<file, table, degraded, loaded, pc, op, attempt, base, next,
                   written, result, scan, reloads, bus, disturbed>>

InitSave ==
    /\ init = "save"
    /\ init' = "done"
    /\ file' \in {claim} \cup (IF WriteFaults THEN {file} ELSE {})
    /\ disturbed' = TRUE
    /\ UNCHANGED <<table, degraded, loaded, pc, op, attempt, base, next,
                   written, result, scan, reloads, bus, claim>>

(* Something outside the daemon truncates the file. *)
Damage ==
    /\ Damages
    /\ file' = Corrupt
    /\ disturbed' = TRUE
    /\ UNCHANGED <<table, degraded, loaded, pc, op, attempt, base, next,
                   written, result,
                   scan, reloads, bus, outside>>

AllDone == \A w \in Writers : pc[w] = "done"

Step(w) == Unload(w) \/ Edit(w) \/ WriteFile(w) \/ Commit(w) \/ Register(w)

Next ==
    \/ \E w \in Writers : Step(w)
    \/ Scan
    \/ merge_scan
    \/ ReadNames
    \/ register_all
    \/ InitLoad
    \/ InitSave
    \/ Damage

Spec == Init /\ [][Next]_vars

-----------------------------------------------------------------------------
(* Properties *)

(* Every variable stays in its domain. *)
TypeOK ==
    /\ file \in Table \cup {Corrupt}
    /\ table \in Table
    /\ degraded \in BOOLEAN
    /\ loaded \subseteq Ids
    /\ pc \in [Writers -> {"unload", "edit", "write", "commit", "register", "done"}]
    /\ op \in [Writers -> Ops]
    /\ \A w \in Writers : pc[w] = "register" => op[w].kind # "drop"
    /\ attempt \in [Writers -> 1..Attempts]
    /\ base \in [Writers -> Table]
    /\ next \in [Writers -> Table]
    /\ written \in [Writers -> BOOLEAN]
    /\ result \in [Writers -> {"none", "committed", "not written", "unusable", "rejected"}]
    /\ scan \in Table \cup {Corrupt, NoScan}
    /\ reloads \in 0..MaxReloads
    /\ exported \subseteq Names
    /\ announce \in [at : {"idle", "read", "export"}, names : SUBSET Names]
    /\ init \in {"load", "save", "done"} /\ claim \in Table
    /\ disturbed \in BOOLEAN

(* No update is lost: a call that commits turns the table it finds into     *)
(* that table with its own edit applied, whatever other calls committed     *)
(* while it was writing the file.  Attempts must exceed the number of       *)
(* other calls and Reloads; the last attempt commits regardless.            *)
EditAppliesToCurrent ==
    [][\A w \in Writers :
          pc[w] = "commit" /\ result[w] # result'[w] /\ result'[w] = "committed"
              => table' = Apply(op[w], table)]_vars

(* The same with no bound on rivals: every attempt but the last applies its *)
(* edit to the table it finds.                                              *)
OnlyTheLastMayOverwrite ==
    [][\A w \in Writers :
          result[w] # result'[w] /\ result'[w] = "committed" /\ attempt[w] < Attempts
              => table' = Apply(op[w], table)]_vars

(* The table never outgrows MAX_ALIASES, in memory or in the file, however  *)
(* the checks of several calls interleave with their commits.  `sm init`    *)
(* does not check for room, so where it runs one more is possible, and only *)
(* one: it adds no name but the default.                                    *)
TableBounded ==
    LET most == MaxAliases + (IF Inits THEN 1 ELSE 0) IN
    Size(table) <= most /\ (file # Corrupt => Size(file) <= most)

(* What the bound rests on: every table on its way to memory or to the file *)
(* is within it, and before `sm init` has read the file there is no table   *)
(* beyond MAX_ALIASES for it to add to.                                     *)
Most == MaxAliases + (IF Inits /\ init # "load" THEN 1 ELSE 0)
Within(t) == Size(t) <= Most

SizeInv ==
    /\ ~Inits => init = "done"
    /\ Within(table) /\ (file # Corrupt => Within(file))
    /\ scan \notin {Corrupt, NoScan} => Within(scan)
    /\ \A w \in Writers : pc[w] \in {"write", "commit"} => Within(next[w])
    /\ init = "save" => Within(claim)

(* What a call is about to commit is its edit of the table it read. *)
BaseInv ==
    \A w \in Writers : pc[w] \in {"write", "commit"} => next[w] = Apply(op[w], base[w])

(* Attempts exceeds the number of other calls and Reloads. *)
EnoughAttempts == IsFiniteSet(Writers) /\ Attempts >= Cardinality(Writers) + MaxReloads

(* Why it is enough: every attempt that found its base stale was overtaken  *)
(* by a call that is past its commit or by a Reload that has merged, and    *)
(* each of those overtakes it once.                                         *)
Over(w) == {v \in Writers \ {w} : pc[v] \in {"register", "done"}}
Merged == IF scan = NoScan THEN reloads ELSE reloads - 1
Passed(w) == Cardinality(Over(w)) + Merged
Behind(w) == pc[w] \in {"write", "commit"} /\ Stale(w)

RaceInv ==
    /\ scan # NoScan => reloads > 0
    /\ \A w \in Writers :
          attempt[w] <= Passed(w) + 1 /\ (Behind(w) => attempt[w] <= Passed(w))

(* A known alias is on the bus or on its way there: register_all is yet to  *)
(* read the names or has read this one, or its call is yet to register it.  *)
Due(n) ==
    \/ n \in exported
    \/ announce.at = "read"
    \/ announce.at = "export" /\ n \in announce.names
    \/ \E w \in Writers : pc[w] = "register" /\ op[w].name = n

ExportInv ==
    (\A w \in Writers : op[w].kind # "clear") => \A n \in Known(table) : Due(n)

(* A step that leaves the table degraded leaves its contents as they were,  *)
(* be it the Reload that found the file unreadable or an edit that was under *)
(* way; and only a Reload that reads the file makes the table usable again.  *)
DegradedTableIsKept ==
    [][/\ degraded' => table' = table
       /\ degraded /\ ~degraded' => scan # NoScan /\ table' = scan]_vars

Answered == AllDone /\ scan = NoScan /\ announce = Quiet

(* Every alias the daemon knows has its object on the bus once its calls    *)
(* are answered, Reloads included, unless one of them clears an alias.      *)
(* (A clear and a set of one name may commit in one order and register in   *)
(* the other.)  It needs EnoughAttempts: the last attempt of a call commits *)
(* over whatever is there, and may restore a name register_all has not seen.*)
AliasIsExported ==
    Answered /\ (\A w \in Writers : op[w].kind # "clear") =>
        Known(table) \subseteq exported

(* A comment on the test of update_aliases: "memory and disk agree once     *)
(* every writer has been answered".  Fails when a call changes nothing (it  *)
(* sets what is set already): its commit leaves the table equal to the base *)
(* of a call whose write it has just replaced.                              *)
CommittedIsOnDisk ==
    Answered /\ ~disturbed /\ reloads = 0 /\ (\A w \in Writers : result[w] = "committed") =>
        file = table

(* AliasTable::Usable: "This is what is on disk."  Fails like the above, and *)
(* when a SetAlias commits between the scan and the merge of a Reload.      *)
UsableIsOnDisk ==
    Answered /\ ~disturbed /\ ~degraded /\ (\A w \in Writers : result[w] = "committed") =>
        file = table

=============================================================================
