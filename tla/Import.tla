------------------------------- MODULE Import -------------------------------
(***************************************************************************)
(* sm import (cli/import.rs): find the source file and read its header,    *)
(* extract, write a new collection, verify it offline, have the daemon     *)
(* load it, probe it, move the default alias, report.  Beside it: another  *)
(* process that may create a collection of the same name, a daemon that    *)
(* may be reloaded, stopped or started by others, and a kill at any step.  *)
(***************************************************************************)
EXTENDS Wallet, Keyring

CONSTANT Sources    \* what there may be to import

VARIABLES source,   \* "kwallet" or "gnome"
          args,     \* the options
          file,     \* the bytes of the source file, possibly cut short
          inv,      \* the header: none yet, refused, or its inventory
          vault,    \* the file at the new collection's path
          report,   \* one entry per item
          ver,      \* the verification so far
          daemon,   \* whether it runs, and its copy of the collection
          asking,   \* the probes still to issue
          default,  \* whom the default alias was last set by
          written,  \* the report that was printed and saved
          why       \* what a failure was about

pipeVars == <<source, args, file, inv, vault, report, ver, daemon, asking, default,
              written, why>>
sourceVars == <<out, walletVars, keyringVars, source, args, file, inv>>
vars == <<pc, out, walletVars, keyringVars, pipeVars>>

NoFile == [by |-> "nobody", items |-> <<>>]
NoInv == [kind |-> "none"]
Refused == [kind |-> "refused"]
NoReport == [tally |-> NoTally, items |-> <<>>, disposition |-> "none", moved |-> FALSE,
             notes |-> {}, advice |-> FALSE]
Unverified == [count |-> TRUE, fingerprints |-> TRUE, compared |-> FALSE, misses |-> {},
               unlisted |-> <<>>, lengths |-> TRUE, probes |-> {}]

Init ==
    /\ pc = "locate" /\ out = Nothing
    /\ WalletInit /\ KeyringInit
    /\ \E s \in Sources :
          /\ source = s.source /\ wallet = s.wallet /\ keyring = s.keyring
          /\ \E cut \in 0 .. Len(s.file) : file = SubSeq(s.file, 1, cut)
    /\ args \in [inventory : BOOLEAN, dry : BOOLEAN, set_default : BOOLEAN]
    /\ inv = NoInv /\ vault = NoFile /\ report = <<>> /\ ver = Unverified
    /\ \E up \in BOOLEAN : daemon = [up |-> up, copy |-> NoFile]
    /\ asking = {} /\ default = "nobody" /\ written = NoReport /\ why = "none"

Abandon(reason) == pc' = "failed" /\ why' = reason

----------------------------------------------------------------------------
(* The source file                                                         *)

(* An inventory: how many items the header counts, and for a wallet the    *)
(* index of hashed names.                                                  *)
Inventory(b) ==
    LET k == parse_keyring_header(b)
        w == parse_wallet_header(b)
    IN CASE source = "gnome" /\ k.ok ->
              [kind |-> "keyring", count |-> Len(k.got.items), index |-> k.got.items]
         [] source = "kwallet" /\ w.ok ->
              [kind |-> "wallet", count |-> Len(IndexPairs(w.got)), index |-> w.got]
         [] OTHER -> Refused

(* The only file of the directory, or for a keyring the one its default    *)
(* file names.                                                             *)
(* How many files the directory has with the extension: none, one, more.   *)
files_with_extension == 0 .. 2
one_of(n) == n = 1
Chosen(n, d) == IF source = "gnome" /\ d # "absent" THEN d = "names it" ELSE one_of(n)

locate ==
    /\ pc = "locate"
    /\ \E n \in files_with_extension, d \in {"absent", "names it", "names none", "unreadable"} :
          IF ~Chosen(n, d) THEN Abandon("locate") /\ UNCHANGED <<inv, file>>
          ELSE /\ inv' = Inventory(file)
               /\ file' = IF inv' = Refused THEN file ELSE <<>>
               /\ IF inv' = Refused THEN Abandon("locate")
                  ELSE pc' = (IF args.inventory THEN "done" ELSE source) /\ UNCHANGED why
    /\ UNCHANGED <<out, walletVars, keyringVars, source, args, vault, report, ver, daemon,
                   asking, default, written>>

----------------------------------------------------------------------------
(* Writing                                                                 *)

(* A collection that exists is an error, on a dry run only a warning.      *)
classify_items ==
    /\ pc = "extracted"
    /\ IF vault # NoFile /\ ~args.dry THEN Abandon("exists") /\ UNCHANGED report
       ELSE /\ report' = [i \in DOMAIN out.refused |-> refused(out.refused[i])]
                        \o [i \in DOMAIN out.items |-> imported(out.items[i])]
            /\ pc' = IF args.dry THEN "verify" ELSE "password"
            /\ UNCHANGED why
    /\ UNCHANGED <<sourceVars, vault, ver, daemon, asking, default, written>>

ask_password ==
    /\ pc = "password"
    /\ (pc' = "create" /\ UNCHANGED why) \/ Abandon("password")
    /\ UNCHANGED <<sourceVars, vault, report, ver, daemon, asking, default, written>>

(* From here to the verdict an error leads to the file's removal.          *)
create ==
    /\ pc = "create"
    /\ \/ vault = NoFile /\ vault' = [by |-> "us", items |-> <<>>] /\ pc' = "import"
       \/ pc' = "undo" /\ UNCHANGED vault
    /\ UNCHANGED <<sourceVars, report, ver, daemon, asking, default, written, why>>

import_items ==
    /\ pc = "import"
    /\ \/ vault' = [by |-> "us", items |-> out.items] /\ pc' = "reopen"
       \/ pc' = "undo" /\ UNCHANGED vault
    /\ UNCHANGED <<sourceVars, report, ver, daemon, asking, default, written, why>>

reopen ==
    /\ pc = "reopen"
    /\ pc' \in {"verify", "undo"}
    /\ UNCHANGED <<out, walletVars, keyringVars, pipeVars>>

----------------------------------------------------------------------------
(* Verification and reports                                                *)

accounted == out.refused \o out.skipped
unlisted_entries ==
    IF inv.kind = "wallet" THEN unlisted_wallet_entries(inv.index, out.items, accounted)
    ELSE <<>>

(* The checks that need no daemon.  dst is the file's items, read back;    *)
(* compared is false when there is none.                                   *)
verify_import(compared, dst) ==
    [count |-> count_passed(inv.count, seen(recomputed_tally(report)) + Len(out.skipped),
                            Len(unlisted_entries)),
     compared |-> compared,
     fingerprints |-> compared => compare_fingerprints(Fingerprints(out.items), Fingerprints(dst)),
     misses |-> IF inv.kind = "wallet" THEN check_wallet_hash_table(inv.index, out.items) ELSE {},
     unlisted |-> unlisted_entries,
     lengths |-> compared => compare_histograms(of_lengths(out.items), of_lengths(dst)),
     probes |-> {not_issued(q) : q \in probe_plan(out.items)}]

(* The items and the tally after the probes.                               *)
probed_items(v) == downgrade_items(report, v.probes)

(* What the report ends with: on to the removal of the old provider.       *)
print_report(v, disposition) == disposition # "dry run" /\ may_suggest_decommission(v)

ReportFile(v, disposition, moved) ==
    [items |-> probed_items(v), tally |-> tally_with_probes(report, v.probes),
     disposition |-> disposition, moved |-> moved,
     notes |-> unlisted_notes(v.unlisted, out.unresolved),
     advice |-> print_report(v, disposition)]

(* Variant: a file that failed the checks stays.                           *)
LeavePartial == vault

unlink_partial == NoFile

undo ==
    /\ pc = "undo"
    /\ ver' = verify_import(FALSE, <<>>)
    /\ written' = ReportFile(ver', "removed again", FALSE)
    /\ vault' = unlink_partial
    /\ Abandon("write")
    /\ UNCHANGED <<sourceVars, report, daemon, asking, default>>

verify ==
    /\ pc = "verify"
    /\ ver' = verify_import(~args.dry, vault.items)
    /\ IF passed(ver')
       THEN pc' = (IF args.dry THEN "finish" ELSE "notify") /\ UNCHANGED <<written, vault, why>>
       ELSE /\ written' = ReportFile(ver', IF args.dry THEN "dry run" ELSE "removed again", FALSE)
            /\ vault' = IF args.dry THEN vault ELSE unlink_partial
            /\ Abandon("verification")
    /\ UNCHANGED <<sourceVars, report, daemon, asking, default>>

----------------------------------------------------------------------------
(* Publication                                                             *)

(* What the daemon holds after a Reload: a collection it has is kept.      *)
Reloaded == [daemon EXCEPT !.copy = IF @ = NoFile THEN vault ELSE @]

(* Variant: the collection is probed whether or not it was loaded.         *)
ProbeAnyway(told) == TRUE

may_probe(told) == told

(* Nobody to tell is as good as told.  An answer may be lost.              *)
notify_daemon ==
    /\ pc = "notify"
    /\ \E told \in BOOLEAN, reached \in BOOLEAN :
          /\ daemon.up \/ told
          /\ daemon' = IF daemon.up /\ (told \/ reached) THEN Reloaded ELSE daemon
          /\ asking' = IF may_probe(told) THEN probe_plan(out.items) ELSE {}
    /\ pc' = "probe"
    /\ UNCHANGED <<sourceVars, vault, report, ver, default, written, why>>

(* The header may hold no attributes, or another process serve the bus     *)
(* name: then nothing is asked.                                            *)
probe_target ==
    /\ pc = "probe"
    /\ asking' = {}
    /\ pc' = "judge"
    /\ UNCHANGED <<sourceVars, vault, report, ver, daemon, default, written, why>>

run_probes ==
    /\ pc = "probe" /\ asking # {}
    /\ LET q == CHOOSE x \in asking : TRUE
       IN /\ asking' = asking \ {q}
          /\ \/ UNCHANGED ver
             \/ /\ daemon.up
                /\ ver' = [ver EXCEPT !.probes = (@ \ {not_issued(q)})
                              \union {issued(q, Found(q.attrs, daemon.copy.items))}]
    /\ UNCHANGED <<pc, sourceVars, vault, report, daemon, default, written, why>>

(* A probe that failed leaves the file, which the daemon may have loaded.  *)
judge ==
    /\ pc = "judge"
    /\ IF passed(ver)
       THEN pc' = (IF args.set_default THEN "alias" ELSE "finish") /\ UNCHANGED <<written, why>>
       ELSE written' = ReportFile(ver, "kept", FALSE) /\ Abandon("probe")
    /\ UNCHANGED <<sourceVars, vault, report, ver, daemon, asking, default>>

set_default_alias ==
    /\ pc = "alias"
    /\ default' \in {"us", default}
    /\ pc' = "finish"
    /\ UNCHANGED <<sourceVars, vault, report, ver, daemon, asking, written, why>>

finish ==
    /\ pc = "finish"
    /\ written' = ReportFile(ver, IF args.dry THEN "dry run" ELSE "kept", default = "us")
    /\ pc' = "done"
    /\ UNCHANGED <<sourceVars, vault, report, ver, daemon, asking, default, why>>

----------------------------------------------------------------------------
(* The others                                                              *)

Pipeline == {"password", "create", "import", "reopen", "verify", "notify", "probe", "judge",
             "alias", "finish"}

(* Another process creates a collection of the same name.                  *)
Rival ==
    /\ pc \in {"extracted"} \union Pipeline /\ vault = NoFile
    /\ vault' = [by |-> "another", items |-> <<>>]
    /\ UNCHANGED <<pc, sourceVars, report, ver, daemon, asking, default, written, why>>

(* Somebody else's Reload, a stop or a start of the daemon.                *)
DaemonMoves ==
    /\ pc \in Pipeline
    /\ daemon' \in {[up |-> FALSE, copy |-> NoFile],
                    IF daemon.up THEN Reloaded ELSE [up |-> TRUE, copy |-> vault]} \ {daemon}
    /\ UNCHANGED <<pc, sourceVars, vault, report, ver, asking, default, written, why>>

Kill ==
    /\ pc \in Pipeline
    /\ pc' = "killed"
    /\ UNCHANGED <<out, walletVars, keyringVars, pipeVars>>

(* The process ends, and with it the task that waits for a late handle.    *)
Exit ==
    /\ pc = "failed" /\ grace
    /\ grace' = FALSE
    /\ UNCHANGED <<pc, out, wallet, sidecar, handle, todo, listings, live, unreadable,
                   counted_empty, pending, resolved, keyringVars, pipeVars>>

Next ==
    \/ locate
    \/ WalletNext /\ UNCHANGED <<keyringVars, pipeVars>>
    \/ KeyringNext /\ UNCHANGED <<walletVars, pipeVars>>
    \/ classify_items \/ ask_password \/ create \/ import_items \/ reopen \/ undo \/ verify
    \/ notify_daemon \/ probe_target \/ run_probes \/ judge \/ set_default_alias \/ finish
    \/ Rival \/ DaemonMoves \/ Kill \/ Exit

Spec == Init /\ [][Next]_vars

----------------------------------------------------------------------------
(* Properties                                                              *)

Provs == [i \in DOMAIN out.items |-> out.items[i].prov] \o out.refused \o out.skipped
Once(s) == Cardinality(Range(s)) = Len(s)

(* The reference: what the writer of the file put into its header.         *)
Whole == IF source = "gnome" THEN EncodeKeyring(keyring.header) ELSE EncodeWallet(wallet.header)
KeyringIndex ==
    [i \in DOMAIN keyring.header.items |->
        LET it == keyring.header.items[i]
        IN [id |-> it.id, type |-> it.type,
            keys |-> {it.attrs[j].name : j \in DOMAIN it.attrs}]]

(* The header parsers of import/formats.rs accept every complete file,     *)
(* NULL-valued attributes included, and what they accept, of a file that   *)
(* may be cut anywhere while it is rewritten, they report exactly.         *)
HeaderIsExact ==
    CASE inv = NoInv -> TRUE
      [] inv = Refused -> file # Whole
      [] inv.kind = "wallet" -> inv.index = wallet.header
      [] OTHER -> inv.index = KeyringIndex

(* walk and the gnome walk: every entry the source listed comes out once,  *)
(* as an item, refused or skipped, however listings repeat, shrink or      *)
(* fail, and every folder is listed, counted empty or named unreadable,    *)
(* exactly one of them.  Of a wallet's index the report leaves out nothing *)
(* either: what no listing produced it notes, under one name at most.      *)
NothingListedIsLost ==
    /\ pc = "close" =>
          /\ Once(Provs)
          /\ Range(Provs) = {kwallet(p[1], p[2]) : p \in Range(Listed(listings))}
          /\ \A f \in Range(wallet.folders) :
                Cardinality({i \in 1 .. 3 : CASE i = 1 -> At(f) # {} [] i = 2 -> f \in counted_empty
                                             [] OTHER -> f \in unreadable}) = 1
    /\ pc = "extracted" /\ source = "gnome" /\ "unanswerable prompt" \notin out.notes =>
          \E c \in Range(keyring.collections) :
             /\ Wanted(c)
             /\ Len(Provs) = Len(c.items)
             /\ Once(SelectSeq(Provs, LAMBDA p : p # Nowhere))
    /\ written # NoReport /\ source = "kwallet" =>
          \A p \in Range(IndexPairs(wallet.header)) :
             \/ \E q \in Range(Provs) : name_pair(q.folder, q.entry) = p
             \/ \E n \in written.notes : p \in n.entries /\ Cardinality(n.folder.name) <= 1

(* map_entry and read_secret: an imported item has the secret its entry    *)
(* holds, whichever call returned it, and takes attributes from the        *)
(* attribute file only if no other listed entry composes the same key.     *)
ItemIsEntry ==
    source = "kwallet" => \A i \in DOMAIN out.items :
        LET it == out.items[i]
            f  == it.prov.folder
            e  == it.prov.entry
        IN /\ it.secret = wallet.stored[<<f, e>>].secret
           /\ \A p \in Range(Listed(listings)) :
                 p # <<f, e>> /\ sidecar_key(p[1], p[2]) = sidecar_key(f, e) =>
                    it.inserted = DOMAIN it.attrs

(* may_suggest_decommission: the advice to remove the old provider is      *)
(* given only when the new file holds every item read and every entry of   *)
(* the source's own index was read, refused or skipped.                    *)
AdviceIsEarned ==
    written.advice =>
        /\ vault.by = "us" /\ Fingerprints(vault.items) = Fingerprints(out.items)
        /\ inv.count = Len(Provs)
        /\ inv.kind = "wallet" =>
              Range(IndexPairs(inv.index)) = {name_pair(p.folder, p.entry) : p \in Range(Provs)}

(* run_with: unless only a probe failed, a run that fails leaves no file   *)
(* of its own; a dry run leaves none; and whenever the default alias has   *)
(* moved, also if the command is killed, the file is there and complete.   *)
AllOrNothing ==
    /\ pc = "failed" /\ why # "probe" => vault.by # "us"
    /\ args.dry => vault.by # "us"
    /\ default = "us" => vault = [by |-> "us", items |-> out.items]
    /\ pc = "failed" => default # "us"

(* run_probes: a probe fails only if the daemon had loaded the collection  *)
(* before it was complete; a daemon that never loaded it is not asked.     *)
ProbeFailsOnlyIfStale ==
    [][\A p \in ver'.probes : probe_failed(p) /\ p \notin ver.probes =>
          daemon.copy # NoFile /\ daemon.copy.items # out.items]_vars

(* "the right to suggest that the old provider be removed belongs to a run *)
(* with nothing left unproved and nothing left behind" (print_report).     *)
(* Fails when an item was refused or skipped: those are accounted for.     *)
AdviceMeansWhole == written.advice => out.refused = <<>> /\ out.skipped = <<>>

(* "Remove a collection this run published and then failed to finish"      *)
(* (unlink_partial): a file another process made stays.  Fails when the    *)
(* other publishes after this run has found the name free.                 *)
OthersFileKept == [][vault.by = "another" => vault' = vault]_vars

(* "The report --report writes must be a report its own parser accepts."   *)
(* Fails when an item carries no date of its own.                          *)
ReportReadsBack == written # NoReport => deserialize(written)
=============================================================================
