------------------------------ MODULE MCClient ------------------------------
(***************************************************************************)
(* Two collections.  A key is registered in both of them, under several    *)
(* spellings.  The ring has a key without a keygrip followed by one with,  *)
(* an expired key, one that cannot sign, one the allowlist leaves out, and *)
(* one with a malformed keygrip.                                           *)
(***************************************************************************)
EXTENDS Client

CONSTANTS c1, c2

Secret(k, n) == [for |-> k, n |-> n]
Item(c, schema, key, form, secret, label, at) ==
    [col |-> c, schema |-> schema, id |-> [key |-> key, form |-> form], secret |-> secret,
     label |-> label, at |-> at]

Plain == {Item(c1, "plain", 1, "long", Secret(1, 1), 1, 1), Item(c2, "plain", 1, "long", Secret(1, 2), 2, 2)}
Ssh == {Item(c1, "ssh", 1, "long", Secret(1, 1), 1, 1), Item(c2, "ssh", 1, "full", Secret(1, 2), 1, 2),
        Item(c2, "ssh", 2, "long", Secret(2, 1), 1, 3), Item(c1, "ssh", 4, "long", Secret(4, 0), 1, 4)}
Gpg == {Item(c1, "gpg", 2, "full", Secret(2, 1), 1, 1), Item(c2, "gpg", 2, "long", Secret(2, 1), 1, 2),
        Item(c2, "gpg", 1, "long", Secret(1, 1), 1, 3), Item(c1, "gpg", 2, "short", Secret(9, 1), 1, 4),
        Item(c1, "gpg", 4, "long", Secret(4, 1), 1, 5), Item(c2, "gpg", 6, "full", Secret(6, 1), 1, 6)}

Passphrase == [tagged |-> FALSE, line |-> TRUE, path |-> TRUE, question |-> FALSE]
HostKey == [tagged |-> FALSE, line |-> FALSE, path |-> TRUE, question |-> TRUE]
Tagged == [Passphrase EXCEPT !.tagged = TRUE]
Other == [Passphrase EXCEPT !.path = FALSE]

Cmd(op, schema, key, hook) ==
    [op |-> op, schema |-> schema, key |-> key, secret |-> Secret(key, 3), label |-> 0,
     col |-> c2, old |-> "first", new |-> "second", prefix |-> {}, prompt |-> Passphrase, default |-> {c1}, batch |-> TRUE, hook |-> hook,
     rivals |-> IF schema = "gpg" THEN {"locks"} ELSE {"locks", "deletes"}]

Plains == {Cmd(op, "plain", 1, FALSE) : op \in {"get", "set", "delete", "list"}}
          \union {[Cmd("get", "plain", 1, FALSE) EXCEPT !.label = 1],
                  [Cmd("set", "plain", 1, FALSE) EXCEPT !.default = {}],
                  [Cmd("delete", "plain", 1, FALSE) EXCEPT !.batch = FALSE]}
Sshs == {Cmd(op, "ssh", k, FALSE) : op \in {"ssh add", "ssh remove", "ssh list", "ssh askpass"}, k \in {1, 2, 4}}
        \union {[Cmd("ssh askpass", "ssh", 9, FALSE) EXCEPT !.prefix = p] : p \in {{}, {2}, {1, 2}}}
        \union {[Cmd("ssh askpass", "ssh", 2, FALSE) EXCEPT !.prompt = p] : p \in {HostKey, Tagged, Other}}
Gpgs == {Cmd("gpg enroll", "gpg", 6, TRUE), [Cmd("gpg preset", "gpg", 2, FALSE) EXCEPT !.rivals = {"deletes"}],
         Cmd("gpg enroll", "gpg", 2, TRUE), Cmd("gpg enroll", "gpg", 3, TRUE), Cmd("gpg preset", "gpg", 2, TRUE)}

Controls == {[Cmd(op, "gpg", 2, TRUE) EXCEPT !.rivals = {"locks", "changes"}, !.old = pw] :
               op \in {"unlock", "lock", "change-password"}, pw \in {"first", "third"}}

Of(cmds, held) == {[cmd |-> c, items |-> held, locked |-> l] : c \in cmds, l \in {{}, {c2}, {c1, c2}}}
MCScenarios == Of(Plains, Plain) \union Of(Sshs, Ssh) \union Of(Gpgs \union Controls, Gpg)

Rec(r, valid, sign) == [rec |-> r, valid |-> valid, sign |-> sign, value |-> 0, of |-> 0, usable |-> FALSE]
Fpr(k) == [rec |-> "fpr", valid |-> TRUE, sign |-> TRUE, value |-> k, of |-> k, usable |-> FALSE]
Grp(k, ok, usable) ==
    [rec |-> "grp", valid |-> TRUE, sign |-> TRUE, value |-> IF ok THEN 10 + k ELSE 0,
     of |-> k, usable |-> usable]
MCRing == <<Rec("sec", TRUE, TRUE), Fpr(1), Rec("uid", TRUE, TRUE),
            Rec("ssb", TRUE, TRUE), Fpr(2), Grp(2, TRUE, TRUE),
            Rec("sec", FALSE, TRUE), Fpr(4), Grp(4, TRUE, FALSE),
            Rec("sec", TRUE, FALSE), Fpr(5), Grp(5, TRUE, FALSE),
            Rec("sec", TRUE, TRUE), Fpr(6), Grp(6, TRUE, TRUE),
            Rec("sec", TRUE, TRUE), Fpr(7), Grp(7, FALSE, TRUE)>>
MCCollections == {c1, c2}
MCFilter == {[key |-> 2, form |-> "full"], [key |-> 1, form |-> "long"], [key |-> 6, form |-> "short"]}
=============================================================================
