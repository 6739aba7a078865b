------------------------------ MODULE MCImport ------------------------------
(***************************************************************************)
(* Sources to import.  Wallets: a folder listed twice, an entry only the   *)
(* repeat holds, two pairs that compose one attribute key, an entry the    *)
(* file has and no listing, one the listing has and not the file, every    *)
(* entry type, secrets over the cap.  Keyrings: a locked one, two of one   *)
(* name, the session collection, a credential, a NULL-valued attribute.    *)
(***************************************************************************)
EXTENDS Import

Good(v) == [kind |-> "good", value |-> v]
Absent == [kind |-> "absent"]
Bad == [kind |-> "bad"]
Row(attrs) == [created |-> Good(5), modified |-> Bad, mime |-> Absent, attributes |-> Good(attrs)]
Rows(k, attrs) == <<[key |-> k, object |-> TRUE, row |-> Row(attrs)]>>
Attr(k, v) == [x \in {k} |-> v]

Password(units) == [code |-> 1, raw |-> EncodeQString(units), text |-> into_bytes(units),
                    secret |-> into_bytes(units)]
Broken == [code |-> 1, raw |-> <<0, 0, 0, 3, 0, 97, 0>>, text |-> <<>>, secret |-> <<>>]
Map(pairs) == [code |-> 3, raw |-> EncodeQMap(pairs), text |-> <<>>, secret |-> Json(Range(pairs))]
Stream(b) == [code |-> 2, raw |-> b, text |-> <<>>, secret |-> b]
Unknown == [code |-> 0, raw |-> <<1>>, text |-> <<>>, secret |-> <<>>]

Folder(f, es) == [hash |-> md5(f), entries |-> [i \in DOMAIN es |-> md5(es[i])]]
NoKeyring == [header |-> <<>>, name |-> <<>>, collections |-> <<>>, items |-> <<>>]
NoWallet == [known |-> FALSE, open |-> FALSE, display |-> FALSE, header |-> <<>>,
             folders |-> <<>>, lists |-> <<>>, stored |-> <<>>, rows |-> <<>>]

A == <<1>>
AB == <<1, 2>>
B == <<2>>
BC == <<2, 3>>
C == <<3>>
D == <<4>>

(* <<1>> / <<2, 3>> and <<1, 2>> / <<3>> compose one key.                   *)
Ambiguous ==
    [known |-> TRUE, open |-> TRUE, display |-> FALSE,
     header |-> <<Folder(A, <<BC, D>>), Folder(AB, <<C>>)>>,
     folders |-> <<A, AB, A>>,
     lists |-> [f \in {A, AB} |-> IF f = A THEN {<<BC>>, <<D, D>>, <<D, BC>>} ELSE {<<C>>, <<>>}],
     stored |-> [p \in {<<A, BC>>, <<A, D>>, <<AB, C>>} |->
                   CASE p[2] = BC -> Password(<<97, 233>>) [] p[2] = D -> Stream(<<7>>)
                     [] OTHER -> Map(<<<<<<98>>, <<99>>>>, <<<<97>>, <<>>>>>>)],
     rows |-> Rows(<<1, 2, 3>>, Attr("xdg:schema", <<9>>)) \o
              Rows(<<1, 4>>, Attr("user", <<8>>))]

(* An entry of the file is never listed; another is listed and was added   *)
(* after the header was read.                                              *)
Drifting ==
    [known |-> TRUE, open |-> FALSE, display |-> TRUE,
     header |-> <<Folder(A, <<B, C>>), Folder(D, <<>>)>>,
     folders |-> <<A, D>>,
     lists |-> [f \in {A, D} |-> IF f = A THEN {<<B>>, <<B, C>>, <<B, D>>} ELSE {<<>>}],
     stored |-> [p \in {<<A, B>>, <<A, C>>, <<A, D>>} |->
                   CASE p[2] = B -> Map(<<<<<<97>>, <<98>>>>>>) [] p[2] = C -> Unknown
                     [] OTHER -> Broken],
     rows |-> Rows(<<1, 2>>, Attr("user", <<8>>)) \o Rows(<<1, 2>>, Attr("xdg:schema", <<9>>))
              \o <<[key |-> <<5>>, object |-> FALSE, row |-> <<>>]>>]

(* A map over the cap, a listing over its limit.                           *)
Large ==
    [known |-> TRUE, open |-> TRUE, display |-> FALSE,
     header |-> <<Folder(A, <<B>>)>>,
     folders |-> <<A>>,
     lists |-> [f \in {A} |-> {<<B>>, <<B, C, D, BC>>}],
     stored |-> [p \in {<<A, B>>} |-> Map(<<<<[i \in 1 .. 6 |-> 97], [i \in 1 .. 7 |-> 98]>>>>)],
     rows |-> <<>>]

(* Two items, one with an attribute more, and a credential.                *)
Item(id, attrs, secret) ==
    [label |-> <<id>>, attrs |-> attrs, secret |-> secret, ctype |-> "text/plain",
     created |-> 5, modified |-> 6, credential |-> id = 3]
Ring(n, cols) ==
    [header |-> [name |-> <<97>>, cipher |-> 2,
                 items |-> [i \in 1 .. n |->
                    [id |-> i, type |-> IF i = 3 THEN 3 ELSE 0,
                     attrs |-> IF i = 1 THEN <<[name |-> <<117>>, kind |-> 0, null |-> TRUE],
                                               [name |-> <<118>>, kind |-> 1, null |-> FALSE]>>
                               ELSE <<>>]]],
     name |-> <<97>>, collections |-> cols,
     items |-> [i \in 1 .. 3 |-> CASE i = 1 -> Item(1, Attr("user", <<8>>), <<1, 2>>)
                  [] i = 2 -> Item(2, [k \in {"user", "xdg:schema"} |-> <<8>>], <<3>>)
                  [] OTHER -> Item(3, Attr("user", <<8>>), <<4>>)]]
Col(label, locked, held) == [session |-> FALSE, label |-> label, locked |-> locked, items |-> held]
Session == [session |-> TRUE, label |-> <<97>>, locked |-> FALSE, items |-> <<>>]

MCSources ==
    {[source |-> "kwallet", wallet |-> w, keyring |-> NoKeyring,
      file |-> EncodeWallet(w.header)] : w \in {Ambiguous, Drifting, Large}}
    \union
    {[source |-> "gnome", wallet |-> NoWallet, keyring |-> k, file |-> EncodeKeyring(k.header)] :
       k \in {Ring(3, <<Session, Col(<<98>>, FALSE, <<>>), Col(<<97>>, TRUE, <<1, 2, 3>>)>>),
              Ring(2, <<Col(<<97>>, FALSE, <<1, 2>>)>>),
              Ring(2, <<Col(<<97>>, FALSE, <<1, 2>>), Col(<<97>>, FALSE, <<1>>)>>)}}
=============================================================================
