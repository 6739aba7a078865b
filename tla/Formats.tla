------------------------------ MODULE Formats ------------------------------
(***************************************************************************)
(* The binary formats an import reads: the cleartext headers of a          *)
(* gnome-keyring file and of a KWallet file (import/formats.rs), and the   *)
(* QDataStream strings and maps KWallet stores (import/kwallet.rs).  A     *)
(* file is a sequence of bytes.  The decoders are the code's; the encoders *)
(* at the end are the formats' definition, against which they are checked. *)
(***************************************************************************)
EXTENDS Naturals, Sequences, FiniteSets, SequencesExt

CONSTANTS MAX_MAP_ENTRIES,   \* pairs a serialised map may declare
          MAX_ITEM_SECRET    \* bytes a secret may have

ASSUME FormatLimits == MAX_MAP_ENTRIES \in Nat /\ MAX_ITEM_SECRET \in Nat

(* A reader: where it is, whether every read so far succeeded, and what    *)
(* the last one returned.                                                  *)
Cursor == [pos |-> 0, ok |-> TRUE, got |-> <<>>]

Fail(c) == [c EXCEPT !.ok = FALSE]
Got(c, v) == [c EXCEPT !.got = v]
Then(c, Read(_)) == IF c.ok THEN Read(c) ELSE c
remaining(b, c) == Len(b) - c.pos

take(b, c, n) ==
    IF n <= remaining(b, c)
    THEN [pos |-> c.pos + n, ok |-> TRUE, got |-> SubSeq(b, c.pos + 1, c.pos + n)]
    ELSE Fail(c)

(* A length of 2^31 or more is longer than any file; all of them are the   *)
(* same number here.                                                       *)
Huge == 2147483647
NULL_LEN == <<255, 255, 255, 255>>
BigEndian(s) ==
    IF s[1] >= 128 THEN Huge ELSE FoldLeft(LAMBDA n, d : 256 * n + d, 0, s)

u32(b, c) == Then(take(b, c, 4), LAMBDA t : Got(t, BigEndian(t.got)))

(* The declared number of elements, refused when that many cannot fit in   *)
(* what is left of the file.                                               *)
count(b, c, minEach) ==
    Then(u32(b, c), LAMBDA n : IF n.got <= remaining(b, n) \div minEach THEN n ELSE Fail(n))

Null == [null |-> TRUE, text |-> <<>>]
Text(s) == [null |-> FALSE, text |-> s]

(* Variant: the marker of an absent value is read as a length.             *)
NoNull(b, c) ==
    Then(count(b, c, 1), LAMBDA n : Then(take(b, n, n.got), LAMBDA s : Got(s, Text(s.got))))

opt_bytes(b, c) ==
    Then(take(b, c, 4), LAMBDA len :
        IF len.got = NULL_LEN THEN Got(len, Null)
        ELSE Then(count(b, c, 1), LAMBDA n :
                 Then(take(b, n, n.got), LAMBDA s : Got(s, Text(s.got)))))

(* UTF-8 is checked; the texts here are ASCII or not text at all.          *)
opt_string(b, c) ==
    Then(opt_bytes(b, c), LAMBDA s :
        IF \A i \in DOMAIN s.got.text : s.got.text[i] < 128 THEN s ELSE Fail(s))

(* Step repeated n.got times, collecting what each repetition returns.     *)
Repeat(b, n, Step(_, _)) ==
    FoldLeft(LAMBDA acc, k : Then(acc, LAMBDA a :
                 Then(Step(b, a), LAMBDA r : Got(r, Append(a.got, r.got)))),
             Got(n, <<>>), [k \in 1 .. n.got |-> k])

----------------------------------------------------------------------------
(* gnome-keyring                                                           *)

KEYRING_MAGIC == <<71, 110, 111, 109, 101, 75, 101, 121, 114, 105, 110, 103,
                   10, 13, 0, 10>>
MIN_ITEM_BYTES == 12
MIN_ATTRIBUTE_BYTES == 12

(* The magic and the version, of which only the major parts are compared.  *)
Preamble(b, magic, major) ==
    Then(take(b, Cursor, Len(magic)), LAMBDA m :
        Then(take(b, m, 4), LAMBDA version :
            IF m.got = magic /\ SubSeq(version.got, 1, 2) = major THEN version
            ELSE Fail(version)))

(* One attribute: its name, and its hashed value read past.                *)
parse_attribute(b, c) ==
    Then(opt_string(b, c), LAMBDA name :
        Then(IF name.got.null THEN Fail(name) ELSE u32(b, name), LAMBDA kind :
            Then(CASE kind.got = 0 -> opt_bytes(b, kind)
                   [] kind.got = 1 -> u32(b, kind)
                   [] OTHER -> Fail(kind),
                 LAMBDA value : Got(value, name.got.text))))

parse_keyring_item(b, c) ==
    Then(u32(b, c), LAMBDA id : Then(u32(b, id), LAMBDA type :
        Then(count(b, type, MIN_ATTRIBUTE_BYTES), LAMBDA n :
            Then(Repeat(b, n, parse_attribute), LAMBDA names :
                Got(names, [id |-> id.got, type |-> type.got, keys |-> Range(names.got)])))))

(* Times, flags, iterations, salt and reserved words are 52 bytes nobody   *)
(* decides anything on.                                                    *)
parse_keyring_header(b) ==
    Then(Preamble(b, KEYRING_MAGIC, <<0, 0>>), LAMBDA known :
    Then(opt_string(b, known), LAMBDA name :
    Then(take(b, name, 52), LAMBDA fixed :
    Then(count(b, fixed, MIN_ITEM_BYTES), LAMBDA n :
    Then(Repeat(b, n, parse_keyring_item), LAMBDA items :
    Then(count(b, items, 1), LAMBDA cipher :
        Got(cipher, [name |-> name.got.text, items |-> items.got,
                     cipher |-> <<cipher.pos, cipher.got>>])))))))

----------------------------------------------------------------------------
(* KWallet                                                                 *)

KWALLET_MAGIC == <<75, 87, 65, 76, 76, 69, 84, 10, 13, 0, 13, 10>>
HASH == 16
MIN_FOLDER_BYTES == 20

array16(b, c) == take(b, c, HASH)

parse_folder(b, c) ==
    Then(array16(b, c), LAMBDA hash : Then(count(b, hash, HASH), LAMBDA n :
        Then(Repeat(b, n, array16), LAMBDA entries :
            Got(entries, [hash |-> hash.got, entries |-> entries.got]))))

parse_wallet_header(b) ==
    Then(Preamble(b, KWALLET_MAGIC, <<0, 1>>), LAMBDA known :
        Then(count(b, known, MIN_FOLDER_BYTES), LAMBDA n : Repeat(b, n, parse_folder)))

----------------------------------------------------------------------------
(* QDataStream: a QString is a byte length and UTF-16, a QMap a number of  *)
(* pairs.  A string is kept as its code units.                             *)

High(u) == u \in 55296 .. 56319
Low(u)  == u \in 56320 .. 57343
decode_utf16(units) ==
    \A i \in DOMAIN units :
        /\ High(units[i]) => i < Len(units) /\ Low(units[i + 1])
        /\ Low(units[i])  => i > 1 /\ High(units[i - 1])
Units(s) == [i \in 1 .. Len(s) \div 2 |-> 256 * s[2 * i - 1] + s[2 * i]]

qstring(b, c) ==
    Then(take(b, c, 4), LAMBDA len :
        IF len.got = NULL_LEN THEN Got(len, Null)
        ELSE Then(u32(b, c), LAMBDA n :
             Then(IF n.got % 2 = 0 THEN take(b, n, n.got) ELSE Fail(n), LAMBDA s :
                 IF decode_utf16(Units(s.got)) THEN Got(s, Text(Units(s.got))) ELSE Fail(s))))

qpair(b, c) ==
    Then(qstring(b, c), LAMBDA k :
        Then(qstring(b, k), LAMBDA v : Got(v, <<k.got.text, v.got.text>>)))

Consumed(b, c) == IF remaining(b, c) = 0 THEN c ELSE Fail(c)

decode_qmap(b) ==
    Then(count(b, Cursor, 8), LAMBDA n :
    Then(IF n.got <= MAX_MAP_ENTRIES THEN Repeat(b, n, qpair) ELSE Fail(n), LAMBDA pairs :
        IF \A i, j \in DOMAIN pairs.got : i # j => pairs.got[i][1] # pairs.got[j][1]
        THEN Consumed(b, pairs) ELSE Fail(pairs)))

(* The UTF-8 of one code unit; a surrogate contributes half of its pair's  *)
(* four bytes, which only its length needs.                                *)
Utf8Unit(u) ==
    CASE u < 128 -> <<u>>
      [] u >= 128 /\ u < 2048 -> <<192 + (u \div 64), 128 + (u % 64)>>
      [] High(u) \/ Low(u) -> <<240 + (u \div 4096), 128 + (u % 64)>>
      [] OTHER -> <<224 + (u \div 4096), 128 + ((u \div 64) % 64), 128 + (u % 64)>>
into_bytes(units) == FlattenSeq([i \in DOMAIN units |-> Utf8Unit(units[i])])

(* A map as one JSON object with its keys in order.  No character here     *)
(* needs escaping.                                                         *)
Quoted(units) == <<34>> \o into_bytes(units) \o <<34>>
Before(a, b) ==
    LET x == into_bytes(a[1])
        y == into_bytes(b[1])
    IN \/ x # y /\ IsPrefix(x, y)
       \/ \E i \in DOMAIN x \intersect DOMAIN y :
             x[i] < y[i] /\ \A j \in 1 .. i - 1 : x[j] = y[j]
Json(pairs) ==
    LET sorted == SetToSortSeq(pairs, Before)
        member(p) == Quoted(p[1]) \o <<58>> \o Quoted(p[2])
    IN <<123>> \o FlattenSeq([i \in DOMAIN sorted |->
                     (IF i = 1 THEN <<>> ELSE <<44>>) \o member(sorted[i])])
               \o <<125>>

qmap_to_canonical_json(pairs) ==
    LET decoded == FoldLeft(LAMBDA n, p : n + Len(into_bytes(p[1])) + Len(into_bytes(p[2])),
                            0, pairs)
    IN IF decoded > MAX_ITEM_SECRET THEN [kind |-> "too large"]
       ELSE [kind |-> "ok", secret |-> Json(Range(pairs))]

read_map_secret(b) ==
    LET c == decode_qmap(b) IN
    IF c.ok THEN qmap_to_canonical_json(c.got) ELSE [kind |-> "undecodable"]

decode_qstring_password(b) ==
    LET c == Then(qstring(b, Cursor), LAMBDA s : Consumed(b, s)) IN
    IF c.ok THEN [kind |-> "ok", secret |-> into_bytes(c.got.text)]
    ELSE [kind |-> "undecodable"]

----------------------------------------------------------------------------
(* The formats, as their writers define them.                              *)

Word(n) == <<n \div 16777216, (n \div 65536) % 256, (n \div 256) % 256, n % 256>>
Zeros(n) == [i \in 1 .. n |-> 0]
String(s) == Word(Len(s)) \o s

EncodeAttribute(a) ==
    String(a.name) \o Word(a.kind)
        \o CASE a.kind = 1 -> Word(7) [] a.kind = 0 /\ a.null -> NULL_LEN
             [] OTHER -> String(Zeros(32))
EncodeItem(it) ==
    Word(it.id) \o Word(it.type) \o Word(Len(it.attrs))
        \o FlattenSeq([i \in DOMAIN it.attrs |-> EncodeAttribute(it.attrs[i])])
EncodeKeyring(k) ==
    KEYRING_MAGIC \o Zeros(4) \o String(k.name) \o Zeros(52) \o Word(Len(k.items))
        \o FlattenSeq([i \in DOMAIN k.items |-> EncodeItem(k.items[i])])
        \o Word(k.cipher) \o Zeros(k.cipher)

EncodeFolder(f) == f.hash \o Word(Len(f.entries)) \o FlattenSeq(f.entries)
EncodeWallet(fs) ==
    KWALLET_MAGIC \o <<0, 1, 0, 0>> \o Word(Len(fs))
        \o FlattenSeq([i \in DOMAIN fs |-> EncodeFolder(fs[i])])

EncodeQString(units) ==
    Word(2 * Len(units)) \o FlattenSeq([i \in DOMAIN units |-> <<units[i] \div 256, units[i] % 256>>])
EncodeQMap(pairs) ==
    Word(Len(pairs)) \o FlattenSeq([i \in DOMAIN pairs |->
        EncodeQString(pairs[i][1]) \o EncodeQString(pairs[i][2])])
=============================================================================
