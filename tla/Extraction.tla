----------------------------- MODULE Extraction -----------------------------
(***************************************************************************)
(* What an import knows of the items it reads and how it checks its work:  *)
(* the classes and caps of import/mod.rs and the checks of                 *)
(* import/verify.rs.  A name or attribute value is a sequence of numbers   *)
(* (a folder or entry name has one per segment between slashes), a secret  *)
(* a sequence of bytes.  A digest is what it is a digest of.               *)
(***************************************************************************)
EXTENDS Formats

CONSTANTS MAX_LABEL,        \* length of a label
          MAX_ATTRIBUTES,   \* attributes of one item
          MAX_VALUE,        \* length of an attribute's value
          MAX_SECRET_BYTES  \* secret bytes one import may hold

ASSUME CapLimits ==
    MAX_LABEL \in Nat /\ MAX_ATTRIBUTES \in Nat /\ MAX_VALUE \in Nat /\ MAX_SECRET_BYTES \in Nat

VARIABLES pc,    \* where the command is
          out    \* what the extraction has produced

Nothing == [items |-> <<>>, refused |-> <<>>, skipped |-> <<>>, notes |-> {}, bytes |-> 0,
            unresolved |-> {}]
Note(o, cond, n) == IF cond THEN [o EXCEPT !.notes = @ \union {n}] ELSE o
Skip(o, prov) == [o EXCEPT !.skipped = Append(@, prov)]
Refuse(o, prov) == [o EXCEPT !.refused = Append(@, prov)]
Keep(o, item) == [o EXCEPT !.items = Append(@, item)]

XDG_SCHEMA == "xdg:schema"
SYNTHESISED_ATTRIBUTES == {"kwallet:folder", "kwallet:key", "kwallet:type"}

(* Where an item came from.  Only KWallet names folder and entry.          *)
Nowhere == [source |-> "gnome", folder |-> <<>>, entry |-> <<>>, id |-> 0]
gnome(id) == [Nowhere EXCEPT !.id = id]
kwallet(f, e) == [source |-> "kwallet", folder |-> f, entry |-> e, id |-> 0]

is_synthesised_attribute(source, k) == source = "kwallet" /\ k \in SYNTHESISED_ATTRIBUTES

classify(source, attrs, inserted) ==
    CASE XDG_SCHEMA \in DOMAIN attrs /\ attrs[XDG_SCHEMA] # <<>> -> "fully portable"
      [] \E k \in DOMAIN attrs :
            ~(is_synthesised_attribute(source, k) /\ k \in inserted) -> "attributes preserved"
      [] OTHER -> "preserved only"

(* The first cap an item is over, or "none".  Content types and attribute  *)
(* names have caps of the same kind; the ones here are short.              *)
check_caps(item) ==
    CASE Len(item.secret) > MAX_ITEM_SECRET -> "secret"
      [] Len(item.label) > MAX_LABEL -> "label"
      [] Cardinality(DOMAIN item.attrs) > MAX_ATTRIBUTES -> "attribute count"
      [] \E k \in DOMAIN item.attrs : Len(item.attrs[k]) > MAX_VALUE -> "attribute value"
      [] OTHER -> "none"

----------------------------------------------------------------------------
(* The report                                                              *)

(* No value of any kind; an item that was refused has no outcome.          *)
ItemReport(prov, keys, outcome, epoch) ==
    [prov |-> prov, keys |-> keys, refused |-> outcome = "none", outcome |-> outcome,
     epoch_stamped |-> epoch]

imported(item) ==
    ItemReport(item.prov, DOMAIN item.attrs,
               classify(item.prov.source, item.attrs, item.inserted),
               item.created = 0 /\ item.modified = 0)
refused(prov) == ItemReport(prov, {}, "none", FALSE)

Categories == {"fully portable", "attributes preserved", "preserved only", "refused"}
Category(r) == IF r.refused \/ r.outcome = "none" THEN "refused" ELSE r.outcome

NoTally == [c \in Categories |-> 0]
record(tally, r) == [tally EXCEPT ![Category(r)] = @ + 1]
recomputed_tally(reports) == FoldLeft(record, NoTally, reports)
seen(tally) == FoldFunction(LAMBDA a, b : a + b, 0, tally)
recomputed_epoch_stamped(reports) ==
    Cardinality({i \in DOMAIN reports : ~reports[i].refused /\ reports[i].epoch_stamped})

(* Whether the report type reads a file back.  The written file has no     *)
(* epoch-stamped count, and a missing one is read as zero.                 *)
deserialize(file) ==
    /\ file.tally = recomputed_tally(file.items)
    /\ 0 = recomputed_epoch_stamped(file.items)

----------------------------------------------------------------------------
(* The checks                                                              *)

fingerprint(item) == <<item.attrs, item.label, item.ctype, item.secret>>
Fingerprints(items) == ToBag([i \in DOMAIN items |-> fingerprint(items[i])])

compare_fingerprints(src, dst) == src (-) dst = EmptyBag /\ dst (-) src = EmptyBag

count_passed(header, walked, unlisted) == walked + unlisted = header

md5(name) == [i \in 1 .. HASH |-> IF i \in DOMAIN name THEN name[i] ELSE 0]
name_pair(f, e) == <<md5(f), md5(e)>>

(* The pairs of a wallet's index, in the file's order.                     *)
IndexPairs(folders) ==
    FlattenSeq([i \in DOMAIN folders |->
        [j \in DOMAIN folders[i].entries |-> <<folders[i].hash, folders[i].entries[j]>>]])

check_wallet_hash_table(folders, items) ==
    {name_pair(items[i].prov.folder, items[i].prov.entry) : i \in DOMAIN items}
        \ Range(IndexPairs(folders))

unlisted_wallet_entries(folders, items, accounted) ==
    LET provs  == {items[i].prov : i \in DOMAIN items} \union Range(accounted)
        walked == {name_pair(p.folder, p.entry) : p \in provs}
    IN SelectSeq(IndexPairs(folders), LAMBDA pair : pair \notin walked)

(* The names sidecar rows give such a pair: every split of a key at a      *)
(* slash, and the key as an entry of the folder with no name.              *)
resolve_table(keys) ==
    UNION {{<<SubSeq(k, 1, i), SubSeq(k, i + 1, Len(k))>> : i \in 0 .. Len(k) - 1} : k \in keys}
resolve_unlisted(pair, keys) ==
    {n \in resolve_table(keys) : name_pair(n[1], n[2]) = pair}

(* A note for every folder of entries the index has and no listing         *)
(* produced: under the folder's name where a row gives one, else its hash. *)
unlisted_notes(pairs, keys) ==
    LET folder(p) == [hash |-> p[1], name |-> {n[1] : n \in resolve_unlisted(p, keys)}]
    IN  {[folder |-> k, entries |-> {p \in Range(pairs) : folder(p) = k}] :
            k \in {folder(p) : p \in Range(pairs)}}

Matches(query, attrs) ==
    \A k \in DOMAIN query : k \in DOMAIN attrs /\ attrs[k] = query[k]
Found(query, items) == Cardinality({i \in DOMAIN items : Matches(query, items[i].attrs)})

Queries(items) == {a \in {items[i].attrs : i \in DOMAIN items} : DOMAIN a # {}}

(* One probe per distinct non-empty attribute map; a search finds supersets. *)
probe_plan(items) == {[attrs |-> q, expected |-> Found(q, items)] : q \in Queries(items)}

(* A probe's answer: a number of items, or none when it was not issued.    *)
not_issued(query) == [query |-> query, found |-> {}]
issued(query, n) == [query |-> query, found |-> {n}]
probe_failed(p) == p.found \notin {{}, {p.query.expected}}

downgraded_keys(probes) == {DOMAIN p.query.attrs : p \in {q \in probes : probe_failed(q)}}
downgrade_outcome(outcome, down) ==
    IF down /\ outcome = "fully portable" THEN "attributes preserved" ELSE outcome
downgrade_items(reports, probes) ==
    [i \in DOMAIN reports |-> [reports[i] EXCEPT !.outcome =
        downgrade_outcome(@, reports[i].keys \in downgraded_keys(probes))]]
tally_with_probes(reports, probes) == recomputed_tally(downgrade_items(reports, probes))

BUCKET_BOUNDS == <<0, 16, 64, 256, 1024, 16384, 262144>>
Bucket(len) ==
    LET fits == {i \in DOMAIN BUCKET_BOUNDS : len <= BUCKET_BOUNDS[i]}
    IN IF fits = {} THEN Len(BUCKET_BOUNDS) + 1 ELSE Min(fits)
of_lengths(items) == ToBag([i \in DOMAIN items |-> Bucket(Len(items[i].secret))])

(* Two histograms agree when every bucket of either does.                  *)
compare_histograms(src, dst) ==
    \A b \in DOMAIN src \union DOMAIN dst : CopiesIn(b, src) = CopiesIn(b, dst)

(* The result of all checks; the probes are added after the others.        *)
passed(v) ==
    /\ v.count
    /\ v.fingerprints
    /\ v.misses = {}
    /\ \A p \in v.probes : ~probe_failed(p)
    /\ v.lengths

(* Variant: an entry no listing produced is no reason for doubt.           *)
Counted(v) == ~v.compared \/ v.probes = {} \/ \E p \in v.probes : p.found = {}

unproved(v) ==
    \/ v.unlisted # <<>>
    \/ ~v.compared
    \/ v.probes = {}
    \/ \E p \in v.probes : p.found = {}
may_suggest_decommission(v) == passed(v) /\ ~unproved(v)
=============================================================================
