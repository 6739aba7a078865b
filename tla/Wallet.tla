------------------------------- MODULE Wallet -------------------------------
(***************************************************************************)
(* Reading a KWallet: import/kwallet.rs over the session bus, and          *)
(* extract_kwallet in cli/import.rs.  kwalletd answers each call as it     *)
(* likes: with what it holds, with nothing, with an error, or not in time. *)
(* An action is one call, or one round of a loop.                          *)
(***************************************************************************)
EXTENDS Extraction

CONSTANTS MAX_ENTRIES         \* entries one wallet may list

ASSUME EntryLimit == MAX_ENTRIES \in Nat

VARIABLES wallet,     \* what kwalletd and its attribute file hold (fixed)
          sidecar,    \* the rows of the attribute file as parsed
          handle,     \* the wallet's handle, as kwalletd knows it
          grace,      \* whether the task that closes a late handle runs
          todo,       \* folderList: the folders still to list
          listings,   \* the folders listed, each with its entries
          live, unreadable, counted_empty,   \* sets of folders
          pending,    \* the pairs still to read
          resolved    \* the keys of the rows used

walletVars == <<wallet, sidecar, handle, grace, todo, listings, live, unreadable,
                counted_empty, pending, resolved>>

NoAttrs == [k \in {} |-> <<>>]

----------------------------------------------------------------------------
(* Entry types and the attribute file                                      *)

from_code(n) ==
    CASE n = 0 -> "unknown" [] n = 1 -> "password" [] n = 2 -> "stream" [] n = 3 -> "map"
      [] OTHER -> "other"
attribute_value(n) == <<100 + n>>
default_content_type(n) ==
    CASE n = 1 -> "text/plain" [] n = 3 -> "application/json"
      [] OTHER -> "application/octet-stream"

(* A field of a row is absent, good or bad.  A bad one is counted and      *)
(* otherwise absent.                                                       *)
Field(f, default) == IF f.kind = "good" THEN f.value ELSE default
parse_row(raw) ==
    [created  |-> Field(raw.created, 0), modified |-> Field(raw.modified, 0),
     ctype    |-> Field(raw.mime, ""), attrs |-> Field(raw.attributes, NoAttrs),
     malformed |-> Cardinality({f \in DOMAIN raw : raw[f].kind = "bad"})]
NoRow == [created |-> 0, modified |-> 0, ctype |-> "", attrs |-> NoAttrs, malformed |-> 0]

(* Of the values with one key the last counts; one that is not an object   *)
(* is skipped.                                                             *)
parse(rows) ==
    LET last(k) == rows[Max({i \in DOMAIN rows : rows[i].key = k})]
        keys    == {k \in {rows[i].key : i \in DOMAIN rows} : last(k).object}
    IN [k \in keys |-> parse_row(last(k).row)]

sidecar_key(f, e) == f \o e

(* The item an entry becomes.  The names are added as attributes unless    *)
(* the row has a schema, and never over one of the row's own.              *)
map_entry(f, e, code, secret, row) ==
    LET added == IF XDG_SCHEMA \in DOMAIN row.attrs THEN {}
                 ELSE SYNTHESISED_ATTRIBUTES \ DOMAIN row.attrs
        value(k) == CASE k = "kwallet:folder" -> f [] k = "kwallet:key" -> e
                      [] OTHER -> attribute_value(code)
    IN [prov |-> kwallet(f, e), label |-> e, secret |-> secret, inserted |-> added,
        attrs |-> [k \in DOMAIN row.attrs \union added |->
                      IF k \in added THEN value(k) ELSE row.attrs[k]],
        ctype |-> IF from_code(code) = "map" \/ row.ctype = "" THEN default_content_type(code)
                  ELSE row.ctype,
        created |-> row.created, modified |-> row.modified]

----------------------------------------------------------------------------
(* Opening                                                                 *)

WalletInit ==
    /\ sidecar = NoAttrs /\ handle = "none" /\ grace = FALSE
    /\ todo = <<>> /\ listings = <<>> /\ pending = <<>>
    /\ live = {} /\ unreadable = {} /\ counted_empty = {} /\ resolved = {}

(* The attribute file: no rows if there is none, an error if it is too     *)
(* large, cannot be read or is no JSON.                                    *)
load_with_limit == {[ok |-> TRUE, rows |-> parse(wallet.rows)], [ok |-> FALSE, rows |-> NoAttrs]}

(* An attribute file that cannot be read is as good as none.               *)
extract_kwallet ==
    /\ pc = "kwallet"
    /\ \E side \in load_with_limit :
          /\ sidecar' = side.rows
          /\ out' = Note(Nothing, ~side.ok, "sidecar unreadable")
    /\ pc' = "service"
    /\ UNCHANGED <<wallet, handle, grace, todo, listings, live, unreadable, counted_empty,
                   pending, resolved>>

(* The service, and the wallet's name among those it has.                  *)
service_is_running ==
    /\ pc = "service"
    /\ pc' \in IF wallet.known THEN {"is open", "failed"} ELSE {"failed"}
    /\ UNCHANGED <<out, sidecar, wallet, handle, grace, todo, listings, live, unreadable, counted_empty,
                   pending, resolved>>

(* isOpen, the display, the subscription and openAsync.  A reply to        *)
(* openAsync that comes too late leaves a request nobody waits for.        *)
open_wallet ==
    /\ pc = "is open"
    /\ \/ pc' = "failed" /\ UNCHANGED handle
       \/ /\ wallet.open \/ wallet.display
          /\ handle' = "asked"
          /\ pc' \in {"opening", "failed"}
    /\ UNCHANGED <<out, wallet, sidecar, grace, todo, listings, live, unreadable,
                   counted_empty, pending, resolved>>

(* kwalletd's signal, to whoever still waits for it.                       *)
walletAsyncOpened ==
    /\ handle = "asked"
    /\ \E granted \in BOOLEAN :
          /\ handle' = CASE ~granted -> "none" [] pc = "opening" -> "held"
                         [] grace -> "closed" [] OTHER -> "orphaned"
          /\ pc' = IF pc # "opening" THEN pc ELSE IF granted THEN "folders" ELSE "failed"
    /\ grace' = FALSE
    /\ UNCHANGED <<out, wallet, sidecar, todo, listings, live, unreadable, counted_empty,
                   pending, resolved>>

OpenTimesOut ==
    /\ pc = "opening"
    /\ grace' = TRUE
    /\ pc' = "failed"
    /\ UNCHANGED <<out, wallet, sidecar, handle, todo, listings, live, unreadable,
                   counted_empty, pending, resolved>>

----------------------------------------------------------------------------
(* The walk                                                                *)

(* The walk is over; whatever its result, the wallet is closed next.       *)
WalkFails == pc' = "close failed" /\ UNCHANGED <<listings, pending>>

folder_list ==
    /\ pc = "folders"
    /\ \/ WalkFails /\ UNCHANGED todo
       \/ pc' = "list" /\ todo' = wallet.folders /\ UNCHANGED <<listings, pending>>
    /\ UNCHANGED <<out, wallet, sidecar, handle, grace, live, unreadable, counted_empty,
                   resolved>>

At(f) == {i \in DOMAIN listings : listings[i].folder = f}
Listed(ls) == FlattenSeq([i \in DOMAIN ls |-> [j \in DOMAIN ls[i].entries |->
                  <<ls[i].folder, ls[i].entries[j]>>]])
Distinct(s) ==
    FoldLeft(LAMBDA acc, x : IF Contains(acc, x) THEN acc ELSE Append(acc, x), <<>>, s)

(* Variant: a repeated listing is one more listing.                        *)
ListTwice(f, entries) ==
    IF entries = <<>> THEN listings
    ELSE Append(listings, [folder |-> f, entries |-> Distinct(entries)])

(* The listings after one more: a folder listed before gains the entries   *)
(* it did not have.                                                        *)
Merge(f, entries) ==
    IF At(f) # {}
    THEN [i \in DOMAIN listings |-> IF i \in At(f)
            THEN [listings[i] EXCEPT !.entries = Distinct(@ \o entries)] ELSE listings[i]]
    ELSE IF entries = <<>> THEN listings
    ELSE Append(listings, [folder |-> f, entries |-> Distinct(entries)])

entry_list ==
    /\ pc = "list" /\ todo # <<>>
    /\ \E f \in {Head(todo)}, answer \in wallet.lists[Head(todo)] :
          LET after == Merge(f, answer)
          IN /\ live' = live \union {f}
             /\ unreadable' = unreadable \ {f}
             /\ counted_empty' = IF answer # <<>> THEN counted_empty \ {f}
                                 ELSE IF At(f) = {} THEN counted_empty \union {f}
                                 ELSE counted_empty
             /\ out' = Note(out, Len(Distinct(answer)) # Len(answer), "duplicate entries")
             /\ IF Len(Listed(after)) > MAX_ENTRIES
                THEN WalkFails /\ todo' = <<>>
                ELSE /\ todo' = Tail(todo)
                     /\ listings' = after
                     /\ UNCHANGED <<pc, pending>>
    /\ UNCHANGED <<wallet, sidecar, handle, grace, resolved>>

ListFails ==
    /\ pc = "list" /\ todo # <<>>
    /\ \E f \in {Head(todo)} :
          IF f \in live
          THEN out' = Note(out, TRUE, "repeat unreadable") /\ UNCHANGED unreadable
          ELSE out' = Note(out, TRUE, "folder unreadable") /\ unreadable' = unreadable \union {f}
    /\ todo' = Tail(todo)
    /\ UNCHANGED <<pc, wallet, sidecar, handle, grace, listings, live, counted_empty, pending,
                   resolved>>

AllListed ==
    /\ pc = "list" /\ todo = <<>>
    /\ pc' = "read"
    /\ pending' = Listed(listings)
    /\ UNCHANGED <<out, wallet, sidecar, handle, grace, todo, listings, live, unreadable,
                   counted_empty, resolved>>

claims(key) ==
    Cardinality({p \in Range(Listed(listings)) : sidecar_key(p[1], p[2]) = key})

(* Variant: the row goes to every entry that composes its key.             *)
SharedRow(f, e) == sidecar_key(f, e) \in DOMAIN sidecar

has_row(f, e) == sidecar_key(f, e) \in DOMAIN sidecar /\ claims(sidecar_key(f, e)) = 1

(* Everything reading one entry can come to.  A typed call that fails or   *)
(* answers nothing is followed by the untyped one.                         *)
Ok(secret) == [kind |-> "ok", secret |-> secret]
Skipped == [kind |-> "undecodable"]
read_secret(st) ==
    LET typed == from_code(st.code)
    IN {Skipped} \union
       CASE typed = "password" -> {Ok(s) : s \in {st.text} \ {<<>>}}
                                     \union {decode_qstring_password(st.raw)}
         [] typed = "map" -> {read_map_secret(st.raw)}
         [] OTHER -> {Ok(s) : s \in {st.raw} \ {<<>>}}

(* One entry of the second pass: its type, its secret, the caps.           *)
ReadNext ==
    /\ pc = "read" /\ pending # <<>>
    /\ \E f \in {Head(pending)[1]}, e \in {Head(pending)[2]} :
        \E st \in {wallet.stored[<<f, e>>]}, row \in {IF has_row(f, e)
                       THEN sidecar[sidecar_key(f, e)] ELSE NoRow} :
        \E r \in IF from_code(st.code) = "unknown" THEN {Skipped} ELSE read_secret(st) :
          LET noted == Note(out, ~has_row(f, e), "no sidecar row")
              item  == map_entry(f, e, st.code, r.secret, row)
              total == out.bytes + Len(r.secret)
          IN /\ resolved' = IF has_row(f, e) THEN resolved \union {sidecar_key(f, e)} ELSE resolved
             /\ CASE r.kind = "undecodable" ->
                       out' = Skip(noted, kwallet(f, e)) /\ UNCHANGED pc
                  [] r.kind = "too large" ->
                       out' = Refuse(noted, kwallet(f, e)) /\ UNCHANGED pc
                  [] r.kind = "ok" /\ total > MAX_SECRET_BYTES ->
                       out' = noted /\ pc' = "close failed"
                  [] OTHER ->
                       LET read == [Note(noted, row.malformed > 0, "malformed fields")
                                       EXCEPT !.bytes = total]
                       IN /\ out' = IF check_caps(item) = "none" THEN Keep(read, item)
                                    ELSE Refuse(read, item.prov)
                          /\ UNCHANGED pc
    /\ pending' = Tail(pending)
    /\ UNCHANGED <<wallet, sidecar, handle, grace, todo, listings, live, unreadable,
                   counted_empty>>

(* The rows no entry used go into the report with everything else.         *)
Extracted == [out EXCEPT !.unresolved = DOMAIN sidecar \ resolved]

AllRead ==
    /\ pc = "read" /\ pending = <<>>
    /\ out' = Extracted
    /\ pc' = "close"
    /\ UNCHANGED walletVars

(* What becomes of the handle: closing is tried whatever the walk came to. *)
ClosedTo(to) == to

close ==
    /\ pc \in {"close", "close failed"}
    /\ \E to \in {"closed", "stuck"} :
          /\ handle' = ClosedTo(to)
          /\ out' = Note(out, to = "stuck", "not closed")
    /\ pc' = IF pc = "close" THEN "extracted" ELSE "failed"
    /\ sidecar' = NoAttrs /\ todo' = <<>> /\ listings' = <<>> /\ pending' = <<>>
    /\ live' = {} /\ unreadable' = {} /\ counted_empty' = {} /\ resolved' = {}
    /\ UNCHANGED <<wallet, grace>>

WalletNext ==
    \/ extract_kwallet \/ service_is_running \/ open_wallet \/ walletAsyncOpened \/ OpenTimesOut
    \/ folder_list \/ entry_list \/ ListFails \/ AllListed \/ ReadNext \/ AllRead \/ close
=============================================================================
