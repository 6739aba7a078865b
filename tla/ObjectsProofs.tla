--------------------------- MODULE ObjectsProofs ---------------------------
(***************************************************************************)
(* Proofs about module Objects, for any number of clients, calls, sessions *)
(* and items and any sizes.                                                *)
(***************************************************************************)
EXTENDS Objects, FiniteSetTheorems, TLAPS

-----------------------------------------------------------------------------
(* Sizes *)

(* Padding never takes a secret that fits over the bound on its ciphertext. *)
LEMMA CiphertextFits ==
    ASSUME NEW n \in Nat, n <= MaxSecret, NEW dh \in BOOLEAN
    PROVE  Ciphertext(dh, n) <= MAX_ITEM_CIPHERTEXT
<1>1. Block \in Nat \ {0} /\ MaxSecret \in Nat
  BY ObjectsAssumption, Zenon
<1>2. n % Block \in 0..(Block - 1)
  BY <1>1, SMTT(30)
<1> QED BY <1>1, <1>2, SMTT(30) DEF Ciphertext, MAX_ITEM_CIPHERTEXT

-----------------------------------------------------------------------------
(* What a step does to its call *)

(* Only the call in slot k changes, and its request stays. *)
Only(k) ==
    /\ call' \in [Slots -> Call]
    /\ \A j \in Slots : j # k => call'[j] = call[j]
    /\ call'[k].kind = call[k].kind /\ call'[k].items = call[k].items

LEMMA Updated ==
    ASSUME NEW k \in Slots, NEW r \in Call, call \in [Slots -> Call],
           call' = [call EXCEPT ![k] = r], r.kind = call[k].kind, r.items = call[k].items
    PROVE  Only(k) /\ call'[k] = r
BY Zenon DEF Only

LEMMA EndsIs ==
    ASSUME NEW k \in Slots, call \in [Slots -> Call], NEW e \in Errors, Ends(k, e)
    PROVE  /\ Only(k)
           /\ call'[k].pc = "done" /\ call'[k].error = e /\ call'[k].todo = {}
           /\ call'[k].held = call[k].held /\ call'[k].fits = call[k].fits
           /\ call'[k].removed = call[k].removed
<1> DEFINE r == [call[k] EXCEPT !.pc = "done", !.ses = 0, !.todo = {}, !.error = e]
<1>1. call' = [call EXCEPT ![k] = r]
  BY Zenon DEF Ends
<1>2. 0 \in 0..MaxOpened
  BY ObjectsAssumption, SMTT(30)
<1>3. call[k] \in Call
  BY Zenon
<1>4. r \in Call
  BY <1>2, <1>3, Zenon DEF Call
<1>5. /\ r.kind = call[k].kind /\ r.items = call[k].items /\ r.pc = "done" /\ r.error = e
      /\ r.todo = {}
      /\ r.held = call[k].held /\ r.fits = call[k].fits /\ r.removed = call[k].removed
  BY <1>3, Zenon DEF Call
<1> HIDE DEF r
<1> QED BY <1>1, <1>4, <1>5, Updated, Zenon

LEMMA GotoIs ==
    ASSUME NEW k \in Slots, call \in [Slots -> Call],
           NEW l \in {"keys", "vault", "touch", "export", "done"}, Goto(k, l)
    PROVE  /\ Only(k)
           /\ call'[k].pc = l /\ call'[k].error = call[k].error /\ call'[k].todo = call[k].todo
           /\ call'[k].held = call[k].held /\ call'[k].fits = call[k].fits
           /\ call'[k].removed = call[k].removed
<1> DEFINE r == [call[k] EXCEPT !.pc = l]
<1>1. call' = [call EXCEPT ![k] = r]
  BY Zenon DEF Goto
<1>2. call[k] \in Call
  BY Zenon
<1>3. r \in Call
  BY <1>2, Zenon DEF Call
<1>4. /\ r.kind = call[k].kind /\ r.items = call[k].items /\ r.pc = l /\ r.error = call[k].error
      /\ r.todo = call[k].todo
      /\ r.held = call[k].held /\ r.fits = call[k].fits /\ r.removed = call[k].removed
  BY <1>2, Zenon DEF Call
<1> HIDE DEF r
<1> QED BY <1>1, <1>3, <1>4, Updated, Zenon

(* A step that leaves only part of the work to a call. *)
LEMMA TodoIs ==
    ASSUME NEW k \in Slots, call \in [Slots -> Call], NEW c,
           call' = [call EXCEPT ![k].todo = @ \ {c}]
    PROVE  /\ Only(k)
           /\ call'[k].pc = call[k].pc /\ call'[k].error = call[k].error
           /\ call'[k].held = call[k].held /\ call'[k].fits = call[k].fits
           /\ call'[k].removed = call[k].removed
<1> DEFINE t == call[k].todo \ {c}
           r == [call[k] EXCEPT !.todo = t]
<1>1. call' = [call EXCEPT ![k] = r]
  BY Zenon
<1>2. call[k] \in Call
  BY Zenon
<1>3. t \in SUBSET (Cols \cup ItemIds)
  BY <1>2, Zenon DEF Call
<1> HIDE DEF t
<1>4. r \in Call
  BY <1>2, <1>3, Zenon DEF Call
<1>5. /\ r.kind = call[k].kind /\ r.items = call[k].items /\ r.pc = call[k].pc
      /\ r.error = call[k].error
      /\ r.held = call[k].held /\ r.fits = call[k].fits /\ r.removed = call[k].removed
  BY <1>2, Zenon DEF Call
<1> HIDE DEF r
<1> QED BY <1>1, <1>4, <1>5, Updated, Zenon

-----------------------------------------------------------------------------
(* The invariant *)

Calls == \A k \in Slots : CallInv(k)
Inv == TypeOK /\ Calls /\ ItemInv /\ SessionInv

(* What holds of one call is kept by a step of another. *)
LEMMA CallsKept ==
    ASSUME Calls, NEW k \in Slots, Only(k), CallInv(k)'
    PROVE  Calls'
<1> SUFFICES ASSUME NEW j \in Slots, j # k PROVE CallInv(j)'
  BY Zenon DEF Calls
<1>1. call'[j] = call[j] /\ CallInv(j)
  BY Zenon DEF Only, Calls
<1> QED BY <1>1, Zenon DEF CallInv, Names

(* A call that is not at work on an object keeps what is said of objects. *)
LEMMA ItemsKept ==
    ASSUME ItemInv, NEW k \in Slots, Only(k), UNCHANGED <<items, used, exported, doomed>>,
           call[k].kind \in Deletes => call'[k].pc # "touch",
           call[k].kind = "CreateItem" /\ call[k].pc \in {"touch", "export"} =>
               \/ call'[k].pc \in {"touch", "export"} /\ call'[k].todo = call[k].todo
               \/ call[k].todo = {}
    PROVE  ItemInv'
<1>1. items' \subseteq used' /\ doomed' \subseteq used' \ items'
  BY Zenon DEF ItemInv
<1>2. ASSUME NEW j \in Slots, call'[j].kind \in Deletes, call'[j].pc = "touch"
      PROVE  Names(j)' \subseteq used' \ items'
  <2>1. j # k
    BY <1>2, Zenon DEF Only
  <2>2. call'[j] = call[j] /\ Names(j)' = Names(j)
    BY <2>1, Zenon DEF Only, Names
  <2> QED BY <1>2, <2>2, Zenon DEF ItemInv
<1>3. ASSUME NEW i \in items, i \notin exported
      PROVE  \E j \in Slots : /\ call'[j].kind = "CreateItem" /\ i \in call'[j].todo
                              /\ call'[j].pc \in {"touch", "export"}
  <2>1. PICK j \in Slots : /\ call[j].kind = "CreateItem" /\ i \in call[j].todo
                            /\ call[j].pc \in {"touch", "export"}
    BY <1>3, Zenon DEF ItemInv
  <2>2. CASE j = k
    BY <2>1, <2>2, Zenon DEF Only
  <2>3. CASE j # k
    BY <2>1, <2>3, Zenon DEF Only
  <2> QED BY <2>2, <2>3, Zenon
<1> QED BY <1>1, <1>2, <1>3, Zenon DEF ItemInv

LEMMA SessionsKept ==
    ASSUME SessionInv, NEW k \in Slots, Only(k), UNCHANGED sess,
           ~Is(k, "OpenSession", "export"), ~Is(k, "OpenSession", "export")'
    PROVE  SessionInv'
<1>1. \A j \in Slots : j # k => call'[j] = call[j]
  BY Zenon DEF Only
<1>2. UNCHANGED <<sessions, opened, objects, dropped>>
  BY Zenon DEF sess
<1>3. ASSUME NEW j \in Slots PROVE Is(j, "OpenSession", "export")' <=> Is(j, "OpenSession", "export")
  BY <1>1, Zenon DEF Is
<1>4. ASSUME NEW j \in Slots, Is(j, "OpenSession", "export") PROVE call'[j] = call[j]
  BY <1>1, <1>4, Zenon
<1> QED BY <1>2, <1>3, <1>4, Zenon DEF SessionInv

(* A step that only moves one call on. *)
LEMMA Plain ==
    ASSUME Inv, NEW k \in Slots, Only(k), CallInv(k)',
           UNCHANGED <<busy, sess, items, used, exported, doomed, idle>>,
           open' \subseteq Cols, active' \in BOOLEAN,
           ~Is(k, "OpenSession", "export"), ~Is(k, "OpenSession", "export")',
           call[k].kind \in Deletes => call'[k].pc # "touch",
           call[k].kind = "CreateItem" /\ call[k].pc \in {"touch", "export"} =>
               \/ call'[k].pc \in {"touch", "export"} /\ call'[k].todo = call[k].todo
               \/ call[k].todo = {}
    PROVE  Inv'
<1>1. Calls'
  BY CallsKept, Zenon DEF Inv
<1>2. ItemInv'
  BY ItemsKept, Zenon DEF Inv
<1>3. SessionInv'
  BY SessionsKept, Zenon DEF Inv
<1>4. TypeOK'
  BY Zenon DEF Inv, TypeOK, Only, busy, sess
<1> QED BY <1>1, <1>2, <1>3, <1>4, Zenon DEF Inv

-----------------------------------------------------------------------------
(* Sessions *)

(* next_session has not been used. *)
LEMMA NextSession ==
    ASSUME opened \in Sessions, opened < MaxOpened
    PROVE  /\ opened + 1 \in Sessions /\ opened + 1 \notin 1..opened
           /\ 1..opened \subseteq 1..(opened + 1) /\ opened + 1 \in 1..(opened + 1)
           /\ opened + 1 \in 0..MaxOpened
BY ObjectsAssumption, SMTT(30) DEF Sessions

LEMMA OpenPlain ==
    ASSUME Inv, NEW k \in Slots, OpenCheck(k) \/ OpenRefused(k)
    PROVE  Inv'
<1>1. /\ call[k].kind = "OpenSession" /\ call[k].pc # "export" /\ call[k].pc # "done"
      /\ UNCHANGED <<busy, sess, items, used, exported, doomed, idle, open, active>>
  BY Zenon DEF OpenCheck, OpenRefused, Arrives, Is, data
<1>2. call \in [Slots -> Call] /\ CallInv(k) /\ open \subseteq Cols /\ active \in BOOLEAN
  BY Zenon DEF Inv, TypeOK, Calls
<1>3. Goto(k, "keys") \/ Ends(k, "quota") \/ Ends(k, "algorithm")
  BY Zenon DEF OpenCheck, OpenRefused, Fail
<1>4. /\ Only(k) /\ call'[k].pc \in {"keys", "done"}
      /\ call'[k].pc = "keys" => call'[k].error = call[k].error
  BY <1>2, <1>3, GotoIs, EndsIs, Zenon DEF Errors
<1>5. call'[k].kind = "OpenSession"
  BY <1>1, <1>4, Zenon DEF Only
<1>6. CallInv(k)'
  BY <1>1, <1>2, <1>4, <1>5, Zenon DEF CallInv, Deletes, Writes
<1> QED BY <1>1, <1>2, <1>4, <1>5, <1>6, Plain, Zenon DEF Is, Deletes

LEMMA OpenInsertStep == ASSUME Inv, NEW k \in Slots, OpenInsert(k) PROVE Inv'
<1>1. /\ call[k].kind = "OpenSession" /\ call[k].pc = "keys"
      /\ UNCHANGED <<busy, objects, dropped, items, used, exported, doomed, idle, open, active>>
  BY Zenon DEF OpenInsert, Is, data
<1>2. call \in [Slots -> Call] /\ CallInv(k) /\ call[k].error = "none" /\ call[k] \in Call
  BY <1>1, Zenon DEF Inv, TypeOK, Calls, CallInv
<1>3. CASE Ends(k, "quota") /\ UNCHANGED <<opened, sessions>>
  <2>1. Only(k) /\ call'[k].pc = "done"
    BY <1>2, <1>3, EndsIs, Zenon DEF Errors
  <2>2. call'[k].kind = "OpenSession"
    BY <1>1, <2>1, Zenon DEF Only
  <2>3. CallInv(k)'
    BY <2>1, <2>2, Zenon DEF CallInv, Deletes, Writes
  <2>4. UNCHANGED sess
    BY <1>1, <1>3, Zenon DEF sess
  <2>5. open' \subseteq Cols /\ active' \in BOOLEAN
    BY <1>1, Zenon DEF Inv, TypeOK
  <2> QED BY <1>1, <2>1, <2>2, <2>3, <2>4, <2>5, Plain, Zenon DEF Is, Deletes
<1>4. CASE /\ opened < MaxOpened /\ opened' = opened + 1
           /\ sessions' = [sessions EXCEPT ![opened'] = call[k].who]
           /\ call' = [call EXCEPT ![k].pc = "export", ![k].ses = opened']
  <2> DEFINE n == opened + 1
             r == [call[k] EXCEPT !.pc = "export", !.ses = n]
  <2>1. /\ n \in Sessions /\ n \notin 1..opened /\ 1..opened \subseteq 1..n /\ n \in 1..n
        /\ n \in 0..MaxOpened
    BY <1>4, NextSession, Zenon DEF Inv, TypeOK
  <2>2. call' = [call EXCEPT ![k] = r] /\ opened' = n /\ sessions' = [sessions EXCEPT ![n] = call[k].who]
    BY <1>4, Zenon
  <2> HIDE DEF n
  <2>3. /\ r \in Call /\ r.kind = "OpenSession" /\ r.items = call[k].items /\ r.pc = "export"
        /\ r.ses = n /\ r.error = "none" /\ call[k].who \in Clients
    BY <1>1, <1>2, <2>1, Zenon DEF Call
  <2> HIDE DEF r
  <2>4. Only(k) /\ call'[k] = r
    BY <1>1, <1>2, <2>2, <2>3, Updated, Zenon
  <2>5. CallInv(k)'
    BY <2>3, <2>4, Zenon DEF CallInv, Deletes, Writes
  <2>6. Calls' /\ ItemInv'
    <3>1. UNCHANGED <<items, used, exported, doomed>>
      BY <1>1, Zenon
    <3> QED BY <1>1, <2>4, <2>5, <3>1, CallsKept, ItemsKept, Zenon DEF Inv, Deletes
  <2>7. /\ sessions' \in [Sessions -> Clients \cup {None}]
        /\ \A s \in Sessions : s # n => sessions'[s] = sessions[s]
    BY <2>1, <2>2, <2>3, Zenon DEF Inv, TypeOK
  <2>8. TypeOK'
    BY <1>1, <2>1, <2>2, <2>4, <2>7, Zenon DEF Inv, TypeOK, Only, busy
  <2>9. SessionInv'
    <3>1. dropped' \subseteq 1..opened' /\ n \notin dropped'
      BY <1>1, <2>1, <2>2, Zenon DEF Inv, SessionInv
    <3>2. ASSUME NEW j \in Slots, Is(j, "OpenSession", "export")' PROVE call'[j].ses \in 1..opened'
      <4>1. CASE j = k
        BY <2>1, <2>2, <2>3, <2>4, <4>1, Zenon
      <4>2. CASE j # k
        <5>1. call'[j] = call[j]
          BY <2>4, <4>2, Zenon DEF Only
        <5> QED BY <2>1, <2>2, <3>2, <5>1, Zenon DEF Inv, SessionInv, Is
      <4> QED BY <4>1, <4>2, Zenon
    <3>3. ASSUME NEW s \in Sessions, sessions'[s] # None
          PROVE  /\ s \in 1..opened' /\ s \notin dropped'
                 /\ s \in objects' \/ \E j \in Slots : Is(j, "OpenSession", "export")' /\ call'[j].ses = s
      <4>1. CASE s = n
        BY <2>1, <2>2, <2>3, <2>4, <3>1, <4>1, Zenon DEF Is
      <4>2. CASE s # n
        <5>1. sessions[s] # None
          BY <2>7, <3>3, <4>2, Zenon
        <5>2. /\ s \in 1..opened /\ s \notin dropped
              /\ s \in objects \/ \E j \in Slots : Is(j, "OpenSession", "export") /\ call[j].ses = s
          BY <5>1, Zenon DEF Inv, SessionInv
        <5>3. ASSUME NEW j \in Slots, Is(j, "OpenSession", "export")
              PROVE  Is(j, "OpenSession", "export")' /\ call'[j] = call[j]
          BY <1>1, <2>4, <5>3, Zenon DEF Is, Only
        <5> QED BY <1>1, <2>1, <2>2, <5>2, <5>3, Zenon
      <4> QED BY <4>1, <4>2, Zenon
    <3> QED BY <3>1, <3>2, <3>3, Zenon DEF SessionInv
  <2> QED BY <2>6, <2>8, <2>9, Zenon DEF Inv
<1> QED BY <1>3, <1>4, Zenon DEF OpenInsert, Fail

LEMMA OpenExportStep == ASSUME Inv, NEW k \in Slots, OpenExport(k) PROVE Inv'
<1> DEFINE n == call[k].ses
<1>1. /\ call[k].kind = "OpenSession" /\ call[k].pc = "export"
      /\ UNCHANGED <<busy, opened, dropped, items, used, exported, doomed, idle, open, active>>
  BY Zenon DEF OpenExport, Is, data
<1>2. call \in [Slots -> Call] /\ CallInv(k) /\ n \in 1..opened /\ opened \in Sessions
  BY <1>1, Zenon DEF Inv, TypeOK, Calls, SessionInv, Is
<1>3. n \in Sessions
  BY <1>2, ObjectsAssumption, SMTT(30) DEF Sessions
<1>4. \/ objects' = objects \cup {n} /\ sessions' = sessions
      \/ sessions' = [sessions EXCEPT ![n] = None] /\ objects' = objects
  BY Zenon DEF OpenExport
<1>5. Ends(k, "none") \/ Ends(k, "export")
  BY Zenon DEF OpenExport, Done, Fail
<1> HIDE DEF n
<1>6. Only(k) /\ call'[k].pc = "done"
  BY <1>2, <1>5, EndsIs, Zenon DEF Errors
<1>7. call'[k].kind = "OpenSession"
  BY <1>1, <1>6, Zenon DEF Only
<1>8. CallInv(k)'
  BY <1>6, <1>7, Zenon DEF CallInv, Deletes, Writes
<1>9. Calls' /\ ItemInv'
  <2>1. UNCHANGED <<items, used, exported, doomed>>
    BY <1>1, Zenon
  <2> QED BY <1>1, <1>6, <1>8, <2>1, CallsKept, ItemsKept, Zenon DEF Inv, Deletes
<1>10. /\ sessions' \in [Sessions -> Clients \cup {None}] /\ objects \subseteq objects'
       /\ objects' \subseteq Sessions
       /\ \A s \in Sessions : sessions'[s] # None =>
             sessions[s] # None /\ (s = n => n \in objects')
  BY <1>3, <1>4, Zenon DEF Inv, TypeOK
<1>11. TypeOK'
  BY <1>1, <1>6, <1>10, Zenon DEF Inv, TypeOK, Only, busy
<1>12. SessionInv'
  <2>1. \A j \in Slots : Is(j, "OpenSession", "export")' => call'[j] = call[j] /\ Is(j, "OpenSession", "export")
    BY <1>6, Zenon DEF Is, Only
  <2>2. ASSUME NEW s \in Sessions, sessions'[s] # None
        PROVE  /\ s \in 1..opened' /\ s \notin dropped'
               /\ s \in objects' \/ \E j \in Slots : Is(j, "OpenSession", "export")' /\ call'[j].ses = s
    <3>1. /\ s \in 1..opened /\ s \notin dropped
          /\ s \in objects \/ \E j \in Slots : Is(j, "OpenSession", "export") /\ call[j].ses = s
      BY <1>10, <2>2, Zenon DEF Inv, SessionInv
    <3>2. ASSUME NEW j \in Slots, Is(j, "OpenSession", "export"), call[j].ses = s, s # n
          PROVE  Is(j, "OpenSession", "export")' /\ call'[j].ses = s
      <4>1. j # k
        BY <3>2, Zenon DEF n
      <4> QED BY <1>6, <3>2, <4>1, Zenon DEF Is, Only
    <3> QED BY <1>1, <1>10, <2>2, <3>1, <3>2, Zenon
  <2> QED BY <1>1, <2>1, <2>2, Zenon DEF Inv, SessionInv
<1> QED BY <1>9, <1>11, <1>12, Zenon DEF Inv

(* Sessions that go, one at a time or with their client. *)
LEMMA SessionsGo ==
    ASSUME Inv, NEW S \in SUBSET Sessions, \A s \in S : sessions[s] # None,
           sessions' = [s \in Sessions |-> IF s \in S THEN None ELSE sessions[s]],
           dropped' = dropped \cup S, UNCHANGED <<opened, objects>>,
           \A j \in Slots : call'[j] = call[j] \/ (~Is(j, "OpenSession", "export") /\ ~Is(j, "OpenSession", "export")')
    PROVE  /\ SessionInv' /\ sessions' \in [Sessions -> Clients \cup {None}]
           /\ dropped' \subseteq Sessions
<1>1. \A j \in Slots : /\ Is(j, "OpenSession", "export")' <=> Is(j, "OpenSession", "export")
                       /\ Is(j, "OpenSession", "export") => call'[j] = call[j]
  BY Zenon DEF Is
<1>2. \A s \in S : s \in Sessions /\ s \in 1..opened
  <2>1. ASSUME NEW s \in S PROVE s \in Sessions /\ sessions[s] # None
    BY <2>1, Zenon
  <2> QED BY <2>1, Zenon DEF Inv, SessionInv
<1>3. /\ sessions' \in [Sessions -> Clients \cup {None}] /\ dropped' \subseteq Sessions
      /\ \A s \in Sessions : sessions'[s] # None => sessions[s] # None /\ s \notin S
  BY Zenon DEF Inv, TypeOK
<1>4. dropped' \subseteq 1..opened'
  BY <1>2, Zenon DEF Inv, SessionInv
<1>5. \A j \in Slots : Is(j, "OpenSession", "export")' => call'[j].ses \in 1..opened'
  BY <1>1, Zenon DEF Inv, SessionInv
<1>6. ASSUME NEW s \in Sessions, sessions'[s] # None
      PROVE  /\ s \in 1..opened' /\ s \notin dropped'
             /\ s \in objects' \/ \E j \in Slots : Is(j, "OpenSession", "export")' /\ call'[j].ses = s
  <2>1. /\ s \in 1..opened /\ s \notin dropped /\ s \notin S
        /\ s \in objects \/ \E j \in Slots : Is(j, "OpenSession", "export") /\ call[j].ses = s
    BY <1>3, <1>6, Zenon DEF Inv, SessionInv
  <2> QED BY <1>1, <2>1, Zenon
<1>7. SessionInv'
  BY <1>4, <1>5, <1>6, Zenon DEF SessionInv
<1> QED BY <1>3, <1>7, Zenon

LEMMA CloseStep == ASSUME Inv, NEW k \in Slots, Close(k) PROVE Inv'
<1>1. /\ call[k].kind = "Close" /\ call[k].pc = "start"
      /\ UNCHANGED <<busy, opened, objects, items, used, exported, doomed, idle, open, active>>
  BY Zenon DEF Close, Arrives, Is, data
<1>2. call \in [Slots -> Call] /\ CallInv(k) /\ call[k] \in Call
  BY Zenon DEF Inv, TypeOK, Calls
<1>3. Ends(k, "none") \/ Ends(k, "NoSession")
  BY Zenon DEF Close, Done, Fail
<1>4. Only(k) /\ call'[k].pc = "done"
  BY <1>2, <1>3, EndsIs, Zenon DEF Errors
<1>5. call'[k].kind = "Close"
  BY <1>1, <1>4, Zenon DEF Only
<1>6. CallInv(k)'
  BY <1>4, <1>5, Zenon DEF CallInv, Deletes, Writes
<1>7. Calls' /\ ItemInv'
  <2>1. UNCHANGED <<items, used, exported, doomed>>
    BY <1>1, Zenon
  <2> QED BY <1>1, <1>4, <1>6, <2>1, CallsKept, ItemsKept, Zenon DEF Inv, Deletes
<1>8. CASE UNCHANGED <<sessions, dropped>>
  <2>1. UNCHANGED sess
    BY <1>1, <1>8, Zenon DEF sess
  <2>2. SessionInv'
    BY <1>1, <1>4, <1>5, <2>1, SessionsKept, Zenon DEF Inv, Is
  <2>3. TypeOK'
    BY <1>1, <1>4, <1>8, Zenon DEF Inv, TypeOK, Only, busy
  <2> QED BY <1>7, <2>2, <2>3, Zenon DEF Inv
<1>9. ASSUME NEW s \in objects, cipher(s, call[k].who), sessions' = [sessions EXCEPT ![s] = None],
             dropped' = dropped \cup {s}
      PROVE  Inv'
  <2> DEFINE S == {s}
  <2>1. sessions[s] # None /\ s \in Sessions
    BY <1>2, <1>9, ObjectsAssumption, Zenon DEF cipher, Call, Inv, TypeOK
  <2>2. sessions' = [t \in Sessions |-> IF t \in S THEN None ELSE sessions[t]]
    BY <1>9, <2>1, Zenon DEF Inv, TypeOK
  <2>3. S \in SUBSET Sessions /\ (\A t \in S : sessions[t] # None) /\ dropped' = dropped \cup S
    BY <1>9, <2>1, Zenon
  <2>4. \A j \in Slots : call'[j] = call[j]
            \/ (~Is(j, "OpenSession", "export") /\ ~Is(j, "OpenSession", "export")')
    BY <1>1, <1>4, <1>5, Zenon DEF Only, Is
  <2> HIDE DEF S
  <2>5. /\ SessionInv' /\ sessions' \in [Sessions -> Clients \cup {None}]
        /\ dropped' \subseteq Sessions
    BY <1>1, <2>2, <2>3, <2>4, SessionsGo, Zenon
  <2>6. TypeOK'
    BY <1>1, <1>4, <2>5, Zenon DEF Inv, TypeOK, Only, busy
  <2> QED BY <1>7, <2>5, <2>6, Zenon DEF Inv
<1> QED BY <1>8, <1>9, Zenon DEF Close

LEMMA WatchStep == ASSUME Inv, NEW c \in Clients, Watch(c) PROVE Inv'
<1> DEFINE S == {s \in Sessions : sessions[s] = c}
<1>1. /\ UNCHANGED <<here, opened, objects, open, items, used, exported, doomed, active, idle, call>>
      /\ departed' = departed \ {c} /\ dropped' = dropped \cup S
  BY Zenon DEF Watch, data
<1>2. sessions' = [s \in Sessions |-> IF s \in S THEN None ELSE sessions[s]]
  BY Zenon DEF Watch
<1>3. S \in SUBSET Sessions /\ \A s \in S : sessions[s] # None
  BY ObjectsAssumption, Zenon
<1> HIDE DEF S
<1>4. /\ SessionInv' /\ sessions' \in [Sessions -> Clients \cup {None}]
      /\ dropped' \subseteq Sessions
  BY <1>1, <1>2, <1>3, SessionsGo, Zenon
<1>5. TypeOK'
  BY <1>1, <1>4, Zenon DEF Inv, TypeOK
<1>6. Calls'
  BY <1>1, Zenon DEF Inv, Calls, CallInv, Names
<1>7. ItemInv'
  BY <1>1, Zenon DEF Inv, ItemInv, Names
<1> QED BY <1>4, <1>5, <1>6, <1>7, Zenon DEF Inv

LEMMA UnexportSessionStep == ASSUME Inv, NEW s \in Sessions, UnexportSession(s) PROVE Inv'
<1>1. /\ UNCHANGED <<here, departed, sessions, opened, open, items, used, exported, doomed, active,
                     idle, call>>
      /\ s \in dropped /\ dropped' = dropped \ {s} /\ objects' = objects \ {s}
  BY Zenon DEF UnexportSession, data, busy
<1>2. TypeOK'
  BY <1>1, Zenon DEF Inv, TypeOK
<1>3. Calls'
  BY <1>1, Zenon DEF Inv, Calls, CallInv, Names
<1>4. ItemInv'
  BY <1>1, Zenon DEF Inv, ItemInv, Names
<1>5. SessionInv'
  BY <1>1, Zenon DEF Inv, SessionInv, Is
<1> QED BY <1>2, <1>3, <1>4, <1>5, Zenon DEF Inv

-----------------------------------------------------------------------------
(* Reading and writing secrets *)

LEMMA LookToReadStep == ASSUME Inv, NEW k \in Slots, LookToRead(k) PROVE Inv'
<1>1. /\ call[k].kind \in Reads /\ call[k].pc = "start"
      /\ UNCHANGED <<busy, sess, open, items, used, exported, doomed, idle>>
  BY Zenon DEF LookToRead, Arrives, Is, data
<1>2. /\ call \in [Slots -> Call] /\ CallInv(k) /\ call[k] \in Call /\ active \in BOOLEAN
      /\ open \subseteq Cols /\ call[k].error = "none"
  BY <1>1, Zenon DEF Inv, TypeOK, Calls, CallInv
<1>3. CASE Ends(k, "NoSession") /\ UNCHANGED active
  <2>1. Only(k) /\ call'[k].pc = "done"
    BY <1>2, <1>3, EndsIs, Zenon DEF Errors
  <2>2. call'[k].kind \in Reads
    BY <1>1, <2>1, Zenon DEF Only
  <2>3. CallInv(k)'
    BY <2>1, <2>2, Zenon DEF CallInv, Deletes, Writes, Reads
  <2> QED BY <1>1, <1>2, <1>3, <2>1, <2>2, <2>3, Plain, Zenon DEF Is, Deletes, Reads
<1>4. CASE /\ call' = [call EXCEPT ![k].pc = "vault", ![k].held = TRUE,
                                    ![k].todo = {ColOf[i] : i \in Names(k)}]
           /\ active' = (active \/ call[k].kind = "GetSecrets")
  <2> DEFINE t == {ColOf[i] : i \in Names(k)}
             r == [call[k] EXCEPT !.pc = "vault", !.held = TRUE, !.todo = t]
  <2>1. call' = [call EXCEPT ![k] = r]
    BY <1>4, Zenon
  <2>2. t \in SUBSET (Cols \cup ItemIds)
    <3>1. \A i \in Names(k) : i \in ItemIds
      BY <1>2, Zenon DEF Call, Names
    <3>2. \A i \in ItemIds : ColOf[i] \in Cols
      BY ObjectsAssumption, Zenon
    <3> QED BY <3>1, <3>2, Zenon
  <2> HIDE DEF t
  <2>3. /\ r \in Call /\ r.kind = call[k].kind /\ r.items = call[k].items /\ r.pc = "vault"
        /\ r.held = TRUE /\ r.error = "none"
    BY <1>2, <2>2, Zenon DEF Call
  <2> HIDE DEF r
  <2>4. Only(k) /\ call'[k] = r
    BY <1>2, <2>1, <2>3, Updated, Zenon
  <2>5. CallInv(k)'
    BY <1>1, <2>3, <2>4, Zenon DEF CallInv, Deletes, Writes, Reads
  <2>6. active' \in BOOLEAN
    BY <1>4, Zenon
  <2> QED BY <1>1, <1>2, <2>3, <2>4, <2>5, <2>6, Plain, Zenon DEF Is, Deletes, Reads
<1> QED BY <1>3, <1>4, Zenon DEF LookToRead, Fail

LEMMA LookToWriteStep == ASSUME Inv, NEW k \in Slots, LookToWrite(k) PROVE Inv'
<1>1. /\ call[k].kind \in Writes /\ call[k].pc = "start"
      /\ UNCHANGED <<busy, sess, open, items, used, exported, doomed, idle, active>>
  BY Zenon DEF LookToWrite, Arrives, Is, data
<1>2. /\ call \in [Slots -> Call] /\ CallInv(k) /\ call[k] \in Call /\ active \in BOOLEAN
      /\ open \subseteq Cols /\ call[k].error = "none"
  BY <1>1, Zenon DEF Inv, TypeOK, Calls, CallInv
<1>3. CASE Ends(k, "NoSession")
  <2>1. Only(k) /\ call'[k].pc = "done" /\ call'[k].error = "NoSession" /\ call'[k].todo = {}
    BY <1>2, <1>3, EndsIs, Zenon DEF Errors
  <2>2. call'[k].kind \in Writes
    BY <1>1, <2>1, Zenon DEF Only
  <2>3. CallInv(k)'
    BY <2>1, <2>2, Zenon DEF CallInv, Deletes, Writes
  <2> QED BY <1>1, <1>2, <2>1, <2>2, <2>3, Plain, Zenon DEF Is, Deletes, Writes
<1>4. ASSUME NEW n \in 0..(MaxSecret + Block + 1), NEW dh \in BOOLEAN,
             call' = [call EXCEPT
                  ![k].held = TRUE, ![k].fits = (n <= MaxSecret),
                  ![k].pc = IF Ciphertext(dh, n) > MAX_ITEM_CIPHERTEXT
                            THEN "done" ELSE "vault",
                  ![k].error = IF Ciphertext(dh, n) > MAX_ITEM_CIPHERTEXT
                               THEN "too large" ELSE @]
      PROVE  Inv'
  <2> DEFINE f == (n <= MaxSecret)
             big == Ciphertext(dh, n) > MAX_ITEM_CIPHERTEXT
             l == IF big THEN "done" ELSE "vault"
             e == IF big THEN "too large" ELSE call[k].error
             r == [call[k] EXCEPT !.held = TRUE, !.fits = f, !.pc = l, !.error = e]
  <2>1. call' = [call EXCEPT ![k] = r]
    BY <1>4, Zenon
  <2>2. big => ~f
    <3>1. /\ n \in Nat /\ Block \in Nat \ {0} /\ MaxSecret \in Nat
          /\ n <= MaxSecret => Ciphertext(dh, n) <= MAX_ITEM_CIPHERTEXT
      <4>1. Block \in Nat \ {0} /\ MaxSecret \in Nat
        BY ObjectsAssumption, Zenon
      <4>2. n \in Nat
        BY <4>1, SMTT(30)
      <4> QED BY <4>1, <4>2, CiphertextFits, Zenon
    <3>2. n % Block \in 0..(Block - 1)
      BY <3>1, SMTT(30)
    <3> QED BY <3>1, <3>2, SMTT(30) DEF Ciphertext, MAX_ITEM_CIPHERTEXT
  <2>3. f \in BOOLEAN /\ ((l = "done" /\ e = "too large" /\ ~f) \/ (l = "vault" /\ e = "none"))
    <3>1. f \in BOOLEAN
      BY SMTT(30)
    <3> QED BY <1>2, <2>2, <3>1, Zenon
  <2> HIDE DEF f, l, e
  <2>4. /\ r \in Call /\ r.kind = call[k].kind /\ r.items = call[k].items /\ r.pc = l
        /\ r.held = TRUE /\ r.fits = f /\ r.error = e /\ r.todo = call[k].todo
    BY <1>2, <2>3, Zenon DEF Call, Errors
  <2> HIDE DEF r
  <2>5. Only(k) /\ call'[k] = r
    BY <1>2, <2>1, <2>4, Updated, Zenon
  <2>6. CallInv(k)'
    BY <1>1, <1>2, <2>3, <2>4, <2>5, Zenon DEF CallInv, Deletes, Writes
  <2>7. call'[k].pc \in {"done", "vault"} /\ call'[k].kind \in Writes
    BY <1>1, <2>3, <2>4, <2>5, Zenon
  <2> QED BY <1>1, <1>2, <2>5, <2>6, <2>7, Plain, Zenon DEF Is, Deletes, Writes
<1> QED BY <1>3, <1>4, Zenon DEF LookToWrite, Fail

(* GetSecrets and GetSecret in the vaults. *)
LEMMA ReadStep ==
    ASSUME Inv, NEW k \in Slots, ReadOne(k) \/ \E c \in Cols : ReadSome(k, c)
    PROVE  Inv'
<1>1. /\ call[k].kind \in Reads /\ call[k].pc = "vault"
      /\ UNCHANGED <<busy, sess, open, items, used, exported, doomed, idle, active>>
  BY Zenon DEF ReadOne, ReadSome, Is, data, Reads
<1>2. /\ call \in [Slots -> Call] /\ CallInv(k) /\ active \in BOOLEAN /\ open \subseteq Cols
  BY Zenon DEF Inv, TypeOK, Calls
<1>3. \/ Goto(k, "touch") \/ Ends(k, "vault") \/ Ends(k, "none")
      \/ \E c \in Cols : call' = [call EXCEPT ![k].todo = @ \ {c}]
  BY Zenon DEF ReadOne, ReadSome, Fail, Done
<1>4. /\ Only(k) /\ call'[k].held = call[k].held
      /\ call'[k].pc = "done" \/ call'[k].error = call[k].error
  <2>1. CASE Goto(k, "touch")
    BY <1>2, <2>1, GotoIs, Zenon
  <2>2. CASE Ends(k, "vault") \/ Ends(k, "none")
    BY <1>2, <2>2, EndsIs, Zenon DEF Errors
  <2>3. ASSUME NEW c \in Cols, call' = [call EXCEPT ![k].todo = @ \ {c}]
        PROVE  Only(k) /\ call'[k].held = call[k].held /\ call'[k].error = call[k].error
    BY <1>2, <2>3, TodoIs, Zenon
  <2> QED BY <1>3, <2>1, <2>2, <2>3, Zenon
<1>5. call'[k].kind = call[k].kind
  BY <1>4, Zenon DEF Only
<1>6. CallInv(k)'
  BY <1>1, <1>2, <1>4, <1>5, Zenon DEF CallInv, Deletes, Writes, Reads
<1> QED BY <1>1, <1>2, <1>4, <1>5, <1>6, Plain, Zenon DEF Is, Deletes, Reads

LEMMA RefusalIs ==
    ASSUME NEW k \in Slots, call[k].fits \in BOOLEAN
    PROVE  /\ Refusal(k) \in {"none", "vault", "too large"}
           /\ Refusal(k) = "none" => call[k].fits
           /\ Refusal(k) = "too large" => ~call[k].fits
BY Zenon DEF Refusal

(* SetSecret, and a CreateItem that is refused or replaces an item. *)
LEMMA WriteStep ==
    ASSUME Inv, NEW k \in Slots, call[k].kind \in Writes, call[k].pc = "vault",
           \/ Refusal(k) = "none" /\ Goto(k, "touch")
           \/ Refusal(k) # "none" /\ Ends(k, Refusal(k)),
           UNCHANGED <<busy, sess, open, items, used, exported, doomed, idle, active>>
    PROVE  Inv'
<1>1. /\ call \in [Slots -> Call] /\ CallInv(k) /\ active \in BOOLEAN /\ open \subseteq Cols
      /\ call[k] \in Call /\ call[k].held
  BY Zenon DEF Inv, TypeOK, Calls, CallInv
<1>2. /\ Refusal(k) \in Errors /\ (Refusal(k) = "none" => call[k].fits)
      /\ Refusal(k) = "too large" => ~call[k].fits
  BY <1>1, RefusalIs, Zenon DEF Errors, Call
<1>3. CASE Refusal(k) = "none" /\ Goto(k, "touch")
  <2>1. /\ Only(k) /\ call'[k].pc = "touch" /\ call'[k].error = call[k].error
        /\ call'[k].held = call[k].held /\ call'[k].fits = call[k].fits
        /\ call'[k].todo = call[k].todo
    BY <1>1, <1>3, GotoIs, Zenon
  <2>2. call'[k].kind = call[k].kind
    BY <2>1, Zenon DEF Only
  <2>3. CallInv(k)'
    BY <1>1, <1>2, <1>3, <2>1, <2>2, Zenon DEF CallInv, Deletes, Writes
  <2> QED BY <1>1, <2>1, <2>2, <2>3, Plain, Zenon DEF Is, Deletes, Writes
<1>4. CASE Refusal(k) # "none" /\ Ends(k, Refusal(k))
  <2>1. /\ Only(k) /\ call'[k].pc = "done" /\ call'[k].error = Refusal(k)
        /\ call'[k].held = call[k].held /\ call'[k].fits = call[k].fits
        /\ call'[k].todo = {}
    BY <1>1, <1>2, <1>4, EndsIs, Zenon
  <2>2. call'[k].kind = call[k].kind
    BY <2>1, Zenon DEF Only
  <2>3. CallInv(k)'
    BY <1>2, <1>4, <2>1, <2>2, Zenon DEF CallInv, Deletes, Writes
  <2> QED BY <1>1, <2>1, <2>2, <2>3, Plain, Zenon DEF Is, Deletes, Writes
<1> QED BY <1>3, <1>4, Zenon

(* A new item: its id is fresh, and its call is to export it. *)
LEMMA InsertStep == ASSUME Inv, NEW k \in Slots, Insert(k) PROVE Inv'
<1>1. /\ call[k].kind = "CreateItem" /\ call[k].pc = "vault"
      /\ UNCHANGED <<busy, sess, open, exported, doomed, idle, active>>
  BY Zenon DEF Insert, Is
<1>2. CASE /\ UNCHANGED <<items, used>>
           /\ \/ Refusal(k) = "none" /\ Goto(k, "touch")
              \/ Refusal(k) # "none" /\ Ends(k, Refusal(k))
  BY <1>1, <1>2, WriteStep, Zenon DEF Writes
<1>3. ASSUME NEW i \in ItemIds, i \notin used, items' = items \cup {i}, used' = used \cup {i},
             call' = [call EXCEPT ![k].pc = "touch", ![k].todo = {i}], Refusal(k) = "none"
      PROVE  Inv'
  <2> DEFINE t == {i}
             r == [call[k] EXCEPT !.pc = "touch", !.todo = t]
  <2>1. /\ call' = [call EXCEPT ![k] = r] /\ t \in SUBSET (Cols \cup ItemIds) /\ t \subseteq ItemIds
        /\ i \in t
    BY <1>3, Zenon
  <2> HIDE DEF t
  <2>2. /\ call \in [Slots -> Call] /\ call[k] \in Call /\ CallInv(k) /\ call[k].error = "none"
        /\ call[k].held /\ call[k].fits
    BY <1>1, <1>3, RefusalIs, Zenon DEF Inv, TypeOK, Calls, CallInv, Call, Writes
  <2>3. /\ r \in Call /\ r.kind = "CreateItem" /\ r.items = call[k].items /\ r.pc = "touch"
        /\ r.todo = t /\ r.held = call[k].held /\ r.fits = call[k].fits /\ r.error = "none"
    BY <1>1, <2>1, <2>2, Zenon DEF Call
  <2> HIDE DEF r
  <2>4. Only(k) /\ call'[k] = r
    BY <1>1, <2>1, <2>2, <2>3, Updated, Zenon
  <2>5. CallInv(k)'
    BY <2>1, <2>2, <2>3, <2>4, Zenon DEF CallInv, Deletes, Writes
  <2>6. Calls'
    BY <2>4, <2>5, CallsKept, Zenon DEF Inv
  <2>7. SessionInv'
    BY <1>1, <2>3, <2>4, SessionsKept, Zenon DEF Inv, Is
  <2>8. TypeOK'
    BY <1>1, <1>3, <2>4, Zenon DEF Inv, TypeOK, Only, busy, sess
  <2>9. ItemInv'
    <3>1. items' \subseteq used' /\ doomed' \subseteq used' \ items'
      BY <1>1, <1>3, Zenon DEF Inv, ItemInv
    <3>2. ASSUME NEW j \in Slots, call'[j].kind \in Deletes, call'[j].pc = "touch"
          PROVE  Names(j)' \subseteq used' \ items'
      <4>1. j # k
        BY <2>3, <2>4, <3>2, Zenon DEF Deletes
      <4>2. call'[j] = call[j] /\ Names(j)' = Names(j)
        BY <2>4, <4>1, Zenon DEF Only, Names
      <4>3. Names(j) \subseteq used \ items
        BY <3>2, <4>2, Zenon DEF Inv, ItemInv
      <4> QED BY <1>3, <4>2, <4>3, Zenon
    <3>3. ASSUME NEW x \in items', x \notin exported'
          PROVE  \E j \in Slots : /\ call'[j].kind = "CreateItem" /\ x \in call'[j].todo
                                  /\ call'[j].pc \in {"touch", "export"}
      <4>1. CASE x = i
        BY <2>1, <2>3, <2>4, <4>1, Zenon
      <4>2. CASE x # i
        <5>1. PICK j \in Slots : /\ call[j].kind = "CreateItem" /\ x \in call[j].todo
                                  /\ call[j].pc \in {"touch", "export"}
          BY <1>1, <1>3, <3>3, <4>2, Zenon DEF Inv, ItemInv
        <5>2. call'[j] = call[j]
          BY <1>1, <2>4, <5>1, Zenon DEF Only
        <5> QED BY <5>1, <5>2, Zenon
      <4> QED BY <4>1, <4>2, Zenon
    <3> QED BY <3>1, <3>2, <3>3, Zenon DEF ItemInv
  <2> QED BY <2>6, <2>7, <2>8, <2>9, Zenon DEF Inv
<1>4. CASE /\ Refusal(k) = "none" /\ Unused(call[k].col) # {}
           /\ LET i == CHOOSE j \in Unused(call[k].col) : TRUE IN
              /\ items' = items \cup {i}
              /\ used' = used \cup {i}
              /\ call' = [call EXCEPT ![k].pc = "touch", ![k].todo = {i}]
  <2> DEFINE i == CHOOSE j \in Unused(call[k].col) : TRUE
  <2>1. i \in Unused(call[k].col)
    BY <1>4, Zenon
  <2>2. i \in ItemIds /\ i \notin used
    BY <2>1, Zenon DEF Unused
  <2>3. /\ items' = items \cup {i} /\ used' = used \cup {i}
        /\ call' = [call EXCEPT ![k].pc = "touch", ![k].todo = {i}] /\ Refusal(k) = "none"
    BY <1>4, Zenon
  <2> HIDE DEF i
  <2> QED BY <1>3, <2>2, <2>3, Zenon
<1> QED BY <1>2, <1>4, Zenon DEF Insert, Fail

LEMMA TouchAfterStep == ASSUME Inv, NEW k \in Slots, TouchAfter(k) PROVE Inv'
<1>1. /\ call[k].kind \in Writes \cup {"GetSecret"} /\ call[k].pc = "touch" /\ active' \in BOOLEAN
      /\ UNCHANGED <<busy, sess, open, items, used, exported, doomed, idle>>
  BY Zenon DEF TouchAfter, Touch, data, Writes
<1>2. /\ call \in [Slots -> Call] /\ CallInv(k) /\ open \subseteq Cols
  BY Zenon DEF Inv, TypeOK, Calls
<1>3. CASE call[k].todo # {} /\ call[k].kind = "CreateItem" /\ Goto(k, "export")
  <2>1. /\ Only(k) /\ call'[k].pc = "export" /\ call'[k].error = call[k].error
        /\ call'[k].held = call[k].held /\ call'[k].fits = call[k].fits
        /\ call'[k].todo = call[k].todo
    BY <1>2, <1>3, GotoIs, Zenon
  <2>2. call'[k].kind = call[k].kind
    BY <2>1, Zenon DEF Only
  <2>3. CallInv(k)'
    BY <1>1, <1>2, <2>1, <2>2, Zenon DEF CallInv, Deletes, Writes
  <2> QED BY <1>1, <1>2, <1>3, <2>1, <2>2, <2>3, Plain, Zenon DEF Is, Deletes, Writes
<1>4. CASE ~(call[k].todo # {} /\ call[k].kind = "CreateItem") /\ Ends(k, "none")
  <2>1. /\ Only(k) /\ call'[k].pc = "done" /\ call'[k].error = "none"
        /\ call'[k].held = call[k].held /\ call'[k].fits = call[k].fits
        /\ call'[k].todo = {}
    BY <1>2, <1>4, EndsIs, Zenon DEF Errors
  <2>2. call'[k].kind = call[k].kind
    BY <2>1, Zenon DEF Only
  <2>3. CallInv(k)'
    BY <1>1, <1>2, <2>1, <2>2, Zenon DEF CallInv, Deletes, Writes
  <2> QED BY <1>1, <1>2, <1>4, <2>1, <2>2, <2>3, Plain, Zenon DEF Is, Deletes, Writes
<1> QED BY <1>3, <1>4, Zenon DEF TouchAfter, Done

LEMMA RegisterItemStep == ASSUME Inv, NEW k \in Slots, register_item(k) PROVE Inv'
<1>1. /\ call[k].kind = "CreateItem" /\ call[k].pc = "export" /\ Ends(k, "none")
      /\ exported' = exported \cup call[k].todo
      /\ UNCHANGED <<busy, sess, open, items, used, doomed, idle, active>>
  BY Zenon DEF register_item, Is, Done
<1>2. /\ call \in [Slots -> Call] /\ CallInv(k) /\ call[k].todo \subseteq ItemIds
  BY <1>1, Zenon DEF Inv, TypeOK, Calls, CallInv
<1>3. /\ Only(k) /\ call'[k].pc = "done" /\ call'[k].error = "none"
      /\ call'[k].held = call[k].held /\ call'[k].fits = call[k].fits /\ call'[k].todo = {}
  BY <1>1, <1>2, EndsIs, Zenon DEF Errors
<1>4. call'[k].kind = call[k].kind
  BY <1>3, Zenon DEF Only
<1>5. CallInv(k)'
  BY <1>1, <1>2, <1>3, <1>4, Zenon DEF CallInv, Deletes, Writes
<1>6. Calls' /\ SessionInv'
  BY <1>1, <1>3, <1>4, <1>5, CallsKept, SessionsKept, Zenon DEF Inv, Is
<1>7. TypeOK'
  BY <1>1, <1>2, <1>3, Zenon DEF Inv, TypeOK, Only, busy, sess
<1>8. ItemInv'
  <2>1. \A j \in Slots : call'[j].kind \in Deletes => call'[j] = call[j] /\ Names(j)' = Names(j)
    BY <1>1, <1>3, <1>4, Zenon DEF Only, Names, Deletes
  <2>2. ASSUME NEW x \in items', x \notin exported'
        PROVE  \E j \in Slots : /\ call'[j].kind = "CreateItem" /\ x \in call'[j].todo
                                /\ call'[j].pc \in {"touch", "export"}
    <3>1. PICK j \in Slots : /\ call[j].kind = "CreateItem" /\ x \in call[j].todo
                              /\ call[j].pc \in {"touch", "export"}
      BY <1>1, <2>2, Zenon DEF Inv, ItemInv
    <3>2. j # k
      BY <1>1, <2>2, <3>1, Zenon
    <3> QED BY <1>3, <3>1, <3>2, Zenon DEF Only
  <2> QED BY <1>1, <2>1, <2>2, Zenon DEF Inv, ItemInv
<1> QED BY <1>6, <1>7, <1>8, Zenon DEF Inv

-----------------------------------------------------------------------------
(* Deletes *)

LEMMA LookToDeleteStep == ASSUME Inv, NEW k \in Slots, LookToDelete(k) PROVE Inv'
<1>1. /\ call[k].kind \in Deletes /\ call[k].pc = "start"
      /\ UNCHANGED <<busy, sess, open, items, used, exported, doomed, idle, active>>
  BY Zenon DEF LookToDelete, Arrives, Is, data, Deletes
<1>2. /\ call \in [Slots -> Call] /\ CallInv(k) /\ active \in BOOLEAN /\ open \subseteq Cols
  BY Zenon DEF Inv, TypeOK, Calls
<1>3. Goto(k, "vault") \/ Ends(k, "vault")
  BY Zenon DEF LookToDelete, Fail
<1>4. /\ Only(k) /\ call'[k].removed = call[k].removed
      /\ \/ call'[k].pc = "vault" /\ call'[k].error = call[k].error
         \/ call'[k].pc = "done" /\ call'[k].error = "vault"
  BY <1>2, <1>3, GotoIs, EndsIs, Zenon DEF Errors
<1>5. call'[k].kind = call[k].kind
  BY <1>4, Zenon DEF Only
<1>6. CallInv(k)'
  BY <1>1, <1>2, <1>4, <1>5, Zenon DEF CallInv, Deletes, Writes
<1> QED BY <1>1, <1>2, <1>4, <1>5, <1>6, Plain, Zenon DEF Is, Deletes

LEMMA RemoveStep == ASSUME Inv, NEW k \in Slots, Remove(k) PROVE Inv'
<1>1. /\ call[k].kind \in Deletes /\ call[k].pc = "vault"
      /\ UNCHANGED <<busy, sess, open, used, exported, doomed, idle, active>>
  BY Zenon DEF Remove
<1>2. /\ call \in [Slots -> Call] /\ CallInv(k) /\ active \in BOOLEAN /\ open \subseteq Cols
      /\ call[k].error = "none" /\ call[k].removed = {} /\ call[k] \in Call
  BY <1>1, Zenon DEF Inv, TypeOK, Calls, CallInv
<1>3. CASE Ends(k, "vault") /\ UNCHANGED items
  <2>1. /\ Only(k) /\ call'[k].removed = call[k].removed /\ call'[k].pc = "done"
        /\ call'[k].error = "vault"
    BY <1>2, <1>3, EndsIs, Zenon DEF Errors
  <2>2. call'[k].kind = call[k].kind
    BY <2>1, Zenon DEF Only
  <2>3. CallInv(k)'
    BY <1>1, <1>2, <2>1, <2>2, Zenon DEF CallInv, Deletes, Writes
  <2> QED BY <1>1, <1>2, <1>3, <2>1, <2>2, <2>3, Plain, Zenon DEF Is, Deletes
<1>4. CASE /\ Names(k) \subseteq items /\ items' = items \ Names(k)
           /\ call' = [call EXCEPT ![k].pc = IF Names(k) = {} THEN "done" ELSE "touch",
                                   ![k].removed = Names(k)]
  <2> DEFINE l == IF Names(k) = {} THEN "done" ELSE "touch"
             n == Names(k)
             r == [call[k] EXCEPT !.pc = l, !.removed = n]
  <2>1. /\ call' = [call EXCEPT ![k] = r] /\ l \in {"done", "touch"}
        /\ (l = "touch" => n # {}) /\ n = Names(k) /\ n = call[k].items
    BY <1>4, Zenon DEF Names
  <2>2. n \in SUBSET ItemIds
    BY <1>2, Zenon DEF Names, Call
  <2> HIDE DEF l, n
  <2>3. /\ r \in Call /\ r.kind = call[k].kind /\ r.items = call[k].items /\ r.pc = l
        /\ r.removed = n /\ r.error = "none"
    BY <1>2, <2>1, <2>2, Zenon DEF Call
  <2> HIDE DEF r
  <2>4. Only(k) /\ call'[k] = r
    BY <1>2, <2>1, <2>3, Updated, Zenon
  <2>5. Names(k)' = n
    BY <2>1, <2>3, <2>4, Zenon DEF Names
  <2>6. CallInv(k)'
    BY <1>1, <2>1, <2>3, <2>4, <2>5, Zenon DEF CallInv, Deletes, Writes
  <2>7. Calls'
    BY <2>4, <2>6, CallsKept, Zenon DEF Inv
  <2>8. SessionInv'
    BY <1>1, <2>3, <2>4, SessionsKept, Zenon DEF Inv, Is, Deletes
  <2>9. TypeOK'
    BY <1>1, <1>4, <2>4, Zenon DEF Inv, TypeOK, Only, busy, sess
  <2>10. ItemInv'
    <3>1. items' \subseteq used' /\ doomed' \subseteq used' \ items'
      BY <1>1, <1>4, Zenon DEF Inv, ItemInv
    <3>2. ASSUME NEW j \in Slots, call'[j].kind \in Deletes, call'[j].pc = "touch"
          PROVE  Names(j)' \subseteq used' \ items'
      <4>1. CASE j = k
        BY <1>1, <1>4, <2>1, <2>5, <4>1, Zenon DEF Inv, ItemInv
      <4>2. CASE j # k
        <5>1. call'[j] = call[j] /\ Names(j)' = Names(j)
          BY <2>4, <4>2, Zenon DEF Only, Names
        <5>2. Names(j) \subseteq used \ items
          BY <3>2, <5>1, Zenon DEF Inv, ItemInv
        <5> QED BY <1>1, <1>4, <5>1, <5>2, Zenon
      <4> QED BY <4>1, <4>2, Zenon
    <3>3. ASSUME NEW x \in items', x \notin exported'
          PROVE  \E j \in Slots : /\ call'[j].kind = "CreateItem" /\ x \in call'[j].todo
                                  /\ call'[j].pc \in {"touch", "export"}
      <4>1. PICK j \in Slots : /\ call[j].kind = "CreateItem" /\ x \in call[j].todo
                                /\ call[j].pc \in {"touch", "export"}
        BY <1>1, <1>4, <3>3, Zenon DEF Inv, ItemInv
      <4>2. call'[j] = call[j]
        BY <1>1, <2>4, <4>1, Zenon DEF Only
      <4> QED BY <4>1, <4>2, Zenon
    <3> QED BY <3>1, <3>2, <3>3, Zenon DEF ItemInv
  <2> QED BY <2>7, <2>8, <2>9, <2>10, Zenon DEF Inv
<1> QED BY <1>3, <1>4, Zenon DEF Remove, Fail

LEMMA AfterRemoveStep == ASSUME Inv, NEW k \in Slots, AfterRemove(k) PROVE Inv'
<1>1. /\ call[k].kind \in Deletes /\ call[k].pc = "touch" /\ active' = TRUE /\ Ends(k, "none")
      /\ doomed' = doomed \cup Names(k)
      /\ UNCHANGED <<busy, sess, open, items, used, exported, idle>>
  BY Zenon DEF AfterRemove, Touch, Done
<1>2. /\ call \in [Slots -> Call] /\ CallInv(k) /\ Names(k) \subseteq used \ items
      /\ call[k].removed = Names(k)
  BY <1>1, Zenon DEF Inv, TypeOK, Calls, CallInv, ItemInv
<1>3. /\ Only(k) /\ call'[k].removed = call[k].removed /\ call'[k].pc = "done"
      /\ call'[k].error = "none"
  BY <1>1, <1>2, EndsIs, Zenon DEF Errors
<1>4. call'[k].kind = call[k].kind /\ Names(k)' = Names(k)
  BY <1>3, Zenon DEF Only, Names
<1>5. CallInv(k)'
  BY <1>1, <1>2, <1>3, <1>4, Zenon DEF CallInv, Deletes, Writes
<1>6. Calls' /\ SessionInv'
  BY <1>1, <1>3, <1>4, <1>5, CallsKept, SessionsKept, Zenon DEF Inv, Is, Deletes
<1>7. TypeOK'
  BY <1>1, <1>2, <1>3, Zenon DEF Inv, TypeOK, Only, busy, sess
<1>8. ItemInv'
  <2>1. doomed' \subseteq used' \ items' /\ items' \subseteq used'
    BY <1>1, <1>2, Zenon DEF Inv, ItemInv
  <2>2. \A j \in Slots : j # k => call'[j] = call[j] /\ Names(j)' = Names(j)
    BY <1>3, Zenon DEF Only, Names
  <2>3. ASSUME NEW j \in Slots, call'[j].kind \in Deletes, call'[j].pc = "touch"
        PROVE  Names(j)' \subseteq used' \ items'
    BY <1>1, <1>3, <2>2, <2>3, Zenon DEF Inv, ItemInv
  <2>4. ASSUME NEW x \in items', x \notin exported'
        PROVE  \E j \in Slots : /\ call'[j].kind = "CreateItem" /\ x \in call'[j].todo
                                /\ call'[j].pc \in {"touch", "export"}
    <3>1. PICK j \in Slots : /\ call[j].kind = "CreateItem" /\ x \in call[j].todo
                              /\ call[j].pc \in {"touch", "export"}
      BY <1>1, <2>4, Zenon DEF Inv, ItemInv
    <3>2. j # k
      BY <1>1, <3>1, Zenon DEF Deletes
    <3> QED BY <2>2, <3>1, <3>2, Zenon
  <2> QED BY <2>1, <2>3, <2>4, Zenon DEF ItemInv
<1> QED BY <1>6, <1>7, <1>8, Zenon DEF Inv

(* A task that is no call and leaves the sessions alone. *)
LEMMA NoCall ==
    ASSUME Calls, SessionInv, UNCHANGED <<sess, call>>
    PROVE  Calls' /\ SessionInv'
<1>1. ASSUME NEW k \in Slots PROVE CallInv(k)'
  <2>1. CallInv(k)
    BY Zenon DEF Calls
  <2> QED BY <2>1, Zenon DEF CallInv, Names
<1>2. Calls'
  BY <1>1, Zenon DEF Calls
<1>3. SessionInv'
  BY Zenon DEF SessionInv, Is, sess
<1> QED BY <1>2, <1>3, Zenon

LEMMA UnexportItemStep == ASSUME Inv, NEW i \in ItemIds, UnexportItem(i) PROVE Inv'
<1>1. /\ i \in doomed /\ doomed' = doomed \ {i} /\ exported' = exported \ {i}
      /\ UNCHANGED <<busy, sess, open, items, used, active, idle, call>>
  BY Zenon DEF UnexportItem
<1>2. i \notin items
  BY <1>1, Zenon DEF Inv, ItemInv
<1>3. TypeOK'
  BY <1>1, Zenon DEF Inv, TypeOK, busy, sess
<1>4. Calls' /\ SessionInv'
  BY <1>1, NoCall, Zenon DEF Inv
<1>5. ItemInv'
  BY <1>1, <1>2, Zenon DEF Inv, ItemInv, Names
<1> QED BY <1>3, <1>4, <1>5, Zenon DEF Inv

-----------------------------------------------------------------------------
(* Locking, and the background tasks *)

LEMMA LookToLockStep == ASSUME Inv, NEW k \in Slots, LookToLock(k) PROVE Inv'
<1> DEFINE t == {ColOf[i] : i \in Names(k)}
           r == [call[k] EXCEPT !.pc = "vault", !.todo = t]
<1>1. /\ call[k].kind = "Lock" /\ call[k].pc = "start" /\ call' = [call EXCEPT ![k] = r]
      /\ UNCHANGED <<busy, sess, open, items, used, exported, doomed, idle, active>>
  BY Zenon DEF LookToLock, Arrives, Is, data
<1>2. /\ call \in [Slots -> Call] /\ CallInv(k) /\ active \in BOOLEAN /\ open \subseteq Cols
      /\ call[k] \in Call /\ call[k].error = "none"
  BY <1>1, Zenon DEF Inv, TypeOK, Calls, CallInv
<1>3. \A i \in Names(k) : ColOf[i] \in Cols
  BY <1>2, ObjectsAssumption, Zenon DEF Names, Call
<1>4. t \in SUBSET (Cols \cup ItemIds)
  BY <1>3, Zenon
<1> HIDE DEF t
<1>5. /\ r \in Call /\ r.kind = "Lock" /\ r.items = call[k].items /\ r.pc = "vault"
      /\ r.error = "none"
  BY <1>1, <1>2, <1>4, Zenon DEF Call
<1> HIDE DEF r
<1>6. Only(k) /\ call'[k] = r
  BY <1>1, <1>2, <1>5, Updated, Zenon
<1>7. CallInv(k)'
  BY <1>5, <1>6, Zenon DEF CallInv, Deletes, Writes
<1> QED BY <1>1, <1>2, <1>5, <1>6, <1>7, Plain, Zenon DEF Is, Deletes

LEMMA LockOneStep == ASSUME Inv, NEW k \in Slots, NEW c \in Cols, LockOne(k, c) PROVE Inv'
<1>1. /\ call[k].kind = "Lock" /\ call[k].pc = "vault" /\ open' \subseteq open
      /\ UNCHANGED <<busy, sess, items, used, exported, doomed, idle, active>>
  BY Zenon DEF LockOne, Is
<1>2. /\ call \in [Slots -> Call] /\ CallInv(k) /\ active \in BOOLEAN /\ open \subseteq Cols
  BY Zenon DEF Inv, TypeOK, Calls
<1>3. Ends(k, "none") \/ call' = [call EXCEPT ![k].todo = @ \ {c}]
  BY Zenon DEF LockOne, Done
<1>4. /\ Only(k) /\ call'[k].pc \in {"vault", "done"}
      /\ call'[k].pc = "done" \/ call'[k].error = call[k].error
  <2>1. CASE Ends(k, "none")
    BY <1>2, <2>1, EndsIs, Zenon DEF Errors
  <2>2. CASE call' = [call EXCEPT ![k].todo = @ \ {c}]
    BY <1>1, <1>2, <2>2, TodoIs, Zenon
  <2> QED BY <1>3, <2>1, <2>2, Zenon
<1>5. call'[k].kind = "Lock"
  BY <1>1, <1>4, Zenon DEF Only
<1>6. CallInv(k)'
  BY <1>1, <1>2, <1>4, <1>5, Zenon DEF CallInv, Deletes, Writes
<1>7. open' \subseteq Cols /\ active' \in BOOLEAN
  BY <1>1, <1>2, Zenon
<1> QED BY <1>1, <1>4, <1>5, <1>6, <1>7, Plain, Zenon DEF Is, Deletes

(* What no call does. *)
LEMMA BackgroundStep ==
    ASSUME Inv, NEW c,
           \/ c \in Cols /\ (Unlocked(c) \/ IdleLocks(c))
           \/ c \in Clients /\ Leave(c)
           \/ Quiet \/ idle_lock
    PROVE  Inv'
<1>1. UNCHANGED <<sess, items, used, exported, doomed, call>>
  BY Zenon DEF Unlocked, IdleLocks, Leave, Quiet, idle_lock, data
<1>2. /\ here' \subseteq Clients /\ departed' \subseteq Clients
      /\ open' \subseteq Cols /\ idle' \subseteq Cols /\ active' \in BOOLEAN
  BY Zenon DEF Inv, TypeOK, Unlocked, IdleLocks, Leave, Quiet, idle_lock, data, busy
<1>3. TypeOK'
  BY <1>1, <1>2, Zenon DEF Inv, TypeOK, sess
<1>4. Calls' /\ SessionInv'
  BY <1>1, NoCall, Zenon DEF Inv
<1>5. ItemInv'
  BY <1>1, Zenon DEF Inv, ItemInv, Names
<1> QED BY <1>3, <1>4, <1>5, Zenon DEF Inv

-----------------------------------------------------------------------------
(* The invariant holds *)

LEMMA InvInit == Init => Inv
<1> SUFFICES ASSUME Init PROVE Inv
  OBVIOUS
<1>1. 0 \in 0..MaxOpened /\ 1 \in Sessions /\ 1 \in 1..1
  BY ObjectsAssumption, SMTT(30) DEF Sessions
<1>2. PICK r \in [Slots -> Requests], w \in [Slots -> Clients] :
          call = [k \in Slots |-> Fresh(r[k], w[k])]
  BY Zenon DEF Init
<1>3. ASSUME NEW k \in Slots
      PROVE  /\ call[k] \in Call /\ call[k].pc = "start" /\ call[k].error = "none"
             /\ call[k].removed = {} /\ call[k].todo = {}
  <2>1. call[k] = Fresh(r[k], w[k]) /\ w[k] \in Clients
    BY <1>2, Zenon
  <2>2. r[k] \in [kind : Methods, col : Cols, items : SUBSET ItemIds]
    BY <1>2, ObjectsAssumption, Zenon
  <2>3. r[k].kind \in Methods /\ r[k].col \in Cols /\ r[k].items \in SUBSET ItemIds
    BY <2>2, Zenon
  <2>4. {} \in SUBSET (Cols \cup ItemIds) /\ {} \in SUBSET ItemIds /\ "none" \in Errors
    BY Zenon DEF Errors
  <2>5. TRUE \in BOOLEAN /\ FALSE \in BOOLEAN
    OBVIOUS
  <2>6. Fresh(r[k], w[k]) \in Call
    BY <1>1, <2>1, <2>3, <2>4, <2>5, SMTT(30) DEF Fresh, Call
  <2>7. /\ Fresh(r[k], w[k]).pc = "start" /\ Fresh(r[k], w[k]).error = "none"
        /\ Fresh(r[k], w[k]).removed = {} /\ Fresh(r[k], w[k]).todo = {}
    BY Zenon DEF Fresh
  <2> QED BY <2>1, <2>6, <2>7, Zenon
<1>4. call \in [Slots -> Call]
  BY <1>2, <1>3, Zenon
<1>5. PICK c \in Clients : sessions = [s \in Sessions |-> IF s = 1 THEN c ELSE None]
  BY Zenon DEF Init
<1>6. /\ sessions \in [Sessions -> Clients \cup {None}]
      /\ \A s \in Sessions : sessions[s] # None => s = 1
  BY <1>5, Zenon
<1>7. TypeOK
  <2>1. active \in BOOLEAN
    BY Zenon DEF Init
  <2> QED BY <1>1, <1>4, <1>6, <2>1, ObjectsAssumption, Zenon DEF Init, TypeOK
<1>8. Calls
  BY <1>3, Zenon DEF Calls, CallInv
<1>9. ItemInv
  BY <1>3, Zenon DEF Init, ItemInv
<1>10. SessionInv
  <2>1. \A k \in Slots : ~Is(k, "OpenSession", "export")
    BY <1>3, Zenon DEF Is
  <2>2. opened = 1 /\ objects = {1} /\ dropped = {}
    BY Zenon DEF Init
  <2> QED BY <1>1, <1>6, <2>1, <2>2, Zenon DEF SessionInv
<1> QED BY <1>7, <1>8, <1>9, <1>10, Zenon DEF Inv

LEMMA InvStep == Inv /\ [Next]_vars => Inv'
<1> SUFFICES ASSUME Inv, [Next]_vars PROVE Inv'
  OBVIOUS
<1>1. ASSUME NEW k \in Slots, Serve(k) PROVE Inv'
  <2>1. CASE OpenCheck(k) \/ OpenRefused(k)
    BY <2>1, OpenPlain, Zenon
  <2>2. CASE OpenInsert(k)
    BY <2>2, OpenInsertStep, Zenon
  <2>3. CASE OpenExport(k)
    BY <2>3, OpenExportStep, Zenon
  <2>4. CASE Close(k)
    BY <2>4, CloseStep, Zenon
  <2>5. CASE LookToRead(k)
    BY <2>5, LookToReadStep, Zenon
  <2>6. CASE ReadOne(k) \/ \E c \in Cols : ReadSome(k, c)
    BY <2>6, ReadStep, Zenon
  <2>7. CASE LookToWrite(k)
    BY <2>7, LookToWriteStep, Zenon
  <2>8. CASE SetSecret(k)
    BY <2>8, WriteStep, Zenon DEF SetSecret, Is, Writes, data, Fail
  <2>9. CASE Insert(k)
    BY <2>9, InsertStep, Zenon
  <2>10. CASE TouchAfter(k)
    BY <2>10, TouchAfterStep, Zenon
  <2>11. CASE register_item(k)
    BY <2>11, RegisterItemStep, Zenon
  <2>12. CASE LookToDelete(k)
    BY <2>12, LookToDeleteStep, Zenon
  <2>13. CASE Remove(k)
    BY <2>13, RemoveStep, Zenon
  <2>14. CASE AfterRemove(k)
    BY <2>14, AfterRemoveStep, Zenon
  <2>15. CASE LookToLock(k)
    BY <2>15, LookToLockStep, Zenon
  <2>16. ASSUME NEW c \in Cols, LockOne(k, c) PROVE Inv'
    BY <2>16, LockOneStep, Zenon
  <2> QED BY <1>1, <2>1, <2>2, <2>3, <2>4, <2>5, <2>6, <2>7, <2>8, <2>9, <2>10, <2>11, <2>12,
             <2>13, <2>14, <2>15, <2>16, Zenon DEF Serve
<1>2. ASSUME NEW s \in Sessions, UnexportSession(s) PROVE Inv'
  BY <1>2, UnexportSessionStep, Zenon
<1>3. ASSUME NEW i \in ItemIds, UnexportItem(i) PROVE Inv'
  BY <1>3, UnexportItemStep, Zenon
<1>4. ASSUME NEW c \in Clients, Watch(c) PROVE Inv'
  BY <1>4, WatchStep, Zenon
<1>5. CASE \E c \in Cols : Unlocked(c) \/ IdleLocks(c)
  BY <1>5, BackgroundStep, Zenon
<1>6. CASE \E c \in Clients : Leave(c)
  BY <1>6, BackgroundStep, Zenon
<1>7. CASE Quiet \/ idle_lock
  BY <1>7, BackgroundStep, Zenon
<1>8. CASE UNCHANGED vars
  <2>1. UNCHANGED <<here, departed, sess, open, items, used, exported, doomed, active, idle, call>>
    BY <1>8, Zenon DEF vars, data, busy
  <2>2. TypeOK'
    BY <2>1, Zenon DEF Inv, TypeOK, sess
  <2>3. Calls' /\ SessionInv'
    BY <2>1, NoCall, Zenon DEF Inv
  <2>4. ItemInv'
    BY <2>1, Zenon DEF Inv, ItemInv, Names
  <2> QED BY <2>2, <2>3, <2>4, Zenon DEF Inv
<1> QED BY <1>1, <1>2, <1>3, <1>4, <1>5, <1>6, <1>7, <1>8, Zenon DEF Next

(* Every variable of Objects stays in its domain, calls and their locals    *)
(* included.                                                                *)
THEOREM TypeCorrect == Spec => []TypeOK
<1>1. Inv => TypeOK
  BY Zenon DEF Inv
<1> QED BY <1>1, InvInit, InvStep, PTL DEF Spec

(* Item.Delete and DeleteItems remove all that they were given or nothing,  *)
(* and answer accordingly, for any batches that overlap in any way.         *)
THEOREM BatchIsWholeThm == Spec => []BatchIsWhole
<1>1. Inv => BatchIsWhole
  BY Zenon DEF Inv, Calls, CallInv, BatchIsWhole
<1> QED BY <1>1, InvInit, InvStep, PTL DEF Spec

(* A write is refused for its size exactly when the secret is over          *)
(* MAX_ITEM_SECRET, for every cap and every block size.                     *)
THEOREM SizeIsJudgedExactlyThm == Spec => []SizeIsJudgedExactly
<1>1. Inv => SizeIsJudgedExactly
  BY Zenon DEF Inv, Calls, CallInv, SizeIsJudgedExactly
<1> QED BY <1>1, InvInit, InvStep, PTL DEF Spec

(* When no call and no unexport is under way, every item and every session  *)
(* has its object on the bus.                                               *)
THEOREM StoredIsExportedThm == Spec => []StoredIsExported
<1>1. Inv => StoredIsExported
  <2> SUFFICES ASSUME Inv, AtRest
               PROVE  /\ items \subseteq exported
                      /\ \A s \in Sessions : sessions[s] # None => s \in objects
    BY Zenon DEF StoredIsExported
  <2>1. \A k \in Slots : call[k].pc # "touch" /\ call[k].pc # "export"
    BY Zenon DEF AtRest
  <2>2. items \subseteq exported
    BY <2>1, Zenon DEF Inv, ItemInv
  <2>3. \A s \in Sessions : sessions[s] # None => s \in objects
    BY <2>1, Zenon DEF Inv, SessionInv, Is
  <2> QED BY <2>2, <2>3, Zenon
<1> QED BY <1>1, InvInit, InvStep, PTL DEF Spec

(* Only a call that has proved to hold a session, or has deleted something, *)
(* postpones the idle lock: no other step turns last_activity recent.       *)
THEOREM OnlyWorkIsActivityThm == Spec => OnlyWorkIsActivity
<1> DEFINE Work == \E k \in Slots : /\ call'[k] # call[k]
                                    /\ call'[k].held \/ call[k].removed # {}
<1>1. Inv /\ [Next]_vars => [active' /\ ~active => Work]_vars
  <2> SUFFICES ASSUME Inv, Next, active', ~active PROVE Work
    BY Zenon
  <2>1. ASSUME NEW k \in Slots, TouchAfter(k) PROVE Work
    <3>1. /\ call[k].kind \in Writes \cup {"GetSecret"} /\ call[k].pc = "touch"
          /\ Goto(k, "export") \/ Ends(k, "none")
      BY <2>1, Zenon DEF TouchAfter, Writes, Done
    <3>2. call \in [Slots -> Call] /\ call[k].held
      BY <3>1, Zenon DEF Inv, TypeOK, Calls, CallInv
    <3>3. call'[k].pc \in {"export", "done"} /\ call'[k].held = call[k].held
      BY <3>1, <3>2, GotoIs, EndsIs, Zenon DEF Errors
    <3> QED BY <3>1, <3>2, <3>3, Zenon
  <2>2. ASSUME NEW k \in Slots, AfterRemove(k) PROVE Work
    <3>1. call[k].kind \in Deletes /\ call[k].pc = "touch" /\ Ends(k, "none")
      BY <2>2, Zenon DEF AfterRemove, Done
    <3>2. call \in [Slots -> Call] /\ call[k].removed # {}
      BY <3>1, Zenon DEF Inv, TypeOK, Calls, CallInv
    <3>3. call'[k].pc = "done"
      BY <3>1, <3>2, EndsIs, Zenon DEF Errors
    <3> QED BY <3>1, <3>2, <3>3, Zenon
  <2>3. ASSUME NEW k \in Slots, LookToRead(k) PROVE Work
    <3> DEFINE t == {ColOf[i] : i \in Names(k)}
               r == [call[k] EXCEPT !.pc = "vault", !.held = TRUE, !.todo = t]
    <3>1. call[k].pc = "start" /\ call' = [call EXCEPT ![k] = r]
      BY <2>3, Zenon DEF LookToRead, Arrives, Is
    <3> HIDE DEF t
    <3>2. call \in [Slots -> Call] /\ call[k] \in Call
      BY Zenon DEF Inv, TypeOK
    <3>3. r.pc = "vault" /\ r.held
      BY <3>2, Zenon DEF Call
    <3> HIDE DEF r
    <3>4. call'[k] = r
      BY <3>1, <3>2, Zenon
    <3> QED BY <3>1, <3>3, <3>4, Zenon
  <2>4. ASSUME NEW k \in Slots, Serve(k) PROVE Work
    BY <2>1, <2>2, <2>3, <2>4, Zenon
       DEF Serve, OpenCheck, OpenRefused, OpenInsert, OpenExport, Close, ReadOne, ReadSome,
           LookToWrite, SetSecret, Insert, register_item, LookToDelete, Remove, LookToLock, LockOne
  <2> QED BY <2>4, Zenon DEF Next, UnexportSession, UnexportItem, Unlocked, IdleLocks, Leave,
                             Watch, Quiet, idle_lock
<1>2. Spec => [][active' /\ ~active => Work]_vars
  BY <1>1, InvInit, InvStep, PTL DEF Spec
<1> QED BY <1>2, Zenon DEF OnlyWorkIsActivity

-----------------------------------------------------------------------------
(* The quota on sessions *)

Of(c) == {s \in Sessions : sessions[s] = c}

LEMMA OfFinite ==
    /\ \A c : IsFiniteSet(Of(c)) /\ Cardinality(Of(c)) \in Nat /\ Held(c) = Cardinality(Of(c))
    /\ \A c : IsFiniteSet(Of(c)') /\ Cardinality(Of(c)') \in Nat
<1>1. MaxOpened \in Int /\ 1 \in Int
  BY ObjectsAssumption, SMTT(30)
<1>2. IsFiniteSet(Sessions)
  BY <1>1, FS_Interval, Zenon DEF Sessions
<1>3. ASSUME NEW S \in SUBSET Sessions PROVE IsFiniteSet(S) /\ Cardinality(S) \in Nat
  <2>1. IsFiniteSet(S)
    BY <1>2, <1>3, FS_Subset, Zenon
  <2> QED BY <2>1, FS_CardinalityType, Zenon
<1>4. ASSUME NEW c
      PROVE  Of(c) \in SUBSET Sessions /\ Of(c)' \in SUBSET Sessions
             /\ Held(c) = Cardinality(Of(c))
  BY Zenon DEF Of, Held
<1> QED BY <1>3, <1>4, Zenon

(* A client whose sessions become no more keeps to its quota. *)
LEMMA NoMore ==
    ASSUME NEW c, Of(c)' \subseteq Of(c), Held(c) <= MaxSessions
    PROVE  Held(c)' <= MaxSessions
<1>1. Cardinality(Of(c)') <= Cardinality(Of(c))
  BY OfFinite, FS_Subset, Zenon
<1>2. Held(c)' = Cardinality(Of(c)')
  BY Zenon DEF Of, Held
<1>3. MaxSessions \in Nat
  BY ObjectsAssumption, Zenon
<1> QED BY <1>1, <1>2, <1>3, OfFinite, SMTT(30)

LEMMA OpenInsertFits ==
    ASSUME Inv, SessionsBounded, NEW k \in Slots, OpenInsert(k), NEW c \in Clients
    PROVE  Held(c)' <= MaxSessions
<1>1. /\ sessions \in [Sessions -> Clients \cup {None}] /\ opened \in Sessions
      /\ Held(c) <= MaxSessions
  BY Zenon DEF Inv, TypeOK, SessionsBounded
<1>2. CASE UNCHANGED sessions
  BY <1>1, <1>2, NoMore, Zenon DEF Of
<1>3. CASE /\ check_session_quota(call[k].who) /\ opened < MaxOpened /\ opened' = opened + 1
           /\ sessions' = [sessions EXCEPT ![opened'] = call[k].who]
  <2> DEFINE n == opened'
  <2>1. n \in Sessions
    BY <1>1, <1>3, NextSession, Zenon
  <2>2. sessions' = [sessions EXCEPT ![n] = call[k].who]
    BY <1>3, Zenon
  <2> HIDE DEF n
  <2>3. CASE c # call[k].who
    <3>1. Of(c)' \subseteq Of(c)
      BY <1>1, <2>1, <2>2, <2>3, Zenon DEF Of
    <3> QED BY <1>1, <3>1, NoMore, Zenon
  <2>4. CASE c = call[k].who
    <3>1. Of(c)' = Of(c) \cup {n}
      BY <1>1, <2>1, <2>2, <2>4, Zenon DEF Of
    <3>2. Cardinality(Of(c) \cup {n}) \in {Cardinality(Of(c)), Cardinality(Of(c)) + 1}
      BY OfFinite, FS_AddElement, Zenon
    <3>3. Held(c)' = Cardinality(Of(c) \cup {n})
      BY <3>1, Zenon DEF Of, Held
    <3>4. Held(c) < MaxSessions
      BY <1>3, <2>4, Zenon DEF check_session_quota
    <3>5. MaxSessions \in Nat
      BY ObjectsAssumption, Zenon
    <3> QED BY <3>2, <3>3, <3>4, <3>5, OfFinite, SMTT(30)
  <2> QED BY <2>3, <2>4, Zenon
<1> QED BY <1>2, <1>3, Zenon DEF OpenInsert

(* OpenSession checks the quota before it generates a key and again before  *)
(* it inserts: with any number of calls of one client in flight the client  *)
(* never has more than MAX_SESSIONS_PER_SENDER sessions.                    *)
THEOREM SessionsBoundedThm == Spec => []SessionsBounded
<1>1. Init => SessionsBounded
  <2> SUFFICES ASSUME Init, NEW c \in Clients PROVE Held(c) <= MaxSessions
    BY Zenon DEF SessionsBounded
  <2>1. Of(c) \subseteq {1}
    <3>1. \A s \in Sessions : sessions[s] = c => s = 1
      BY ObjectsAssumption, Zenon DEF Init
    <3> QED BY <3>1, Zenon DEF Of
  <2>2. IsFiniteSet({1}) /\ Cardinality({1}) = 1
    BY FS_Singleton, Zenon
  <2>3. Cardinality(Of(c)) <= Cardinality({1})
    BY <2>1, <2>2, FS_Subset, Zenon
  <2>4. MaxSessions \in Nat \ {0}
    BY ObjectsAssumption, Zenon
  <2> QED BY <2>2, <2>3, <2>4, OfFinite, SMTT(30)
<1>2. Inv /\ SessionsBounded /\ [Next]_vars => SessionsBounded'
  <2> SUFFICES ASSUME Inv, SessionsBounded, [Next]_vars, NEW c \in Clients
               PROVE  Held(c)' <= MaxSessions
    BY Zenon DEF SessionsBounded
  <2>1. /\ Held(c) <= MaxSessions /\ sessions \in [Sessions -> Clients \cup {None}]
        /\ objects \subseteq Sessions /\ c # None
    BY ObjectsAssumption, Zenon DEF Inv, TypeOK, SessionsBounded
  <2>2. CASE UNCHANGED sessions
    BY <2>1, <2>2, NoMore, Zenon DEF Of
  <2>3. ASSUME NEW k \in Slots, OpenInsert(k) PROVE Held(c)' <= MaxSessions
    BY <2>3, OpenInsertFits, Zenon
  <2>4. ASSUME NEW s, sessions' = [sessions EXCEPT ![s] = None] PROVE Held(c)' <= MaxSessions
    <3>1. Of(c)' \subseteq Of(c)
      BY <2>1, <2>4, Zenon DEF Of
    <3> QED BY <2>1, <3>1, NoMore, Zenon
  <2>5. ASSUME NEW d \in Clients, Watch(d) PROVE Held(c)' <= MaxSessions
    <3>1. Of(c)' \subseteq Of(c)
      BY <2>1, <2>5, Zenon DEF Of, Watch
    <3> QED BY <2>1, <3>1, NoMore, Zenon
  <2>6. ASSUME NEW k \in Slots, OpenExport(k) \/ Close(k) PROVE Held(c)' <= MaxSessions
    BY <2>2, <2>4, <2>6, Zenon DEF OpenExport, Close
  <2>7. CASE UNCHANGED vars
    BY <2>2, <2>7, Zenon DEF vars, sess
  <2>8. ASSUME NEW k \in Slots, Serve(k) PROVE Held(c)' <= MaxSessions
    BY <2>2, <2>3, <2>6, <2>8, Zenon
       DEF Serve, OpenCheck, OpenRefused, LookToRead, ReadOne, ReadSome, LookToWrite, SetSecret,
           Insert, TouchAfter, register_item, LookToDelete, Remove, AfterRemove, LookToLock,
           LockOne, sess
  <2> QED BY <2>2, <2>5, <2>7, <2>8, Zenon
             DEF Next, UnexportSession, UnexportItem, Unlocked, IdleLocks, Leave, Quiet,
                 idle_lock, sess
<1> QED BY <1>1, <1>2, InvInit, InvStep, PTL DEF Spec

=============================================================================
