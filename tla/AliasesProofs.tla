--------------------------- MODULE AliasesProofs ---------------------------
(***************************************************************************)
(* Proofs about module Aliases, for any number of calls, names, attempts   *)
(* and Reloads.                                                            *)
(***************************************************************************)
EXTENDS Aliases, FiniteSetTheorems, TLAPS

(* The tables aliases.toml may hold at the start are within the limit. *)
StartFits == \A t \in Start : Size(t) <= MaxAliases

-----------------------------------------------------------------------------
(* What an edit does to the size of a table *)

LEMMA SizeType == ASSUME NEW t PROVE IsFiniteSet(Known(t)) /\ Size(t) \in Nat
<1>1. Known(t) \subseteq Names /\ IsFiniteSet(Names)
  BY AliasesAssumption, Zenon DEF Known
<1>2. IsFiniteSet(Known(t))
  BY <1>1, FS_Subset, Zenon
<1> QED BY <1>2, FS_CardinalityType, Zenon DEF Size

LEMMA SmallerTable ==
    ASSUME NEW s, NEW t, Known(s) \subseteq Known(t)
    PROVE  Size(s) <= Size(t)
BY SizeType, FS_Subset, Zenon DEF Size

(* One more name at most. *)
LEMMA OneMoreName ==
    ASSUME NEW t \in Table, NEW n \in Names, NEW i \in Ids
    PROVE  /\ [t EXCEPT ![n] = i] \in Table
           /\ Size([t EXCEPT ![n] = i]) <= Size(t) + 1
           /\ t[n] # Free => Size([t EXCEPT ![n] = i]) <= Size(t)
<1> DEFINE s == [t EXCEPT ![n] = i]
<1>1. s \in Table
  BY Zenon DEF Table
<1>2. Known(s) \subseteq Known(t) \cup {n}
  BY Zenon DEF Known, Table
<1>3. t[n] # Free => Known(s) \subseteq Known(t)
  BY Zenon DEF Known, Table
<1> HIDE DEF s
<1>4. IsFiniteSet(Known(t)) /\ Size(t) \in Nat /\ Size(s) \in Nat
  BY SizeType, Zenon
<1>5. /\ IsFiniteSet(Known(t) \cup {n})
      /\ Cardinality(Known(t) \cup {n}) =
            IF n \in Known(t) THEN Cardinality(Known(t)) ELSE Cardinality(Known(t)) + 1
  BY <1>4, FS_AddElement, Zenon
<1>6. Cardinality(Known(s)) <= Cardinality(Known(t) \cup {n})
  BY <1>2, <1>5, FS_Subset, Zenon
<1>7. Size(s) <= Size(t) + 1
  BY <1>4, <1>5, <1>6 DEF Size
<1>8. t[n] # Free => Size(s) <= Size(t)
  BY <1>3, SmallerTable, Zenon
<1> QED BY <1>1, <1>7, <1>8, Zenon DEF s

(* An edit that is not refused stays within the limit, or within the size   *)
(* it found.                                                                *)
LEMMA ApplyFits ==
    ASSUME NEW o \in Op, NEW t \in Table, ~Refused(o, t), NEW m \in Nat,
           Size(t) <= m, MaxAliases <= m
    PROVE  Apply(o, t) \in Table /\ Size(Apply(o, t)) <= m
<1> USE SizeType, AliasesAssumption
<1>1. CASE o.kind = "clear"
  <2>1. o.name \in Names /\ Apply(o, t) = [t EXCEPT ![o.name] = Free]
    BY <1>1, Zenon DEF Op, Apply
  <2>2. Apply(o, t) \in Table /\ Known(Apply(o, t)) \subseteq Known(t)
    BY <2>1, Zenon DEF Table, Known
  <2> QED BY <2>2, SmallerTable
<1>2. CASE o.kind = "drop"
  <2>1. Apply(o, t) = [n \in Names |-> IF t[n] = o.id THEN Free ELSE t[n]]
    BY <1>2, Zenon DEF Apply
  <2>2. Apply(o, t) \in Table /\ Known(Apply(o, t)) \subseteq Known(t)
    BY <2>1, Zenon DEF Table, Known
  <2> QED BY <2>2, SmallerTable
<1>3. CASE o.kind \in {"set", "create"}
  <2>1. /\ o.name \in Names /\ o.id \in Ids
        /\ Apply(o, t) = [t EXCEPT ![o.name] = o.id]
        /\ t[o.name] # Free \/ Size(t) < MaxAliases
    BY <1>3, Zenon DEF Op, Apply, Refused, check_alias_room
  <2>2. /\ Apply(o, t) \in Table
        /\ Size(Apply(o, t)) <= Size(t) + 1
        /\ t[o.name] # Free => Size(Apply(o, t)) <= Size(t)
    BY <2>1, OneMoreName, Zenon
  <2>3. Size(t) \in Nat /\ Size(Apply(o, t)) \in Nat /\ MaxAliases \in Nat
    BY Zenon
  <2> QED BY <2>1, <2>2, <2>3
<1> QED BY <1>1, <1>2, <1>3, Zenon DEF Op

-----------------------------------------------------------------------------
(* Types *)

LEMMA ApplyType == ASSUME NEW o \in Op, NEW t \in Table PROVE Apply(o, t) \in Table
BY AliasesAssumption, Zenon DEF Op, Apply, Table

LEMMA OneChanged ==
    ASSUME NEW S, NEW T, NEW f \in [S -> T], NEW g, NEW x \in S, NEW y \in T,
           g = [f EXCEPT ![x] = y]
    PROVE  g \in [S -> T]
BY Zenon

LEMMA OneMoreAttempt == ASSUME NEW n \in Nat, NEW x \in 1..n, x < n PROVE x + 1 \in 1..n
OBVIOUS

LEMMA WriterTypes ==
    ASSUME TypeOK, NEW w \in Writers, Step(w)
    PROVE  TypeOK'
<1>0. /\ table \in Table /\ next \in [Writers -> Table] /\ base \in [Writers -> Table]
      /\ file \in Table \cup {Corrupt} /\ op \in [Writers -> Op] /\ exported \subseteq Names
      /\ pc \in [Writers -> {"unload", "edit", "write", "commit", "register", "done"}]
      /\ result \in [Writers -> {"none", "committed", "not written", "unusable", "rejected"}]
      /\ written \in [Writers -> BOOLEAN] /\ attempt \in [Writers -> 1..Attempts]
      /\ Attempts \in Nat
      /\ \A v \in Writers : pc[v] = "register" => op[v].kind # "drop"
  BY AliasesAssumption, Zenon DEF TypeOK
<1>1. CASE Unload(w)
  <2>1. loaded' \subseteq Ids
    BY <1>1, Zenon DEF Unload, TypeOK
  <2>2. /\ pc' \in [Writers -> {"unload", "edit", "write", "commit", "register", "done"}]
        /\ \A v \in Writers : pc'[v] = "register" => pc[v] = "register"
    BY <1>0, <1>1, Zenon DEF Unload
  <2>3. UNCHANGED <<file, table, degraded, op, attempt, base, next, written, result, scan,
                    reloads, disturbed, exported, announce, init, claim>>
    BY <1>1, Zenon DEF Unload, bus, outside
  <2> QED BY <2>1, <2>2, <2>3, Zenon DEF TypeOK
<1>2. CASE Edit(w)
  <2>1. Apply(op[w], table) \in Table
    BY <1>0, ApplyType, Zenon
  <2>2. /\ pc' \in [Writers -> {"unload", "edit", "write", "commit", "register", "done"}]
        /\ result' \in [Writers -> {"none", "committed", "not written", "unusable", "rejected"}]
        /\ \A v \in Writers : pc'[v] = "register" => pc[v] = "register"
    BY <1>0, <1>2, Zenon DEF Edit, Return
  <2>3. /\ base' = base \/ base' = [base EXCEPT ![w] = table]
        /\ next' = next \/ next' = [next EXCEPT ![w] = Apply(op[w], table)]
    BY <1>2, Zenon DEF Edit
  <2>4. base' \in [Writers -> Table] /\ next' \in [Writers -> Table]
    <3>1. ASSUME base' = [base EXCEPT ![w] = table] PROVE base' \in [Writers -> Table]
      BY <1>0, <3>1, OneChanged, Zenon
    <3>2. ASSUME next' = [next EXCEPT ![w] = Apply(op[w], table)] PROVE next' \in [Writers -> Table]
      <4> DEFINE e == Apply(op[w], table)
      <4>1. e \in Table /\ next' = [next EXCEPT ![w] = e]
        BY <2>1, <3>2, Zenon
      <4> HIDE DEF e
      <4> QED BY <1>0, <4>1, OneChanged, Zenon
    <3>3. base' \in [Writers -> Table]
      BY <1>0, <2>3, <3>1, Zenon
    <3>4. next' \in [Writers -> Table]
      BY <1>0, <2>3, <3>2, Zenon
    <3> QED BY <3>3, <3>4, Zenon
  <2>5. UNCHANGED <<file, table, degraded, loaded, op, attempt, written, scan, reloads,
                    disturbed, exported, announce, init, claim>>
    BY <1>2, Zenon DEF Edit, bus, outside
  <2> QED BY <2>2, <2>4, <2>5, Zenon DEF TypeOK
<1>3. CASE WriteFile(w)
  <2>1. file' = file \/ file' = next[w]
    BY <1>3, Zenon DEF WriteFile
  <2>2. \E x \in BOOLEAN : written' = [written EXCEPT ![w] = x]
    BY <1>3, Zenon DEF WriteFile
  <2>3. file' \in Table \cup {Corrupt} /\ written' \in [Writers -> BOOLEAN]
    <3>1. next[w] \in Table
      BY <1>0, Zenon
    <3>2. written' \in [Writers -> BOOLEAN]
      BY <1>0, <2>2, OneChanged, Zenon
    <3> QED BY <1>0, <2>1, <3>1, <3>2, Zenon
  <2>4. disturbed' = disturbed \/ disturbed' = TRUE
    BY <1>3, Zenon DEF WriteFile
  <2>5. /\ pc' \in [Writers -> {"unload", "edit", "write", "commit", "register", "done"}]
        /\ \A v \in Writers : pc'[v] = "register" => pc[v] = "register"
    BY <1>0, <1>3, Zenon DEF WriteFile
  <2>6. UNCHANGED <<table, degraded, loaded, op, attempt, base, next, result, scan, reloads,
                    exported, announce, init, claim>>
    BY <1>3, Zenon DEF WriteFile, bus, outside
  <2> QED BY <2>3, <2>4, <2>5, <2>6, Zenon DEF TypeOK
<1>4. CASE Commit(w)
  <2>1. attempt' = attempt \/ (attempt[w] < Attempts /\ attempt' = [attempt EXCEPT ![w] = @ + 1])
    BY <1>4, Zenon DEF Commit, MayRetry
  <2>2. attempt' \in [Writers -> 1..Attempts]
    <3>1. CASE attempt[w] < Attempts /\ attempt' = [attempt EXCEPT ![w] = @ + 1]
      <4>1. attempt[w] + 1 \in 1..Attempts
        BY <1>0, <3>1, OneMoreAttempt, Zenon
      <4>2. attempt' = [attempt EXCEPT ![w] = attempt[w] + 1]
        BY <3>1, Zenon
      <4> QED BY <1>0, <4>1, <4>2, OneChanged, Zenon
    <3> QED BY <1>0, <2>1, <3>1, Zenon
  <2>3. table' = table \/ table' = next[w]
    BY <1>4, Zenon DEF Commit
  <2>4. table' \in Table
    BY <1>0, <2>3, Zenon
  <2>5. /\ pc' \in [Writers -> {"unload", "edit", "write", "commit", "register", "done"}]
        /\ result' \in [Writers -> {"none", "committed", "not written", "unusable", "rejected"}]
        /\ \A v \in Writers : pc'[v] = "register" => pc[v] = "register" \/ op[v].kind # "drop"
    BY <1>0, <1>4, Zenon DEF Commit, Return
  <2>6. UNCHANGED <<file, degraded, loaded, op, base, next, written, scan, reloads,
                    disturbed, exported, announce, init, claim>>
    BY <1>4, Zenon DEF Commit, bus, outside
  <2> QED BY <2>2, <2>4, <2>5, <2>6, Zenon DEF TypeOK
<1>5. CASE Register(w)
  <2>1. op[w] \in Op /\ op[w].kind # "drop"
    BY <1>0, <1>5, Zenon DEF Register
  <2>2. op[w].name \in Names
    BY <2>1, Zenon DEF Op
  <2>3. exported' \subseteq Names
    BY <1>0, <1>5, <2>2, Zenon DEF Register
  <2>4. /\ pc' \in [Writers -> {"unload", "edit", "write", "commit", "register", "done"}]
        /\ \A v \in Writers : pc'[v] = "register" => pc[v] = "register"
    BY <1>0, <1>5, Zenon DEF Register
  <2>5. UNCHANGED <<file, table, degraded, loaded, op, attempt, base, next, written, result, scan,
                    reloads, disturbed, announce, init, claim>>
    BY <1>5, Zenon DEF Register, outside
  <2> QED BY <2>3, <2>4, <2>5, Zenon DEF TypeOK
<1> QED BY <1>1, <1>2, <1>3, <1>4, <1>5, Zenon DEF Step

LEMMA TypeStep == TypeOK /\ [Next]_vars => TypeOK'
<1> SUFFICES ASSUME TypeOK, [Next]_vars PROVE TypeOK'
  BY Zenon
<1> USE AliasesAssumption
<1>1. ASSUME NEW w \in Writers, Step(w) PROVE TypeOK'
  BY <1>1, WriterTypes, Zenon
<1>2. CASE Scan
  <2>1. reloads' \in 0..MaxReloads
    <3>1. MaxReloads \in Nat /\ reloads \in 0..MaxReloads
          /\ reloads < MaxReloads /\ reloads' = reloads + 1
      BY <1>2, Zenon DEF TypeOK, Scan
    <3> HIDE AliasesAssumption
    <3> QED BY <3>1
  <2>2. scan' \in Table \cup {Corrupt, NoScan}
    BY <1>2, Zenon DEF TypeOK, Scan
  <2>3. UNCHANGED <<file, table, degraded, loaded, pc, op, attempt, base, next, written, result,
                    disturbed, exported, announce, init, claim>>
    BY <1>2, Zenon DEF Scan, bus, outside
  <2> QED BY <2>1, <2>2, <2>3, Zenon DEF TypeOK
<1>3. CASE merge_scan
  BY <1>3, Zenon DEF TypeOK, merge_scan, Quiet, outside
<1>4. CASE ReadNames
  BY <1>4, Zenon DEF TypeOK, ReadNames, Known, outside
<1>5. CASE register_all
  BY <1>5, Zenon DEF TypeOK, register_all, Quiet, outside
<1>6. CASE InitLoad
  <2>1. ASSUME file # Corrupt PROVE [file EXCEPT ![Default] = NewId] \in Table
    BY <2>1, Zenon DEF TypeOK, Table
  <2>2. init' \in {"load", "save", "done"} /\ claim' \in Table
    BY <1>6, <2>1, Zenon DEF TypeOK, InitLoad
  <2> QED BY <1>6, <2>2, Zenon DEF TypeOK, InitLoad, bus
<1>7. CASE InitSave
  BY <1>7, Zenon DEF TypeOK, InitSave, bus
<1>8. CASE Damage
  BY <1>8, Zenon DEF TypeOK, Damage, bus, outside
<1>9. CASE UNCHANGED vars
  BY <1>9, Zenon DEF TypeOK, vars, bus, outside
<1> QED BY <1>1, <1>2, <1>3, <1>4, <1>5, <1>6, <1>7, <1>8, <1>9, Zenon DEF Next

LEMMA TypeInit == Init => TypeOK
<1> SUFFICES ASSUME Init PROVE TypeOK
  BY Zenon
<1>1. Empty \in Table /\ Known(table) \subseteq Names
  BY Zenon DEF Empty, Table, Known
<1>2. /\ file \in Table /\ table \in Table /\ scan = NoScan /\ loaded \subseteq Ids
      /\ exported \subseteq Names /\ claim \in Table /\ init \in {"load", "save", "done"}
      /\ announce \in [at : {"idle", "read", "export"}, names : SUBSET Names]
  BY <1>1, AliasesAssumption, Zenon DEF Init, Quiet
<1>3. /\ pc \in [Writers -> {"unload", "edit", "write", "commit", "register", "done"}]
      /\ \A w \in Writers : pc[w] # "register"
      /\ op \in [Writers -> Ops] /\ base \in [Writers -> Table] /\ next \in [Writers -> Table]
      /\ result \in [Writers -> {"none", "committed", "not written", "unusable", "rejected"}]
  BY <1>1, Zenon DEF Init
<1>4. degraded \in BOOLEAN /\ disturbed \in BOOLEAN /\ written \in [Writers -> BOOLEAN]
  BY Zenon DEF Init
<1>5. attempt \in [Writers -> 1..Attempts] /\ reloads \in 0..MaxReloads
  <2>1. Attempts \in Nat \ {0} /\ MaxReloads \in Nat
    BY AliasesAssumption, Zenon
  <2> QED BY <2>1 DEF Init
<1> QED BY <1>2, <1>3, <1>4, <1>5, Zenon DEF TypeOK

(* Every variable of Aliases stays in its domain. *)
THEOREM TypeCorrect == Spec => []TypeOK
BY TypeInit, TypeStep, PTL DEF Spec

-----------------------------------------------------------------------------
(* Edits *)

LEMMA BaseStep == TypeOK /\ BaseInv /\ [Next]_vars => BaseInv'
<1> SUFFICES ASSUME TypeOK, BaseInv, [Next]_vars PROVE BaseInv'
  BY Zenon
<1>0. ASSUME UNCHANGED <<pc, op, base, next>> PROVE BaseInv'
  BY <1>0, Zenon DEF BaseInv
<1>1. ASSUME NEW w \in Writers, Edit(w) PROVE BaseInv'
  <2>1. UNCHANGED op /\ \A v \in Writers \ {w} :
           pc'[v] = pc[v] /\ next'[v] = next[v] /\ base'[v] = base[v]
    BY <1>1, Zenon DEF Edit, Return, TypeOK
  <2>2. \/ pc'[w] = "done"
        \/ next'[w] = Apply(op[w], table) /\ base'[w] = table
    BY <1>1, Zenon DEF Edit, Return, TypeOK
  <2>3. next'[w] = Apply(op[w], table) /\ base'[w] = table => next'[w] = Apply(op'[w], base'[w])
    BY <2>1, Zenon
  <2> QED BY <2>1, <2>2, <2>3, Zenon DEF BaseInv
<1>2. ASSUME NEW w \in Writers, Unload(w) \/ WriteFile(w) \/ Commit(w) \/ Register(w)
      PROVE  BaseInv'
  <2>1. UNCHANGED <<op, base, next>>
    BY <1>2, Zenon DEF Unload, WriteFile, Commit, Register
  <2>2. \A v \in Writers : pc'[v] \in {"write", "commit"} => pc[v] \in {"write", "commit"}
    BY <1>2, Zenon DEF Unload, WriteFile, Commit, Register, Return, TypeOK
  <2> QED BY <2>1, <2>2, Zenon DEF BaseInv
<1>3. CASE Scan \/ merge_scan \/ ReadNames \/ register_all \/ InitLoad \/ InitSave \/ Damage
  BY <1>0, <1>3, Zenon DEF Scan, merge_scan, ReadNames, register_all, InitLoad, InitSave, Damage
<1>4. CASE UNCHANGED vars
  BY <1>0, <1>4, Zenon DEF vars
<1> QED BY <1>1, <1>2, <1>3, <1>4, Zenon DEF Next, Step

(* update_aliases compares before it commits: whatever other calls and      *)
(* Reloads do in between, an attempt that is not the last applies its edit  *)
(* to the table as it is.                                                   *)
THEOREM OnlyTheLastMayOverwriteThm == Spec => OnlyTheLastMayOverwrite
<1> DEFINE Applies == \A w \in Writers :
          result[w] # result'[w] /\ result'[w] = "committed" /\ attempt[w] < Attempts
              => table' = Apply(op[w], table)
<1>1. TypeOK /\ BaseInv /\ [Next]_vars => [Applies]_vars
  <2> SUFFICES ASSUME TypeOK, BaseInv, [Next]_vars, NEW w \in Writers,
                      result[w] # result'[w], result'[w] = "committed", attempt[w] < Attempts
               PROVE  table' = Apply(op[w], table)
    BY Zenon
  <2>1. ASSUME NEW v \in Writers, Commit(v) PROVE table' = Apply(op[w], table)
    <3>1. v = w
      BY <2>1, Zenon DEF Commit, Return, TypeOK
    <3>2. pc[w] = "commit" /\ written[w] /\ ~Stale(w) /\ table' = next[w]
      BY <2>1, <3>1, Zenon DEF Commit, Return, MayRetry, TypeOK
    <3> QED BY <3>2, Zenon DEF BaseInv, Stale
  <2>2. ASSUME NEW v \in Writers, Unload(v) \/ Edit(v) \/ WriteFile(v) \/ Register(v)
        PROVE  FALSE
    BY <2>2, Zenon DEF Unload, Edit, WriteFile, Register, Return, TypeOK
  <2>3. CASE Scan \/ merge_scan \/ ReadNames \/ register_all \/ InitLoad \/ InitSave \/ Damage
    BY <2>3, Zenon DEF Scan, merge_scan, ReadNames, register_all, InitLoad, InitSave, Damage
  <2>4. CASE UNCHANGED vars
    BY <2>4, Zenon DEF vars
  <2> QED BY <2>1, <2>2, <2>3, <2>4, Zenon DEF Next, Step
<1>2. [][Applies]_vars <=> OnlyTheLastMayOverwrite
  BY Zenon DEF OnlyTheLastMayOverwrite
<1>3. Init => BaseInv
  BY Zenon DEF Init, BaseInv
<1> HIDE DEF Applies
<1> QED BY <1>1, <1>2, <1>3, TypeInit, TypeStep, BaseStep, PTL DEF Spec

-----------------------------------------------------------------------------
(* Enough attempts *)

LEMMA NoFewer ==
    ASSUME NEW S, NEW T, IsFiniteSet(T), S \subseteq T
    PROVE  Cardinality(S) \in Nat /\ Cardinality(T) \in Nat /\ Cardinality(S) <= Cardinality(T)
<1>1. IsFiniteSet(S) /\ Cardinality(S) <= Cardinality(T)
  BY FS_Subset, Zenon
<1> QED BY <1>1, FS_CardinalityType, Zenon

LEMMA OneMore ==
    ASSUME NEW S, NEW T, IsFiniteSet(T), S \subseteq T, NEW v \in T \ S
    PROVE  Cardinality(S) + 1 <= Cardinality(T)
<1>1. IsFiniteSet(S)
  BY FS_Subset, Zenon
<1>2. Cardinality(S \cup {v}) = Cardinality(S) + 1
  BY <1>1, FS_AddElement, Zenon
<1>3. S \cup {v} \subseteq T
  BY Zenon
<1> QED BY <1>2, <1>3, NoFewer, Zenon

LEMMA MergedType ==
    ASSUME TypeOK, RaceInv
    PROVE  Merged \in Nat /\ MaxReloads \in Nat /\ Merged <= MaxReloads
<1>1. MaxReloads \in Nat /\ reloads \in 0..MaxReloads /\ (scan # NoScan => reloads > 0)
  BY AliasesAssumption, Zenon DEF TypeOK, RaceInv
<1> QED BY <1>1, SMTT(30) DEF Merged

LEMMA PassedType ==
    ASSUME IsFiniteSet(Writers), TypeOK, RaceInv, NEW w \in Writers
    PROVE  /\ IsFiniteSet(Over(w)) /\ Cardinality(Over(w)) \in Nat /\ Merged \in Nat
           /\ Passed(w) \in Nat /\ attempt[w] \in Nat
           /\ Passed(w) + 1 <= Cardinality(Writers) + MaxReloads
<1>1. Over(w) \subseteq Writers /\ w \in Writers \ Over(w)
  BY Zenon DEF Over
<1>2. IsFiniteSet(Over(w))
  BY <1>1, FS_Subset, Zenon
<1>3. Cardinality(Over(w)) \in Nat /\ Cardinality(Writers) \in Nat
  BY <1>1, NoFewer, Zenon
<1>4. Cardinality(Over(w)) + 1 <= Cardinality(Writers)
  BY <1>1, OneMore, Zenon
<1>5. Merged \in Nat /\ MaxReloads \in Nat /\ Merged <= MaxReloads
  BY MergedType, Zenon
<1>6. attempt[w] \in 1..Attempts /\ Attempts \in Nat
  BY AliasesAssumption, Zenon DEF TypeOK
<1>7. attempt[w] \in Nat
  BY <1>6, SMTT(30)
<1> HIDE DEF Merged
<1>8. Passed(w) \in Nat /\ Passed(w) + 1 <= Cardinality(Writers) + MaxReloads
  BY <1>3, <1>4, <1>5, SMTT(30) DEF Passed
<1> QED BY <1>2, <1>3, <1>5, <1>7, <1>8, Zenon

(* A call at its commit with a stale base may still retry. *)
LEMMA RetryLeft ==
    ASSUME EnoughAttempts, TypeOK, RaceInv, NEW w \in Writers, pc[w] = "commit", Stale(w)
    PROVE  MayRetry(w)
<1>1. attempt[w] <= Passed(w)
  BY Zenon DEF RaceInv, Behind
<1>2. /\ Passed(w) \in Nat /\ attempt[w] \in Nat
      /\ Passed(w) + 1 <= Cardinality(Writers) + MaxReloads
  BY PassedType, Zenon DEF EnoughAttempts
<1>3. /\ Attempts >= Cardinality(Writers) + MaxReloads /\ Attempts \in Nat
      /\ Cardinality(Writers) \in Nat /\ MaxReloads \in Nat
  BY AliasesAssumption, FS_CardinalityType, Zenon DEF EnoughAttempts
<1>4. attempt[w] < Attempts
  BY <1>1, <1>2, <1>3, SMTT(30)
<1> QED BY <1>4, Zenon DEF MayRetry

(* What a step may do to one call: leave it, overtake it, or have it retry. *)
LEMMA RaceStep == IsFiniteSet(Writers) /\ TypeOK /\ RaceInv /\ [Next]_vars => RaceInv'
<1> SUFFICES ASSUME IsFiniteSet(Writers), TypeOK, RaceInv, [Next]_vars PROVE RaceInv'
  BY Zenon
<1>t. TypeOK'
  BY TypeStep, Zenon
<1>m. /\ scan' # NoScan => reloads' > 0
      /\ Merged' = Merged \/ (Merged' = Merged + 1 /\ merge_scan)
  <2>0. MaxReloads \in Nat /\ reloads \in 0..MaxReloads /\ (scan # NoScan => reloads > 0)
    BY AliasesAssumption, Zenon DEF TypeOK, RaceInv
  <2>1. CASE UNCHANGED <<scan, reloads>>
    BY <2>0, <2>1, Zenon DEF Merged
  <2>2. CASE Scan
    <3>1. scan = NoScan /\ scan' # NoScan /\ reloads' = reloads + 1
      BY <2>2, AliasesAssumption, Zenon DEF Scan, TypeOK
    <3> QED BY <2>0, <3>1, SMTT(30) DEF Merged
  <2>3. CASE merge_scan
    <3>1. scan # NoScan /\ scan' = NoScan /\ reloads' = reloads
      BY <2>3, Zenon DEF merge_scan
    <3>2. (scan' # NoScan => reloads' > 0) /\ Merged' = Merged + 1
      BY <2>0, <3>1, SMTT(30) DEF Merged
    <3> QED BY <2>3, <3>2, Zenon
  <2>4. Scan \/ merge_scan \/ UNCHANGED <<scan, reloads>>
    <3>1. ASSUME NEW w \in Writers, Step(w) PROVE UNCHANGED <<scan, reloads>>
      BY <3>1, Zenon DEF Step, Unload, Edit, WriteFile, Commit, Register
    <3>2. CASE ReadNames \/ register_all \/ InitLoad \/ InitSave \/ Damage \/ UNCHANGED vars
      BY <3>2, Zenon DEF ReadNames, register_all, InitLoad, InitSave, Damage, vars
    <3> QED BY <3>1, <3>2, Zenon DEF Next
  <2> QED BY <2>1, <2>2, <2>3, <2>4, Zenon
<1>1. ASSUME NEW w \in Writers
      PROVE  attempt'[w] <= Passed(w)' + 1 /\ (Behind(w)' => attempt'[w] <= Passed(w)')
  <2> DEFINE S == Over(w)
             T == Over(w)'
  <2>0. /\ IsFiniteSet(S) /\ Cardinality(S) \in Nat /\ Merged \in Nat
        /\ Passed(w) \in Nat /\ attempt[w] \in Nat
    BY PassedType, Zenon
  <2>f. IsFiniteSet(T)
    <3>1. T \subseteq Writers
      BY Zenon DEF Over
    <3> QED BY <3>1, FS_Subset, Zenon
  <2>b. attempt[w] <= Passed(w) + 1 /\ (Behind(w) => attempt[w] <= Passed(w))
    BY Zenon DEF RaceInv
  <2>p. Passed(w) = Cardinality(S) + Merged /\ Passed(w)' = Cardinality(T) + Merged'
    BY Zenon DEF Passed
  <2> HIDE DEF S, T
  <2>i. ASSUME S \subseteq T, attempt'[w] = attempt[w], Behind(w)' => Behind(w)
        PROVE  attempt'[w] <= Passed(w)' + 1 /\ (Behind(w)' => attempt'[w] <= Passed(w)')
    <3>1. Cardinality(T) \in Nat /\ Cardinality(S) <= Cardinality(T)
      BY <2>f, <2>i, NoFewer, Zenon
    <3>2. Merged' = Merged \/ Merged' = Merged + 1
      BY <1>m, Zenon
    <3> HIDE DEF Merged, Passed, Behind
    <3> QED BY <2>0, <2>b, <2>p, <2>i, <3>1, <3>2, SMTT(30)
  <2>j. ASSUME attempt'[w] = attempt[w],
               \/ S \subseteq T /\ Merged' = Merged + 1
               \/ \E v \in T : S \subseteq T /\ v \notin S
        PROVE  attempt'[w] <= Passed(w)' + 1 /\ (Behind(w)' => attempt'[w] <= Passed(w)')
    <3>1. Cardinality(T) \in Nat /\ Cardinality(S) <= Cardinality(T)
      BY <2>f, <2>j, NoFewer, Zenon
    <3>2. Merged' = Merged + 1 \/ Cardinality(S) + 1 <= Cardinality(T)
      BY <2>f, <2>j, OneMore, Zenon
    <3>3. Merged' = Merged \/ Merged' = Merged + 1
      BY <1>m, Zenon
    <3> HIDE DEF Merged, Passed, Behind
    <3> QED BY <2>0, <2>b, <2>p, <2>j, <3>1, <3>2, <3>3, SMTT(30)
  <2>k. ASSUME S \subseteq T, Behind(w), ~Behind(w)', attempt'[w] = attempt[w] + 1
        PROVE  attempt'[w] <= Passed(w)' + 1 /\ (Behind(w)' => attempt'[w] <= Passed(w)')
    <3>1. Cardinality(T) \in Nat /\ Cardinality(S) <= Cardinality(T)
      BY <2>f, <2>k, NoFewer, Zenon
    <3>2. Merged' = Merged \/ Merged' = Merged + 1
      BY <1>m, Zenon
    <3> HIDE DEF Merged, Passed, Behind
    <3> QED BY <2>0, <2>b, <2>p, <2>k, <3>1, <3>2, SMTT(30)
  <2>1. ASSUME UNCHANGED <<pc, attempt, base, table>>
        PROVE  S \subseteq T /\ attempt'[w] = attempt[w] /\ (Behind(w)' => Behind(w))
    BY <2>1, Zenon DEF S, T, Over, Behind, Stale
  <2>2. ASSUME NEW v \in Writers, Unload(v) \/ Edit(v) \/ WriteFile(v) \/ Register(v)
        PROVE  S \subseteq T /\ attempt'[w] = attempt[w] /\ (Behind(w)' => Behind(w))
    <3>1. UNCHANGED <<attempt, table>>
      BY <2>2, Zenon DEF Unload, Edit, WriteFile, Register
    <3>2. \A u \in Writers : pc[u] \in {"register", "done"} => pc'[u] \in {"register", "done"}
      BY <2>2, ZenonT(30) DEF Unload, Edit, WriteFile, Register, Return, TypeOK
    <3>3. pc'[w] \in {"write", "commit"} =>
             (pc[w] \in {"write", "commit"} /\ base'[w] = base[w]) \/ base'[w] = table
      BY <2>2, ZenonT(30) DEF Unload, Edit, WriteFile, Register, Return, TypeOK
    <3>4. S \subseteq T
      BY <3>2, Zenon DEF S, T, Over
    <3>5. Behind(w)' => Behind(w)
      BY <3>1, <3>3, Zenon DEF Behind, Stale
    <3> QED BY <3>1, <3>4, <3>5, Zenon
  <2>3. ASSUME NEW v \in Writers, Commit(v)
        PROVE  attempt'[w] <= Passed(w)' + 1 /\ (Behind(w)' => attempt'[w] <= Passed(w)')
    <3>1. /\ pc[v] = "commit"
          /\ \A u \in Writers \ {v} : pc'[u] = pc[u] /\ attempt'[u] = attempt[u]
          /\ base' = base
      BY <2>3, Zenon DEF Commit, Return, TypeOK
    <3>2. \/ pc'[v] \in {"register", "done"} /\ attempt'[v] = attempt[v]
          \/ Stale(v) /\ attempt'[v] = attempt[v] + 1 /\ pc'[v] = "edit" /\ table' = table
      BY <2>3, Zenon DEF Commit, Return, TypeOK
    <3>3. S \subseteq T
      BY <3>1, Zenon DEF S, T, Over
    <3>4. CASE w = v
      <4>1. ~Behind(w)'
        BY <3>2, <3>4, Zenon DEF Behind
      <4>2. Stale(v) => Behind(w)
        BY <3>1, <3>4, Zenon DEF Behind
      <4> QED BY <2>i, <2>k, <3>2, <3>3, <3>4, <4>1, <4>2, Zenon
    <3>5. CASE w # v /\ pc'[v] \in {"register", "done"}
      <4>1. v \in T /\ v \notin S
        BY <3>1, <3>5, Zenon DEF S, T, Over
      <4>2. attempt'[w] = attempt[w]
        BY <3>1, <3>5, Zenon
      <4> QED BY <2>j, <3>3, <4>1, <4>2, Zenon
    <3>6. CASE w # v /\ table' = table
      <4>1. attempt'[w] = attempt[w] /\ pc'[w] = pc[w]
        BY <3>1, <3>6, Zenon
      <4>2. Behind(w)' => Behind(w)
        BY <3>1, <3>6, <4>1, Zenon DEF Behind, Stale
      <4> QED BY <2>i, <3>3, <4>1, <4>2, Zenon
    <3> QED BY <3>2, <3>4, <3>5, <3>6, Zenon
  <2>4. CASE merge_scan
    <3>1. UNCHANGED <<pc, attempt>> /\ scan # NoScan /\ scan' = NoScan /\ reloads' = reloads
      BY <2>4, Zenon DEF merge_scan
    <3>2. S \subseteq T /\ attempt'[w] = attempt[w]
      BY <3>1, Zenon DEF S, T, Over
    <3>3. Merged' = Merged + 1
      <4>1. reloads \in 0..MaxReloads /\ MaxReloads \in Nat
        BY AliasesAssumption, Zenon DEF TypeOK
      <4> QED BY <3>1, <4>1, SMTT(30) DEF Merged
    <3> QED BY <2>j, <3>2, <3>3, Zenon
  <2>5. CASE Scan \/ ReadNames \/ register_all \/ InitLoad \/ InitSave \/ Damage
    BY <2>1, <2>5, <2>i, Zenon DEF Scan, ReadNames, register_all, InitLoad, InitSave, Damage
  <2>6. CASE UNCHANGED vars
    BY <2>1, <2>6, <2>i, Zenon DEF vars
  <2> QED BY <2>2, <2>3, <2>4, <2>5, <2>6, <2>i, Zenon DEF Next, Step
<1> QED BY <1>m, <1>1, Zenon DEF RaceInv

LEMMA RaceInit == IsFiniteSet(Writers) /\ Init => RaceInv
<1> SUFFICES ASSUME IsFiniteSet(Writers), Init PROVE RaceInv
  BY Zenon
<1>1. scan = NoScan /\ Merged = 0
  BY Zenon DEF Init, Merged
<1>2. ASSUME NEW w \in Writers
      PROVE  attempt[w] <= Passed(w) + 1 /\ (Behind(w) => attempt[w] <= Passed(w))
  <2>1. attempt[w] = 1 /\ ~Behind(w)
    BY Zenon DEF Init, Behind
  <2>2. Over(w) \subseteq Writers
    BY Zenon DEF Over
  <2>3. Cardinality(Over(w)) \in Nat
    BY <2>2, NoFewer, Zenon
  <2>4. Passed(w) = Cardinality(Over(w)) + 0
    BY <1>1, Zenon DEF Passed
  <2>5. attempt[w] <= Passed(w) + 1
    BY <2>1, <2>3, <2>4, SMTT(30)
  <2> QED BY <2>1, <2>5, Zenon
<1> QED BY <1>1, <1>2, Zenon DEF RaceInv

(* ALIAS_UPDATE_ATTEMPTS: no update is lost.  With more attempts than there *)
(* are other calls and Reloads, every call that commits applies its edit to *)
(* the table as it is, the last attempt included.                           *)
THEOREM EditAppliesToCurrentThm == EnoughAttempts => (Spec => EditAppliesToCurrent)
<1> SUFFICES ASSUME EnoughAttempts PROVE Spec => EditAppliesToCurrent
  BY Zenon
<1>0. IsFiniteSet(Writers)
  BY Zenon DEF EnoughAttempts
<1> DEFINE Applies == \A w \in Writers :
          pc[w] = "commit" /\ result[w] # result'[w] /\ result'[w] = "committed"
              => table' = Apply(op[w], table)
<1>1. TypeOK /\ BaseInv /\ RaceInv /\ [Next]_vars => [Applies]_vars
  <2> SUFFICES ASSUME TypeOK, BaseInv, RaceInv, [Next]_vars, NEW w \in Writers,
                      pc[w] = "commit", result[w] # result'[w], result'[w] = "committed"
               PROVE  table' = Apply(op[w], table)
    BY Zenon
  <2>1. ASSUME NEW v \in Writers, Commit(v) PROVE table' = Apply(op[w], table)
    <3>1. v = w
      BY <2>1, Zenon DEF Commit, Return, TypeOK
    <3>2. Stale(w) => MayRetry(w)
      BY RetryLeft, Zenon
    <3>3. written[w] /\ ~Stale(w) /\ table' = next[w]
      BY <2>1, <3>1, <3>2, Zenon DEF Commit, Return, TypeOK
    <3> QED BY <3>3, Zenon DEF BaseInv, Stale
  <2>2. ASSUME NEW v \in Writers, Unload(v) \/ Edit(v) \/ WriteFile(v) \/ Register(v)
        PROVE  FALSE
    BY <2>2, Zenon DEF Unload, Edit, WriteFile, Register, Return, TypeOK
  <2>3. CASE Scan \/ merge_scan \/ ReadNames \/ register_all \/ InitLoad \/ InitSave \/ Damage
    BY <2>3, Zenon DEF Scan, merge_scan, ReadNames, register_all, InitLoad, InitSave, Damage
  <2>4. CASE UNCHANGED vars
    BY <2>4, Zenon DEF vars
  <2> QED BY <2>1, <2>2, <2>3, <2>4, Zenon DEF Next, Step
<1>2. [][Applies]_vars <=> EditAppliesToCurrent
  BY Zenon DEF EditAppliesToCurrent
<1>3. Init => BaseInv
  BY Zenon DEF Init, BaseInv
<1> HIDE DEF Applies
<1> QED BY <1>0, <1>1, <1>2, <1>3, TypeInit, TypeStep, BaseStep, RaceInit, RaceStep, PTL DEF Spec

(* A table that a Reload could not read stays as it was until a Reload can. *)
THEOREM DegradedTableIsKeptThm == Spec => DegradedTableIsKept
<1> DEFINE Kept == /\ degraded' => table' = table
                   /\ degraded /\ ~degraded' => scan # NoScan /\ table' = scan
<1>1. TypeOK /\ [Next]_vars => [Kept]_vars
  <2> SUFFICES ASSUME TypeOK, [Next]_vars PROVE Kept
    BY Zenon
  <2>0. ASSUME UNCHANGED <<degraded, table>> PROVE Kept
    BY <2>0, Zenon
  <2>1. ASSUME NEW w \in Writers, Commit(w) PROVE Kept
    BY <2>1, Zenon DEF Commit
  <2>2. ASSUME NEW w \in Writers, Unload(w) \/ Edit(w) \/ WriteFile(w) \/ Register(w)
        PROVE  Kept
    BY <2>0, <2>2, Zenon DEF Unload, Edit, WriteFile, Register
  <2>3. CASE merge_scan
    BY <2>3, Zenon DEF merge_scan, TypeOK
  <2>4. CASE Scan \/ ReadNames \/ register_all \/ InitLoad \/ InitSave \/ Damage
    BY <2>0, <2>4, Zenon DEF Scan, ReadNames, register_all, InitLoad, InitSave, Damage
  <2>5. CASE UNCHANGED vars
    BY <2>0, <2>5, Zenon DEF vars
  <2> QED BY <2>1, <2>2, <2>3, <2>4, <2>5, Zenon DEF Next, Step
<1>2. [][Kept]_vars <=> DegradedTableIsKept
  BY Zenon DEF DegradedTableIsKept
<1> HIDE DEF Kept
<1> QED BY <1>1, <1>2, TypeInit, TypeStep, PTL DEF Spec

-----------------------------------------------------------------------------
(* Objects on the bus *)

(* An edit that clears no name adds at most its own. *)
LEMMA ApplyKnows ==
    ASSUME NEW o \in Op, o.kind # "clear", NEW t \in Table, NEW n \in Known(Apply(o, t))
    PROVE  n \in Known(t) \/ (o.kind # "drop" /\ o.name = n)
<1>1. CASE o.kind = "drop"
  <2>1. Apply(o, t) = [m \in Names |-> IF t[m] = o.id THEN Free ELSE t[m]]
    BY <1>1, Zenon DEF Apply
  <2> QED BY <2>1, Zenon DEF Known
<1>2. CASE o.kind # "drop"
  <2>1. o.name \in Names /\ Apply(o, t) = [t EXCEPT ![o.name] = o.id]
    BY <1>2, Zenon DEF Apply, Op
  <2> QED BY <1>2, <2>1, Zenon DEF Known, Table
<1> QED BY <1>1, <1>2, Zenon

LEMMA ExportStep ==
    EnoughAttempts /\ TypeOK /\ BaseInv /\ RaceInv /\ ExportInv /\ [Next]_vars => ExportInv'
<1> SUFFICES ASSUME EnoughAttempts, TypeOK, BaseInv, RaceInv, ExportInv, [Next]_vars,
                    \A w \in Writers : op'[w].kind # "clear", NEW n \in Known(table')
             PROVE  Due(n)'
  BY Zenon DEF ExportInv, Known
<1>0. op' = op
  <2>1. ASSUME NEW w \in Writers, Step(w) PROVE op' = op
    BY <2>1, Zenon DEF Step, Unload, Edit, WriteFile, Commit, Register
  <2>2. CASE Scan \/ merge_scan \/ ReadNames \/ register_all \/ InitLoad \/ InitSave \/ Damage
    BY <2>2, Zenon DEF Scan, merge_scan, ReadNames, register_all, InitLoad, InitSave, Damage
  <2> QED BY <2>1, <2>2, Zenon DEF Next, vars
<1>1. n \in Known(table) => Due(n)
  BY <1>0, Zenon DEF ExportInv
<1>2. \A w \in Writers : op[w] \in Op /\ op[w].kind # "clear"
  BY <1>0, AliasesAssumption, Zenon DEF TypeOK
<1>3. ASSUME UNCHANGED <<table, exported, announce, pc>> PROVE Due(n)'
  BY <1>0, <1>1, <1>3, Zenon DEF Due
<1>4. ASSUME NEW w \in Writers, Unload(w) \/ Edit(w) \/ WriteFile(w) PROVE Due(n)'
  <2>1. UNCHANGED <<table, exported, announce>>
    BY <1>4, Zenon DEF Unload, Edit, WriteFile, bus
  <2>2. \A v \in Writers : pc[v] = "register" => pc'[v] = "register"
    BY <1>4, ZenonT(30) DEF Unload, Edit, WriteFile, Return, TypeOK
  <2> QED BY <1>0, <1>1, <2>1, <2>2, Zenon DEF Due
<1>5. ASSUME NEW w \in Writers, Commit(w) PROVE Due(n)'
  <2>1. UNCHANGED <<exported, announce>>
    BY <1>5, Zenon DEF Commit, bus
  <2>2. \A v \in Writers : pc[v] = "register" => pc'[v] = "register"
    BY <1>5, Zenon DEF Commit, Return, TypeOK
  <2>3. Due(n) => Due(n)'
    BY <1>0, <2>1, <2>2, Zenon DEF Due
  <2>4. CASE table' = table
    BY <1>1, <2>3, <2>4, Zenon
  <2>5. CASE table' # table
    <3>1. Stale(w) => MayRetry(w)
      BY <1>5, RetryLeft, Zenon DEF Commit
    <3>2. /\ pc[w] = "commit" /\ base[w] = table /\ table' = next[w]
          /\ op[w].kind # "drop" => pc'[w] = "register"
      BY <1>5, <2>5, <3>1, Zenon DEF Commit, Return, TypeOK, Stale
    <3>3. table' = Apply(op[w], table) /\ table \in Table
      BY <3>2, Zenon DEF BaseInv, TypeOK
    <3>4. n \in Known(Apply(op[w], table))
      BY <3>3, Zenon
    <3>5. n \in Known(table) \/ (op[w].kind # "drop" /\ op[w].name = n)
      BY <1>2, <3>3, <3>4, ApplyKnows, Zenon
    <3>6. ASSUME op[w].kind # "drop", op[w].name = n PROVE Due(n)'
      BY <1>0, <3>2, <3>6, Zenon DEF Due
    <3> QED BY <1>1, <2>3, <3>5, <3>6, Zenon
  <2> QED BY <2>4, <2>5, Zenon
<1>6. ASSUME NEW w \in Writers, Register(w) PROVE Due(n)'
  <2>1. UNCHANGED <<table, announce>> /\ exported' = exported \cup {op[w].name}
    BY <1>2, <1>6, Zenon DEF Register
  <2>2. \A v \in Writers \ {w} : pc'[v] = pc[v]
    BY <1>6, Zenon DEF Register, TypeOK
  <2> QED BY <1>0, <1>1, <2>1, <2>2, Zenon DEF Due
<1>7. CASE merge_scan
  BY <1>7, Zenon DEF merge_scan, Quiet, Due
<1>8. CASE ReadNames
  <2>1. announce'.at = "export" /\ announce'.names = Known(table) /\ table' = table
    BY <1>8, Zenon DEF ReadNames
  <2> QED BY <2>1, Zenon DEF Due
<1>9. CASE register_all
  <2>1. /\ announce.at = "export" /\ exported' = exported \cup announce.names
        /\ UNCHANGED <<table, pc>>
    BY <1>9, Zenon DEF register_all
  <2> QED BY <1>0, <1>1, <2>1, Zenon DEF Due
<1>10. CASE Scan \/ InitLoad \/ InitSave \/ Damage
  BY <1>3, <1>10, Zenon DEF Scan, InitLoad, InitSave, Damage, bus
<1>11. CASE UNCHANGED vars
  BY <1>3, <1>11, Zenon DEF vars, bus
<1> QED BY <1>4, <1>5, <1>6, <1>7, <1>8, <1>9, <1>10, <1>11, Zenon DEF Next, Step

(* register_alias and register_all: once every call is answered, every      *)
(* alias the daemon knows has its object on the bus.  A clear is outside    *)
(* the property, and without EnoughAttempts a last attempt may bring back a *)
(* name that was dropped before register_all read the names.                *)
THEOREM AliasIsExportedThm == EnoughAttempts => (Spec => []AliasIsExported)
<1> SUFFICES ASSUME EnoughAttempts PROVE Spec => []AliasIsExported
  BY Zenon
<1>1. IsFiniteSet(Writers)
  BY Zenon DEF EnoughAttempts
<1>2. Init => BaseInv /\ ExportInv
  BY Zenon DEF Init, BaseInv, ExportInv, Due
<1>3. ExportInv => AliasIsExported
  <2> SUFFICES ASSUME ExportInv, Answered, \A w \in Writers : op[w].kind # "clear",
                      NEW n \in Known(table)
               PROVE  n \in exported
    BY Zenon DEF AliasIsExported
  <2>1. announce.at = "idle" /\ \A w \in Writers : pc[w] = "done"
    BY Zenon DEF Answered, AllDone, Quiet
  <2>2. Due(n)
    BY Zenon DEF ExportInv
  <2> QED BY <2>1, <2>2, Zenon DEF Due
<1> QED BY <1>1, <1>2, <1>3, TypeInit, TypeStep, BaseStep, RaceInit, RaceStep, ExportStep,
           PTL DEF Spec

-----------------------------------------------------------------------------
(* The bound *)

LEMMA MostGrows ==
    ASSUME TypeOK, [Next]_vars
    PROVE  /\ Most \in Nat /\ Most' \in Nat /\ MaxAliases \in Nat
           /\ MaxAliases <= Most /\ Most <= Most'
<1>1. init' = "load" => init = "load"
  <2>1. ASSUME NEW w \in Writers, Step(w) PROVE init' = init
    BY <2>1, Zenon DEF Step, Unload, Edit, WriteFile, Commit, Register, outside
  <2>2. CASE Scan \/ merge_scan \/ ReadNames \/ register_all \/ Damage
    BY <2>2, Zenon DEF Scan, merge_scan, ReadNames, register_all, Damage, outside
  <2>3. CASE InitLoad \/ InitSave
    BY <2>3, Zenon DEF InitLoad, InitSave
  <2>4. CASE UNCHANGED vars
    BY <2>4, Zenon DEF vars, outside
  <2> QED BY <2>1, <2>2, <2>3, <2>4, Zenon DEF Next
<1>2. MaxAliases \in Nat /\ MaxAliases + 1 \in Nat /\ MaxAliases + 0 = MaxAliases
  BY AliasesAssumption
<1> QED BY <1>1, <1>2 DEF Most

LEMMA StillWithin ==
    ASSUME TypeOK, [Next]_vars, NEW t, Within(t)
    PROVE  Size(t) <= Most'
<1>1. Size(t) \in Nat /\ Most \in Nat /\ Most' \in Nat /\ Most <= Most'
  BY MostGrows, SizeType, Zenon
<1> QED BY <1>1 DEF Within

LEMMA SizeStep == TypeOK /\ SizeInv /\ [Next]_vars => SizeInv'
<1> SUFFICES ASSUME TypeOK, SizeInv, [Next]_vars PROVE SizeInv'
  OBVIOUS
<1>0. ASSUME /\ ~Inits => init' = "done"
             /\ Size(table') <= Most' /\ (file' # Corrupt => Size(file') <= Most')
             /\ scan' \notin {Corrupt, NoScan} => Size(scan') <= Most'
             /\ \A w \in Writers : pc'[w] \in {"write", "commit"} => Size(next'[w]) <= Most'
             /\ init' = "save" => Size(claim') <= Most'
      PROVE  SizeInv'
  BY <1>0, Zenon DEF SizeInv, Within, Most, Size, Known
<1>1. /\ Size(table) <= Most' /\ (file # Corrupt => Size(file) <= Most')
      /\ scan \notin {Corrupt, NoScan} => Size(scan) <= Most'
      /\ \A w \in Writers : pc[w] \in {"write", "commit"} => Size(next[w]) <= Most'
      /\ init = "save" => Size(claim) <= Most'
      /\ ~Inits => init = "done"
  BY StillWithin, Zenon DEF SizeInv
<1>2. ASSUME NEW w \in Writers, Edit(w) PROVE SizeInv'
  <2>1. UNCHANGED <<file, table, scan, init, claim>>
    BY <1>2, Zenon DEF Edit, outside
  <2>2. \A v \in Writers \ {w} : pc'[v] = pc[v] /\ next'[v] = next[v]
    BY <1>2, Zenon DEF Edit, Return, TypeOK
  <2>3. pc'[w] = "done" \/ (~Refused(op[w], table) /\ next'[w] = Apply(op[w], table))
    BY <1>2, Zenon DEF Edit, Return, TypeOK
  <2>4. ASSUME ~Refused(op[w], table) PROVE Size(Apply(op[w], table)) <= Most'
    <3>1. op[w] \in Op /\ table \in Table
      BY AliasesAssumption, Zenon DEF TypeOK
    <3>2. Most' \in Nat /\ MaxAliases <= Most' /\ Size(table) <= Most'
      <4>1. MaxAliases \in Nat /\ Most \in Nat /\ Most' \in Nat
            /\ MaxAliases <= Most /\ Most <= Most'
        BY MostGrows, Zenon
      <4> QED BY <1>1, <4>1
    <3> QED BY <2>4, <3>1, <3>2, ApplyFits, Zenon
  <2>5. \A v \in Writers : pc'[v] \in {"write", "commit"} => Size(next'[v]) <= Most'
    BY <1>1, <2>2, <2>3, <2>4, Zenon
  <2> QED BY <1>0, <1>1, <2>1, <2>5, Zenon
<1>3. ASSUME NEW w \in Writers, Unload(w) \/ WriteFile(w) \/ Commit(w) \/ Register(w)
      PROVE  SizeInv'
  <2>1. UNCHANGED <<next, scan, init, claim>>
    BY <1>3, Zenon DEF Unload, WriteFile, Commit, Register, outside
  <2>2. \A v \in Writers : pc'[v] \in {"write", "commit"} => pc[v] \in {"write", "commit"}
    BY <1>3, ZenonT(30) DEF Unload, WriteFile, Commit, Register, Return, TypeOK
  <2>3. (table' = table \/ (pc[w] = "commit" /\ table' = next[w]))
        /\ (file' = file \/ (pc[w] = "write" /\ file' = next[w]))
    BY <1>3, Zenon DEF Unload, WriteFile, Commit, Register
  <2>4. Size(table') <= Most' /\ (file' # Corrupt => Size(file') <= Most')
    BY <1>1, <2>3, Zenon
  <2> QED BY <1>0, <1>1, <2>1, <2>2, <2>4, Zenon
<1>4. CASE Scan
  BY <1>0, <1>1, <1>4, AliasesAssumption, Zenon DEF Scan, outside, TypeOK
<1>5. CASE merge_scan
  <2>1. UNCHANGED <<file, next, pc, init, claim>> /\ scan' = NoScan
        /\ (table' = table \/ (scan \notin {Corrupt, NoScan} /\ table' = scan))
    BY <1>5, Zenon DEF merge_scan, outside
  <2> QED BY <1>0, <1>1, <2>1, Zenon
<1>6. CASE ReadNames \/ register_all
  BY <1>0, <1>1, <1>6, Zenon DEF ReadNames, register_all, outside
<1>7. CASE InitLoad
  <2>1. UNCHANGED <<file, table, scan, next, pc>> /\ init = "load" /\ Inits
    BY <1>1, <1>7, Zenon DEF InitLoad
  <2>2. ASSUME init' = "save" PROVE Size(claim') <= Most'
    <3>1. file # Corrupt /\ claim' = [file EXCEPT ![Default] = NewId]
      BY <1>7, <2>2, Zenon DEF InitLoad
    <3>2. file \in Table /\ Default \in Names /\ NewId \in Ids /\ MaxAliases \in Nat
      BY <3>1, AliasesAssumption, Zenon DEF TypeOK
    <3>3. Size(claim') <= Size(file) + 1
      BY <3>1, <3>2, OneMoreName, Zenon
    <3>4. Most' = MaxAliases + 1 /\ Most = MaxAliases
      BY <2>1, <2>2, <3>2 DEF Most
    <3>5. Size(file) <= Most /\ Size(file) \in Nat /\ Size(claim') \in Nat
      BY <3>1, SizeType, Zenon DEF SizeInv, Within
    <3> QED BY <3>2, <3>3, <3>4, <3>5
  <2> QED BY <1>0, <1>1, <2>1, <2>2, Zenon
<1>8. CASE InitSave
  <2>1. UNCHANGED <<table, scan, next, pc, claim>> /\ init = "save" /\ init' = "done"
        /\ (file' = file \/ file' = claim)
    BY <1>8, Zenon DEF InitSave
  <2> QED BY <1>0, <1>1, <2>1, Zenon
<1>9. CASE Damage
  BY <1>0, <1>1, <1>9, Zenon DEF Damage, outside
<1>10. CASE UNCHANGED vars
  BY <1>0, <1>1, <1>10, Zenon DEF vars, outside
<1> QED BY <1>2, <1>3, <1>4, <1>5, <1>6, <1>7, <1>8, <1>9, <1>10, Zenon DEF Next, Step

(* MAX_ALIASES bounds the table in memory and in the file, however the      *)
(* checks of several calls interleave with their commits, if it bounds the  *)
(* file the daemon starts from; beside the daemon `sm init` may add one.    *)
THEOREM TableBoundedThm == StartFits => (Spec => []TableBounded)
<1> SUFFICES ASSUME StartFits PROVE Spec => []TableBounded
  BY Zenon
<1>1. Init => SizeInv
  <2> SUFFICES ASSUME Init PROVE SizeInv
    BY Zenon
  <2>1. /\ file = table /\ Size(table) <= MaxAliases /\ scan = NoScan
        /\ \A w \in Writers : pc[w] \notin {"write", "commit"}
        /\ init = IF Inits THEN "load" ELSE "done"
    BY Zenon DEF Init, StartFits
  <2>2. Most = MaxAliases
    BY <2>1, AliasesAssumption DEF Most
  <2> QED BY <2>1, <2>2, Zenon DEF SizeInv, Within
<1>2. TypeOK /\ SizeInv => TableBounded
  <2> SUFFICES ASSUME TypeOK, SizeInv PROVE TableBounded
    BY Zenon
  <2> DEFINE most == MaxAliases + (IF Inits THEN 1 ELSE 0)
  <2>1. MaxAliases \in Nat /\ Size(table) \in Nat /\ Size(file) \in Nat
    BY AliasesAssumption, SizeType, Zenon
  <2>2. Most <= most /\ Most \in Nat /\ most \in Nat
    BY <2>1 DEF Most
  <2> HIDE DEF most
  <2>3. Size(table) <= most /\ (file # Corrupt => Size(file) <= most)
    BY <2>1, <2>2 DEF SizeInv, Within
  <2> QED BY <2>3, Zenon DEF TableBounded, most
<1> QED BY <1>1, <1>2, TypeInit, TypeStep, SizeStep, PTL DEF Spec
=============================================================================
