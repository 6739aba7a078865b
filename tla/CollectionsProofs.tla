------------------------- MODULE CollectionsProofs -------------------------
(***************************************************************************)
(* Proofs about module Collections, for any number of creates, writes,     *)
(* names, attempts and Reloads.                                            *)
(***************************************************************************)
EXTENDS Collections, TLAPS

-----------------------------------------------------------------------------
(* Sequences *)

LEMMA One ==
    ASSUME NEW S, NEW r \in S
    PROVE  /\ <<r>> \in Seq(S) /\ Len(<<r>>) = 1 /\ <<r>>[1] = r
           /\ <<>> \in Seq(S) /\ Len(<<>>) = 0
BY SMTT(30)

LEMMA AppendIs ==
    ASSUME NEW S, NEW q \in Seq(S), NEW r \in S
    PROVE  /\ Append(q, r) \in Seq(S) /\ Len(Append(q, r)) = Len(q) + 1
           /\ Append(q, r)[Len(q) + 1] = r
           /\ \A k \in 1..Len(q) : Append(q, r)[k] = q[k]
BY SMTT(30)

LEMMA ExceptIs ==
    ASSUME NEW S, NEW q \in Seq(S), NEW v \in 1..Len(q), NEW r \in S
    PROVE  /\ [q EXCEPT ![v] = r] \in Seq(S) /\ Len([q EXCEPT ![v] = r]) = Len(q)
           /\ [q EXCEPT ![v] = r][v] = r
           /\ \A k \in 1..Len(q) : k # v => [q EXCEPT ![v] = r][k] = q[k]
BY SMTT(30)

-----------------------------------------------------------------------------
(* Vaults: what an operation on one of them does to the others *)

(* A write's content is never NoFile, and a call is of one kind. *)
LEMMA Constants ==
    /\ Ids[1] \in Id /\ NoVault = 0
    /\ \A items \in SUBSET Writers : items # NoFile
    /\ \A c \in Creators : c \in Actors /\ c \notin Deleters /\ c \notin Writers
    /\ \A d \in Deleters : d \in Actors /\ d \notin Creators /\ d \notin Writers
    /\ \A w \in Writers : w \in Actors /\ w \notin Creators /\ w \notin Deleters
<1>1. Ids[1] \in Id
  BY CollectionsAssumption DEF CollectionsAssumption, Id, Range
<1> QED BY <1>1, CollectionsAssumption, Zenon DEF NoVault, Actors

Replaced(j, v, r) == [vaults EXCEPT ![j] = [vaults[j] EXCEPT ![v] = r]]

(* Replacing one vault's record changes nothing else. *)
LEMMA Put ==
    ASSUME TypeOK, NEW j \in Id, NEW v \in 1..Len(vaults[j]), NEW r \in Vault,
           vaults' = Replaced(j, v, r)
    PROVE  /\ vaults' \in [Id -> Seq(Vault)]
           /\ \A i \in Id : Len(vaults'[i]) = Len(vaults[i])
           /\ vaults'[j][v] = r
           /\ \A i \in Id : \A n \in 1..Len(vaults[i]) :
                i # j \/ n # v => vaults'[i][n] = vaults[i][n]
           /\ Live(j, v)' <=> ~r.retired
           /\ \A i \in Id : \A n \in Nat : i # j \/ n # v => (Live(i, n)' <=> Live(i, n))
<1>0. vaults \in [Id -> Seq(Vault)] /\ vaults[j] \in Seq(Vault)
  BY Zenon DEF TypeOK
<1> DEFINE q == [vaults[j] EXCEPT ![v] = r]
<1>1. /\ q \in Seq(Vault) /\ Len(q) = Len(vaults[j]) /\ q[v] = r
      /\ \A k \in 1..Len(vaults[j]) : k # v => q[k] = vaults[j][k]
  BY <1>0, ExceptIs
<1> HIDE DEF q
<1>2. vaults' = [vaults EXCEPT ![j] = q]
  BY Zenon DEF q, Replaced
<1>3. vaults'[j] = q /\ (\A i \in Id : i # j => vaults'[i] = vaults[i])
      /\ vaults' \in [Id -> Seq(Vault)]
  BY <1>0, <1>1, <1>2, Zenon
<1>4. \A i \in Id : Len(vaults'[i]) = Len(vaults[i])
  BY <1>1, <1>3, Zenon
<1>5. \A i \in Id : \A n \in 1..Len(vaults[i]) : i # j \/ n # v => vaults'[i][n] = vaults[i][n]
  BY <1>1, <1>3, Zenon
<1>6. vaults'[j][v] = r
  BY <1>1, <1>3, Zenon
<1>7. Live(j, v)' <=> ~r.retired
  BY <1>4, <1>6, Zenon DEF Live
<1>8. \A i \in Id : \A n \in Nat : i # j \/ n # v => (Live(i, n)' <=> Live(i, n))
  <2> SUFFICES ASSUME NEW i \in Id, NEW n \in Nat, i # j \/ n # v
               PROVE  Live(i, n)' <=> Live(i, n)
    BY Zenon
  <2>1. n \in 1..Len(vaults[i]) => vaults'[i][n] = vaults[i][n]
    BY <1>5, Zenon
  <2> QED BY <1>4, <2>1, Zenon DEF Live
<1> QED BY <1>3, <1>4, <1>5, <1>6, <1>7, <1>8, Zenon

Added(j, m, r) == m = Len(vaults[j]) /\ vaults'[j] = Append(vaults[j], r)

(* A newly constructed vault is the last of its name. *)
LEMMA Add ==
    ASSUME TypeOK, NEW j \in Id, NEW r \in Vault, NEW CONSTANT m, Added(j, m, r)
    PROVE  /\ vaults'[j] \in Seq(Vault) /\ Len(vaults'[j]) = m + 1
           /\ m \in Nat /\ m + 1 \in Nat /\ m + 1 # 0 /\ m <= m + 1
           /\ vaults'[j][m + 1] = r
           /\ \A n \in 1..m : vaults'[j][n] = vaults[j][n]
           /\ Live(j, m + 1)' <=> ~r.retired
           /\ \A n \in Nat : n # m + 1 => (Live(j, n)' <=> Live(j, n))
           /\ ~Live(j, m + 1)
<1>0. vaults[j] \in Seq(Vault)
  BY Zenon DEF TypeOK
<1>1. /\ vaults'[j] \in Seq(Vault) /\ Len(vaults'[j]) = m + 1
      /\ vaults'[j][m + 1] = r
      /\ \A k \in 1..m : vaults'[j][k] = vaults[j][k]
  BY <1>0, AppendIs DEF Added
<1>2. m \in Nat /\ m = Len(vaults[j])
  BY <1>0 DEF Added
<1>3. /\ m + 1 \in Nat /\ m + 1 \in 1..(m + 1) /\ m + 1 \notin 1..m /\ m + 1 # 0 /\ m <= m + 1
      /\ \A n \in Nat : n # m + 1 => (n \in 1..(m + 1) <=> n \in 1..m)
  BY <1>2, SMTT(30)
<1>4. Live(j, m + 1)' <=> ~r.retired
  BY <1>2, <1>1, <1>3, Zenon DEF Live
<1>5. ~Live(j, m + 1)
  BY <1>2, <1>3, Zenon DEF Live
<1>6. \A n \in Nat : n # m + 1 => (Live(j, n)' <=> Live(j, n))
  BY <1>2, <1>1, <1>3, Zenon DEF Live
<1> QED BY <1>1, <1>2, <1>3, <1>4, <1>5, <1>6, Zenon

(* Whether a vault is retired depends on the vaults of its own name only. *)
LEMMA Same ==
    ASSUME NEW i \in Id, vaults'[i] = vaults[i], NEW n
    PROVE  Live(i, n)' <=> Live(i, n)
BY Zenon DEF Live

(* A new vault is not retired and holds what it was made with. *)
LEMMA NewVaultType ==
    ASSUME NEW items \in SUBSET Writers, NEW b \in BOOLEAN
    PROVE  /\ NewVault(items, b) \in Vault /\ ~NewVault(items, b).retired
           /\ NewVault(items, b).items = items
BY DEF NewVault, Vault

(* A vault with one more item. *)
LEMMA Written ==
    ASSUME NEW u \in Vault, NEW a \in Writers
    PROVE  LET r == [u EXCEPT !.items = @ \cup {a}] IN
           r \in Vault /\ r.items = u.items \cup {a} /\ r.items \in SUBSET Writers
BY DEF Vault

(* A vault that delete_collection has retired. *)
LEMMA Retired ==
    ASSUME NEW u \in Vault
    PROVE  [u EXCEPT !.retired = TRUE] \in Vault /\ [u EXCEPT !.retired = TRUE].retired
BY Zenon DEF Vault

-----------------------------------------------------------------------------
(* Steps that leave files, map and vaults alone *)

(* A step that touches no file, map or vault keeps the invariant if it takes *)
(* only live references and no call enters or leaves the two steps between  *)
(* an unlink and its unlisting.                                             *)
LEMMA Quiet ==
    ASSUME IndInv, UNCHANGED <<file, map, vaults, scanned, reloads>>,
           \A a \in Actors : pc[a] = "failed" => pc'[a] = "failed",
           \A d \in Deleters : pc[d] = "remove" => pc'[d] = "remove",
           \A d \in Deleters : pc'[d] = "remove" => pc[d] = "remove",
           \A d \in Deleters : pc[d] = "remove" => id'[d] = id[d],
           \A c \in Creators :
              pc'[c] = "insert" => pc[c] = "insert" /\ id'[c] = id[c] /\ ref'[c] = ref[c],
           \A d \in Deleters : pc'[d] = "unlink" =>
              \/ pc[d] = "unlink" /\ id'[d] = id[d] /\ ref'[d] = ref[d]
              \/ Live(id'[d], ref'[d]) /\ ref'[d] = map[id'[d]] /\ id'[d] \in Id,
           \A w \in Writers : pc'[w] = "write" =>
              \/ pc[w] = "write" /\ id'[w] = id[w] /\ ref'[w] = ref[w]
              \/ ref'[w] \in 1..Len(vaults[id'[w]])
    PROVE  FileInv' /\ MapInv' /\ ModeInv' /\ RefInv' /\ ScanInv'
<1>0. TypeOK /\ FileInv /\ MapInv /\ ModeInv /\ RefInv /\ ScanInv
  BY Zenon DEF IndInv
<1>1. \A i, n : Live(i, n)' <=> Live(i, n)
  BY Zenon DEF Live
<1>2. FileInv'
  BY <1>0, <1>1, Zenon DEF FileInv
<1>3. MapInv'
  <2> SUFFICES ASSUME NEW i \in Id, map[i] # NoVault
               PROVE  Live(i, map[i])' \/ \E d \in Deleters : pc'[d] = "remove" /\ id'[d] = i
    BY Zenon DEF MapInv
  <2>1. Live(i, map[i]) \/ \E d \in Deleters : pc[d] = "remove" /\ id[d] = i
    BY <1>0, Zenon DEF MapInv
  <2> QED BY <2>1, ZenonT(30) DEF Live
<1>4. ModeInv'
  BY <1>0, Constants, Zenon DEF ModeInv, MayScan
<1>5. RefInv'
  <2>1. \A w \in Writers : pc'[w] = "write" => ref'[w] \in 1..Len(vaults'[id'[w]])
    BY <1>0, Zenon DEF RefInv
  <2>2. \A d \in Deleters : pc'[d] = "unlink" => Live(id[d], ref[d])'
    BY <1>0, Zenon DEF RefInv, Live
  <2>3. ASSUME NEW c \in Creators, NEW d \in Deleters, pc'[c] = "insert", pc'[d] = "unlink"
        PROVE  id'[d] # id'[c]
    <3>1. /\ Live(id[c], ref[c]) /\ map[id[c]] # ref[c] /\ id'[c] = id[c]
          /\ pc[d] = "unlink" => id[d] # id[c]
      BY <1>0, <2>3, Zenon DEF RefInv
    <3>2. id[c] \in Id /\ ref[c] \in Nat /\ \A i \in Id : map[i] \in Nat
      BY <1>0, Constants, Zenon DEF TypeOK
    <3>3. \A i \in Id : Live(i, map[i]) /\ i = id[c] => map[i] = ref[c]
      BY <1>0, <3>1, <3>2, SMTT(30) DEF FileInv
    <3> QED BY <2>3, <3>1, <3>3, ZenonT(30)
  <2>4. ASSUME NEW c \in Creators, pc'[c] = "insert"
        PROVE  /\ Live(id[c], ref[c])' /\ map'[id'[c]] # ref'[c]
               /\ \A e \in Creators : pc'[e] = "insert" /\ id'[e] = id'[c] => e = c
    <3>1. /\ Live(id[c], ref[c]) /\ map[id[c]] # ref[c] /\ id'[c] = id[c] /\ ref'[c] = ref[c]
          /\ \A e \in Creators : pc[e] = "insert" /\ id[e] = id[c] => e = c
      BY <1>0, <2>4, Zenon DEF RefInv
    <3>2. Live(id[c], ref[c])'
      BY <3>1, Zenon DEF Live
    <3>3. map'[id'[c]] # ref'[c]
      BY <3>1, Zenon
    <3> QED BY <3>1, <3>2, <3>3, Zenon
  <2> QED BY <2>1, <2>2, <2>3, <2>4, Zenon DEF RefInv
<1>6. ScanInv'
  <2> SUFFICES ASSUME MayScan' PROVE ScanInv'
    BY Zenon DEF ScanInv
  <2>1. MayScan
    BY Zenon DEF MayScan
  <2>2. \A i \in Id : \A n \in Nat : Live(i, n)' => map'[i] = n
    BY <1>0, <1>1, <2>1, Zenon DEF ScanInv
  <2>3. \A d \in Deleters : pc'[d] = "remove" =>
           map'[id'[d]] # NoVault /\ ~Live(id[d], map[id[d]])'
    BY <1>0, <2>1, Zenon DEF ScanInv, Live
  <2>4. scanned'.on => \A i \in Id :
           /\ map'[i] # NoVault => i \in scanned'.known
           /\ scanned'.opened[i] # NoFile =>
                 map'[i] = NoVault /\ file'[i] = scanned'.opened[i]
    BY <1>0, <2>1, Zenon DEF ScanInv
  <2> QED BY <2>2, <2>3, <2>4, Zenon DEF ScanInv
<1> QED BY <1>2, <1>3, <1>4, <1>5, <1>6, Zenon

(* The conjuncts of the invariant, and the domains most used. *)
LEMMA Parts ==
    ASSUME IndInv
    PROVE  /\ TypeOK /\ FileInv /\ MapInv /\ ModeInv /\ RefInv /\ ScanInv
           /\ file \in [Id -> {NoFile} \cup SUBSET Writers]
           /\ vaults \in [Id -> Seq(Vault)] /\ map \in [Id -> Nat]
           /\ \A i \in Id : map[i] <= Len(vaults[i]) /\ vaults[i] \in Seq(Vault)
           /\ pc \in [Actors -> Labels] /\ id \in [Actors -> Id] /\ ref \in [Actors -> Nat]
BY Zenon DEF IndInv, TypeOK

(* The same for one call that moves on. *)
LEMMA MoveQuiet ==
    ASSUME IndInv, NEW a \in Actors, NEW l \in Labels, pc' = [pc EXCEPT ![a] = l],
           pc[a] \notin {"failed", "remove"}, l \notin {"insert", "remove"},
           id' \in [Actors -> Id], ref' \in [Actors -> Nat],
           \A b \in Actors : b # a => id'[b] = id[b] /\ ref'[b] = ref[b],
           UNCHANGED <<file, map, vaults, scanned, reloads>>,
           exported' \subseteq Id, exporting' \subseteq Id,
           l = "unlink" => Live(id'[a], ref'[a]) /\ ref'[a] = map[id'[a]],
           l = "write" => ref'[a] \in 1..Len(vaults[id'[a]])
    PROVE  IndInv'
<1>1. pc' \in [Actors -> Labels] /\ pc'[a] = l /\ \A b \in Actors : b # a => pc'[b] = pc[b]
  BY Parts, Zenon
<1>2. TypeOK'
  BY <1>1, Parts, Zenon DEF TypeOK
<1>3. \A b \in Actors : pc[b] = "failed" => pc'[b] = "failed"
  BY <1>1, Zenon
<1>4. \A d \in Deleters : (pc[d] = "remove" <=> pc'[d] = "remove") /\ (pc[d] = "remove" => id'[d] = id[d])
  BY <1>1, Constants, Zenon
<1>5. \A c \in Creators :
         pc'[c] = "insert" => pc[c] = "insert" /\ id'[c] = id[c] /\ ref'[c] = ref[c]
  BY <1>1, Constants, Zenon
<1>6. \A d \in Deleters : pc'[d] = "unlink" =>
         \/ pc[d] = "unlink" /\ id'[d] = id[d] /\ ref'[d] = ref[d]
         \/ Live(id'[d], ref'[d]) /\ ref'[d] = map[id'[d]] /\ id'[d] \in Id
  BY <1>1, Constants, Zenon
<1>7. \A w \in Writers : pc'[w] = "write" =>
         \/ pc[w] = "write" /\ id'[w] = id[w] /\ ref'[w] = ref[w]
         \/ ref'[w] \in 1..Len(vaults[id'[w]])
  BY <1>1, Constants, Zenon
<1>8. FileInv' /\ MapInv' /\ ModeInv' /\ RefInv' /\ ScanInv'
  BY <1>3, <1>4, <1>5, <1>6, <1>7, Quiet, Zenon
<1> QED BY <1>2, <1>8, Zenon DEF IndInv

(* A create that picks a name, registers its object or finds the name taken. *)
LEMMA CreatorQuiet ==
    ASSUME IndInv, NEW a \in Creators,
           \/ ReadLoaded(a) \/ unique_collection_id_in(a) \/ register_collection(a)
           \/ Create(a) /\ UNCHANGED <<file, vaults>>
    PROVE  IndInv'
<1>0. a \in Actors /\ Ids \in Seq(Id)
  BY Constants, CollectionsAssumption, Zenon DEF Id
<1>1. CASE ReadLoaded(a)
  BY <1>0, <1>1, Parts, MoveQuiet, Zenon DEF ReadLoaded, Goto, bus, Labels, TypeOK
<1>2. CASE unique_collection_id_in(a)
  <2>1. PICK n \in DOMAIN Ids : id' = [id EXCEPT ![a] = Ids[n]]
    BY <1>2, Zenon DEF unique_collection_id_in
  <2>2. Ids[n] \in Id
    BY <1>0, <2>1
  <2>3. id' \in [Actors -> Id] /\ \A b \in Actors : b # a => id'[b] = id[b]
    BY <1>0, <2>1, <2>2, Parts, Zenon
  <2> QED BY <1>0, <1>2, <2>3, Parts, MoveQuiet, Zenon
          DEF unique_collection_id_in, Goto, bus, Labels, TypeOK
<1>3. CASE register_collection(a)
  <2>1. exported' \subseteq Id /\ exporting' \subseteq Id
    BY <1>0, <1>3, Parts, Zenon DEF register_collection, TypeOK
  <2> QED BY <1>0, <1>3, <2>1, Parts, MoveQuiet, Zenon DEF register_collection, Goto, Labels
<1>4. CASE Create(a) /\ UNCHANGED <<file, vaults>>
  <2>1. file[id[a]] # NoFile
    BY <1>0, <1>4, Parts, Constants, Zenon DEF Create, publish_new
  <2>2. PICK l \in {"start", "failed"} : pc' = [pc EXCEPT ![a] = l]
    BY <1>4, <2>1, Zenon DEF Create, publish_new, Goto
  <2> QED BY <1>0, <1>4, <2>1, <2>2, Parts, MoveQuiet, Zenon
          DEF Create, publish_new, bus, Labels, TypeOK
<1> QED BY <1>1, <1>2, <1>3, <1>4, Zenon

(* What a delete or a write takes from the map is unretired. *)
LEMMA DeleterQuiet ==
    ASSUME IndInv, NEW a \in Deleters,
           \/ delete(a) \/ TakeForDelete(a) \/ unregister_collection(a)
           \/ Unlink(a) /\ UNCHANGED <<file, vaults>>
    PROVE  IndInv'
<1>0. a \in Actors /\ exported \subseteq Id /\ exporting \subseteq Id
  BY Parts, Constants, Zenon DEF TypeOK
<1>1. CASE delete(a)
  <2>1. PICK i \in exported : id' = [id EXCEPT ![a] = i] /\
           \E l \in {"prompt", "failed"} : pc' = [pc EXCEPT ![a] = l]
    BY <1>1, Zenon DEF delete, Goto
  <2>2. id' \in [Actors -> Id] /\ \A b \in Actors : b # a => id'[b] = id[b]
    BY <1>0, <2>1, Parts, Zenon
  <2> QED BY <1>0, <1>1, <2>1, <2>2, Parts, MoveQuiet, Zenon DEF delete, bus, Labels
<1>2. CASE TakeForDelete(a)
  <2> DEFINE i == id[a]
  <2>1. /\ i \in Id /\ map[i] \in Nat /\ ref' = [ref EXCEPT ![a] = map[i]] /\ pc[a] = "prompt"
        /\ UNCHANGED <<file, map, vaults, id, scanned, reloads, bus>>
    BY <1>0, <1>2, Parts, Zenon DEF TakeForDelete
  <2>2. ref' \in [Actors -> Nat] /\ ref'[a] = map[i] /\ \A b \in Actors : b # a => ref'[b] = ref[b]
    BY <1>0, <2>1, Parts, Zenon
  <2>3. CASE map[i] = NoVault
    <3>1. pc' = [pc EXCEPT ![a] = "failed"]
      BY <1>2, <2>3, Zenon DEF TakeForDelete, Goto
    <3> QED BY <1>0, <2>1, <2>2, <3>1, Parts, MoveQuiet, Zenon DEF bus, Labels
  <2>4. CASE map[i] # NoVault
    <3>1. pc' = [pc EXCEPT ![a] = "unlink"]
      BY <1>2, <2>4, Zenon DEF TakeForDelete, Goto
    <3>2. ~ \E d \in Deleters : pc[d] = "remove" /\ id[d] = i
      BY <2>1, Parts, Zenon DEF ModeInv
    <3>3. Live(i, map[i])
      BY <2>1, <2>4, <3>2, Parts, Zenon DEF MapInv
    <3> QED BY <1>0, <2>1, <2>2, <3>1, <3>3, Parts, MoveQuiet, Zenon DEF bus, Labels
  <2> QED BY <2>3, <2>4, Zenon
<1>3. CASE unregister_collection(a)
  <2>1. exported' \subseteq Id /\ exporting' \subseteq Id
    BY <1>0, <1>3, Zenon DEF unregister_collection
  <2> QED BY <1>0, <1>3, <2>1, Parts, MoveQuiet, Zenon DEF unregister_collection, Goto, Labels
<1>4. CASE Unlink(a) /\ UNCHANGED <<file, vaults>>
  <2> DEFINE i == id[a]
  <2>1. /\ i \in Id /\ pc[a] = "unlink" /\ UNCHANGED <<map, id, ref, scanned, reloads, bus>>
        /\ \/ pc' = [pc EXCEPT ![a] = "failed"]
           \/ file[i] # NoFile /\ file' = [file EXCEPT ![i] = NoFile]
    BY <1>0, <1>4, Parts, Zenon DEF Unlink, Goto
  <2>2. pc' = [pc EXCEPT ![a] = "failed"]
    BY <1>4, <2>1, Parts, Zenon
  <2> QED BY <1>0, <1>4, <2>1, <2>2, Parts, MoveQuiet, Zenon DEF bus, Labels
<1> QED BY <1>1, <1>2, <1>3, <1>4, Zenon

(* A write that takes its vault, or is refused. *)
LEMMA WriterQuiet ==
    ASSUME IndInv, NEW a \in Writers,
           TakeForWrite(a) \/ (Write(a) /\ UNCHANGED <<file, vaults>> /\ pc'[a] = "failed")
    PROVE  IndInv'
<1>0. a \in Actors /\ exported \subseteq Id /\ exporting \subseteq Id
  BY Parts, Constants, Zenon DEF TypeOK
<1>1. CASE TakeForWrite(a)
  <2>1. PICK i \in Id : /\ map[i] # NoVault /\ id' = [id EXCEPT ![a] = i]
                        /\ ref' = [ref EXCEPT ![a] = map[i]]
    BY <1>1, Zenon DEF TakeForWrite, loaded_ids
  <2>2. id' \in [Actors -> Id] /\ id'[a] = i /\ \A b \in Actors : b # a => id'[b] = id[b]
    BY <1>0, <2>1, Parts, Zenon
  <2>3. map[i] \in Nat /\ map[i] <= Len(vaults[i]) /\ vaults[i] \in Seq(Vault) /\ NoVault = 0
    BY Parts, Constants, Zenon
  <2>4. ref' \in [Actors -> Nat] /\ ref'[a] = map[i] /\ \A b \in Actors : b # a => ref'[b] = ref[b]
    BY <1>0, <2>1, <2>3, Parts, Zenon
  <2>5. map[i] \in 1..Len(vaults[i])
    BY <2>1, <2>3, SMTT(30)
  <2> QED BY <1>0, <1>1, <2>2, <2>4, <2>5, Parts, MoveQuiet, Zenon
          DEF TakeForWrite, Goto, bus, Labels
<1>2. CASE Write(a) /\ UNCHANGED <<file, vaults>> /\ pc'[a] = "failed"
  <2>1. pc' = [pc EXCEPT ![a] = "done"] \/ pc' = [pc EXCEPT ![a] = "failed"]
    BY <1>2, Zenon DEF Write, Goto
  <2>2. pc' = [pc EXCEPT ![a] = "failed"]
    BY <1>0, <1>2, <2>1, Parts, Zenon
  <2> QED BY <1>0, <1>2, <2>2, Parts, MoveQuiet, Zenon DEF Write, bus, Labels
<1> QED BY <1>1, <1>2, Zenon

-----------------------------------------------------------------------------
(* Under the lock of a vault *)

(* An operation on a vault that does not retire it. *)
(* An operation that does not retire the vault it works on, and saves it if *)
(* it is unretired.                                                          *)
LEMMA Touch ==
    ASSUME IndInv, NEW j \in Id, NEW v \in 1..Len(vaults[j]), NEW r \in Vault,
           r.retired = vaults[j][v].retired,
           vaults' = Replaced(j, v, r),
           file' \in [Id -> {NoFile} \cup SUBSET Writers],
           \A i \in Id : i # j => file'[i] = file[i],
           Live(j, v) => file'[j] = r.items,
           ~Live(j, v) => file'[j] = file[j],
           pc' \in [Actors -> Labels],
           \A b \in Actors : pc'[b] = pc[b] \/ (b \in Writers /\ pc'[b] = "done"),
           UNCHANGED <<map, id, ref, scanned, reloads, bus>>
    PROVE  IndInv'
<1>0. v \in Nat /\ TypeOK
  BY Parts
<1>1. /\ vaults' \in [Id -> Seq(Vault)] /\ vaults'[j][v] = r
      /\ \A i \in Id : Len(vaults'[i]) = Len(vaults[i])
      /\ \A i \in Id : \A n \in 1..Len(vaults[i]) :
           i # j \/ n # v => vaults'[i][n] = vaults[i][n]
      /\ Live(j, v)' <=> ~r.retired
      /\ \A i \in Id : \A n \in Nat : i # j \/ n # v => (Live(i, n)' <=> Live(i, n))
  BY <1>0, Put, Zenon
<1>2. \A i \in Id : \A n \in Nat : Live(i, n)' <=> Live(i, n)
  BY <1>1, Zenon DEF Live
<1>3. TypeOK'
  BY <1>1, Parts, Zenon DEF TypeOK, bus
<1>4. FileInv'
  <2> SUFFICES ASSUME NEW i \in Id, NEW n \in Nat, Live(i, n)'
               PROVE  n = Len(vaults'[i]) /\ file'[i] = vaults'[i][n].items
    BY Zenon DEF FileInv
  <2>1. Live(i, n) /\ n = Len(vaults[i]) /\ file[i] = vaults[i][n].items /\ n \in 1..Len(vaults[i])
    BY <1>2, Parts, Zenon DEF FileInv, Live
  <2>2. CASE i # j
    BY <1>1, <2>1, <2>2, Zenon
  <2>3. CASE i = j /\ n = v
    BY <1>1, <2>1, <2>3, Zenon
  <2>4. CASE i = j /\ n # v
    <3>1. ~Live(j, v)
      BY <1>0, <2>1, <2>4, Parts, Zenon DEF FileInv
    <3> QED BY <1>1, <2>1, <2>4, <3>1, Zenon
  <2> QED BY <2>2, <2>3, <2>4, Zenon
<1>5. MapInv'
  <2> SUFFICES ASSUME NEW i \in Id, map[i] # NoVault
               PROVE  Live(i, map[i])' \/ \E d \in Deleters : pc'[d] = "remove" /\ id'[d] = i
    BY Zenon DEF MapInv
  <2>1. Live(i, map[i]) \/ \E d \in Deleters : pc[d] = "remove" /\ id[d] = i
    BY Parts, Zenon DEF MapInv
  <2>2. map[i] \in Nat /\ map' = map /\ id' = id
    BY Parts, Zenon
  <2>3. Live(i, map[i]) => Live(i, map[i])'
    BY <1>2, <2>2, Zenon
  <2> QED BY <2>1, <2>2, <2>3, Constants, Zenon
<1>6. ModeInv'
  BY Parts, Constants, Zenon DEF ModeInv, MayScan
<1>7. RefInv'
  <2>1. \A w \in Writers : pc'[w] = "write" => ref'[w] \in 1..Len(vaults'[id'[w]])
    BY <1>1, Parts, Constants, Zenon DEF RefInv
  <2>2. \A b \in Actors : Live(id[b], ref[b])' <=> Live(id[b], ref[b])
    <3>1. \A b \in Actors : id[b] \in Id /\ ref[b] \in Nat /\ id'[b] = id[b] /\ ref'[b] = ref[b]
      BY Parts, Zenon
    <3> QED BY <1>2, <3>1, Zenon
  <2>3. \A d \in Deleters : pc'[d] = pc[d]
    BY Constants, Zenon
  <2>4. \A c \in Creators : pc'[c] = pc[c]
    BY Constants, Zenon
  <2>5. \A d \in Deleters : pc'[d] = "unlink" => Live(id[d], ref[d])'
    BY <2>2, <2>3, Parts, Constants, Zenon DEF RefInv
  <2>6. \A c \in Creators : pc'[c] = "insert" =>
           /\ Live(id[c], ref[c])' /\ map'[id'[c]] # ref'[c]
           /\ \A d \in Deleters : pc'[d] = "unlink" => id'[d] # id'[c]
           /\ \A e \in Creators : pc'[e] = "insert" /\ id'[e] = id'[c] => e = c
    <3> SUFFICES ASSUME NEW c \in Creators, pc'[c] = "insert"
                 PROVE  /\ Live(id[c], ref[c])' /\ map'[id'[c]] # ref'[c]
                        /\ \A d \in Deleters : pc'[d] = "unlink" => id'[d] # id'[c]
                        /\ \A e \in Creators : pc'[e] = "insert" /\ id'[e] = id'[c] => e = c
      BY Zenon
    <3>0. map' = map /\ id' = id /\ ref' = ref /\ c \in Actors
      BY Constants, Zenon
    <3>1. /\ Live(id[c], ref[c]) /\ map[id[c]] # ref[c]
          /\ \A d \in Deleters : pc[d] = "unlink" => id[d] # id[c]
          /\ \A e \in Creators : pc[e] = "insert" /\ id[e] = id[c] => e = c
      BY <2>4, Parts, Zenon DEF RefInv
    <3>2. Live(id[c], ref[c])'
      BY <2>2, <3>0, <3>1, Zenon
    <3> QED BY <2>3, <2>4, <3>0, <3>1, <3>2, Zenon
  <2> QED BY <2>1, <2>5, <2>6, Zenon DEF RefInv
<1>8. ScanInv'
  <2> SUFFICES ASSUME MayScan PROVE ScanInv'
    BY Zenon DEF ScanInv, MayScan
  <2>1. \A i \in Id : \A n \in Nat : Live(i, n)' => map'[i] = n
    BY <1>2, Parts, Zenon DEF ScanInv
  <2>2. \A d \in Deleters : pc'[d] = "remove" =>
           map'[id'[d]] # NoVault /\ ~Live(id[d], map[id[d]])'
    <3> SUFFICES ASSUME NEW d \in Deleters, pc'[d] = "remove"
                 PROVE  map'[id'[d]] # NoVault /\ ~Live(id[d], map[id[d]])'
      BY Zenon
    <3>1. pc[d] = "remove" /\ id[d] \in Id /\ map[id[d]] \in Nat
      BY Parts, Constants, Zenon
    <3>2. map[id[d]] # NoVault /\ ~Live(id[d], map[id[d]])
      BY <3>1, Parts, Zenon DEF ScanInv
    <3>3. ~Live(id[d], map[id[d]])'
      <4>1. PICK i \in Id, n \in Nat : i = id[d] /\ n = map[id[d]]
        BY <3>1, Zenon
      <4>2. ~Live(i, n)'
        BY <1>2, <3>2, <4>1, Zenon
      <4> QED BY <4>1, <4>2, Zenon
    <3> QED BY <3>2, <3>3, Zenon
  <2>3. scanned'.on => \A i \in Id :
           /\ map'[i] # NoVault => i \in scanned'.known
           /\ scanned'.opened[i] # NoFile =>
                 map'[i] = NoVault /\ file'[i] = scanned'.opened[i]
    <3> SUFFICES ASSUME scanned.on, NEW i \in Id
                 PROVE  /\ map[i] # NoVault => i \in scanned.known
                        /\ scanned.opened[i] # NoFile =>
                              map[i] = NoVault /\ file'[i] = scanned.opened[i]
      BY Zenon
    <3>1. /\ map[i] # NoVault => i \in scanned.known
          /\ scanned.opened[i] # NoFile => map[i] = NoVault /\ file[i] = scanned.opened[i]
      BY Parts, Zenon DEF ScanInv
    <3>2. i = j /\ map[i] = NoVault => ~Live(j, v)
      <4>1. v # 0
        OBVIOUS
      <4>2. Live(j, v) => map[j] = v
        BY <1>0, Parts, Zenon DEF ScanInv
      <4> QED BY <4>1, <4>2, Zenon DEF NoVault
    <3> QED BY <3>1, <3>2, Zenon
  <2> QED BY <2>1, <2>2, <2>3, Zenon DEF ScanInv
<1> QED BY <1>3, <1>4, <1>5, <1>6, <1>7, <1>8, Zenon DEF IndInv

(* Write, under the vault's lock. *)
LEMMA WriteStep ==
    ASSUME IndInv, NEW a \in Writers, Write(a)
    PROVE  IndInv'
<1> DEFINE v == ref[a]
           i == id[a]
           r == [vaults[i][v] EXCEPT !.items = @ \cup {a}]
<1>0. a \in Actors /\ i \in Id /\ v \in 1..Len(vaults[i]) /\ pc[a] = "write"
      /\ UNCHANGED <<map, id, ref, scanned, reloads, bus>>
  BY Parts, Constants, Zenon DEF Write, RefInv
<1>1. CASE vaults[i][v].open /\ ~vaults[i][v].retired
  <2>1. vaults[i][v] \in Vault
    <3>1. vaults[i] \in Seq(Vault)
      BY <1>0, Parts, Zenon
    <3> QED BY <1>0, <3>1
  <2>2. r \in Vault /\ r.retired = vaults[i][v].retired /\ r.items \in SUBSET Writers
        /\ r.items = vaults[i][v].items \cup {a}
    BY <2>1 DEF Vault
  <2>3. /\ vaults' = [vaults EXCEPT ![i][v].items = @ \cup {a}]
        /\ file' = [file EXCEPT ![i] = vaults'[i][v].items] /\ pc' = [pc EXCEPT ![a] = "done"]
    BY <1>1, Zenon DEF Write, Goto
  <2>4. vaults' = Replaced(i, v, r)
    BY <2>3, Zenon DEF Replaced
  <2>0. TypeOK
    BY Parts
  <2> HIDE DEF i, v, r
  <2>5. vaults'[i][v] = r
    BY <1>0, <2>0, <2>2, <2>4, Put, Zenon
  <2>6. /\ file' \in [Id -> {NoFile} \cup SUBSET Writers] /\ file'[i] = r.items
        /\ \A k \in Id : k # i => file'[k] = file[k]
    BY <1>0, <2>2, <2>3, <2>5, Parts, Zenon
  <2>7. pc' \in [Actors -> Labels]
        /\ \A b \in Actors : pc'[b] = pc[b] \/ (b \in Writers /\ pc'[b] = "done")
    BY <1>0, <2>3, Parts DEF Labels
  <2>8. Live(i, v)
    BY <1>0, <1>1, Zenon DEF Live
  <2> QED BY <1>0, <2>2, <2>4, <2>6, <2>7, <2>8, Touch, Zenon
<1>2. CASE ~(vaults[i][v].open /\ ~vaults[i][v].retired)
  <2>1. UNCHANGED <<file, vaults>> /\ pc' = [pc EXCEPT ![a] = "failed"]
    BY <1>2, Zenon DEF Write, Goto
  <2>2. pc'[a] = "failed"
    BY <1>0, <2>1, Parts, Zenon
  <2> QED BY <2>1, <2>2, WriterQuiet, Zenon
<1> QED BY <1>1, <1>2, Zenon

(* Unlock and Lock. *)
LEMMA SetOpenStep ==
    ASSUME IndInv, NEW i \in Id, NEW b \in BOOLEAN, SetOpen(i, b)
    PROVE  IndInv'
<1> DEFINE v == map[i]
           r == [vaults[i][v] EXCEPT !.open = b]
<1>1. /\ v # NoVault /\ vaults' = [vaults EXCEPT ![i][v].open = b]
      /\ UNCHANGED <<file, map, pc, id, ref, scanned, reloads, bus>>
  BY Zenon DEF SetOpen
<1>2. v \in 1..Len(vaults[i]) /\ v \in Nat /\ vaults[i][v] \in Vault
  <2>1. v \in Nat /\ v <= Len(vaults[i]) /\ vaults[i] \in Seq(Vault) /\ v # 0
    BY <1>1, Parts, Zenon DEF NoVault
  <2> QED BY <2>1, SMTT(30)
<1>3. r \in Vault /\ r.retired = vaults[i][v].retired /\ r.items = vaults[i][v].items
  BY <1>2 DEF Vault
<1>4. vaults' = Replaced(i, v, r)
  BY <1>1, Zenon DEF Replaced
<1>5. Live(i, v) => file'[i] = r.items
  BY <1>1, <1>2, <1>3, Parts, Zenon DEF FileInv
<1>6. file' \in [Id -> {NoFile} \cup SUBSET Writers] /\ pc' \in [Actors -> Labels]
  BY <1>1, Parts, Zenon
<1>7. /\ \A k \in Id : k # i => file'[k] = file[k]
      /\ \A a \in Actors : pc'[a] = pc[a] \/ (a \in Writers /\ pc'[a] = "done")
      /\ file'[i] = file[i] /\ UNCHANGED <<map, id, ref, scanned, reloads, bus>>
  BY <1>1, Zenon
<1> HIDE DEF v, r
<1> QED BY <1>2, <1>3, <1>4, <1>5, <1>6, <1>7, Touch, Zenon

-----------------------------------------------------------------------------
(* Steps that publish, list, unlink and unlist a collection *)

(* An unretired vault is the last of its name, and the file is there and    *)
(* holds what the vault holds.                                              *)
LEMMA LiveIs ==
    ASSUME IndInv, NEW i \in Id, NEW n \in Nat, Live(i, n)
    PROVE  /\ n = Len(vaults[i]) /\ n # 0 /\ vaults[i][n] \in Vault
           /\ file[i] = vaults[i][n].items /\ file[i] # NoFile
<1>1. n = Len(vaults[i]) /\ file[i] = vaults[i][n].items /\ vaults[i] \in Seq(Vault)
  BY Parts, Zenon DEF FileInv
<1>2. n \in 1..Len(vaults[i])
  BY Zenon DEF Live
<1>3. vaults[i][n] \in Vault /\ n # 0
  BY <1>1, <1>2
<1>4. vaults[i][n].items \in SUBSET Writers
  BY <1>3 DEF Vault
<1> QED BY <1>1, <1>3, <1>4, Constants, Zenon

(* The name Vault::create publishes had no file, so every vault of that     *)
(* name is retired, and no delete holds one that is not.                    *)
LEMMA CreateStep ==
    ASSUME IndInv, NEW a \in Creators, Create(a)
    PROVE  IndInv'
<1>0. a \in Actors /\ id[a] \in Id
  BY Parts, Constants, Zenon
<1>1. CASE file[id[a]] # NoFile
  <2>1. UNCHANGED <<file, vaults>>
    BY <1>1, Zenon DEF Create, publish_new
  <2> QED BY <2>1, CreatorQuiet, Zenon
<1>2. CASE file[id[a]] = NoFile
  <2>1. PICK i \in Id : i = id[a]
    BY <1>0, Zenon
  <2>2. PICK m \in Nat : m = Len(vaults[i])
    <3>1. vaults[i] \in Seq(Vault)
      BY <2>1, Parts, Zenon
    <3> QED BY <3>1
  <2>3. PICK r \in Vault : r = NewVault({}, TRUE) /\ ~r.retired /\ r.items = {}
    BY NewVaultType, Zenon
  <2>4. /\ pc[a] = "create" /\ file' = [file EXCEPT ![i] = {}]
        /\ vaults' = [vaults EXCEPT ![i] = Append(vaults[i], r)]
        /\ ref' = [ref EXCEPT ![a] = m + 1] /\ pc' = [pc EXCEPT ![a] = "insert"]
        /\ UNCHANGED <<map, id, scanned, reloads, bus>>
    BY <1>2, <2>1, <2>2, <2>3, Zenon DEF Create, publish_new, Goto
  <2>5. /\ vaults'[i] = Append(vaults[i], r)
        /\ \A k \in Id : k # i => vaults'[k] = vaults[k]
    BY <2>4, Parts, Zenon
  <2>6. /\ vaults'[i] \in Seq(Vault) /\ Len(vaults'[i]) = m + 1
        /\ m \in Nat /\ m + 1 \in Nat /\ m + 1 # 0 /\ m <= m + 1
        /\ vaults'[i][m + 1] = r
        /\ \A n \in 1..m : vaults'[i][n] = vaults[i][n]
        /\ Live(i, m + 1)'
        /\ \A n \in Nat : n # m + 1 => (Live(i, n)' <=> Live(i, n))
    <3>1. TypeOK
      BY Parts, Zenon
    <3>2. Added(i, m, r)
      BY <2>2, <2>5, Zenon DEF Added
    <3>3. /\ vaults'[i] \in Seq(Vault) /\ Len(vaults'[i]) = m + 1
          /\ m \in Nat /\ m + 1 \in Nat /\ m + 1 # 0 /\ m <= m + 1
          /\ vaults'[i][m + 1] = r
          /\ \A n \in 1..m : vaults'[i][n] = vaults[i][n]
          /\ Live(i, m + 1)' <=> ~r.retired
          /\ \A n \in Nat : n # m + 1 => (Live(i, n)' <=> Live(i, n))
          /\ ~Live(i, m + 1)
      BY <3>1, <3>2, Add, Zenon
    <3> QED BY <2>3, <3>3, Zenon
  <2>7. \A n \in Nat : ~Live(i, n)
    BY <1>2, <2>1, LiveIs, Zenon
  <2>8. \A k \in Id : \A n \in Nat : k # i => (Live(k, n)' <=> Live(k, n))
    BY <2>5, Same, Zenon
  <2>9. \A n \in Nat : Live(i, n)' => n = m + 1
    BY <2>6, <2>7, Zenon
  <2>10. /\ pc' \in [Actors -> Labels] /\ pc'[a] = "insert"
         /\ \A b \in Actors : b # a => pc'[b] = pc[b]
    BY <1>0, <2>4, Parts DEF Labels
  <2>11. /\ ref' \in [Actors -> Nat] /\ ref'[a] = m + 1
         /\ \A b \in Actors : b # a => ref'[b] = ref[b]
    BY <1>0, <2>4, <2>6, Parts, Zenon
  <2>12. /\ file' \in [Id -> {NoFile} \cup SUBSET Writers] /\ file'[i] = {}
         /\ \A k \in Id : k # i => file'[k] = file[k]
    BY <2>4, Parts, Zenon
  <2>13. vaults' \in [Id -> Seq(Vault)] /\ vaults'[i] \in Seq(Vault)
    BY <2>4, <2>5, <2>6, Parts, Zenon
  <2>14. \A k \in Id : map[k] \in Nat /\ map[k] <= Len(vaults'[k])
    <3>1. map[i] <= m + 1
      <4>1. map[i] \in Nat /\ map[i] <= m
        BY <2>2, Parts, Zenon
      <4> QED BY <4>1
    <3> QED BY <2>5, <2>6, <3>1, Parts, Zenon
  <2>15. map[i] # m + 1
    <3>1. map[i] \in Nat /\ map[i] <= m
      BY <2>2, Parts, Zenon
    <3> QED BY <3>1
  <2>16. ~MayScan /\ ~MayScan'
    BY <2>4, Parts, Zenon DEF ModeInv, MayScan
  <2>17. TypeOK'
    BY <2>4, <2>10, <2>11, <2>12, <2>13, <2>14, Parts, Zenon DEF TypeOK, bus
  <2>18. FileInv'
    <3> SUFFICES ASSUME NEW k \in Id, NEW n \in Nat, Live(k, n)'
                 PROVE  n = Len(vaults'[k]) /\ file'[k] = vaults'[k][n].items
      BY Zenon DEF FileInv
    <3>1. CASE k = i
      BY <2>3, <2>6, <2>9, <2>12, <3>1, Zenon
    <3>2. CASE k # i
      <4>1. Live(k, n) /\ vaults'[k] = vaults[k] /\ file'[k] = file[k]
        BY <2>5, <2>8, <2>12, <3>2, Zenon
      <4> QED BY <4>1, LiveIs, Zenon
    <3> QED BY <3>1, <3>2, Zenon
  <2>19. MapInv'
    <3> SUFFICES ASSUME NEW k \in Id, map[k] # NoVault
                 PROVE  Live(k, map[k])' \/ \E d \in Deleters : pc'[d] = "remove" /\ id'[d] = k
      BY <2>4, Zenon DEF MapInv
    <3>1. map[k] \in Nat /\ map' = map /\ id' = id
      BY <2>4, Parts, Zenon
    <3>2. Live(k, map[k]) \/ \E d \in Deleters : pc[d] = "remove" /\ id[d] = k
      BY Parts, Zenon DEF MapInv
    <3>3. Live(k, map[k]) => Live(k, map[k])'
      BY <2>7, <2>8, <3>1, Zenon
    <3> QED BY <2>10, <3>1, <3>2, <3>3, Constants, Zenon
  <2>20. ModeInv'
    BY <2>10, <2>16, Parts, Constants, Zenon DEF ModeInv
  <2>21. RefInv'
    <3>0. \A b \in Actors : id[b] \in Id /\ ref[b] \in Nat /\ id'[b] = id[b]
      BY <2>4, Parts, Zenon
    <3>1. ASSUME NEW w \in Writers, pc'[w] = "write"
          PROVE  ref'[w] \in 1..Len(vaults'[id'[w]])
      <4>1. w \in Actors /\ w # a
        BY Constants, Zenon
      <4>2. ref[w] \in 1..Len(vaults[id[w]])
        BY <2>10, <3>1, <4>1, Parts, Zenon DEF RefInv
      <4>3. \A n \in 1..m : n \in 1..(m + 1)
        BY <2>6
      <4>4. ref'[w] = ref[w] /\ id'[w] = id[w] /\ id[w] \in Id
        BY <2>11, <3>0, <4>1, Zenon
      <4>5. CASE id[w] = i
        BY <2>2, <2>6, <4>2, <4>3, <4>4, <4>5, Zenon
      <4>6. CASE id[w] # i
        BY <2>5, <4>2, <4>4, <4>6, Zenon
      <4> QED BY <4>5, <4>6, Zenon
    <3>2. ASSUME NEW d \in Deleters, pc'[d] = "unlink"
          PROVE  Live(id[d], ref[d])' /\ id[d] # i
      <4>1. d \in Actors /\ d # a
        BY Constants, Zenon
      <4>2. Live(id[d], ref[d])
        BY <2>10, <3>2, <4>1, Parts, Zenon DEF RefInv
      <4>3. id[d] # i
        BY <2>7, <3>0, <4>1, <4>2, Zenon
      <4> QED BY <2>8, <2>11, <3>0, <4>1, <4>2, <4>3, Zenon
    <3>3. ASSUME NEW c \in Creators, c # a, pc'[c] = "insert"
          PROVE  /\ Live(id[c], ref[c])' /\ id[c] # i /\ map'[id'[c]] # ref'[c]
                 /\ \A d \in Deleters : pc'[d] = "unlink" => id'[d] # id'[c]
                 /\ \A e \in Creators :
                      e # a /\ pc'[e] = "insert" /\ id'[e] = id'[c] => e = c
      <4>1. c \in Actors /\ pc[c] = "insert"
        BY <2>10, <3>3, Constants, Zenon
      <4>2. /\ Live(id[c], ref[c]) /\ map[id[c]] # ref[c]
            /\ \A d \in Deleters : pc[d] = "unlink" => id[d] # id[c]
            /\ \A e \in Creators : pc[e] = "insert" /\ id[e] = id[c] => e = c
        BY <4>1, Parts, Zenon DEF RefInv
      <4>3. id[c] # i
        BY <2>7, <3>0, <4>1, <4>2, Zenon
      <4>4. Live(id[c], ref[c])'
        BY <2>8, <2>11, <3>0, <3>3, <4>1, <4>2, <4>3, Zenon
      <4>5. \A d \in Deleters : pc'[d] = "unlink" => id'[d] # id'[c]
        BY <2>10, <3>0, <4>1, <4>2, Constants, Zenon
      <4>6. \A e \in Creators : e # a /\ pc'[e] = "insert" /\ id'[e] = id'[c] => e = c
        BY <2>10, <3>0, <4>1, <4>2, Constants, Zenon
      <4>7. map'[id'[c]] # ref'[c]
        BY <2>4, <2>11, <3>0, <3>3, <4>1, <4>2, Zenon
      <4> QED BY <4>3, <4>4, <4>5, <4>6, <4>7, Zenon
    <3>4. /\ Live(id[a], ref[a])' /\ map'[id'[a]] # ref'[a]
          /\ \A d \in Deleters : pc'[d] = "unlink" => id'[d] # id'[a]
          /\ \A e \in Creators : pc'[e] = "insert" /\ id'[e] = id'[a] => e = a
      <4>1. id'[a] = i /\ map' = map
        BY <1>0, <2>1, <2>4, Zenon
      <4>2. Live(id[a], ref[a])'
        BY <2>6, <2>11, <4>1, Zenon
      <4>3. \A d \in Deleters : pc'[d] = "unlink" => id'[d] # i
        BY <3>0, <3>2, Constants, Zenon
      <4>4. \A e \in Creators : pc'[e] = "insert" /\ id'[e] = i => e = a
        BY <3>0, <3>3, Constants, Zenon
      <4> QED BY <2>11, <2>15, <4>1, <4>2, <4>3, <4>4, Zenon
    <3>5. ASSUME NEW c \in Creators, NEW e \in Creators, c # a,
                 pc'[c] = "insert", pc'[e] = "insert", id'[e] = id'[c]
          PROVE  e = c
      BY <1>0, <2>1, <3>0, <3>3, <3>5, Constants, Zenon
    <3> QED BY <3>1, <3>2, <3>3, <3>4, <3>5, Zenon DEF RefInv
  <2>22. ScanInv'
    BY <2>16, Zenon DEF ScanInv
  <2> QED BY <2>17, <2>18, <2>19, <2>20, <2>21, <2>22, Zenon DEF IndInv
<1> QED BY <1>1, <1>2, Zenon

(* What a create lists is the unretired vault it has just made. *)
LEMMA InsertStep ==
    ASSUME IndInv, NEW a \in Creators, Insert(a)
    PROVE  IndInv'
<1>0. a \in Actors /\ id[a] \in Id /\ ref[a] \in Nat
  BY Parts, Constants, Zenon
<1>1. PICK i \in Id, v \in Nat : i = id[a] /\ v = ref[a]
  BY <1>0, Zenon
<1>2. /\ pc[a] = "insert" /\ map' = [map EXCEPT ![i] = v] /\ pc' = [pc EXCEPT ![a] = "register"]
      /\ UNCHANGED <<file, vaults, id, ref, scanned, reloads, bus>>
  BY <1>1, Zenon DEF Insert, Goto
<1>3. Live(i, v) /\ v = Len(vaults[i])
  <2>1. Live(i, v)
    BY <1>1, <1>2, Parts, Zenon DEF RefInv
  <2> QED BY <2>1, LiveIs, Zenon
<1>4. \A k, n : Live(k, n)' <=> Live(k, n)
  BY <1>2, Zenon DEF Live
<1>5. map' \in [Id -> Nat] /\ map'[i] = v /\ \A k \in Id : k # i => map'[k] = map[k]
  BY <1>2, Parts, Zenon
<1>6. /\ pc' \in [Actors -> Labels] /\ pc'[a] = "register"
      /\ \A b \in Actors : b # a => pc'[b] = pc[b]
  BY <1>0, <1>2, Parts DEF Labels
<1>7. ~MayScan /\ ~MayScan'
  BY <1>2, Parts, Zenon DEF ModeInv, MayScan
<1>8. \A k \in Id : map'[k] <= Len(vaults'[k])
  <2>1. v <= Len(vaults[i])
    <3>1. v = Len(vaults[i]) /\ v \in Nat
      BY <1>3, Zenon
    <3> QED BY <3>1
  <2> QED BY <1>2, <1>5, <2>1, Parts, Zenon
<1>9. TypeOK'
  BY <1>2, <1>5, <1>6, <1>8, Parts, Zenon DEF TypeOK, bus
<1>10. FileInv'
  BY <1>2, <1>4, Parts, Zenon DEF FileInv
<1>11. MapInv'
  <2> SUFFICES ASSUME NEW k \in Id, map'[k] # NoVault
               PROVE  Live(k, map[k])' \/ \E d \in Deleters : pc'[d] = "remove" /\ id'[d] = k
    BY Zenon DEF MapInv
  <2>1. CASE k = i
    BY <1>3, <1>4, <1>5, <2>1, Zenon
  <2>2. CASE k # i
    <3>1. map'[k] = map[k] /\ id' = id
      BY <1>2, <1>5, <2>2, Zenon
    <3>2. Live(k, map[k]) \/ \E d \in Deleters : pc[d] = "remove" /\ id[d] = k
      BY <3>1, Parts, Zenon DEF MapInv
    <3>3. Live(k, map[k]) => Live(k, map[k])'
      BY <1>4, <3>1, Zenon
    <3> QED BY <1>6, <3>1, <3>2, <3>3, Constants, Zenon
  <2> QED BY <2>1, <2>2, Zenon
<1>12. ModeInv'
  BY <1>6, <1>7, Parts, Constants, Zenon DEF ModeInv
<1>13. RefInv'
  <2>0. id' = id /\ ref' = ref /\ vaults' = vaults
    BY <1>2, Zenon
  <2>1. \A w \in Writers : pc'[w] = "write" => ref'[w] \in 1..Len(vaults'[id'[w]])
    BY <1>6, <2>0, Parts, Constants, Zenon DEF RefInv
  <2>2. \A d \in Deleters : pc'[d] = "unlink" => Live(id[d], ref[d])'
    BY <1>4, <1>6, <2>0, Parts, Constants, Zenon DEF RefInv
  <2>3. ASSUME NEW c \in Creators, pc'[c] = "insert"
        PROVE  /\ Live(id[c], ref[c])' /\ map'[id'[c]] # ref'[c]
               /\ \A d \in Deleters : pc'[d] = "unlink" => id'[d] # id'[c]
               /\ \A e \in Creators : pc'[e] = "insert" /\ id'[e] = id'[c] => e = c
    <3>1. c \in Actors /\ c # a /\ pc[c] = "insert" /\ id[c] \in Id
      BY <1>6, <2>3, Parts, Constants, Zenon
    <3>2. /\ Live(id[c], ref[c]) /\ map[id[c]] # ref[c]
          /\ \A d \in Deleters : pc[d] = "unlink" => id[d] # id[c]
          /\ \A e \in Creators : pc[e] = "insert" /\ id[e] = id[c] => e = c
      BY <3>1, Parts, Zenon DEF RefInv
    <3>3. id[c] # i
      BY <1>1, <1>2, <3>1, <3>2, Zenon
    <3>4. Live(id[c], ref[c])' /\ map'[id'[c]] # ref'[c]
      BY <1>4, <1>5, <2>0, <3>1, <3>2, <3>3, Zenon
    <3>5. \A d \in Deleters : pc'[d] = "unlink" => id'[d] # id'[c]
      BY <1>6, <2>0, <3>2, Constants, Zenon
    <3>6. \A e \in Creators : pc'[e] = "insert" /\ id'[e] = id'[c] => e = c
      BY <1>6, <2>0, <3>2, Constants, Zenon
    <3> QED BY <3>4, <3>5, <3>6, Zenon
  <2> QED BY <2>1, <2>2, <2>3, Zenon DEF RefInv
<1>14. ScanInv'
  BY <1>7, Zenon DEF ScanInv
<1> QED BY <1>9, <1>10, <1>11, <1>12, <1>13, <1>14, Zenon DEF IndInv

(* The vault a delete holds is unretired, so its file is there: remove_file  *)
(* misses the file only where there are two deletes.                        *)
LEMMA UnlinkStep ==
    ASSUME IndInv, NEW a \in Deleters, Unlink(a)
    PROVE  IndInv'
<1>0. a \in Actors /\ id[a] \in Id /\ ref[a] \in Nat
  BY Parts, Constants, Zenon
<1>1. PICK i \in Id, v \in Nat : i = id[a] /\ v = ref[a]
  BY <1>0, Zenon
<1>2. pc[a] = "unlink" /\ UNCHANGED <<map, id, ref, scanned, reloads, bus>>
  BY Zenon DEF Unlink
<1>3. Live(i, v)
  BY <1>1, <1>2, Parts, Zenon DEF RefInv
<1>4. v = Len(vaults[i]) /\ v # 0 /\ vaults[i][v] \in Vault /\ file[i] # NoFile
  BY <1>3, LiveIs, Zenon
<1>5. CASE ~vaults[i][v].open
  <2>1. UNCHANGED <<file, vaults>>
    BY <1>1, <1>5, Zenon DEF Unlink
  <2> QED BY <2>1, DeleterQuiet, Zenon
<1>6. CASE vaults[i][v].open
  <2>1. /\ vaults' = [vaults EXCEPT ![i][v].retired = TRUE]
        /\ file' = [file EXCEPT ![i] = NoFile] /\ pc' = [pc EXCEPT ![a] = "remove"]
    BY <1>1, <1>4, <1>6, Zenon DEF Unlink, Goto
  <2>2. PICK r \in Vault : r = [vaults[i][v] EXCEPT !.retired = TRUE] /\ r.retired
    BY <1>4, Retired, Zenon
  <2>3. vaults' = Replaced(i, v, r) /\ v \in 1..Len(vaults[i]) /\ TypeOK
    BY <1>3, <2>1, <2>2, Parts, Zenon DEF Replaced, Live
  <2>4. /\ vaults' \in [Id -> Seq(Vault)]
        /\ \A k \in Id : Len(vaults'[k]) = Len(vaults[k])
        /\ vaults'[i][v] = r
        /\ \A k \in Id : \A n \in 1..Len(vaults[k]) :
             k # i \/ n # v => vaults'[k][n] = vaults[k][n]
        /\ Live(i, v)' <=> ~r.retired
        /\ \A k \in Id : \A n \in Nat : k # i \/ n # v => (Live(k, n)' <=> Live(k, n))
    BY <2>3, Put, Zenon
  <2>5. ~Live(i, v)' /\ \A n \in Nat : ~Live(i, n)'
    BY <1>4, <2>2, <2>4, LiveIs, Zenon
  <2>6. \A k \in Id : \A n \in Nat : Live(k, n)' => Live(k, n) /\ k # i
    BY <2>4, <2>5, Zenon
  <2>7. /\ pc' \in [Actors -> Labels] /\ pc'[a] = "remove"
        /\ \A b \in Actors : b # a => pc'[b] = pc[b]
    BY <1>0, <2>1, Parts DEF Labels
  <2>8. /\ file' \in [Id -> {NoFile} \cup SUBSET Writers] /\ file'[i] = NoFile
        /\ \A k \in Id : k # i => file'[k] = file[k]
    BY <2>1, Parts, Zenon
  <2>9. \A d \in Deleters : d # a => pc[d] = "failed" /\ pc'[d] = "failed"
    BY <1>2, <2>7, Parts, Constants, Zenon DEF ModeInv
  <2>10. TypeOK'
    BY <1>2, <2>4, <2>7, <2>8, Parts, Zenon DEF TypeOK, bus
  <2>11. FileInv'
    <3> SUFFICES ASSUME NEW k \in Id, NEW n \in Nat, Live(k, n)'
                 PROVE  n = Len(vaults'[k]) /\ file'[k] = vaults'[k][n].items
      BY Zenon DEF FileInv
    <3>1. Live(k, n) /\ k # i
      BY <2>6, Zenon
    <3>2. n = Len(vaults[k]) /\ file[k] = vaults[k][n].items /\ n \in 1..Len(vaults[k])
      BY <3>1, LiveIs, Zenon DEF Live
    <3> QED BY <2>4, <2>8, <3>1, <3>2, Zenon
  <2>12. MapInv'
    <3> SUFFICES ASSUME NEW k \in Id, map[k] # NoVault
                 PROVE  Live(k, map[k])' \/ \E d \in Deleters : pc'[d] = "remove" /\ id'[d] = k
      BY <1>2, Zenon DEF MapInv
    <3>0. map[k] \in Nat /\ map' = map /\ id' = id
      BY <1>2, Parts, Zenon
    <3>1. CASE k = i
      BY <1>1, <2>7, <3>0, <3>1, Zenon
    <3>2. CASE k # i
      <4>1. Live(k, map[k])
        BY <1>2, <2>9, Parts, Zenon DEF MapInv
      <4> QED BY <2>4, <3>0, <3>2, <4>1, Zenon
    <3> QED BY <3>1, <3>2, Zenon
  <2>13. ModeInv'
    BY <1>2, <2>7, <2>9, Parts, Constants, Zenon DEF ModeInv, MayScan
  <2>14. RefInv'
    <3>0. id' = id /\ ref' = ref /\ map' = map /\ \A b \in Actors : id[b] \in Id /\ ref[b] \in Nat
      BY <1>2, Parts, Zenon
    <3>1. \A w \in Writers : pc'[w] = "write" => ref'[w] \in 1..Len(vaults'[id'[w]])
      BY <2>4, <2>7, <3>0, Parts, Constants, Zenon DEF RefInv
    <3>2. \A d \in Deleters : pc'[d] # "unlink"
      BY <2>7, <2>9, Zenon
    <3>3. ASSUME NEW c \in Creators, pc'[c] = "insert"
          PROVE  /\ Live(id[c], ref[c])' /\ map'[id'[c]] # ref'[c]
                 /\ \A e \in Creators : pc'[e] = "insert" /\ id'[e] = id'[c] => e = c
      <4>1. c \in Actors /\ pc[c] = "insert"
        BY <2>7, <3>3, Constants, Zenon
      <4>2. /\ Live(id[c], ref[c]) /\ map[id[c]] # ref[c] /\ id[c] # i
            /\ \A e \in Creators : pc[e] = "insert" /\ id[e] = id[c] => e = c
        BY <1>1, <1>2, <4>1, Parts, Zenon DEF RefInv
      <4>3. Live(id[c], ref[c])'
        BY <2>4, <3>0, <4>1, <4>2, Zenon
      <4>4. \A e \in Creators : pc'[e] = "insert" /\ id'[e] = id'[c] => e = c
        BY <2>7, <3>0, <4>2, Constants, Zenon
      <4> QED BY <3>0, <4>2, <4>3, <4>4, Zenon
    <3> QED BY <3>1, <3>2, <3>3, Zenon DEF RefInv
  <2>15. ScanInv'
    <3> SUFFICES ASSUME MayScan PROVE ScanInv'
      BY <1>2, Zenon DEF ScanInv, MayScan
    <3>0. map' = map /\ id' = id /\ scanned' = scanned /\ map[i] = v
      BY <1>2, <1>3, Parts, Zenon DEF ScanInv
    <3>1. \A k \in Id : \A n \in Nat : Live(k, n)' => map'[k] = n
      BY <2>6, <3>0, Parts, Zenon DEF ScanInv
    <3>2. \A d \in Deleters : pc'[d] = "remove" =>
             map'[id'[d]] # NoVault /\ ~Live(id[d], map[id[d]])'
      <4>1. map'[id'[a]] # NoVault /\ ~Live(id[a], map[id[a]])'
        BY <1>1, <1>4, <2>5, <3>0, Constants, Zenon
      <4> QED BY <2>9, <4>1, Zenon
    <3>3. scanned'.on => \A k \in Id :
             /\ map'[k] # NoVault => k \in scanned'.known
             /\ scanned'.opened[k] # NoFile =>
                   map'[k] = NoVault /\ file'[k] = scanned'.opened[k]
      <4>1. map[i] # NoVault
        BY <1>4, <3>0, Constants, Zenon
      <4> QED BY <2>8, <3>0, <4>1, Parts, Zenon DEF ScanInv
    <3> QED BY <3>1, <3>2, <3>3, Zenon DEF ScanInv
  <2> QED BY <2>10, <2>11, <2>12, <2>13, <2>14, <2>15, Zenon DEF IndInv
<1> QED BY <1>5, <1>6, Zenon

(* collections.remove goes by name; beside a Reload, nothing unretired has   *)
(* that name.                                                               *)
LEMMA UnlistStep ==
    ASSUME IndInv, NEW a \in Deleters, Unlist(a)
    PROVE  IndInv'
<1>0. a \in Actors /\ id[a] \in Id
  BY Parts, Constants, Zenon
<1>1. PICK i \in Id : i = id[a]
  BY <1>0, Zenon
<1>2. /\ pc[a] = "remove" /\ map' = [map EXCEPT ![i] = NoVault]
      /\ pc' = [pc EXCEPT ![a] = "unregister"]
      /\ UNCHANGED <<file, vaults, id, ref, scanned, reloads, bus>>
  BY <1>1, Zenon DEF Unlist, Goto
<1>3. \A k, n : Live(k, n)' <=> Live(k, n)
  BY <1>2, Zenon DEF Live
<1>4. map' \in [Id -> Nat] /\ map'[i] = NoVault /\ \A k \in Id : k # i => map'[k] = map[k]
  <2>1. NoVault \in Nat
    BY DEF NoVault
  <2> QED BY <1>2, <2>1, Parts, Zenon
<1>5. /\ pc' \in [Actors -> Labels] /\ pc'[a] = "unregister"
      /\ \A b \in Actors : b # a => pc'[b] = pc[b]
  BY <1>0, <1>2, Parts DEF Labels
<1>6. \A k \in Id : map'[k] <= Len(vaults'[k])
  <2>1. vaults[i] \in Seq(Vault)
    BY Parts, Zenon
  <2>2. 0 <= Len(vaults[i])
    BY <2>1
  <2> QED BY <1>2, <1>4, <2>2, Parts, Constants, Zenon
<1>7. TypeOK'
  BY <1>2, <1>4, <1>5, <1>6, Parts, Zenon DEF TypeOK, bus
<1>8. FileInv'
  BY <1>2, <1>3, Parts, Zenon DEF FileInv
<1>9. MapInv'
  <2> SUFFICES ASSUME NEW k \in Id, map'[k] # NoVault
               PROVE  Live(k, map[k])' \/ \E d \in Deleters : pc'[d] = "remove" /\ id'[d] = k
    BY Zenon DEF MapInv
  <2>1. k # i /\ map'[k] = map[k] /\ id' = id
    BY <1>2, <1>4, Zenon
  <2>2. Live(k, map[k]) \/ \E d \in Deleters : pc[d] = "remove" /\ id[d] = k
    BY <2>1, Parts, Zenon DEF MapInv
  <2>3. Live(k, map[k]) => Live(k, map[k])'
    BY <1>3, <2>1, Zenon
  <2> QED BY <1>1, <1>5, <2>1, <2>2, <2>3, Constants, Zenon
<1>10. ModeInv'
  BY <1>2, <1>5, Parts, Constants, Zenon DEF ModeInv, MayScan
<1>11. RefInv'
  <2>0. id' = id /\ ref' = ref /\ vaults' = vaults
    BY <1>2, Zenon
  <2>1. \A w \in Writers : pc'[w] = "write" => ref'[w] \in 1..Len(vaults'[id'[w]])
    BY <1>5, <2>0, Parts, Constants, Zenon DEF RefInv
  <2>2. \A d \in Deleters : pc'[d] = "unlink" => Live(id[d], ref[d])' /\ pc[d] = "unlink"
    BY <1>3, <1>5, <2>0, Parts, Constants, Zenon DEF RefInv
  <2>3. ASSUME NEW c \in Creators, pc'[c] = "insert"
        PROVE  /\ Live(id[c], ref[c])' /\ map'[id'[c]] # ref'[c]
               /\ \A d \in Deleters : pc'[d] = "unlink" => id'[d] # id'[c]
               /\ \A e \in Creators : pc'[e] = "insert" /\ id'[e] = id'[c] => e = c
    <3>1. c \in Actors /\ pc[c] = "insert" /\ id[c] \in Id /\ ref[c] \in Nat
      BY <1>5, <2>3, Parts, Constants, Zenon
    <3>2. /\ Live(id[c], ref[c]) /\ map[id[c]] # ref[c]
          /\ \A d \in Deleters : pc[d] = "unlink" => id[d] # id[c]
          /\ \A e \in Creators : pc[e] = "insert" /\ id[e] = id[c] => e = c
      BY <3>1, Parts, Zenon DEF RefInv
    <3>3. ref[c] # NoVault
      BY <3>1, <3>2, LiveIs, Constants, Zenon
    <3>4. Live(id[c], ref[c])' /\ map'[id'[c]] # ref'[c]
      BY <1>3, <1>4, <2>0, <3>1, <3>2, <3>3, Zenon
    <3>5. \A e \in Creators : pc'[e] = "insert" /\ id'[e] = id'[c] => e = c
      BY <1>5, <2>0, <3>2, Constants, Zenon
    <3> QED BY <2>0, <2>2, <3>2, <3>4, <3>5, Zenon
  <2> QED BY <2>1, <2>2, <2>3, Zenon DEF RefInv
<1>12. ScanInv'
  <2> SUFFICES ASSUME MayScan PROVE ScanInv'
    BY <1>2, Zenon DEF ScanInv, MayScan
  <2>0. id' = id /\ scanned' = scanned /\ file' = file
    BY <1>2, Zenon
  <2>1. \A k \in Id : \A n \in Nat : Live(k, n) => map[k] = n
    BY Parts, Zenon DEF ScanInv
  <2>2. \A n \in Nat : ~Live(i, n)
    BY <1>1, <1>2, <2>1, Parts, Zenon DEF ScanInv
  <2>3. \A k \in Id : \A n \in Nat : Live(k, n)' => map'[k] = n
    BY <1>3, <1>4, <2>1, <2>2, Zenon
  <2>4. \A d \in Deleters : pc'[d] # "remove"
    BY <1>2, <1>5, Parts, Constants, Zenon DEF ModeInv
  <2>5. scanned'.on => \A k \in Id :
           /\ map'[k] # NoVault => k \in scanned'.known
           /\ scanned'.opened[k] # NoFile =>
                 map'[k] = NoVault /\ file'[k] = scanned'.opened[k]
    BY <1>4, <2>0, Parts, Zenon DEF ScanInv
  <2> QED BY <2>3, <2>4, <2>5, Zenon DEF ScanInv
<1> QED BY <1>7, <1>8, <1>9, <1>10, <1>11, <1>12, Zenon DEF IndInv

-----------------------------------------------------------------------------
(* Reload, and a file from outside *)

(* A step of the Reload that opens only what is not listed. *)
LEMMA ScanQuiet ==
    ASSUME IndInv, UNCHANGED <<file, map, vaults, pc, id, ref>>, TypeOK', MayScan' => MayScan,
           scanned'.on => \A i \in Id :
              /\ map[i] # NoVault => i \in scanned'.known
              /\ scanned'.opened[i] # NoFile =>
                    map[i] = NoVault /\ file[i] = scanned'.opened[i]
    PROVE  IndInv'
<1>1. \A i, n : Live(i, n)' <=> Live(i, n)
  BY Zenon DEF Live
<1>2. FileInv'
  BY <1>1, Parts, Zenon DEF FileInv
<1>3. MapInv'
  BY Parts, Zenon DEF MapInv, Live
<1>4. ModeInv'
  BY Parts, Zenon DEF ModeInv
<1>5. RefInv'
  <2>1. RefInv
    BY Parts, Zenon
  <2> QED BY <2>1, Zenon DEF RefInv, Live
<1>6. ScanInv'
  <2> SUFFICES ASSUME MayScan PROVE ScanInv'
    BY Zenon DEF ScanInv
  <2>1. \A i \in Id : \A n \in Nat : Live(i, n)' => map'[i] = n
    BY <1>1, Parts, Zenon DEF ScanInv
  <2>2. \A d \in Deleters : pc'[d] = "remove" =>
           map'[id'[d]] # NoVault /\ ~Live(id[d], map[id[d]])'
    BY Parts, Zenon DEF ScanInv, Live
  <2> QED BY <2>1, <2>2, Zenon DEF ScanInv
<1> QED BY <1>2, <1>3, <1>4, <1>5, <1>6, Zenon DEF IndInv

Contents == {NoFile} \cup SUBSET Writers
Files == [Id -> Contents]
Scans == [on : BOOLEAN, seen : SUBSET Id, known : SUBSET Id, opened : Files]

ScannedOne(sc, j, f) == [sc EXCEPT !.seen = @ \cup {j}, !.opened[j] = f]
ScanStarted(k) == [Idle EXCEPT !.on = TRUE, !.known = k]

(* One directory entry. *)
LEMMA ScanOne ==
    ASSUME NEW sc \in Scans, NEW j \in Id, NEW f \in Contents, NEW sd,
           sd = ScannedOne(sc, j, f)
    PROVE  /\ sd \in Scans /\ sd.known = sc.known /\ sd.opened[j] = f
           /\ \A i \in Id : i # j => sd.opened[i] = sc.opened[i]
<1>1. sc.opened \in Files /\ sc.seen \in SUBSET Id /\ sc.known \in SUBSET Id /\ sc.on \in BOOLEAN
  BY DEF Scans
<1> DEFINE o == [sc.opened EXCEPT ![j] = f]
           n == sc.seen \cup {j}
<1>2. o \in Files /\ o[j] = f /\ \A i \in Id : i # j => o[i] = sc.opened[i]
  BY <1>1, Zenon DEF Files
<1>3. n \in SUBSET Id
  BY <1>1, Zenon
<1>4. sd = [sc EXCEPT !.seen = n, !.opened = o]
  BY Zenon DEF ScannedOne
<1> HIDE DEF o, n
<1>5. sd \in Scans /\ sd.known = sc.known /\ sd.opened = o
  BY <1>2, <1>3, <1>4, Zenon DEF Scans
<1> QED BY <1>2, <1>5, Zenon

(* A scan that has read nothing. *)
LEMMA ScanNone ==
    ASSUME NEW k \in SUBSET Id, NEW sd, sd = ScanStarted(k)
    PROVE  sd \in Scans /\ sd.known = k /\ \A i \in Id : sd.opened[i] = NoFile
<1> DEFINE o == [i \in Id |-> NoFile]
<1>1. o \in Files /\ \A i \in Id : o[i] = NoFile
  BY Zenon DEF Files, Contents
<1>2. sd = [[on |-> FALSE, seen |-> {}, opened |-> o, known |-> {}] EXCEPT !.on = TRUE, !.known = k]
  BY Zenon DEF Idle, ScanStarted
<1> HIDE DEF o
<1>3. sd \in Scans /\ sd.known = k /\ sd.opened = o
  BY <1>1, <1>2, Zenon DEF Scans
<1> QED BY <1>1, <1>3, Zenon

(* loaded_ids, read under the state lock. *)
LEMMA StartReloadStep ==
    ASSUME IndInv, StartReload
    PROVE  IndInv'
<1>1. MayScan /\ UNCHANGED <<file, map, vaults, pc, id, ref, bus>>
      /\ scanned' = ScanStarted(loaded_ids)
  BY Zenon DEF StartReload, MayScan, ScanStarted
<1>2. /\ scanned' \in Scans /\ scanned'.known = loaded_ids
      /\ \A i \in Id : scanned'.opened[i] = NoFile
  <2>1. loaded_ids \in SUBSET Id
    BY Zenon DEF loaded_ids
  <2>2. PICK sd : sd = ScanStarted(loaded_ids)
    BY Zenon
  <2>3. sd \in Scans /\ sd.known = loaded_ids /\ \A i \in Id : sd.opened[i] = NoFile
    BY <2>1, <2>2, ScanNone, ZenonT(30)
  <2> QED BY <1>1, <2>2, <2>3, Zenon
<1>3. TypeOK'
  BY <1>1, <1>2, Parts, Zenon DEF TypeOK, bus, Scans, Files, Contents
<1>4. \A i \in Id : map[i] # NoVault => i \in scanned'.known
  BY <1>2, Zenon DEF loaded_ids
<1> QED BY <1>1, <1>2, <1>3, <1>4, ScanQuiet, Zenon

(* scan_vault_dir skips what is loaded; what it opens is therefore unlisted. *)
LEMMA ScanStep ==
    ASSUME IndInv, NEW j \in Id, scan_vault_dir(j)
    PROVE  IndInv'
<1> DEFINE f == IF j \in scanned.known THEN NoFile ELSE file[j]
<1>1. /\ scanned.on /\ UNCHANGED <<file, map, vaults, pc, id, ref, bus, reloads>>
      /\ scanned' = ScannedOne(scanned, j, f)
  BY Zenon DEF scan_vault_dir, ScannedOne
<1>2. f \in Contents
  BY Parts, Zenon DEF Contents
<1>3. f # NoFile => j \notin scanned.known /\ f = file[j]
  BY Zenon
<1>4. scanned \in Scans
  BY Parts, Zenon DEF TypeOK, Scans, Files, Contents
<1> HIDE DEF f
<1>5. /\ scanned' \in Scans /\ scanned'.known = scanned.known /\ scanned'.opened[j] = f
      /\ \A i \in Id : i # j => scanned'.opened[i] = scanned.opened[i]
  <2>1. PICK sd : sd = ScannedOne(scanned, j, f)
    BY Zenon
  <2>2. /\ sd \in Scans /\ sd.known = scanned.known /\ sd.opened[j] = f
        /\ \A i \in Id : i # j => sd.opened[i] = scanned.opened[i]
    BY <1>2, <1>4, <2>1, ScanOne, SMTT(30)
  <2> QED BY <1>1, <2>1, <2>2, Zenon
<1>6. TypeOK'
  BY <1>1, <1>5, Parts, Zenon DEF TypeOK, bus, Scans, Files, Contents
<1>7. MayScan
  BY <1>1, Zenon DEF MayScan
<1>8. \A i \in Id :
        /\ map[i] # NoVault => i \in scanned.known
        /\ scanned.opened[i] # NoFile => map[i] = NoVault /\ file[i] = scanned.opened[i]
  BY <1>1, <1>7, Parts, Zenon DEF ScanInv
<1>9. \A i \in Id :
        /\ map[i] # NoVault => i \in scanned'.known
        /\ scanned'.opened[i] # NoFile => map[i] = NoVault /\ file[i] = scanned'.opened[i]
  BY <1>3, <1>5, <1>8, Zenon
<1> QED BY <1>1, <1>6, <1>7, <1>9, ScanQuiet, Zenon

(* register_all works on the bus only. *)
LEMMA RegisterAllStep ==
    ASSUME IndInv, NEW j \in Id, register_all(j)
    PROVE  IndInv'
<1>1. /\ UNCHANGED <<file, map, vaults, pc, id, ref, scanned, reloads>>
      /\ exported' = exported \cup {j} /\ exporting' = exporting \ {j}
  BY Zenon DEF register_all
<1>2. TypeOK'
  BY <1>1, Parts, Zenon DEF TypeOK
<1>3. MayScan' => MayScan
  BY <1>1, Zenon DEF MayScan
<1>4. scanned'.on => MayScan
  BY <1>1, Zenon DEF MayScan
<1> QED BY <1>1, <1>2, <1>3, <1>4, Parts, ScanQuiet, Zenon DEF ScanInv

(* What merge_scan inserts was not listed, so no unretired vault has that    *)
(* name, and the file is still as it was read.                              *)
LEMMA MergeStep ==
    ASSUME IndInv, merge_scan
    PROVE  IndInv'
<1>0. PICK new : new = {i \in Id : scanned.opened[i] # NoFile}
  BY Zenon
<1>1. /\ scanned.on /\ scanned' = Idle
      /\ vaults' = [i \in Id |-> IF i \in new
                                 THEN Append(vaults[i], NewVault(scanned.opened[i], FALSE))
                                 ELSE vaults[i]]
      /\ map' = [i \in Id |-> IF i \in new THEN Len(vaults[i]) + 1 ELSE map[i]]
      /\ exporting' = {i \in Id : map'[i] # NoVault}
      /\ UNCHANGED <<file, pc, id, ref, exported, reloads>>
  BY <1>0, Zenon DEF merge_scan
<1>2. MayScan
  BY <1>1, Zenon DEF MayScan
<1>3. \A i \in new : i \in Id /\ map[i] = NoVault /\ file[i] = scanned.opened[i]
  BY <1>0, <1>1, <1>2, Parts, Zenon DEF ScanInv
<1>4. \A i \in new : \A n \in Nat : ~Live(i, n)
  <2> SUFFICES ASSUME NEW i \in new, NEW n \in Nat, Live(i, n) PROVE FALSE
    BY Zenon
  <2>1. i \in Id /\ map[i] = NoVault
    BY <1>3, Zenon
  <2>2. map[i] = n /\ n # 0
    BY <1>2, <2>1, Parts, LiveIs, Zenon DEF ScanInv
  <2> QED BY <2>1, <2>2, Constants, Zenon
<1>5. \A i \in Id : i \notin new => vaults'[i] = vaults[i] /\ map'[i] = map[i]
  BY <1>1, Zenon
<1>6. ASSUME NEW i \in new
      PROVE  /\ vaults'[i] \in Seq(Vault) /\ map'[i] \in Nat
             /\ map'[i] = Len(vaults'[i]) /\ map'[i] <= Len(vaults'[i])
             /\ \A n \in Nat : Live(i, n)' <=> n = map'[i]
             /\ map'[i] # NoVault /\ vaults'[i][map'[i]].items = file[i]
             /\ \A n \in 1..Len(vaults[i]) : n \in 1..Len(vaults'[i])
  <2>1. i \in Id /\ TypeOK /\ vaults[i] \in Seq(Vault)
    BY <1>3, <1>6, Parts, Zenon
  <2>2. scanned.opened[i] \in SUBSET Writers
    <3>1. scanned \in Scans
      BY <2>1, Zenon DEF TypeOK, Scans, Files, Contents
    <3>2. scanned.opened \in Files
      BY <3>1 DEF Scans
    <3> QED BY <1>0, <1>6, <2>1, <3>2, Zenon DEF Files, Contents
  <2>3. PICK m \in Nat : m = Len(vaults[i])
    BY <2>1
  <2>4. PICK r \in Vault : /\ r = NewVault(scanned.opened[i], FALSE) /\ ~r.retired
                           /\ r.items = scanned.opened[i]
    BY <2>2, NewVaultType, Zenon
  <2>5. Added(i, m, r) /\ map'[i] = m + 1
    BY <1>1, <1>6, <2>1, <2>3, <2>4, Zenon DEF Added
  <2>6. /\ vaults'[i] \in Seq(Vault) /\ Len(vaults'[i]) = m + 1
        /\ m \in Nat /\ m + 1 \in Nat /\ m + 1 # 0 /\ m <= m + 1
        /\ vaults'[i][m + 1] = r
        /\ \A n \in 1..m : vaults'[i][n] = vaults[i][n]
        /\ Live(i, m + 1)' <=> ~r.retired
        /\ \A n \in Nat : n # m + 1 => (Live(i, n)' <=> Live(i, n))
        /\ ~Live(i, m + 1)
    BY <2>1, <2>5, Add, Zenon
  <2>7. \A n \in Nat : Live(i, n)' <=> n = m + 1
    BY <1>4, <1>6, <2>4, <2>6, Zenon
  <2>8. m + 1 <= m + 1 /\ \A n \in 1..m : n \in 1..(m + 1)
    BY <2>6
  <2>9. file[i] = scanned.opened[i]
    BY <1>3, <1>6, Zenon
  <2> QED BY <2>3, <2>4, <2>5, <2>6, <2>7, <2>8, <2>9, Constants, Zenon
<1>7. \A i \in Id : \A n \in Nat : i \notin new => (Live(i, n)' <=> Live(i, n))
  BY <1>5, Same, Zenon
<1>8. TypeOK'
  <2>1. vaults' \in [Id -> Seq(Vault)]
    <3>1. vaults' = [i \in Id |-> vaults'[i]]
      BY <1>1, Zenon
    <3>2. \A i \in Id : vaults'[i] \in Seq(Vault)
      BY <1>5, <1>6, Parts, Zenon
    <3> QED BY <3>1, <3>2, Zenon
  <2>2. map' \in [Id -> Nat]
    <3>1. map' = [i \in Id |-> map'[i]]
      BY <1>1, Zenon
    <3>2. \A i \in Id : map'[i] \in Nat
      BY <1>5, <1>6, Parts, Zenon
    <3> QED BY <3>1, <3>2, Zenon
  <2>3. \A i \in Id : map'[i] <= Len(vaults'[i])
    BY <1>5, <1>6, Parts, Zenon
  <2>4. exporting' \subseteq Id
    BY <1>1, Zenon
  <2>5. Idle \in Scans
    <3>1. [i \in Id |-> NoFile] \in Files
      BY Zenon DEF Files, Contents
    <3> QED BY <3>1, Zenon DEF Scans, Idle
  <2> QED BY <1>1, <2>1, <2>2, <2>3, <2>4, <2>5, Parts, Zenon DEF TypeOK, Scans, Files, Contents
<1>9. FileInv'
  <2> SUFFICES ASSUME NEW i \in Id, NEW n \in Nat, Live(i, n)'
               PROVE  n = Len(vaults'[i]) /\ file'[i] = vaults'[i][n].items
    BY Zenon DEF FileInv
  <2>0. file' = file
    BY <1>1, Zenon
  <2>1. CASE i \in new
    BY <1>6, <2>0, <2>1, Zenon
  <2>2. CASE i \notin new
    <3>1. Live(i, n) /\ vaults'[i] = vaults[i]
      BY <1>5, <1>7, <2>2, Zenon
    <3> QED BY <2>0, <3>1, LiveIs, Zenon
  <2> QED BY <2>1, <2>2, Zenon
<1>10. MapInv'
  <2> SUFFICES ASSUME NEW i \in Id, map'[i] # NoVault
               PROVE  Live(i, map[i])' \/ \E d \in Deleters : pc'[d] = "remove" /\ id'[d] = i
    BY Zenon DEF MapInv
  <2>1. CASE i \in new
    BY <1>6, <2>1, Zenon
  <2>2. CASE i \notin new
    <3>1. map'[i] = map[i] /\ map[i] \in Nat /\ pc' = pc /\ id' = id
      BY <1>1, <1>5, <2>2, Parts, Zenon
    <3>2. Live(i, map[i]) \/ \E d \in Deleters : pc[d] = "remove" /\ id[d] = i
      BY <3>1, Parts, Zenon DEF MapInv
    <3>3. Live(i, map[i]) => Live(i, map[i])'
      BY <1>7, <2>2, <3>1, Zenon
    <3> QED BY <3>1, <3>2, <3>3, Zenon
  <2> QED BY <2>1, <2>2, Zenon
<1>11. ModeInv' /\ \A c \in Creators : pc'[c] = "failed"
  BY <1>1, <1>2, Parts, Zenon DEF ModeInv
<1>12. RefInv'
  <2>0. id' = id /\ ref' = ref /\ pc' = pc /\ \A b \in Actors : id[b] \in Id /\ ref[b] \in Nat
    BY <1>1, Parts, Zenon
  <2>1. ASSUME NEW w \in Writers, pc'[w] = "write"
        PROVE  ref'[w] \in 1..Len(vaults'[id'[w]])
    <3>1. id[w] \in Id /\ ref[w] \in 1..Len(vaults[id[w]])
      BY <2>0, <2>1, Parts, Constants, Zenon DEF RefInv
    <3> QED BY <1>5, <1>6, <2>0, <3>1, Zenon
  <2>2. ASSUME NEW d \in Deleters, pc'[d] = "unlink"
        PROVE  Live(id[d], ref[d])'
    <3>1. id[d] \in Id /\ ref[d] \in Nat /\ Live(id[d], ref[d])
      BY <2>0, <2>2, Parts, Constants, Zenon DEF RefInv
    <3> QED BY <1>4, <1>7, <2>0, <3>1, Zenon
  <2>3. \A c \in Creators : pc'[c] # "insert"
    BY <1>11, Zenon
  <2> QED BY <2>1, <2>2, <2>3, Zenon DEF RefInv
<1>13. ScanInv'
  <2>0. pc' = pc /\ id' = id /\ ~scanned'.on
    BY <1>1, Zenon DEF Idle
  <2>1. \A i \in Id : \A n \in Nat : Live(i, n)' => map'[i] = n
    <3> SUFFICES ASSUME NEW i \in Id, NEW n \in Nat, Live(i, n)' PROVE map'[i] = n
      BY Zenon
    <3>1. CASE i \in new
      BY <1>6, <3>1, Zenon
    <3>2. CASE i \notin new
      BY <1>2, <1>5, <1>7, <3>2, Parts, Zenon DEF ScanInv
    <3> QED BY <3>1, <3>2, Zenon
  <2>2. ASSUME NEW d \in Deleters, pc'[d] = "remove"
        PROVE  map'[id'[d]] # NoVault /\ ~Live(id[d], map[id[d]])'
    <3>1. id[d] \in Id /\ map[id[d]] # NoVault /\ ~Live(id[d], map[id[d]]) /\ map[id[d]] \in Nat
      BY <1>2, <2>0, <2>2, Parts, Constants, Zenon DEF ScanInv
    <3>2. id[d] \notin new
      BY <1>3, <3>1, Zenon
    <3> QED BY <1>5, <1>7, <2>0, <3>1, <3>2, Zenon
  <2> QED BY <2>0, <2>1, <2>2, Zenon DEF ScanInv
<1> QED BY <1>8, <1>9, <1>10, <1>11, <1>12, <1>13, Zenon DEF IndInv

(* `sm init` creates a file only where there is none. *)
LEMMA InitOfflineStep ==
    ASSUME IndInv, NEW j \in Id, InitOffline(j)
    PROVE  IndInv'
<1>1. /\ file[j] = NoFile /\ file' = [file EXCEPT ![j] = {}]
      /\ UNCHANGED <<map, vaults, pc, id, ref, scanned, reloads, bus>>
  BY Zenon DEF InitOffline, publish_new
<1>2. /\ file' \in [Id -> {NoFile} \cup SUBSET Writers]
      /\ \A i \in Id : i # j => file'[i] = file[i]
  BY <1>1, Parts, Zenon
<1>3. TypeOK'
  BY <1>1, <1>2, Parts, Zenon DEF TypeOK, bus
<1>4. \A i, n : Live(i, n)' <=> Live(i, n)
  BY <1>1, Zenon DEF Live
<1>5. \A n \in Nat : ~Live(j, n)
  BY <1>1, LiveIs, Zenon
<1>6. FileInv'
  BY <1>1, <1>2, <1>4, <1>5, Parts, ZenonT(30) DEF FileInv
<1>7. MapInv' /\ ModeInv'
  BY <1>1, Parts, Zenon DEF MapInv, ModeInv, MayScan, Live
<1>8. RefInv'
  <2>1. RefInv
    BY Parts, Zenon
  <2> QED BY <1>1, <2>1, Zenon DEF RefInv, Live
<1>9. ScanInv'
  <2> SUFFICES ASSUME MayScan PROVE ScanInv'
    BY <1>1, Zenon DEF ScanInv, MayScan
  <2>1. \A i \in Id : \A n \in Nat : Live(i, n)' => map'[i] = n
    BY <1>1, <1>4, Parts, Zenon DEF ScanInv
  <2>2. \A d \in Deleters : pc'[d] = "remove" =>
           map'[id'[d]] # NoVault /\ ~Live(id[d], map[id[d]])'
    BY <1>1, Parts, Zenon DEF ScanInv, Live
  <2>3. scanned'.on => \A i \in Id :
           /\ map'[i] # NoVault => i \in scanned'.known
           /\ scanned'.opened[i] # NoFile =>
                 map'[i] = NoVault /\ file'[i] = scanned'.opened[i]
    BY <1>1, <1>2, Parts, Zenon DEF ScanInv
  <2> QED BY <2>1, <2>2, <2>3, Zenon DEF ScanInv
<1> QED BY <1>3, <1>6, <1>7, <1>8, <1>9, Zenon DEF IndInv

-----------------------------------------------------------------------------
(* The invariant *)

(* The daemon as it starts. *)
LEMMA Start ==
    ASSUME CallsFit, Init
    PROVE  IndInv
<1>1. PICK calls \in Calls :
        /\ file = [i \in Id |-> IF i = Ids[1] THEN {} ELSE NoFile]
        /\ map = [i \in Id |-> IF i = Ids[1] THEN 1 ELSE NoVault]
        /\ vaults = [i \in Id |-> IF i = Ids[1] THEN <<NewVault({}, TRUE)>> ELSE <<>>]
        /\ pc = [a \in Actors |-> IF a \in calls THEN "start" ELSE "failed"]
        /\ id = [a \in Actors |-> Ids[1]]
        /\ ref = [a \in Actors |-> NoVault]
        /\ scanned = Idle
        /\ exported = {Ids[1]} /\ exporting = {}
        /\ reloads = IF Reload \in calls THEN 0 ELSE MaxReloads
  BY Zenon DEF Init
<1>2. PICK r \in Vault : r = NewVault({}, TRUE) /\ ~r.retired /\ r.items = {}
  BY NewVaultType, Zenon
<1>3. PICK f \in Id : f = Ids[1]
  BY Constants, Zenon
<1>4. /\ <<r>> \in Seq(Vault) /\ Len(<<r>>) = 1 /\ <<r>>[1] = r
      /\ <<>> \in Seq(Vault) /\ Len(<<>>) = 0
      /\ 1..0 = {} /\ 1..1 = {1} /\ 1 <= 1 /\ 0 <= 0 /\ 1 \in Nat /\ 0 \in Nat /\ 1 # 0
  <2>1. /\ <<r>> \in Seq(Vault) /\ Len(<<r>>) = 1 /\ <<r>>[1] = r
        /\ <<>> \in Seq(Vault) /\ Len(<<>>) = 0
    BY <1>2, One, Zenon
  <2>2. 1..0 = {} /\ 1..1 = {1}
    BY SMTT(30)
  <2>3. 1 <= 1 /\ 0 <= 0 /\ 1 \in Nat /\ 0 \in Nat /\ 1 # 0
    BY SMTT(30)
  <2> QED BY <2>1, <2>2, <2>3, Zenon
<1>5. /\ vaults \in [Id -> Seq(Vault)] /\ vaults[f] = <<r>>
      /\ \A i \in Id : i # f => vaults[i] = <<>>
  BY <1>1, <1>2, <1>3, <1>4, Zenon
<1>6. /\ map \in [Id -> Nat] /\ map[f] = 1 /\ \A i \in Id : i # f => map[i] = 0
  BY <1>1, <1>3, <1>4, Constants, Zenon
<1>7. /\ file \in [Id -> {NoFile} \cup SUBSET Writers] /\ file[f] = {}
  BY <1>1, <1>3, Zenon
<1>8. \A a \in Actors : pc[a] = IF a \in calls THEN "start" ELSE "failed"
  BY <1>1, Zenon
<1>9. TypeOK
  <2>1. \A i \in Id : map[i] <= Len(vaults[i])
    BY <1>4, <1>5, <1>6, Zenon
  <2>2. pc \in [Actors -> Labels]
    BY <1>1, Zenon DEF Labels
  <2>3. id \in [Actors -> Id] /\ ref \in [Actors -> Nat]
    BY <1>1, <1>3, <1>4, Constants, Zenon
  <2>4. Idle \in Scans
    <3>1. [i \in Id |-> NoFile] \in Files
      BY Zenon DEF Files, Contents
    <3> QED BY <3>1, Zenon DEF Scans, Idle
  <2>5. exported \subseteq Id /\ exporting \subseteq Id
    BY <1>1, <1>3, Zenon
  <2> QED BY <1>1, <1>5, <1>6, <1>7, <2>1, <2>2, <2>3, <2>4, <2>5, Zenon
          DEF TypeOK, Scans, Files, Contents
<1>10. Live(f, 1)
  BY <1>2, <1>4, <1>5, Zenon DEF Live
<1>11. \A i \in Id : \A n \in Nat : Live(i, n) => i = f /\ n = 1
  BY <1>4, <1>5, Zenon DEF Live
<1>12. FileInv
  BY <1>2, <1>4, <1>5, <1>7, <1>11, Zenon DEF FileInv
<1>13. MapInv
  BY <1>6, <1>10, Constants, Zenon DEF MapInv
<1>14. ~scanned.on
  BY <1>1, Zenon DEF Idle
<1>15. ModeInv
  <2>1. MayScan => Reload \in calls
    <3>1. reloads < MaxReloads => Reload \in calls
      <4>1. ~(MaxReloads < MaxReloads)
        BY CollectionsAssumption
      <4> QED BY <1>1, <4>1, Zenon
    <3> QED BY <1>14, <3>1, Zenon DEF MayScan
  <2>2. MayScan => \A c \in Creators : pc[c] = "failed"
    BY <1>8, <2>1, Constants, Zenon DEF CallsFit
  <2>3. \A d, e \in Deleters : pc[d] = "failed" \/ pc[e] = "failed" \/ d = e
    BY <1>8, Constants, Zenon DEF CallsFit
  <2> QED BY <2>2, <2>3, Zenon DEF ModeInv
<1>16. RefInv
  BY <1>8, Constants, Zenon DEF RefInv
<1>17. ScanInv
  BY <1>6, <1>8, <1>11, <1>14, Constants, Zenon DEF ScanInv
<1> QED BY <1>9, <1>12, <1>13, <1>15, <1>16, <1>17, Zenon DEF IndInv

(* Every step keeps the invariant. *)
LEMMA Step ==
    ASSUME IndInv, [Next]_vars
    PROVE  IndInv'
<1>1. CASE Next
  <2>1. ASSUME NEW a \in Creators,
               ReadLoaded(a) \/ unique_collection_id_in(a) \/ Create(a) \/ Insert(a)
               \/ register_collection(a)
        PROVE  IndInv'
    BY <2>1, CreatorQuiet, CreateStep, InsertStep, Zenon
  <2>2. ASSUME NEW a \in Deleters,
               delete(a) \/ TakeForDelete(a) \/ Unlink(a) \/ Unlist(a)
               \/ unregister_collection(a)
        PROVE  IndInv'
    BY <2>2, DeleterQuiet, UnlinkStep, UnlistStep, Zenon
  <2>3. ASSUME NEW a \in Writers, TakeForWrite(a) \/ Write(a)
        PROVE  IndInv'
    BY <2>3, WriterQuiet, WriteStep, Zenon
  <2>4. ASSUME NEW i \in Id,
               Unlock(i) \/ Lock(i) \/ scan_vault_dir(i) \/ InitOffline(i) \/ register_all(i)
        PROVE  IndInv'
    BY <2>4, SetOpenStep, ScanStep, InitOfflineStep, RegisterAllStep, Zenon DEF Unlock, Lock
  <2> QED BY <1>1, <2>1, <2>2, <2>3, <2>4, StartReloadStep, MergeStep, Zenon DEF Next
<1>2. CASE UNCHANGED vars
  <2>1. UNCHANGED <<file, map, vaults, pc, id, ref, scanned, reloads, bus>>
    BY <1>2, Zenon DEF vars
  <2>2. TypeOK'
    BY <2>1, Parts, Zenon DEF TypeOK, bus
  <2>3. (MayScan' => MayScan) /\ (scanned'.on => MayScan)
    BY <2>1, Zenon DEF MayScan
  <2> QED BY <2>1, <2>2, <2>3, Parts, ScanQuiet, Zenon DEF ScanInv
<1> QED BY <1>1, <1>2, Zenon

(* The map, the vaults and the files stay in step: only the last vault      *)
(* constructed for a name can be unretired, and it holds what the file      *)
(* holds; what is listed is unretired or about to be unlisted; what a call  *)
(* took from the map before its prompt, or its wait for the vault's lock,   *)
(* is as it was; and what a Reload's scan opened is as it was read.         *)
THEOREM Invariance == CallsFit => (Spec => []IndInv)
<1> SUFFICES ASSUME CallsFit PROVE Spec => []IndInv
  OBVIOUS
<1>1. Init => IndInv
  BY Start
<1>2. IndInv /\ [Next]_vars => IndInv'
  BY Step
<1> QED BY <1>1, <1>2, PTL DEF Spec

-----------------------------------------------------------------------------
(* The properties *)

(* A write that succeeds adds its item to what the file holds. *)
LEMMA WriteFile ==
    ASSUME IndInv, NEW a \in Writers, Write(a), pc'[a] = "done"
    PROVE  /\ file[id[a]] # NoFile /\ file'[id[a]] # NoFile
           /\ file'[id[a]] = file[id[a]] \cup {a}
<1>0. a \in Actors /\ ref[a] \in Nat /\ id[a] \in Id
  BY Parts, Constants, Zenon
<1>1. PICK i \in Id, v \in Nat : i = id[a] /\ v = ref[a]
  BY <1>0, Zenon
<1>2. pc' # [pc EXCEPT ![a] = "failed"]
  BY <1>0, Parts, Zenon
<1>3. /\ pc[a] = "write" /\ ~vaults[i][v].retired
      /\ vaults' = [vaults EXCEPT ![i][v].items = @ \cup {a}]
      /\ file' = [file EXCEPT ![i] = vaults'[i][v].items]
  BY <1>1, <1>2, Zenon DEF Write, Goto
<1>4. v \in 1..Len(vaults[i])
  BY <1>1, <1>3, Parts, Zenon DEF RefInv
<1>5. Live(i, v)
  BY <1>3, <1>4, Zenon DEF Live
<1>6. vaults[i][v] \in Vault /\ file[i] = vaults[i][v].items /\ file[i] # NoFile
  BY <1>5, LiveIs, Zenon
<1>7. PICK r \in Vault : /\ r = [vaults[i][v] EXCEPT !.items = @ \cup {a}]
                         /\ r.items = vaults[i][v].items \cup {a} /\ r.items \in SUBSET Writers
  BY <1>6, Written, Zenon
<1>8. vaults' = Replaced(i, v, r) /\ TypeOK
  BY <1>3, <1>7, Parts, Zenon DEF Replaced
<1>9. vaults'[i][v] = r
  BY <1>4, <1>8, Put, SMTT(30)
<1>10. file'[i] = r.items
  BY <1>3, <1>9, Parts, Zenon
<1> QED BY <1>1, <1>6, <1>7, <1>10, Constants, Zenon

(* Only Write and Unlink take a file from one content to another, and they  *)
(* go through a vault that holds what the file holds; Create and `sm init`  *)
(* make an empty one where there was none.                                  *)
LEMMA FileStep ==
    ASSUME IndInv, [Next]_vars, NEW i \in Id
    PROVE  \/ file'[i] = file[i]
           \/ file[i] = NoFile /\ file'[i] = {}
           \/ /\ file[i] # NoFile /\ file'[i] # NoFile
              /\ \E w \in Writers : id[w] = i /\ file'[i] = file[i] \cup {w}
           \/ file'[i] = NoFile /\ purged' = purged \cup file[i]
<1>1. ASSUME NEW a \in Creators, Create(a), file' # file
      PROVE  file'[i] = file[i] \/ (file[i] = NoFile /\ file'[i] = {})
  <2>1. file[id[a]] = NoFile /\ file' = [file EXCEPT ![id[a]] = {}]
    BY <1>1, Zenon DEF Create, publish_new
  <2> QED BY <2>1, Parts, Zenon
<1>2. ASSUME NEW a \in Deleters, Unlink(a), file' # file
      PROVE  file'[i] = file[i] \/ (file'[i] = NoFile /\ purged' = purged \cup file[i])
  <2>1. purged' = purged \cup file[id[a]] /\ file' = [file EXCEPT ![id[a]] = NoFile]
    BY <1>2, Zenon DEF Unlink
  <2> QED BY <2>1, Parts, Zenon
<1>3. ASSUME NEW a \in Writers, Write(a), file' # file, id[a] = i
      PROVE  file[i] # NoFile /\ file'[i] # NoFile /\ file'[i] = file[i] \cup {a}
  <2>1. pc' = [pc EXCEPT ![a] = "done"] /\ a \in Actors
    BY <1>3, Constants, Zenon DEF Write, Goto
  <2>2. pc'[a] = "done"
    BY <2>1, Parts, Zenon
  <2> QED BY <1>3, <2>2, WriteFile, Zenon
<1>4. ASSUME NEW a \in Writers, Write(a), file' # file, id[a] # i
      PROVE  file'[i] = file[i]
  <2>1. file' = [file EXCEPT ![id[a]] = vaults'[id[a]][ref[a]].items]
    BY <1>4, Zenon DEF Write
  <2> QED BY <1>4, <2>1, Parts, Zenon
<1>5. ASSUME NEW j \in Id, InitOffline(j)
      PROVE  file'[i] = file[i] \/ (file[i] = NoFile /\ file'[i] = {})
  <2>1. file[j] = NoFile /\ file' = [file EXCEPT ![j] = {}]
    BY <1>5, Zenon DEF InitOffline, publish_new
  <2> QED BY <2>1, Parts, Zenon
<1>6. \/ file' = file
      \/ \E a \in Creators : Create(a)
      \/ \E a \in Deleters : Unlink(a)
      \/ \E a \in Writers : Write(a)
      \/ \E j \in Id : InitOffline(j)
  BY Zenon DEF Next, vars, ReadLoaded, unique_collection_id_in, Insert, register_collection,
               delete, TakeForDelete, Unlist, unregister_collection, TakeForWrite, Unlock, Lock,
               SetOpen, scan_vault_dir, register_all, StartReload, merge_scan
<1> QED BY <1>1, <1>2, <1>3, <1>4, <1>5, <1>6, Zenon

(* A file that was not there appears empty: after a delete only a create or *)
(* `sm init` brings the name back, and no writer that waited for the lock   *)
(* of the deleted vault does.                                               *)
THEOREM DeletedStaysDeletedThm == CallsFit => (Spec => DeletedStaysDeleted)
<1> SUFFICES ASSUME CallsFit PROVE Spec => DeletedStaysDeleted
  OBVIOUS
<1>1. Spec => []IndInv
  BY Invariance
<1>2. IndInv /\ [Next]_vars
      => [\A i \in Id : file[i] = NoFile /\ file'[i] # NoFile => file'[i] = {}]_vars
  BY FileStep, Zenon
<1> QED BY <1>1, <1>2, PTL DEF Spec, DeletedStaysDeleted

(* A write that has ended was answered in this step or before it. *)
LEMMA WriterStep ==
    ASSUME IndInv, [Next]_vars, NEW w \in Writers, pc'[w] = "done"
    PROVE  (pc[w] = "done" /\ id'[w] = id[w]) \/ (Write(w) /\ id'[w] = id[w])
<1>0. w \in Actors /\ w \notin Creators /\ w \notin Deleters
  BY Constants, Zenon
<1>1. ASSUME NEW a \in Actors, a # w,
             \E l : pc' = [pc EXCEPT ![a] = l],
             id' = id \/ \E i : id' = [id EXCEPT ![a] = i]
      PROVE  pc[w] = "done" /\ id'[w] = id[w]
  BY <1>0, <1>1, Parts, Zenon
<1>2. ASSUME NEW a \in Creators,
             ReadLoaded(a) \/ unique_collection_id_in(a) \/ Create(a) \/ Insert(a)
             \/ register_collection(a)
      PROVE  pc[w] = "done" /\ id'[w] = id[w]
  <2>1. a \in Actors /\ a # w
    BY <1>0, Constants, Zenon
  <2>2. \E l : pc' = [pc EXCEPT ![a] = l]
    BY <1>2, Zenon DEF ReadLoaded, unique_collection_id_in, Create, Insert, register_collection, Goto
  <2>3. id' = id \/ \E i : id' = [id EXCEPT ![a] = i]
    BY <1>2, Zenon DEF ReadLoaded, unique_collection_id_in, Create, Insert, register_collection
  <2> QED BY <1>1, <2>1, <2>2, <2>3, Zenon
<1>3. ASSUME NEW a \in Deleters,
             delete(a) \/ TakeForDelete(a) \/ Unlink(a) \/ Unlist(a) \/ unregister_collection(a)
      PROVE  pc[w] = "done" /\ id'[w] = id[w]
  <2>1. a \in Actors /\ a # w
    BY <1>0, Constants, Zenon
  <2>2. \E l : pc' = [pc EXCEPT ![a] = l]
    BY <1>3, Zenon DEF delete, TakeForDelete, Unlink, Unlist, unregister_collection, Goto
  <2>3. id' = id \/ \E i : id' = [id EXCEPT ![a] = i]
    BY <1>3, Zenon DEF delete, TakeForDelete, Unlink, Unlist, unregister_collection
  <2> QED BY <1>1, <2>1, <2>2, <2>3, Zenon
<1>4. ASSUME NEW a \in Writers, a # w, TakeForWrite(a) \/ Write(a)
      PROVE  pc[w] = "done" /\ id'[w] = id[w]
  <2>1. a \in Actors
    BY Constants, Zenon
  <2>2. \E l : pc' = [pc EXCEPT ![a] = l]
    BY <1>4, Zenon DEF TakeForWrite, Write, Goto
  <2>3. id' = id \/ \E i : id' = [id EXCEPT ![a] = i]
    BY <1>4, Zenon DEF TakeForWrite, Write
  <2> QED BY <1>1, <1>4, <2>1, <2>2, <2>3, Zenon
<1>5. ASSUME TakeForWrite(w) PROVE FALSE
  BY <1>0, <1>5, Parts, Zenon DEF TakeForWrite, Goto
<1>6. ASSUME Write(w) PROVE id'[w] = id[w]
  BY <1>6, Zenon DEF Write
<1>7. \/ \E a \in Creators : ReadLoaded(a) \/ unique_collection_id_in(a) \/ Create(a) \/ Insert(a)
                            \/ register_collection(a)
      \/ \E a \in Deleters : delete(a) \/ TakeForDelete(a) \/ Unlink(a) \/ Unlist(a)
                            \/ unregister_collection(a)
      \/ \E a \in Writers : TakeForWrite(a) \/ Write(a)
      \/ UNCHANGED <<pc, id>>
  BY Zenon DEF Next, vars, Unlock, Lock, SetOpen, scan_vault_dir, InitOffline, register_all,
               StartReload, merge_scan
<1> QED BY <1>2, <1>3, <1>4, <1>5, <1>6, <1>7, Zenon

(* What a delete has unlinked stays unlinked history. *)
LEMMA PurgedGrows ==
    ASSUME [Next]_vars
    PROVE  purged \subseteq purged'
BY Zenon DEF Next, vars, rest, ReadLoaded, unique_collection_id_in, Create, Insert,
             register_collection, delete, TakeForDelete, Unlink, Unlist, unregister_collection,
             TakeForWrite, Write, Unlock, Lock, SetOpen, scan_vault_dir, InitOffline,
             register_all, StartReload, merge_scan

(* An item whose write was answered with Ok stays in its collection's file  *)
(* until a delete unlinks that file: no writer with an older reference, no  *)
(* create under the same name and no Reload takes it out.                   *)
THEOREM WrittenIsStoredThm == CallsFit => (Spec => []WrittenIsStored)
<1> SUFFICES ASSUME CallsFit PROVE Spec => []WrittenIsStored
  OBVIOUS
<1>1. Init => WrittenIsStored
  BY Constants, Zenon DEF Init, WrittenIsStored
<1>2. ASSUME IndInv, WrittenIsStored, [Next]_vars
      PROVE  WrittenIsStored'
  <2> SUFFICES ASSUME NEW w \in Writers, pc'[w] = "done"
               PROVE  w \in purged' \/ (file'[id'[w]] # NoFile /\ w \in file'[id'[w]])
    BY Zenon DEF WrittenIsStored
  <2>1. id[w] \in Id
    BY <1>2, Parts, Constants, Zenon
  <2>2. PICK i \in Id : i = id[w]
    BY <2>1, Zenon
  <2>3. CASE pc[w] = "done" /\ id'[w] = id[w]
    <3>1. w \in purged => w \in purged'
      BY <1>2, PurgedGrows, Zenon
    <3>2. ASSUME file[i] # NoFile, w \in file[i]
          PROVE  w \in purged' \/ (file'[i] # NoFile /\ w \in file'[i])
      BY <1>2, <3>2, FileStep, Zenon
    <3>3. w \in purged \/ (file[i] # NoFile /\ w \in file[i])
      BY <1>2, <2>2, <2>3, Zenon DEF WrittenIsStored
    <3> QED BY <2>2, <2>3, <3>1, <3>2, <3>3, Zenon
  <2>4. CASE Write(w) /\ id'[w] = id[w]
    BY <1>2, <2>2, <2>4, WriteFile, Zenon
  <2> QED BY <1>2, <2>3, <2>4, WriterStep, Zenon
<1>3. Spec => []IndInv
  BY Invariance
<1>4. IndInv /\ WrittenIsStored /\ [Next]_vars => WrittenIsStored'
  BY <1>2, Zenon
<1> QED BY <1>1, <1>3, <1>4, PTL DEF Spec

-----------------------------------------------------------------------------
(* Listed collections and the bus *)

(* A listed collection stays accounted for on the bus. *)
LEMMA ExportKept ==
    ASSUME ExportInv, exported \cup exporting \subseteq exported' \cup exporting',
           \A i \in Id : map'[i] # NoVault => map[i] # NoVault,
           \A c \in Creators : pc[c] = "register" => pc'[c] = "register" /\ id'[c] = id[c],
           \A d \in Deleters : pc[d] = "done" => pc'[d] = "done" /\ id'[d] = id[d]
    PROVE  ExportInv'
<1> SUFFICES ASSUME NEW i \in Id, map'[i] # NoVault
             PROVE  \/ i \in exported' \cup exporting'
                    \/ \E c \in Creators : pc'[c] = "register" /\ id'[c] = i
                    \/ \E d \in Deleters : pc'[d] = "done" /\ id'[d] = i
  BY Zenon DEF ExportInv, loaded_ids
<1>1. map[i] # NoVault
  BY Zenon
<1>2. \/ i \in exported \cup exporting
      \/ \E c \in Creators : pc[c] = "register" /\ id[c] = i
      \/ \E d \in Deleters : pc[d] = "done" /\ id[d] = i
  BY <1>1, Zenon DEF ExportInv, loaded_ids
<1> QED BY <1>2, Zenon

(* The same for one call that moves on. *)
LEMMA ExportMove ==
    ASSUME IndInv, ExportInv, NEW a \in Actors, \E l : pc' = [pc EXCEPT ![a] = l],
           pc[a] \notin {"register", "done"}, id' = id \/ \E x : id' = [id EXCEPT ![a] = x],
           UNCHANGED bus, \A i \in Id : map'[i] # NoVault => map[i] # NoVault
    PROVE  ExportInv'
<1>1. \A b \in Actors : b # a => pc'[b] = pc[b] /\ id'[b] = id[b]
  BY Parts, Zenon
<1>2. \A b \in Actors : pc[b] \in {"register", "done"} => pc'[b] = pc[b] /\ id'[b] = id[b]
  BY <1>1, Zenon
<1>3. \A c \in Creators : pc[c] = "register" => pc'[c] = "register" /\ id'[c] = id[c]
  BY <1>2, Constants, Zenon
<1>4. \A d \in Deleters : pc[d] = "done" => pc'[d] = "done" /\ id'[d] = id[d]
  BY <1>2, Constants, Zenon
<1>5. exported \cup exporting \subseteq exported' \cup exporting'
  BY Zenon DEF bus
<1> QED BY <1>3, <1>4, <1>5, ExportKept, Zenon

(* What create_collection lists it registers before it ends. *)
LEMMA ExportCreator ==
    ASSUME IndInv, ExportInv, NEW a \in Creators,
           ReadLoaded(a) \/ unique_collection_id_in(a) \/ Create(a) \/ Insert(a)
           \/ register_collection(a)
    PROVE  ExportInv'
<1>0. a \in Actors
  BY Constants, Zenon
<1>1. CASE ReadLoaded(a) \/ unique_collection_id_in(a) \/ Create(a)
  <2>1. /\ \E l : pc' = [pc EXCEPT ![a] = l] /\ pc[a] \notin {"register", "done"}
        /\ UNCHANGED <<map, bus>>
    BY <1>1, Zenon DEF ReadLoaded, unique_collection_id_in, Create, Goto
  <2>2. id' = id \/ \E x : id' = [id EXCEPT ![a] = x]
    BY <1>1, Zenon DEF ReadLoaded, unique_collection_id_in, Create
  <2> QED BY <1>0, <2>1, <2>2, ExportMove, Zenon
<1>2. CASE Insert(a)
  <2>1. /\ pc[a] = "insert" /\ map' = [map EXCEPT ![id[a]] = ref[a]]
        /\ pc' = [pc EXCEPT ![a] = "register"] /\ UNCHANGED <<id, exported, exporting>>
    BY <1>2, Zenon DEF Insert, Goto, bus
  <2>2. pc'[a] = "register" /\ \A b \in Actors : b # a => pc'[b] = pc[b]
    BY <1>0, <2>1, Parts, Zenon
  <2>3. \A k \in Id : k # id[a] => map'[k] = map[k]
    BY <2>1, Parts, Zenon
  <2> SUFFICES ASSUME NEW i \in Id, map'[i] # NoVault
               PROVE  \/ i \in exported' \cup exporting'
                      \/ \E c \in Creators : pc'[c] = "register" /\ id'[c] = i
                      \/ \E d \in Deleters : pc'[d] = "done" /\ id'[d] = i
    BY Zenon DEF ExportInv, loaded_ids
  <2>4. CASE i = id[a]
    BY <2>1, <2>2, <2>4, Zenon
  <2>5. CASE i # id[a]
    <3>1. \/ i \in exported \cup exporting
          \/ \E c \in Creators : pc[c] = "register" /\ id[c] = i
          \/ \E d \in Deleters : pc[d] = "done" /\ id[d] = i
      BY <2>3, <2>5, Zenon DEF ExportInv, loaded_ids
    <3> QED BY <2>1, <2>2, <3>1, Constants, Zenon
  <2> QED BY <2>4, <2>5, Zenon
<1>3. CASE register_collection(a)
  <2>1. /\ pc' = [pc EXCEPT ![a] = "done"] /\ exported' = exported \cup {id[a]}
        /\ UNCHANGED <<id, map, exporting>>
    BY <1>3, Zenon DEF register_collection, Goto
  <2>2. \A b \in Actors : b # a => pc'[b] = pc[b]
    BY <1>0, <2>1, Parts, Zenon
  <2> SUFFICES ASSUME NEW i \in Id, map'[i] # NoVault, i \notin exported' \cup exporting'
               PROVE  \/ \E c \in Creators : pc'[c] = "register" /\ id'[c] = i
                      \/ \E d \in Deleters : pc'[d] = "done" /\ id'[d] = i
    BY Zenon DEF ExportInv, loaded_ids
  <2>3. i # id[a] /\ i \notin exported \cup exporting /\ map[i] # NoVault
    BY <2>1, Zenon
  <2>4. \/ \E c \in Creators : pc[c] = "register" /\ id[c] = i
        \/ \E d \in Deleters : pc[d] = "done" /\ id[d] = i
    BY <2>3, Zenon DEF ExportInv, loaded_ids
  <2> QED BY <2>1, <2>2, <2>3, <2>4, Constants, Zenon
<1> QED BY <1>1, <1>2, <1>3, Zenon

(* What unregister_collection takes off the bus, a delete that has ended     *)
(* accounts for.                                                            *)
LEMMA ExportDeleter ==
    ASSUME IndInv, ExportInv, NEW a \in Deleters,
           delete(a) \/ TakeForDelete(a) \/ Unlink(a) \/ Unlist(a) \/ unregister_collection(a)
    PROVE  ExportInv'
<1>0. a \in Actors
  BY Constants, Zenon
<1>1. CASE delete(a) \/ TakeForDelete(a) \/ Unlink(a) \/ Unlist(a)
  <2>1. /\ \E l : pc' = [pc EXCEPT ![a] = l] /\ pc[a] \notin {"register", "done"}
        /\ UNCHANGED bus /\ (map' = map \/ map' = [map EXCEPT ![id[a]] = NoVault])
    BY <1>1, Zenon DEF delete, TakeForDelete, Unlink, Unlist, Goto
  <2>2. id' = id \/ \E x : id' = [id EXCEPT ![a] = x]
    BY <1>1, Zenon DEF delete, TakeForDelete, Unlink, Unlist
  <2>3. \A i \in Id : map'[i] # NoVault => map[i] # NoVault
    BY <2>1, Parts, Zenon
  <2> QED BY <1>0, <2>1, <2>2, <2>3, ExportMove, Zenon
<1>2. CASE unregister_collection(a)
  <2>1. /\ pc' = [pc EXCEPT ![a] = "done"] /\ exported' = exported \ {id[a]}
        /\ UNCHANGED <<id, map, exporting>>
    BY <1>2, Zenon DEF unregister_collection, Goto
  <2>2. pc'[a] = "done" /\ \A b \in Actors : b # a => pc'[b] = pc[b]
    BY <1>0, <2>1, Parts, Zenon
  <2> SUFFICES ASSUME NEW i \in Id, map'[i] # NoVault
               PROVE  \/ i \in exported' \cup exporting'
                      \/ \E c \in Creators : pc'[c] = "register" /\ id'[c] = i
                      \/ \E d \in Deleters : pc'[d] = "done" /\ id'[d] = i
    BY Zenon DEF ExportInv, loaded_ids
  <2>3. CASE i = id[a]
    BY <2>1, <2>2, <2>3, Zenon
  <2>4. CASE i # id[a]
    <3>1. \/ i \in exported \cup exporting
          \/ \E c \in Creators : pc[c] = "register" /\ id[c] = i
          \/ \E d \in Deleters : pc[d] = "done" /\ id[d] = i
      BY <2>1, Zenon DEF ExportInv, loaded_ids
    <3> QED BY <2>1, <2>2, <2>4, <3>1, Constants, Zenon
  <2> QED BY <2>3, <2>4, Zenon
<1> QED BY <1>1, <1>2, Zenon

(* register_all exports what merge_scan listed. *)
LEMMA ExportStep ==
    ASSUME IndInv, ExportInv, [Next]_vars
    PROVE  ExportInv'
<1>1. ASSUME NEW a \in Writers, TakeForWrite(a) \/ Write(a)
      PROVE  ExportInv'
  <2>1. a \in Actors
    BY Constants, Zenon
  <2>2. /\ \E l : pc' = [pc EXCEPT ![a] = l] /\ pc[a] \notin {"register", "done"}
        /\ UNCHANGED <<map, bus>>
    BY <1>1, Zenon DEF TakeForWrite, Write, Goto
  <2>3. id' = id \/ \E x : id' = [id EXCEPT ![a] = x]
    BY <1>1, Zenon DEF TakeForWrite, Write
  <2> QED BY <2>1, <2>2, <2>3, ExportMove, Zenon
<1>2. ASSUME UNCHANGED <<pc, id, map, bus>>
      PROVE  ExportInv'
  BY <1>2, Zenon DEF ExportInv, loaded_ids, bus
<1>3. ASSUME NEW i \in Id, register_all(i)
      PROVE  ExportInv'
  BY <1>3, Zenon DEF register_all, ExportInv, loaded_ids
<1>4. ASSUME merge_scan PROVE ExportInv'
  BY <1>4, Zenon DEF merge_scan, ExportInv, loaded_ids
<1>5. \/ \E a \in Creators : ReadLoaded(a) \/ unique_collection_id_in(a) \/ Create(a) \/ Insert(a)
                            \/ register_collection(a)
      \/ \E a \in Deleters : delete(a) \/ TakeForDelete(a) \/ Unlink(a) \/ Unlist(a)
                            \/ unregister_collection(a)
      \/ \E a \in Writers : TakeForWrite(a) \/ Write(a)
      \/ UNCHANGED <<pc, id, map, bus>>
      \/ \E i \in Id : register_all(i)
      \/ merge_scan
  BY Zenon DEF Next, vars, Unlock, Lock, SetOpen, scan_vault_dir, InitOffline, StartReload
<1> QED BY <1>1, <1>2, <1>3, <1>4, <1>5, ExportCreator, ExportDeleter, Zenon

(* When no call is under way, every collection the daemon lists has its     *)
(* file, and it is on the bus unless a delete of that name has ended: what  *)
(* delete_collection unlinks it also unlists, and what create_collection or *)
(* merge_scan lists is exported.                                            *)
THEOREM ListedHasFileThm == CallsFit => (Spec => []ListedHasFile)
<1> SUFFICES ASSUME CallsFit PROVE Spec => []ListedHasFile
  OBVIOUS
<1>1. Init => ExportInv
  <2> SUFFICES ASSUME Init, NEW i \in Id, map[i] # NoVault PROVE i \in exported
    BY Zenon DEF ExportInv, loaded_ids
  <2>1. map = [k \in Id |-> IF k = Ids[1] THEN 1 ELSE NoVault] /\ exported = {Ids[1]}
    BY Zenon DEF Init
  <2>2. map[i] = IF i = Ids[1] THEN 1 ELSE NoVault
    BY <2>1, Zenon
  <2> QED BY <2>1, <2>2, Zenon
<1>2. IndInv /\ ExportInv /\ [Next]_vars => ExportInv'
  BY ExportStep, Zenon
<1>3. ASSUME IndInv, ExportInv PROVE ListedHasFile
  <2> SUFFICES ASSUME AtRest, NEW i \in Id, map[i] # NoVault
               PROVE  /\ file[i] # NoFile
                      /\ i \in exported \/ \E d \in Deleters : pc[d] = "done" /\ id[d] = i
    BY Zenon DEF ListedHasFile, loaded_ids
  <2>1. \A a \in Actors : pc[a] # "remove" /\ pc[a] # "register"
    BY Zenon DEF AtRest
  <2>2. Live(i, map[i]) /\ map[i] \in Nat
    BY <1>3, <2>1, Parts, Constants, Zenon DEF MapInv
  <2>3. file[i] # NoFile
    BY <1>3, <2>2, LiveIs, Zenon
  <2>4. i \in exported \/ \E d \in Deleters : pc[d] = "done" /\ id[d] = i
    BY <1>3, <2>1, Constants, Zenon DEF ExportInv, loaded_ids, AtRest
  <2> QED BY <2>3, <2>4, Zenon
<1>4. Spec => []IndInv
  BY Invariance
<1>5. IndInv /\ ExportInv => ListedHasFile
  BY <1>3, Zenon
<1> QED BY <1>1, <1>2, <1>4, <1>5, PTL DEF Spec

(* Every variable stays in its domain. *)
THEOREM TypeCorrect == CallsFit => (Spec => []TypeOK)
<1> SUFFICES ASSUME CallsFit PROVE Spec => []TypeOK
  OBVIOUS
<1>1. IndInv => TypeOK
  BY Zenon DEF IndInv
<1> QED BY <1>1, Invariance, PTL

=============================================================================
