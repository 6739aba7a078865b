--------------------------- MODULE PinentryProofs ---------------------------
(***************************************************************************)
(* Proofs about module Pinentry, for any number of requests, attempts and  *)
(* permits and any budgets: who is in which line, what every step does to  *)
(* the lines, the timers and the attempts, and how much of the wait of the *)
(* first in line the holder of the dialog has accounted for. The theorems  *)
(* are at the end. What the lemmas need of finite sets is gathered in the  *)
(* formula Counts, a hypothesis of theirs that lemma CountsHold proves.    *)
(***************************************************************************)
EXTENDS Pinentry, FiniteSetTheorems, TLAPS

(* What is used of the size of a finite set; the last conjunct: jobs in     *)
(* line and jobs with a permit are different ones, and r is neither.        *)
Counts ==
    /\ \A S : IsFiniteSet(S) => Cardinality(S) \in Nat /\ (Cardinality(S) = 0 <=> S = {})
    /\ \A S, x : IsFiniteSet(S) /\ x \notin S => Cardinality(S \cup {x}) = Cardinality(S) + 1
    /\ \A S : IsFiniteSet(S) => \A x \in S : Cardinality(S \ {x}) = Cardinality(S) - 1
    /\ \A S, U, q, r :
         /\ IsFiniteSet(S) /\ U \in SUBSET S /\ r \in S /\ r \notin U
         /\ q \in Seq(S) /\ IsInjective(q)
         /\ \A i \in DOMAIN q : q[i] # r /\ q[i] \notin U
         => Len(q) + Cardinality(U) + 1 <= Cardinality(S)

-----------------------------------------------------------------------------
(* Queues *)

(* CloseGap closes the gap. *)
LEMMA CloseGapIs ==
    ASSUME NEW S, NEW q \in Seq(S), NEW i \in 1..Len(q)
    PROVE  /\ CloseGap(q, i) \in Seq(S)
           /\ Len(CloseGap(q, i)) = Len(q) - 1
           /\ \A j \in 1..(Len(q) - 1) :
                CloseGap(q, i)[j] = IF j < i THEN q[j] ELSE q[j + 1]
<1> DEFINE n == Len(q) - 1
           v(k) == IF k < i THEN q[k] ELSE q[k + 1]
<1>1. n \in Nat /\ \A k \in 1..n : v(k) \in S
  BY SMTT(30)
<1>2. CloseGap(q, i) = [k \in 1..n |-> v(k)]
  BY Zenon DEF CloseGap
<1> HIDE DEF n, v
<1>3. [k \in 1..n |-> v(k)] \in Seq(S) /\ Len([k \in 1..n |-> v(k)]) = n
  BY <1>1, SMTT(30)
<1>4. \A k \in 1..n : CloseGap(q, i)[k] = v(k)
  BY <1>2, Zenon
<1> QED BY <1>2, <1>3, <1>4, Zenon DEF n, v

(* A place in a queue that is given up leaves the others theirs. *)
LEMMA WithoutIs ==
    ASSUME NEW S, NEW q \in Seq(S), IsInjective(q), NEW r
    PROVE  /\ Without(q, r) \in Seq(S)
           /\ IsInjective(Without(q, r))
           /\ \A k \in DOMAIN Without(q, r) :
                /\ Without(q, r)[k] # r
                /\ \E i \in DOMAIN q : Without(q, r)[k] = q[i]
<1>0. Len(q) \in Nat /\ DOMAIN q = 1..Len(q)
  OBVIOUS
<1>1. CASE ~ \E i \in DOMAIN q : q[i] = r
  BY <1>1, Zenon DEF Without
<1>2. CASE \E i \in DOMAIN q : q[i] = r
  <2> DEFINE i == CHOOSE i \in DOMAIN q : q[i] = r
             w == CloseGap(q, i)
  <2>1. i \in 1..Len(q) /\ q[i] = r /\ Without(q, r) = w
    BY <1>0, <1>2, Zenon DEF Without
  <2> HIDE DEF i
  <2>2. w \in Seq(S) /\ Len(w) = Len(q) - 1
        /\ \A j \in 1..(Len(q) - 1) : w[j] = IF j < i THEN q[j] ELSE q[j + 1]
    BY <2>1, CloseGapIs, Zenon
  <2>3. DOMAIN w = 1..(Len(q) - 1)
    BY <2>2
  <2> HIDE DEF w
  <2> DEFINE from(j) == IF j < i THEN j ELSE j + 1
  <2>4. \A j \in 1..(Len(q) - 1) :
           w[j] = q[from(j)] /\ from(j) \in DOMAIN q /\ from(j) # i
    BY <1>0, <2>1, <2>2, SMTT(30)
  <2>5. \A j, k \in 1..(Len(q) - 1) : from(j) = from(k) => j = k
    BY <1>0, <2>1
  <2>6. \A x, y \in DOMAIN q : q[x] = q[y] => x = y
    BY Zenon DEF IsInjective
  <2> HIDE DEF from
  <2>7. \A j, k \in DOMAIN w : w[j] = w[k] => j = k
    BY <2>3, <2>4, <2>5, <2>6, Zenon
  <2>8. \A j \in DOMAIN w : w[j] # r /\ \E x \in DOMAIN q : w[j] = q[x]
    BY <1>0, <2>1, <2>3, <2>4, <2>6, ZenonT(30)
  <2>9. IsInjective(w)
    BY <2>7, Zenon DEF IsInjective
  <2> QED BY <2>1, <2>2, <2>8, <2>9, Zenon
<1> QED BY <1>1, <1>2, Zenon

(* The last one to come is behind those who wait already. *)
LEMMA AppendIs ==
    ASSUME NEW S, NEW q \in Seq(S), IsInjective(q), NEW r \in S,
           \A i \in DOMAIN q : q[i] # r
    PROVE  /\ Append(q, r) \in Seq(S)
           /\ IsInjective(Append(q, r))
           /\ \A k \in DOMAIN Append(q, r) :
                Append(q, r)[k] = r \/ \E i \in DOMAIN q : Append(q, r)[k] = q[i]
<1>1. /\ Append(q, r) \in Seq(S) /\ DOMAIN Append(q, r) = 1..(Len(q) + 1)
      /\ \A k \in 1..Len(q) : Append(q, r)[k] = q[k]
      /\ Append(q, r)[Len(q) + 1] = r /\ Len(q) \in Nat /\ DOMAIN q = 1..Len(q)
  BY SMTT(30)
<1> QED BY <1>1 DEF IsInjective

(* The first one leaves. *)
LEMMA TailIs ==
    ASSUME NEW S, NEW q \in Seq(S), IsInjective(q), q # <<>>
    PROVE  /\ Tail(q) \in Seq(S) /\ Head(q) \in S /\ 1 \in DOMAIN q /\ Head(q) = q[1]
           /\ IsInjective(Tail(q))
           /\ \A k \in DOMAIN Tail(q) :
                Tail(q)[k] # Head(q) /\ \E i \in DOMAIN q : Tail(q)[k] = q[i]
<1>1. /\ Tail(q) \in Seq(S) /\ DOMAIN Tail(q) = 1..(Len(q) - 1) /\ Len(q) \in Nat \ {0}
      /\ \A k \in 1..(Len(q) - 1) : Tail(q)[k] = q[k + 1]
      /\ Head(q) = q[1] /\ Head(q) \in S /\ DOMAIN q = 1..Len(q)
  BY SMTT(30)
<1> QED BY <1>1, SMTT(30) DEF IsInjective

(* The same for lines: what may become of at when a line changes. *)
LEMMA LineSame ==
    ASSUME NEW S, NEW q \in Seq(S), NEW a, NEW b, NEW s, Line(q, a, s),
           \A j \in S : a[j] = s => b[j] = s
    PROVE  Line(q, b, s)
<1>1. \A i \in DOMAIN q : q[i] \in S
  OBVIOUS
<1> QED BY <1>1, Zenon DEF Line

LEMMA LineWithout ==
    ASSUME NEW S, NEW q \in Seq(S), NEW a, NEW b, NEW s, Line(q, a, s), NEW r,
           \A j \in S : j # r /\ a[j] = s => b[j] = s
    PROVE  Without(q, r) \in Seq(S) /\ Line(Without(q, r), b, s)
<1>1. \A i \in DOMAIN q : q[i] \in S /\ a[q[i]] = s
  BY DEF Line
<1>2. /\ Without(q, r) \in Seq(S) /\ IsInjective(Without(q, r))
      /\ \A k \in DOMAIN Without(q, r) :
           Without(q, r)[k] # r /\ \E i \in DOMAIN q : Without(q, r)[k] = q[i]
  BY WithoutIs DEF Line
<1> QED BY <1>1, <1>2, SMTT(30) DEF Line

LEMMA LineAppend ==
    ASSUME NEW S, NEW q \in Seq(S), NEW a, NEW b, NEW s, Line(q, a, s), NEW r \in S,
           a[r] # s, b[r] = s, \A j \in S : a[j] = s => b[j] = s
    PROVE  Append(q, r) \in Seq(S) /\ Line(Append(q, r), b, s)
<1>1. \A i \in DOMAIN q : q[i] \in S /\ a[q[i]] = s /\ q[i] # r
  BY DEF Line
<1>2. /\ Append(q, r) \in Seq(S) /\ IsInjective(Append(q, r))
      /\ \A k \in DOMAIN Append(q, r) :
           Append(q, r)[k] = r \/ \E i \in DOMAIN q : Append(q, r)[k] = q[i]
  BY <1>1, AppendIs, SMTT(30) DEF Line
<1> QED BY <1>1, <1>2, ZenonT(30) DEF Line

LEMMA LineTail ==
    ASSUME NEW S, NEW q \in Seq(S), NEW a, NEW b, NEW s, Line(q, a, s), q # <<>>,
           \A j \in S : j # Head(q) /\ a[j] = s => b[j] = s
    PROVE  /\ Tail(q) \in Seq(S) /\ Line(Tail(q), b, s)
           /\ Head(q) \in S /\ a[Head(q)] = s
<1>1. \A i \in DOMAIN q : q[i] \in S /\ a[q[i]] = s
  BY DEF Line
<1>2. /\ Tail(q) \in Seq(S) /\ Head(q) \in S /\ 1 \in DOMAIN q /\ Head(q) = q[1]
      /\ IsInjective(Tail(q))
      /\ \A k \in DOMAIN Tail(q) :
           Tail(q)[k] # Head(q) /\ \E i \in DOMAIN q : Tail(q)[k] = q[i]
  BY TailIs DEF Line
<1> QED BY <1>1, <1>2, SMTT(30) DEF Line

-----------------------------------------------------------------------------
(* The slot *)

Inv == TypeOK /\ SlotInv

(* What a step may do to at, in terms of the slot's part of Inv. *)
Holders == \A r \in Requests :
    slot = r <=> \/ at[r] = "talking"
                 \/ kind[r] = "unlock" /\ at[r] \in {"permit", "deriving"}

(* The holder leaves: the first of the queue has the slot, and no one else. *)
LEMMA LeaveKeeps ==
    ASSUME Inv, NEW r \in Requests, slot = r, NEW l \in {"done", "permit"},
           l = "permit" => kind[r] # "unlock",
           Give(queue), at' = AtAfter(r, l, queue), kind' = kind
    PROVE  /\ at' \in [Jobs -> {"idle", "waiting", "talking", "permit", "deriving", "done"}]
           /\ slot' \in Requests \cup {NoOne} /\ queue' \in Seq(Requests)
           /\ Line(queue', at', "waiting") /\ (slot' = NoOne => queue' = <<>>)
           /\ Holders' /\ at'[r] = l
           /\ \A j \in Jobs : j # r /\ at[j] = "permit" => at'[j] = "permit"
           /\ \A j \in Jobs : at[j] \in {"permit", "deriving"} => at'[j] = at[j] \/ j = r
<1>0. /\ r \in Jobs /\ Requests \subseteq Jobs /\ NoOne \notin Requests
      /\ at[r] # "waiting" /\ queue \in Seq(Requests) /\ Line(queue, at, "waiting")
      /\ at \in [Jobs -> {"idle", "waiting", "talking", "permit", "deriving", "done"}]
      /\ Holders
  BY PinentryAssumption, Zenon DEF Inv, TypeOK, SlotInv, Jobs, Holders
<1>1. CASE queue = <<>>
  <2>1. queue' = <<>> /\ slot' = NoOne
        /\ at' = [j \in Jobs |-> IF j = r THEN l ELSE at[j]]
    BY <1>1, Zenon DEF Give, AtAfter
  <2>2. Line(queue', at', "waiting")
    BY <2>1 DEF Line, IsInjective
  <2>3. Holders'
    BY <1>0, <2>1, Zenon DEF Holders
  <2> QED BY <1>0, <2>1, <2>2, <2>3, SMTT(30)
<1>2. CASE queue # <<>>
  <2> DEFINE h == Head(queue)
  <2>1. queue' = Tail(queue) /\ slot' = h
        /\ at' = [j \in Jobs |-> IF j = r THEN l ELSE IF j = h THEN "talking" ELSE at[j]]
    BY <1>2, Zenon DEF Give, AtAfter
  <2>2. \A j \in Requests : j # h /\ at[j] = "waiting" => at'[j] = "waiting"
    BY <1>0, <2>1, Zenon
  <2>3. /\ Tail(queue) \in Seq(Requests) /\ Line(Tail(queue), at', "waiting")
        /\ h \in Requests /\ at[h] = "waiting"
    <3> HIDE DEF h
    <3>1. \A j \in Requests : j # Head(queue) /\ at[j] = "waiting" => at'[j] = "waiting"
      BY <2>2, Zenon DEF h
    <3>2. /\ Tail(queue) \in Seq(Requests) /\ Line(Tail(queue), at', "waiting")
          /\ Head(queue) \in Requests /\ at[Head(queue)] = "waiting"
      <4>1. queue \in Seq(Requests) /\ Line(queue, at, "waiting") /\ queue # <<>>
        BY <1>0, <1>2, Zenon
      <4> DEFINE b == at'
      <4>2. \A j \in Requests : j # Head(queue) /\ at[j] = "waiting" => b[j] = "waiting"
        BY <3>1, Zenon
      <4> HIDE DEF b
      <4>3. /\ Tail(queue) \in Seq(Requests) /\ Line(Tail(queue), b, "waiting")
            /\ Head(queue) \in Requests /\ at[Head(queue)] = "waiting"
        BY <4>1, <4>2, LineTail, SMTT(30)
      <4> QED BY <4>3, Zenon DEF b
    <3> QED BY <3>2, Zenon DEF h
  <2> HIDE DEF h
  <2>4. Holders'
    BY <1>0, <2>1, <2>3, Zenon DEF Holders
  <2> QED BY <1>0, <2>1, <2>3, <2>4, Zenon
<1> QED BY <1>1, <1>2, Zenon

(* Inv' from its parts. *)
LEMMA InvParts ==
    ASSUME kind' \in [Requests -> {"unlock", "create", "delete"}],
           at' \in [Jobs -> {"idle", "waiting", "talking", "permit", "deriving", "done"}],
           slot' \in Requests \cup {NoOne}, queue' \in Seq(Requests), permits' \in Seq(Jobs),
           Line(queue', at', "waiting"), Line(permits', at', "permit"),
           slot' = NoOne => queue' = <<>>, Holders'
    PROVE  Inv'
BY Zenon DEF Inv, TypeOK, SlotInv, Holders

LEMMA InvGives ==
    ASSUME Inv
    PROVE  /\ kind \in [Requests -> {"unlock", "create", "delete"}]
           /\ at \in [Jobs -> {"idle", "waiting", "talking", "permit", "deriving", "done"}]
           /\ slot \in Requests \cup {NoOne} /\ queue \in Seq(Requests) /\ permits \in Seq(Jobs)
           /\ Line(queue, at, "waiting") /\ Line(permits, at, "permit")
           /\ (slot = NoOne => queue = <<>>) /\ Holders
           /\ Requests \subseteq Jobs /\ Background \subseteq Jobs
           /\ NoOne \notin Requests /\ Requests \cap Background = {}
BY PinentryAssumption, Zenon DEF Inv, TypeOK, SlotInv, Holders, Jobs

(* Nothing happens to a line whose members stay where they are. *)
LEMMA QueueStays ==
    ASSUME Inv, queue' = queue,
           \A j \in Requests : at[j] = "waiting" => at'[j] = "waiting"
    PROVE  queue' \in Seq(Requests) /\ Line(queue', at', "waiting")
<1> DEFINE b == at'
<1>1. queue \in Seq(Requests) /\ Line(queue, at, "waiting")
  BY InvGives, Zenon
<1>2. \A j \in Requests : at[j] = "waiting" => b[j] = "waiting"
  BY Zenon
<1> HIDE DEF b
<1>3. Line(queue, b, "waiting")
  BY <1>1, <1>2, LineSame, SMTT(30)
<1> QED BY <1>1, <1>3, Zenon DEF b

LEMMA PermitsStay ==
    ASSUME Inv, permits' = permits,
           \A j \in Jobs : at[j] = "permit" => at'[j] = "permit"
    PROVE  permits' \in Seq(Jobs) /\ Line(permits', at', "permit")
<1> DEFINE b == at'
<1>1. permits \in Seq(Jobs) /\ Line(permits, at, "permit")
  BY InvGives, Zenon
<1>2. \A j \in Jobs : at[j] = "permit" => b[j] = "permit"
  BY Zenon
<1> HIDE DEF b
<1>3. Line(permits, b, "permit")
  BY <1>1, <1>2, LineSame, SMTT(30)
<1> QED BY <1>1, <1>3, Zenon DEF b

LEMMA PermitsJoin ==
    ASSUME Inv, NEW r \in Jobs, permits' = Append(permits, r),
           at[r] # "permit", at'[r] = "permit",
           \A j \in Jobs : at[j] = "permit" => at'[j] = "permit"
    PROVE  permits' \in Seq(Jobs) /\ Line(permits', at', "permit")
<1> DEFINE b == at'
<1>1. permits \in Seq(Jobs) /\ Line(permits, at, "permit")
  BY InvGives, Zenon
<1>2. b[r] = "permit" /\ \A j \in Jobs : at[j] = "permit" => b[j] = "permit"
  BY Zenon
<1> HIDE DEF b
<1>3. Append(permits, r) \in Seq(Jobs) /\ Line(Append(permits, r), b, "permit")
  BY <1>1, <1>2, LineAppend, SMTT(30)
<1> QED BY <1>3, Zenon DEF b

LEMMA PermitsLeave ==
    ASSUME Inv, NEW r, permits' = Without(permits, r),
           \A j \in Jobs : j # r /\ at[j] = "permit" => at'[j] = "permit"
    PROVE  permits' \in Seq(Jobs) /\ Line(permits', at', "permit")
<1> DEFINE b == at'
<1>1. permits \in Seq(Jobs) /\ Line(permits, at, "permit")
  BY InvGives, Zenon
<1>2. \A j \in Jobs : j # r /\ at[j] = "permit" => b[j] = "permit"
  BY Zenon
<1> HIDE DEF b
<1>3. Without(permits, r) \in Seq(Jobs) /\ Line(Without(permits, r), b, "permit")
  BY <1>1, <1>2, LineWithout, SMTT(30)
<1> QED BY <1>3, Zenon DEF b

LEMMA QueueLeave ==
    ASSUME Inv, NEW r, queue' = Without(queue, r),
           \A j \in Requests : j # r /\ at[j] = "waiting" => at'[j] = "waiting"
    PROVE  queue' \in Seq(Requests) /\ Line(queue', at', "waiting")
<1> DEFINE b == at'
<1>1. queue \in Seq(Requests) /\ Line(queue, at, "waiting")
  BY InvGives, Zenon
<1>2. \A j \in Requests : j # r /\ at[j] = "waiting" => b[j] = "waiting"
  BY Zenon
<1> HIDE DEF b
<1>3. Without(queue, r) \in Seq(Requests) /\ Line(Without(queue, r), b, "waiting")
  BY <1>1, <1>2, LineWithout, SMTT(30)
<1> QED BY <1>3, Zenon DEF b

(* A prompt that has its password does not go back to a queue. *)
Onward == /\ kind' = kind
          /\ \A r \in Requests : at[r] \in {"permit", "deriving"} =>
                at'[r] \in {"permit", "deriving", "talking", "done"}

LEMMA AcquireStep == ASSUME Inv, NEW r \in Requests, Acquire(r) PROVE Inv' /\ Onward
<1> USE InvGives
<1>1. /\ at[r] = "idle" /\ kind' = kind /\ permits' = permits /\ r \in Jobs
      /\ \A j \in Jobs : j # r => at'[j] = at[j]
      /\ at'[r] \in {"talking", "waiting"}
      /\ at' \in [Jobs -> {"idle", "waiting", "talking", "permit", "deriving", "done"}]
  BY Zenon DEF Acquire, kdf
<1>2. permits' \in Seq(Jobs) /\ Line(permits', at', "permit")
  BY <1>1, PermitsStay, Zenon
<1>3. Onward
  BY <1>1, Zenon DEF Onward
<1>4. CASE slot = NoOne
  <2>1. Head(<<r>>) = r /\ Tail(<<r>>) = <<>> /\ <<r>> # <<>>
    OBVIOUS
  <2>2. slot' = r /\ queue' = <<>> /\ at'[r] = "talking"
    BY <1>1, <1>4, <2>1, Zenon DEF Acquire, Give
  <2>3. Line(queue', at', "waiting") /\ queue' \in Seq(Requests)
    BY <2>2, SMTT(30) DEF Line, IsInjective
  <2>4. Holders'
    BY <1>1, <1>4, <2>2, Zenon DEF Holders
  <2> QED BY <1>1, <1>2, <1>3, <2>2, <2>3, <2>4, InvParts, Zenon
<1>5. CASE slot # NoOne
  <2>1. slot' = slot /\ queue' = Append(queue, r) /\ at'[r] = "waiting"
    BY <1>1, <1>5, Zenon DEF Acquire
  <2>2. queue' \in Seq(Requests) /\ Line(queue', at', "waiting")
    <3> DEFINE b == at'
    <3>1. b[r] = "waiting" /\ \A j \in Requests : at[j] = "waiting" => b[j] = "waiting"
      BY <1>1, <2>1, Zenon
    <3>2. queue \in Seq(Requests) /\ Line(queue, at, "waiting") /\ at[r] # "waiting"
      BY <1>1, Zenon
    <3> HIDE DEF b
    <3>3. Append(queue, r) \in Seq(Requests) /\ Line(Append(queue, r), b, "waiting")
      BY <3>1, <3>2, LineAppend, SMTT(30)
    <3> QED BY <2>1, <3>3, Zenon DEF b
  <2>3. Holders'
    BY <1>1, <1>5, <2>1, Zenon DEF Holders
  <2> QED BY <1>1, <1>2, <1>3, <1>5, <2>1, <2>2, <2>3, InvParts, Zenon
<1> QED BY <1>4, <1>5, Zenon

LEMMA BusyStep == ASSUME Inv, NEW r \in Requests, Busy(r) PROVE Inv' /\ Onward
<1> USE InvGives
<1>1. /\ at[r] = "waiting" /\ kind' = kind /\ permits' = permits /\ slot' = slot
      /\ queue' = Without(queue, r)
      /\ \A j \in Jobs : j # r => at'[j] = at[j]
      /\ at'[r] = "done"
      /\ at' \in [Jobs -> {"idle", "waiting", "talking", "permit", "deriving", "done"}]
  BY Zenon DEF Busy, kdf
<1>2. permits' \in Seq(Jobs) /\ Line(permits', at', "permit")
  BY <1>1, PermitsStay, Zenon
<1>3. queue' \in Seq(Requests) /\ Line(queue', at', "waiting")
  BY <1>1, QueueLeave, Zenon
<1>4. slot' = NoOne => queue' = <<>>
  BY <1>1 DEF Without
<1>5. Holders' /\ Onward
  BY <1>1, Zenon DEF Holders, Onward
<1> QED BY <1>1, <1>2, <1>3, <1>4, <1>5, InvParts, Zenon

(* Leave as a whole, for the steps that end a turn. *)
LEMMA LeaveStep ==
    ASSUME Inv, NEW r \in Requests, slot = r, NEW l \in {"done", "permit"},
           l = "permit" => kind[r] # "unlock" /\ at[r] # "permit", Leave(r, l),
           \/ l = "done" /\ permits' = Without(permits, r)
           \/ l = "done" /\ permits' = permits /\ at[r] # "permit"
           \/ l = "permit" /\ permits' = Append(permits, r)
    PROVE  Inv' /\ Onward
<1> USE InvGives
<1>1. Give(queue) /\ at' = AtAfter(r, l, queue) /\ kind' = kind
  BY Zenon DEF Leave
<1>2. /\ at' \in [Jobs -> {"idle", "waiting", "talking", "permit", "deriving", "done"}]
      /\ slot' \in Requests \cup {NoOne} /\ queue' \in Seq(Requests)
      /\ Line(queue', at', "waiting") /\ (slot' = NoOne => queue' = <<>>)
      /\ Holders' /\ at'[r] = l
      /\ \A j \in Jobs : j # r /\ at[j] = "permit" => at'[j] = "permit"
      /\ \A j \in Jobs : at[j] \in {"permit", "deriving"} => at'[j] = at[j] \/ j = r
  BY <1>1, LeaveKeeps, Zenon
<1>3. permits' \in Seq(Jobs) /\ Line(permits', at', "permit")
  <2>1. CASE permits' = Without(permits, r)
    BY <1>2, <2>1, PermitsLeave, Zenon
  <2>2. CASE permits' = permits /\ at[r] # "permit"
    BY <1>2, <2>2, PermitsStay, Zenon
  <2>3. CASE l = "permit" /\ permits' = Append(permits, r)
    <3>1. \A j \in Jobs : at[j] = "permit" => at'[j] = "permit"
      BY <1>2, <2>3, Zenon
    <3> QED BY <1>2, <2>3, <3>1, PermitsJoin, Zenon
  <2> QED BY <2>1, <2>2, <2>3, Zenon
<1>4. Onward
  BY <1>1, <1>2, Zenon DEF Onward
<1> QED BY <1>1, <1>2, <1>3, <1>4, InvParts, Zenon

LEMMA FinishStep == ASSUME Inv, NEW r \in Requests, Finish(r) PROVE Inv' /\ Onward
<1> USE InvGives
<1>1. slot = r /\ at[r] = "talking" /\ r \in Jobs
  BY Zenon DEF Finish
<1>2. CASE Leave(r, "permit") /\ permits' = Append(permits, r) /\ kind[r] = "create"
  BY <1>1, <1>2, LeaveStep, Zenon
<1>3. CASE Leave(r, "done") /\ permits' = permits
  BY <1>1, <1>3, LeaveStep, Zenon
<1>4. CASE /\ kind[r] = "unlock" /\ at' = [at EXCEPT ![r] = "permit"]
           /\ permits' = Append(permits, r) /\ UNCHANGED <<kind, queue, slot>>
  <2>1. /\ \A j \in Jobs : j # r => at'[j] = at[j]
        /\ at'[r] = "permit"
        /\ at' \in [Jobs -> {"idle", "waiting", "talking", "permit", "deriving", "done"}]
    BY <1>1, <1>4, Zenon
  <2>2. permits' \in Seq(Jobs) /\ Line(permits', at', "permit")
    BY <1>1, <1>4, <2>1, PermitsJoin, Zenon
  <2>3. queue' \in Seq(Requests) /\ Line(queue', at', "waiting")
    BY <1>1, <1>4, <2>1, QueueStays, Zenon
  <2>4. Holders' /\ Onward
    BY <1>1, <1>4, <2>1, Zenon DEF Holders, Onward
  <2> QED BY <1>4, <2>1, <2>2, <2>3, <2>4, InvParts, Zenon
<1> QED BY <1>2, <1>3, <1>4, Zenon DEF Finish

LEMMA AbortStep == ASSUME Inv, NEW r \in Requests, Abort(r) PROVE Inv' /\ Onward
<1> USE InvGives
<1>1. permits' = Without(permits, r) /\ r \in Jobs
  BY Zenon DEF Abort
<1>2. CASE slot = r
  BY <1>1, <1>2, LeaveStep, Zenon DEF Abort
<1>3. CASE slot # r
  <2>1. /\ queue' = Without(queue, r) /\ kind' = kind /\ slot' = slot /\ at'[r] = "done"
        /\ \A j \in Jobs : j # r => at'[j] = at[j]
        /\ at' \in [Jobs -> {"idle", "waiting", "talking", "permit", "deriving", "done"}]
    BY <1>1, <1>3, Zenon DEF Abort
  <2>2. permits' \in Seq(Jobs) /\ Line(permits', at', "permit")
    BY <1>1, <2>1, PermitsLeave, Zenon
  <2>3. queue' \in Seq(Requests) /\ Line(queue', at', "waiting")
    BY <2>1, QueueLeave, Zenon
  <2>4. slot' = NoOne => queue' = <<>>
    BY <2>1 DEF Without
  <2>5. Holders' /\ Onward
    BY <1>3, <2>1, Zenon DEF Holders, Onward
  <2> QED BY <2>1, <2>2, <2>3, <2>4, <2>5, InvParts, Zenon
<1> QED BY <1>2, <1>3, Zenon

LEMMA StartDeriveStep == ASSUME Inv, StartDerive PROVE Inv' /\ Onward
<1> USE InvGives
<1> DEFINE h == Head(permits)
<1>1. /\ permits # <<>> /\ permits' = Tail(permits) /\ at' = [at EXCEPT ![h] = "deriving"]
      /\ kind' = kind /\ slot' = slot /\ queue' = queue
  BY Zenon DEF StartDerive, MayStart, dialog
<1>2. \A j \in Jobs : j # Head(permits) => at'[j] = at[j]
  BY <1>1, Zenon
<1>3. /\ permits' \in Seq(Jobs) /\ Line(permits', at', "permit")
      /\ h \in Jobs /\ at[h] = "permit"
  <2> DEFINE b == at'
  <2>1. \A j \in Jobs : j # Head(permits) /\ at[j] = "permit" => b[j] = "permit"
    BY <1>2, Zenon
  <2>2. permits \in Seq(Jobs) /\ Line(permits, at, "permit")
    BY Zenon
  <2> HIDE DEF b
  <2>3. /\ Tail(permits) \in Seq(Jobs) /\ Line(Tail(permits), b, "permit")
        /\ Head(permits) \in Jobs /\ at[Head(permits)] = "permit"
    BY <1>1, <2>1, <2>2, LineTail, SMTT(30)
  <2> QED BY <1>1, <2>3, Zenon DEF b
<1> HIDE DEF h
<1>4. /\ at'[h] = "deriving" /\ \A j \in Jobs : j # h => at'[j] = at[j]
      /\ at' \in [Jobs -> {"idle", "waiting", "talking", "permit", "deriving", "done"}]
  BY <1>1, <1>3, Zenon
<1>5. queue' \in Seq(Requests) /\ Line(queue', at', "waiting")
  BY <1>1, <1>3, <1>4, QueueStays, Zenon
<1>6. Holders' /\ Onward
  BY <1>1, <1>3, <1>4, Zenon DEF Holders, Onward
<1> QED BY <1>1, <1>3, <1>4, <1>5, <1>6, InvParts, Zenon

LEMMA EndDeriveStep == ASSUME Inv, NEW j \in Jobs, EndDerive(j) PROVE Inv' /\ Onward
<1> USE InvGives
<1>1. permits' = permits
  BY Zenon DEF EndDerive
<1>2. CASE UNCHANGED <<kind, at, queue, slot>>
  <2>1. permits' \in Seq(Jobs) /\ Line(permits', at', "permit")
    BY <1>1, <1>2, PermitsStay, Zenon
  <2>2. queue' \in Seq(Requests) /\ Line(queue', at', "waiting")
    BY <1>2, QueueStays, Zenon
  <2>3. Holders' /\ Onward
    BY <1>2, Zenon DEF Holders, Onward
  <2> QED BY <1>2, <2>1, <2>2, <2>3, InvParts, Zenon
<1>3. CASE /\ at[j] = "deriving"
           /\ j \in Background \/ (j \in Requests /\ kind[j] = "create")
           /\ at' = [at EXCEPT ![j] = "done"] /\ UNCHANGED <<kind, queue, slot>>
  <2>1. /\ at'[j] = "done" /\ \A i \in Jobs : i # j => at'[i] = at[i]
        /\ at' \in [Jobs -> {"idle", "waiting", "talking", "permit", "deriving", "done"}]
    BY <1>3, Zenon
  <2>2. permits' \in Seq(Jobs) /\ Line(permits', at', "permit")
    BY <1>1, <1>3, <2>1, PermitsStay, Zenon
  <2>3. queue' \in Seq(Requests) /\ Line(queue', at', "waiting")
    BY <1>3, <2>1, QueueStays, Zenon
  <2>4. Holders' /\ Onward
    BY <1>3, <2>1, SMTT(30) DEF Holders, Onward
  <2> QED BY <1>3, <2>1, <2>2, <2>3, <2>4, InvParts, Zenon
<1>4. CASE at[j] = "deriving" /\ j \in Requests /\ kind[j] = "unlock" /\ Leave(j, "done")
  <2>1. slot = j
    BY <1>4, Zenon DEF Holders
  <2> QED BY <1>1, <1>4, <2>1, LeaveStep, Zenon
<1>5. CASE /\ at[j] = "deriving" /\ j \in Requests /\ kind[j] = "unlock"
           /\ at' = [at EXCEPT ![j] = "talking"] /\ UNCHANGED <<kind, queue, slot>>
  <2>1. /\ at'[j] = "talking" /\ \A i \in Jobs : i # j => at'[i] = at[i]
        /\ at' \in [Jobs -> {"idle", "waiting", "talking", "permit", "deriving", "done"}]
    BY <1>5, Zenon
  <2>2. permits' \in Seq(Jobs) /\ Line(permits', at', "permit")
    BY <1>1, <1>5, <2>1, PermitsStay, Zenon
  <2>3. queue' \in Seq(Requests) /\ Line(queue', at', "waiting")
    BY <1>5, <2>1, QueueStays, Zenon
  <2>4. Holders' /\ Onward
    BY <1>5, <2>1, Zenon DEF Holders, Onward
  <2> QED BY <1>5, <2>1, <2>2, <2>3, <2>4, InvParts, Zenon
<1> QED BY <1>2, <1>3, <1>4, <1>5, Zenon DEF EndDerive, AskAgain, dialog

LEMMA BackgroundStep == ASSUME Inv, NEW b \in Background, BackgroundDerive(b) PROVE Inv' /\ Onward
<1> USE InvGives
<1>1. /\ at[b] = "idle" /\ b \in Jobs /\ b \notin Requests /\ permits' = Append(permits, b)
      /\ UNCHANGED <<kind, queue, slot>>
      /\ at'[b] = "permit" /\ \A j \in Jobs : j # b => at'[j] = at[j]
      /\ at' \in [Jobs -> {"idle", "waiting", "talking", "permit", "deriving", "done"}]
  BY Zenon DEF BackgroundDerive, dialog
<1>2. permits' \in Seq(Jobs) /\ Line(permits', at', "permit")
  BY <1>1, PermitsJoin, Zenon
<1>3. queue' \in Seq(Requests) /\ Line(queue', at', "waiting")
  BY <1>1, QueueStays, Zenon
<1>4. Holders' /\ Onward
  BY <1>1, Zenon DEF Holders, Onward
<1> QED BY <1>1, <1>2, <1>3, <1>4, InvParts, Zenon

LEMMA InvStep == Inv /\ [Next]_vars => Inv' /\ Onward
<1> SUFFICES ASSUME Inv, [Next]_vars PROVE Inv' /\ Onward
  BY Zenon
<1>1. ASSUME NEW r \in Requests,
             \/ Acquire(r) \/ Busy(r) \/ Finish(r) \/ Abort(r)
      PROVE  Inv' /\ Onward
  BY <1>1, AcquireStep, BusyStep, FinishStep, AbortStep, Zenon
<1>2. ASSUME NEW r \in Requests, DialogTimeout(r) PROVE Inv' /\ Onward
  BY <1>2, LeaveStep, Zenon DEF DialogTimeout, kdf
<1>3. ASSUME UNCHANGED <<kind, at, queue, slot, permits>> PROVE Inv' /\ Onward
  BY <1>3, Zenon DEF Inv, TypeOK, SlotInv, Onward
<1>4. ASSUME NEW r \in Requests, NEW reply \in Replies, Reply(r, reply) PROVE Inv' /\ Onward
  BY <1>3, <1>4, Zenon DEF Reply, kdf
<1>5. CASE Tick
  BY <1>3, <1>5, Zenon DEF Tick
<1>6. CASE UNCHANGED vars
  BY <1>3, <1>6, Zenon DEF vars, dialog, kdf
<1> QED BY <1>1, <1>2, <1>4, <1>5, <1>6, StartDeriveStep, EndDeriveStep, BackgroundStep, Zenon DEF Next

LEMMA InitInv == Init => Inv
<1> SUFFICES ASSUME Init PROVE Inv
  BY Zenon
<1>1. TypeOK
  BY PinentryAssumption DEF Init, TypeOK
<1>2. Line(<<>>, at, "waiting") /\ Line(<<>>, at, "permit")
  BY DEF Line, IsInjective
<1> QED BY <1>1, <1>2, PinentryAssumption, Zenon DEF Init, Inv, SlotInv, Jobs

-----------------------------------------------------------------------------
(* The first in line *)

(* Giving up a place brings the others forward, and the first stays first. *)
LEMMA WithoutMoves ==
    ASSUME NEW S, NEW q \in Seq(S), NEW r, NEW i \in DOMAIN q, q[i] # r
    PROVE  /\ Without(q, r) # <<>>
           /\ \E k \in DOMAIN Without(q, r) : k <= i /\ Without(q, r)[k] = q[i]
<1>0. Len(q) \in Nat /\ DOMAIN q = 1..Len(q) /\ i \in 1..Len(q)
  OBVIOUS
<1>1. CASE ~ \E x \in DOMAIN q : q[x] = r
  <2>1. Without(q, r) = q /\ i <= i
    BY <1>0, <1>1 DEF Without
  <2>2. q # <<>>
    BY <1>0, SMTT(30)
  <2> QED BY <2>1, <2>2, Zenon
<1>2. CASE \E x \in DOMAIN q : q[x] = r
  <2> DEFINE x == CHOOSE x \in DOMAIN q : q[x] = r
             w == CloseGap(q, x)
  <2>1. x \in 1..Len(q) /\ q[x] = r /\ Without(q, r) = w
    BY <1>0, <1>2, Zenon DEF Without
  <2> HIDE DEF x
  <2>2. w \in Seq(S) /\ Len(w) = Len(q) - 1
        /\ \A j \in 1..(Len(q) - 1) : w[j] = IF j < x THEN q[j] ELSE q[j + 1]
    BY <2>1, CloseGapIs, Zenon
  <2>3. DOMAIN w = 1..(Len(q) - 1)
    BY <2>2
  <2> HIDE DEF w
  <2>4. i # x
    BY <2>1
  <2>5. CASE i < x
    <3>1. i \in 1..(Len(q) - 1) /\ i <= i
      BY <1>0, <2>1, <2>5, SMTT(30)
    <3>2. w[i] = q[i] /\ w # <<>>
      BY <2>2, <2>3, <2>5, <3>1, SMTT(30)
    <3> QED BY <2>1, <2>3, <3>1, <3>2, Zenon
  <2>6. CASE ~(i < x)
    <3>1. i - 1 \in 1..(Len(q) - 1) /\ i - 1 <= i /\ ~(i - 1 < x) /\ (i - 1) + 1 = i
      BY <1>0, <2>1, <2>4, <2>6, SMTT(30)
    <3>2. w[i - 1] = q[i]
      BY <2>2, <3>1, Zenon
    <3>3. w # <<>>
      BY <2>3, <3>1, SMTT(30)
    <3> QED BY <2>1, <2>3, <3>1, <3>2, <3>3, Zenon
  <2> QED BY <2>5, <2>6, Zenon
<1> QED BY <1>1, <1>2, Zenon

LEMMA AppendFirst ==
    ASSUME NEW S, NEW q \in Seq(S), NEW r \in S
    PROVE  /\ Append(q, r) # <<>> /\ Len(q) + 1 > 0
           /\ q # <<>> => Append(q, r)[1] = q[1]
           /\ Len(q) + 1 = 1 => Append(q, r)[1] = r
           /\ \A i \in DOMAIN q : i \in DOMAIN Append(q, r) /\ i <= i /\ Append(q, r)[i] = q[i]
<1>1. /\ Append(q, r) # <<>> /\ DOMAIN Append(q, r) = 1..(Len(q) + 1)
      /\ \A i \in 1..Len(q) : Append(q, r)[i] = q[i]
      /\ Append(q, r)[Len(q) + 1] = r /\ Len(q) \in Nat /\ DOMAIN q = 1..Len(q)
  BY SMTT(30)
<1>2. q # <<>> => 1 \in 1..Len(q)
  BY <1>1
<1>3. Len(q) + 1 > 0 /\ \A i \in 1..Len(q) : i \in 1..(Len(q) + 1) /\ i <= i
  BY <1>1, SMTT(30)
<1> QED BY <1>1, <1>2, <1>3, Zenon

LEMMA WithoutFirst ==
    ASSUME NEW S, NEW q \in Seq(S), NEW r, q # <<>>, q[1] # r
    PROVE  Without(q, r) # <<>> /\ Without(q, r)[1] = q[1]
<1>1. 1 \in DOMAIN q /\ Len(q) \in Nat
  OBVIOUS
<1>2. /\ Without(q, r) # <<>>
      /\ \E k \in DOMAIN Without(q, r) : k <= 1 /\ Without(q, r)[k] = q[1]
  BY <1>1, WithoutMoves, SMTT(30)
<1>3. PICK k \in DOMAIN Without(q, r) : k <= 1 /\ Without(q, r)[k] = q[1]
  BY <1>2, Zenon
<1>4. k = 1
  <2>1. CASE ~ \E x \in DOMAIN q : q[x] = r
    <3>1. Without(q, r) = q
      BY <2>1, Zenon DEF Without
    <3> QED BY <1>3, <3>1, SMTT(30)
  <2>2. CASE \E x \in DOMAIN q : q[x] = r
    <3> DEFINE x == CHOOSE x \in DOMAIN q : q[x] = r
               w == Without(q, r)
    <3>1. x \in 1..Len(q) /\ w = CloseGap(q, x)
      BY <1>1, <2>2 DEF Without
    <3> HIDE DEF x, w
    <3>2. w \in Seq(S)
      BY <3>1, CloseGapIs, Zenon
    <3> QED BY <1>3, <3>2, SMTT(30) DEF w
  <2> QED BY <2>1, <2>2, Zenon
<1> QED BY <1>2, <1>3, <1>4, Zenon

(* The budgets are numbers, and the jobs besides the one that waits fill at *)
(* most the permits and the turns that Ahead counts.                        *)
LEMMA Numbers ==
    /\ Hold \in Nat \ {0} /\ QueueFactor \in Nat \ {0} /\ MaxTries \in Nat \ {0}
    /\ MaxConcurrent \in Nat \ {0} /\ DeriveTime \in Nat \ {0}
BY PinentryAssumption, Zenon

LEMMA Times ==
    /\ \A a, d \in Nat : a * d \in Nat
    /\ \A a, d \in Nat : (a + 1) * d = a * d + d
    /\ \A a, b, d \in Nat : a <= b => a * d <= b * d
    /\ \A a, b, d \in Nat : (a + b) * d = a * d + b * d
<1>1. \A a, d \in Nat : a * d \in Nat
  BY SMTT(30)
<1>2. \A a, d \in Nat : (a + 1) * d = a * d + d
  BY SMTT(30)
<1>3. \A a, b, d \in Nat : a <= b => a * d <= b * d
  BY SMTT(30)
<1>4. \A a, b, d \in Nat : (a + b) * d = a * d + b * d
  BY SMTT(30)
<1> QED BY <1>1, <1>2, <1>3, <1>4, Zenon

LEMMA TurnIs ==
    ASSUME Counts, IsFiniteSet(Jobs)
    PROVE  /\ Cardinality(Jobs) \in Nat /\ Ahead \in Nat
           /\ Cardinality(Jobs) <= Ahead + MaxConcurrent + 1
           /\ Ahead * DeriveTime \in Nat
           /\ Turn = Hold + Ahead * DeriveTime + DeriveTime /\ Turn \in Nat
<1>1. Cardinality(Jobs) \in Nat
  BY Zenon DEF Counts
<1>2. Ahead \in Nat /\ Cardinality(Jobs) <= Ahead + MaxConcurrent + 1
  BY <1>1, Numbers, SMTT(30) DEF Ahead
<1>3. (Ahead + 1) * DeriveTime = Ahead * DeriveTime + DeriveTime /\ Ahead * DeriveTime \in Nat
  BY <1>2, Numbers, Times, SMTT(30)
<1> DEFINE p == (Ahead + 1) * DeriveTime
           q == Ahead * DeriveTime
<1>4. Turn = Hold + p /\ p = q + DeriveTime /\ q \in Nat
  BY <1>3, Zenon DEF Turn
<1> HIDE DEF p, q
<1>5. Turn = Hold + q + DeriveTime /\ Turn \in Nat
  BY <1>4, Numbers, SMTT(30)
<1> QED BY <1>1, <1>2, <1>4, <1>5, Zenon DEF q

(* Timers and attempts: one lemma per action. *)
Clocks == ClockInv /\ TriesInv

LEMMA ClocksGive ==
    ASSUME Clocks
    PROVE  /\ waited \in [Requests -> Nat] /\ behind \in [Requests -> Nat]
           /\ tries \in [Requests -> Nat] /\ held \in 0..Hold
           /\ running \in [inUse -> 0..DeriveTime] /\ inUse \subseteq Jobs
           /\ \A j \in Jobs : at[j] = "deriving" => j \in inUse
           /\ \A j \in inUse : at[j] \in {"deriving", "done"}
           /\ \A r \in Requests : slot # r => tries[r] = 0
           /\ slot # NoOne /\ at[slot] = "talking" => tries[slot] < MaxTries
           /\ slot # NoOne /\ at[slot] \in {"permit", "deriving"} => tries[slot] \in 1..MaxTries
BY Zenon DEF Clocks, ClockInv, TriesInv

(* The parts of ClockInv that at and the permits can disturb. *)
LEMMA ClockParts ==
    ASSUME Clocks, UNCHANGED <<inUse, running>>,
           waited' \in [Requests -> Nat], behind' \in [Requests -> Nat],
           tries' \in [Requests -> Nat], held' \in 0..Hold,
           \A j \in Jobs : at'[j] = "deriving" => at[j] = "deriving",
           \A j \in Jobs : at[j] \in {"deriving", "done"} => at'[j] \in {"deriving", "done"}
    PROVE  ClockInv'
<1>1. /\ \A j \in Jobs : at'[j] = "deriving" => j \in inUse'
      /\ \A j \in inUse' : at'[j] \in {"deriving", "done"}
  BY ClocksGive, Zenon
<1> QED BY <1>1, ClocksGive, Zenon DEF ClockInv

(* What Give does to the numbers. *)
LEMMA GiveNumbers ==
    ASSUME Clocks, NEW q \in Seq(Requests), Give(q)
    PROVE  /\ waited' \in [Requests -> Nat] /\ behind' \in [Requests -> Nat]
           /\ held' = 0 /\ held' \in 0..Hold
           /\ \A r \in Requests : \/ q # <<>> /\ r = Head(q)
                                  \/ waited'[r] = waited[r] /\ behind'[r] = behind[r]
<1>1. waited \in [Requests -> Nat] /\ behind \in [Requests -> Nat]
  BY ClocksGive, Zenon
<1>2. /\ waited' = [r \in Requests |-> IF q # <<>> /\ r = Head(q) THEN 0 ELSE waited[r]]
      /\ behind' = [r \in Requests |-> IF q # <<>> /\ r = Head(q) THEN 0 ELSE behind[r]]
      /\ held' = 0
  BY Zenon DEF Give
<1>3. 0 \in Nat /\ 0 \in 0..Hold
  BY Numbers
<1>4. /\ \A r \in Requests : (IF q # <<>> /\ r = Head(q) THEN 0 ELSE waited[r]) \in Nat
      /\ \A r \in Requests : (IF q # <<>> /\ r = Head(q) THEN 0 ELSE behind[r]) \in Nat
  BY <1>1, <1>3, Zenon
<1>5. waited' \in [Requests -> Nat] /\ behind' \in [Requests -> Nat]
  BY <1>2, <1>4, Zenon
<1> QED BY <1>2, <1>3, <1>5, Zenon

(* The first in line waits. *)
LEMMA HeadIs ==
    ASSUME Inv, queue # <<>>
    PROVE  /\ Head(queue) \in Requests /\ at[Head(queue)] = "waiting"
           /\ Head(queue) = queue[1]
<1>1. queue \in Seq(Requests) /\ Line(queue, at, "waiting")
  BY InvGives, Zenon
<1>2. IsInjective(queue) /\ \A i \in DOMAIN queue : at[queue[i]] = "waiting"
  BY <1>1, Zenon DEF Line
<1>3. Head(queue) \in Requests /\ 1 \in DOMAIN queue /\ Head(queue) = queue[1]
  BY <1>1, <1>2, TailIs, Zenon
<1> QED BY <1>2, <1>3, Zenon

LEMMA LeaveClocks ==
    ASSUME Inv, Clocks, NEW r \in Requests, slot = r, NEW l \in {"done", "permit"}, Leave(r, l),
           l = "done" \/ at[r] = "talking", UNCHANGED <<inUse, running>>
    PROVE  Clocks'
<1> USE InvGives, ClocksGive
<1>1. Give(queue) /\ at' = AtAfter(r, l, queue) /\ tries' = [tries EXCEPT ![r] = 0]
  BY Zenon DEF Leave
<1>2. 0 \in Nat /\ 0 < MaxTries
  BY Numbers, SMTT(30)
<1>3. tries' \in [Requests -> Nat] /\ \A x \in Requests : tries'[x] = 0
  BY <1>1, <1>2, Zenon
<1>4. queue # <<>> => Head(queue) \in Requests /\ at[Head(queue)] = "waiting"
  BY HeadIs, Zenon
<1>5. /\ slot' = IF queue = <<>> THEN NoOne ELSE Head(queue)
      /\ at'[r] = l
      /\ \A j \in Jobs : j # r => \/ queue # <<>> /\ j = Head(queue) /\ at'[j] = "talking"
                                  \/ at'[j] = at[j]
  BY <1>1, Zenon DEF Give, AtAfter
<1>6. /\ \A j \in Jobs : at'[j] = "deriving" => at[j] = "deriving"
      /\ \A j \in Jobs : at[j] \in {"deriving", "done"} => at'[j] \in {"deriving", "done"}
  BY <1>4, <1>5, Zenon
<1>7. /\ waited' \in [Requests -> Nat] /\ behind' \in [Requests -> Nat]
      /\ held' \in 0..Hold
  BY <1>1, GiveNumbers, Zenon
<1>8. ClockInv'
  BY <1>3, <1>6, <1>7, ClockParts, Zenon
<1>9. slot' # NoOne => slot' \in Requests /\ at'[slot'] = "talking"
  <2>1. queue # <<>> => Head(queue) # r
    BY <1>4, Zenon DEF Holders
  <2> QED BY <1>1, <1>4, <1>5, <2>1, Zenon DEF AtAfter
<1>10. TriesInv'
  BY <1>2, <1>3, <1>9, Zenon DEF TriesInv
<1> QED BY <1>8, <1>10, Zenon DEF Clocks

LEMMA AcquireClocks == ASSUME Inv, Clocks, NEW r \in Requests, Acquire(r) PROVE Clocks'
<1> USE InvGives, ClocksGive
<1>1. /\ at[r] = "idle" /\ UNCHANGED <<inUse, running>> /\ tries' = tries /\ r \in Jobs
      /\ \A j \in Jobs : j # r => at'[j] = at[j]
      /\ at'[r] \in {"talking", "waiting"}
  BY Zenon DEF Acquire, kdf
<1>2. CASE slot = NoOne
  <2>1. Head(<<r>>) = r /\ <<r>> # <<>> /\ <<r>> \in Seq(Requests)
    OBVIOUS
  <2>2. Give(<<r>>) /\ slot' = r /\ at'[r] = "talking"
    BY <1>1, <1>2, <2>1, Zenon DEF Acquire, Give
  <2>3. waited' \in [Requests -> Nat] /\ behind' \in [Requests -> Nat] /\ held' \in 0..Hold
    BY <2>1, <2>2, GiveNumbers, Zenon
  <2>4. ClockInv'
    BY <1>1, <2>3, ClockParts, Zenon
  <2>5. tries[r] = 0 /\ 0 < MaxTries
    BY <1>2, Numbers, SMTT(30)
  <2>6. TriesInv'
    BY <1>1, <1>2, <2>2, <2>5, ZenonT(30) DEF TriesInv
  <2> QED BY <2>4, <2>6, Zenon DEF Clocks
<1>3. CASE slot # NoOne
  <2>1. /\ slot' = slot /\ held' = held /\ waited' = waited
        /\ behind' = [behind EXCEPT ![r] = Len(queue) + 1]
    BY <1>3, Zenon DEF Acquire
  <2>2. Len(queue) + 1 \in Nat
    BY SMTT(30)
  <2>3. behind' \in [Requests -> Nat]
    BY <2>1, <2>2, Zenon
  <2>4. ClockInv'
    BY <1>1, <2>1, <2>3, ClockParts, Zenon
  <2>5. slot # r
    BY <1>1, Zenon DEF Holders
  <2>6. TriesInv'
    BY <1>1, <2>1, <2>5, ZenonT(30) DEF TriesInv
  <2> QED BY <2>4, <2>6, Zenon DEF Clocks
<1> QED BY <1>2, <1>3, Zenon

LEMMA BusyClocks == ASSUME Inv, Clocks, NEW r \in Requests, Busy(r) PROVE Clocks'
<1> USE InvGives, ClocksGive
<1>1. /\ at[r] = "waiting" /\ UNCHANGED <<inUse, running, tries, slot, held, behind>>
      /\ waited' = [waited EXCEPT ![r] = 0] /\ r \in Jobs
      /\ \A j \in Jobs : j # r => at'[j] = at[j]
      /\ at'[r] = "done"
  BY Zenon DEF Busy, kdf
<1>2. 0 \in Nat /\ slot # r
  BY <1>1, Zenon DEF Holders
<1>3. waited' \in [Requests -> Nat]
  BY <1>1, <1>2, Zenon
<1>4. ClockInv'
  BY <1>1, <1>3, ClockParts, Zenon
<1>5. TriesInv'
  BY <1>1, <1>2, Zenon DEF TriesInv
<1> QED BY <1>4, <1>5, Zenon DEF Clocks

LEMMA FinishClocks == ASSUME Inv, Clocks, NEW r \in Requests, Finish(r) PROVE Clocks'
<1>0. \A t \in Nat : t < MaxTries => t + 1 \in Nat /\ t + 1 \in 1..MaxTries /\ 0 \in 0..Hold
  BY Numbers, SMTT(30)
<1> USE InvGives, ClocksGive
<1>1. slot = r /\ at[r] = "talking" /\ r \in Jobs /\ r # NoOne /\ UNCHANGED <<inUse, running>>
  BY Zenon DEF Finish
<1>2. CASE Leave(r, "permit") \/ Leave(r, "done")
  BY <1>1, <1>2, LeaveClocks, Zenon
<1>3. CASE /\ tries' = [tries EXCEPT ![r] = @ + 1] /\ at' = [at EXCEPT ![r] = "permit"]
           /\ held' = 0 /\ UNCHANGED <<slot, waited, behind>>
  <2>1. tries[r] \in Nat /\ tries[r] < MaxTries
    BY <1>1, Zenon
  <2>2. tries[r] + 1 \in Nat /\ tries[r] + 1 \in 1..MaxTries /\ 0 \in 0..Hold
    BY <1>0, <2>1, Zenon
  <2>3. /\ tries' \in [Requests -> Nat] /\ tries'[r] = tries[r] + 1
        /\ \A x \in Requests : x # r => tries'[x] = tries[x]
        /\ at'[r] = "permit" /\ \A j \in Jobs : j # r => at'[j] = at[j]
    BY <1>1, <1>3, <2>2, Zenon
  <2>4. ClockInv'
    BY <1>1, <1>3, <2>2, <2>3, ClockParts, Zenon
  <2>5. TriesInv'
    BY <1>1, <1>3, <2>2, <2>3, Zenon DEF TriesInv
  <2> QED BY <2>4, <2>5, Zenon DEF Clocks
<1> QED BY <1>2, <1>3, Zenon DEF Finish

LEMMA AbortClocks == ASSUME Inv, Clocks, NEW r \in Requests, Abort(r) PROVE Clocks'
<1> USE InvGives, ClocksGive
<1>1. UNCHANGED <<inUse, running>> /\ r \in Jobs
  BY Zenon DEF Abort, AbandonWork
<1>2. CASE slot = r
  BY <1>1, <1>2, LeaveClocks, Zenon DEF Abort
<1>3. CASE slot # r
  <2>1. /\ UNCHANGED <<tries, slot, held>>
        /\ waited' = [waited EXCEPT ![r] = 0] /\ behind' = [behind EXCEPT ![r] = 0]
        /\ \A j \in Jobs : j # r => at'[j] = at[j]
        /\ at'[r] = "done"
    BY <1>1, <1>3, Zenon DEF Abort
  <2>2. 0 \in Nat
    OBVIOUS
  <2>3. waited' \in [Requests -> Nat] /\ behind' \in [Requests -> Nat]
    BY <2>1, <2>2, Zenon
  <2>4. ClockInv'
    BY <1>1, <2>1, <2>3, ClockParts, Zenon
  <2>5. TriesInv'
    BY <1>3, <2>1, Zenon DEF TriesInv
  <2> QED BY <2>4, <2>5, Zenon DEF Clocks
<1> QED BY <1>2, <1>3, Zenon

LEMMA StartDeriveClocks == ASSUME Inv, Clocks, StartDerive PROVE Clocks'
<1>0. 0 \in 0..DeriveTime
  BY Numbers, SMTT(30)
<1> USE InvGives, ClocksGive
<1> DEFINE h == Head(permits)
<1>1. permits # <<>> /\ Line(permits, at, "permit") /\ permits \in Seq(Jobs)
  BY Zenon DEF StartDerive, MayStart
<1>2. h \in Jobs /\ at[h] = "permit"
  <2>1. IsInjective(permits) /\ \A i \in DOMAIN permits : at[permits[i]] = "permit"
    BY <1>1, Zenon DEF Line
  <2>2. h \in Jobs /\ 1 \in DOMAIN permits /\ h = permits[1]
    BY <1>1, <2>1, TailIs, Zenon
  <2> QED BY <2>1, <2>2, Zenon
<1>3. /\ inUse' = inUse \cup {h} /\ at' = [at EXCEPT ![h] = "deriving"]
      /\ running' = [x \in DOMAIN running \cup {h} |-> IF x = h THEN 0 ELSE running[x]]
      /\ UNCHANGED <<slot, tries, held, waited, behind>>
  BY Zenon DEF StartDerive, dialog
<1> HIDE DEF h
<1>4. at'[h] = "deriving" /\ \A j \in Jobs : j # h => at'[j] = at[j]
  BY <1>2, <1>3, Zenon
<1>5. running' \in [inUse' -> 0..DeriveTime] /\ inUse' \subseteq Jobs
  <2>1. DOMAIN running = inUse /\ \A x \in inUse : running[x] \in 0..DeriveTime
    BY Zenon
  <2> QED BY <1>0, <1>2, <1>3, <2>1, Zenon
<1>6. /\ \A j \in Jobs : at'[j] = "deriving" => j \in inUse'
      /\ \A j \in inUse' : at'[j] \in {"deriving", "done"}
  BY <1>2, <1>3, <1>4, Zenon
<1>7. ClockInv'
  BY <1>3, <1>5, <1>6, Zenon DEF ClockInv
<1>8. slot' \in Jobs => at'[slot'] = at[slot] \/ (at[slot] = "permit" /\ at'[slot'] = "deriving")
  BY <1>2, <1>3, <1>4, Zenon
<1>9. TriesInv'
  BY <1>3, <1>8, Zenon DEF TriesInv
<1> QED BY <1>7, <1>9, Zenon DEF Clocks

LEMMA EndDeriveClocks ==
    ASSUME Inv, PermitInv, Clocks, NEW j \in Jobs, EndDerive(j)
    PROVE  Clocks'
<1>0. 0 \in 0..Hold
  BY Numbers, SMTT(30)
<1> USE InvGives, ClocksGive
<1>1. /\ j \in inUse /\ inUse' = inUse \ {j}
      /\ running' = [x \in DOMAIN running \ {j} |-> running[x]]
  BY Zenon DEF EndDerive, PermitInv
<1>2. running' \in [inUse' -> 0..DeriveTime] /\ inUse' \subseteq Jobs
  BY <1>1, Zenon
(* ClockInv' from what becomes of at and the numbers. *)
<1>3. ASSUME waited' \in [Requests -> Nat], behind' \in [Requests -> Nat],
             tries' \in [Requests -> Nat], held' \in 0..Hold,
             \A x \in Jobs : x # j /\ at'[x] = "deriving" => at[x] = "deriving",
             \A x \in Jobs : x # j /\ at[x] \in {"deriving", "done"} => at'[x] = at[x],
             at'[j] # "deriving"
      PROVE  ClockInv'
  <2>1. /\ \A x \in Jobs : at'[x] = "deriving" => x \in inUse'
        /\ \A x \in inUse' : at'[x] \in {"deriving", "done"}
    BY <1>1, <1>3, Zenon
  <2> QED BY <1>2, <1>3, <2>1, Zenon DEF ClockInv
<1>4. CASE at[j] # "deriving" /\ UNCHANGED <<at, dialog>>
  <2>1. UNCHANGED <<slot, tries, held, waited, behind>>
    BY <1>4, Zenon DEF dialog
  <2>2. ClockInv'
    BY <1>3, <1>4, <2>1, Zenon
  <2>3. TriesInv'
    BY <1>4, <2>1, Zenon DEF TriesInv
  <2> QED BY <2>2, <2>3, Zenon DEF Clocks
<1>5. CASE /\ at[j] = "deriving"
           /\ j \in Background \/ (j \in Requests /\ kind[j] = "create")
           /\ at' = [at EXCEPT ![j] = "done"] /\ UNCHANGED dialog
  <2>1. /\ UNCHANGED <<slot, tries, held, waited, behind>>
        /\ at'[j] = "done" /\ \A x \in Jobs : x # j => at'[x] = at[x]
    BY <1>5, Zenon DEF dialog
  <2>2. ClockInv'
    BY <1>3, <1>5, <2>1, Zenon
  <2>3. slot # NoOne => slot # j
    <3>1. "create" # "unlock" /\ "deriving" # "talking"
      OBVIOUS
    <3> QED BY <1>5, <3>1, Zenon DEF Holders
  <2>4. slot # NoOne => at'[slot'] = at[slot]
    BY <2>1, <2>3, Zenon
  <2>5. TriesInv'
    BY <2>1, <2>4, ZenonT(30) DEF TriesInv
  <2> QED BY <2>2, <2>5, Zenon DEF Clocks
<1>6. CASE at[j] = "deriving" /\ j \in Requests /\ kind[j] = "unlock" /\ Leave(j, "done")
  <2>1. slot = j
    BY <1>6, Zenon DEF Holders
  <2>2. Give(queue) /\ at' = AtAfter(j, "done", queue) /\ tries' = [tries EXCEPT ![j] = 0]
    BY <1>6, Zenon DEF Leave
  <2>3. waited' \in [Requests -> Nat] /\ behind' \in [Requests -> Nat] /\ held' \in 0..Hold
    BY <2>2, GiveNumbers, Zenon
  <2>4. queue # <<>> => Head(queue) \in Requests /\ at[Head(queue)] = "waiting"
    BY HeadIs, Zenon
  <2>5. 0 \in Nat /\ 0 < MaxTries
    BY Numbers, SMTT(30)
  <2>6. tries' \in [Requests -> Nat] /\ \A x \in Requests : tries'[x] = 0
    BY <2>1, <2>2, <2>5, Zenon
  <2>7. /\ at'[j] = "done"
        /\ \A x \in Jobs : x # j => \/ queue # <<>> /\ x = Head(queue) /\ at'[x] = "talking"
                                    \/ at'[x] = at[x]
    BY <2>2, Zenon DEF AtAfter
  <2>8. /\ \A x \in Jobs : x # j /\ at'[x] = "deriving" => at[x] = "deriving"
        /\ \A x \in Jobs : x # j /\ at[x] \in {"deriving", "done"} => at'[x] = at[x]
    BY <2>4, <2>7, Zenon
  <2>9. ClockInv'
    BY <1>3, <2>3, <2>6, <2>7, <2>8, ZenonT(30)
  <2>10. slot' # NoOne => slot' \in Requests /\ at'[slot'] = "talking"
    BY <1>6, <2>2, <2>4, Zenon DEF Give, AtAfter
  <2>11. TriesInv'
    BY <2>5, <2>6, <2>10, Zenon DEF TriesInv
  <2> QED BY <2>9, <2>11, Zenon DEF Clocks
<1>7. CASE /\ at[j] = "deriving" /\ j \in Requests /\ kind[j] = "unlock"
           /\ tries[j] < MaxTries /\ AskAgain(j) /\ tries' = tries
  <2>1. slot = j
    BY <1>7, Zenon DEF Holders
  <2>2. /\ held' = 0 /\ UNCHANGED <<slot, waited, behind>>
        /\ at'[j] = "talking" /\ \A x \in Jobs : x # j => at'[x] = at[x]
    BY <1>7, Zenon DEF AskAgain
  <2>3. ClockInv'
    BY <1>0, <1>3, <1>7, <2>2, Zenon
  <2>4. TriesInv'
    BY <1>7, <2>1, <2>2, Zenon DEF TriesInv
  <2> QED BY <2>3, <2>4, Zenon DEF Clocks
<1> QED BY <1>4, <1>5, <1>6, <1>7, Zenon DEF EndDerive

LEMMA TickClocks == ASSUME Inv, PermitInv, Clocks, Tick PROVE Clocks'
<1>0. /\ \A n \in Nat : n + 1 \in Nat
      /\ \A n \in 0..Hold : n < Hold => n + 1 \in 0..Hold
      /\ \A n \in 0..DeriveTime : n < DeriveTime => n + 1 \in 0..DeriveTime
  BY Numbers, SMTT(30)
<1> USE InvGives, ClocksGive
<1>1. /\ waited' = [r \in Requests |-> IF at[r] = "waiting" THEN waited[r] + 1 ELSE waited[r]]
      /\ held' = IF slot # NoOne /\ at[slot] = "talking" THEN held + 1 ELSE held
      /\ running' = [j \in DOMAIN running |-> running[j] + 1]
      /\ UNCHANGED <<at, slot, tries, behind, inUse>>
      /\ slot # NoOne /\ at[slot] = "talking" => held < Hold
      /\ \A j \in DOMAIN running : running[j] < DeriveTime
  BY Zenon DEF Tick
<1>2. waited' \in [Requests -> Nat]
  <2>1. \A r \in Requests : (IF at[r] = "waiting" THEN waited[r] + 1 ELSE waited[r]) \in Nat
    BY <1>0, Zenon
  <2> QED BY <1>1, <2>1, Zenon
<1>3. held' \in 0..Hold
  BY <1>0, <1>1, Zenon
<1>4. running' \in [inUse' -> 0..DeriveTime]
  <2>1. DOMAIN running = inUse /\ \A x \in inUse : running[x] + 1 \in 0..DeriveTime
    BY <1>0, <1>1, Zenon
  <2> QED BY <1>1, <2>1, Zenon
<1>5. ClockInv'
  BY <1>1, <1>2, <1>3, <1>4, Zenon DEF ClockInv
<1>6. TriesInv'
  BY <1>1, Zenon DEF TriesInv
<1> QED BY <1>5, <1>6, Zenon DEF Clocks

LEMMA ClocksStep == Inv /\ PermitInv /\ Clocks /\ [Next]_vars => Clocks'
<1> SUFFICES ASSUME Inv, PermitInv, Clocks, [Next]_vars PROVE Clocks'
  BY Zenon
<1>1. ASSUME NEW r \in Requests, Acquire(r) \/ Busy(r) \/ Finish(r) \/ Abort(r) PROVE Clocks'
  BY <1>1, AcquireClocks, BusyClocks, FinishClocks, AbortClocks, Zenon
<1>2. ASSUME NEW r \in Requests, DialogTimeout(r) PROVE Clocks'
  BY <1>2, LeaveClocks, Zenon DEF DialogTimeout, kdf
<1>3. ASSUME UNCHANGED <<at, slot, inUse, running, waited, behind, tries, held>> PROVE Clocks'
  BY <1>3, Zenon DEF Clocks, ClockInv, TriesInv
<1>4. ASSUME NEW r \in Requests, NEW reply \in Replies, Reply(r, reply) PROVE Clocks'
  BY <1>3, <1>4, Zenon DEF Reply, kdf
<1>5. ASSUME NEW b \in Background, BackgroundDerive(b) PROVE Clocks'
  <2>1. /\ b \in Jobs /\ b \notin Requests /\ at[b] = "idle" /\ slot \in Requests \cup {NoOne}
        /\ UNCHANGED <<slot, inUse, running, waited, behind, tries, held>>
        /\ at'[b] = "permit" /\ \A j \in Jobs : j # b => at'[j] = at[j]
        /\ Requests \subseteq Jobs
    BY <1>5, InvGives, Zenon DEF BackgroundDerive, dialog
  <2>2. ClockInv'
    BY <2>1, ClocksGive, ClockParts, Zenon
  <2>3. slot # NoOne => at'[slot'] = at[slot]
    BY <2>1, Zenon
  <2>4. TriesInv'
    BY <2>1, <2>3, ClocksGive, Zenon DEF TriesInv
  <2> QED BY <2>2, <2>4, Zenon DEF Clocks
<1>6. CASE UNCHANGED vars
  BY <1>3, <1>6, Zenon DEF vars, dialog, kdf
<1> QED BY <1>1, <1>2, <1>4, <1>5, <1>6, StartDeriveClocks, EndDeriveClocks, TickClocks,
       ZenonT(30) DEF Next

LEMMA InitClocks == Init => Clocks
<1> SUFFICES ASSUME Init PROVE Clocks
  BY Zenon
<1>1. 0 \in Nat /\ 0 \in 0..Hold
  BY Numbers, SMTT(30)
<1>2. running \in [inUse -> 0..DeriveTime]
  BY DEF Init
<1>3. ClockInv
  BY <1>1, <1>2, Zenon DEF Init, ClockInv
<1>4. TriesInv
  BY Zenon DEF Init, TriesInv
<1> QED BY <1>3, <1>4, Zenon DEF Clocks

(* Arithmetic of the turns. *)
LEMMA BeforeIs ==
    ASSUME Counts, IsFiniteSet(Jobs), NEW t \in 1..MaxTries
    PROVE  /\ Before(t) \in Nat /\ t * Turn \in Nat
           /\ (t - 1) * Turn \in Nat
           /\ Before(t) = (t - 1) * Turn + Hold + Ahead * DeriveTime
           /\ Before(t) + DeriveTime = t * Turn
           /\ t * Turn <= MaxTries * Turn
<1>1. t - 1 \in Nat /\ t \in Nat /\ t = (t - 1) + 1 /\ t <= MaxTries /\ MaxTries \in Nat
  BY Numbers, SMTT(30)
<1>2. /\ Turn \in Nat /\ Turn = Hold + Ahead * DeriveTime + DeriveTime
      /\ Ahead * DeriveTime \in Nat
  BY TurnIs, Zenon
<1> DEFINE s == t - 1
           a == Ahead * DeriveTime
           p == s * Turn
           m == t * Turn
<1>3. p \in Nat /\ m \in Nat /\ m <= MaxTries * Turn
  BY <1>1, <1>2, Times, Zenon
<1>4. m = p + Turn
  <2>1. m = (s + 1) * Turn
    BY <1>1, Zenon
  <2>2. s \in Nat
    BY <1>1, Zenon
  <2> HIDE DEF s
  <2> QED BY <1>2, <2>1, <2>2, Times, Zenon
<1>5. Before(t) = p + Hold + a /\ a \in Nat /\ Turn = Hold + a + DeriveTime
  BY <1>2, Zenon DEF Before
<1> HIDE DEF p, m, a
<1>6. Before(t) \in Nat /\ Before(t) + DeriveTime = m
  BY <1>3, <1>4, <1>5, Numbers, SMTT(30)
<1> QED BY <1>3, <1>5, <1>6, Zenon DEF p, m, a

(* A derivation joins the line: everyone who can be ahead of it fits.       *)
LEMMA JoinInTime ==
    ASSUME Counts, IsFiniteSet(Jobs), NEW U, IsFiniteSet(U), Cardinality(U) <= MaxConcurrent,
           NEW run \in [U -> 0..DeriveTime], NEW i \in Nat, NEW w \in Nat, NEW limit \in Nat,
           i + Cardinality(U) + 1 <= Cardinality(Jobs), w + Ahead * DeriveTime <= limit
    PROVE  IF Cardinality(U) < MaxConcurrent
           THEN /\ w <= limit
                /\ w + (i + Cardinality(U)) * DeriveTime <= limit + MaxConcurrent * DeriveTime
           ELSE \E j \in U : w + i * DeriveTime <= limit + run[j]
<1> DEFINE c == Cardinality(U)
           d == DeriveTime
           a == Ahead * d
           m == MaxConcurrent * d
<1>0. /\ c \in Nat /\ d \in Nat /\ a \in Nat /\ m \in Nat /\ Ahead \in Nat
      /\ MaxConcurrent \in Nat \ {0}
      /\ Cardinality(Jobs) \in Nat /\ Cardinality(Jobs) <= Ahead + MaxConcurrent + 1
  <2>1. c \in Nat /\ d \in Nat /\ MaxConcurrent \in Nat \ {0} /\ MaxConcurrent \in Nat
    BY Numbers, Zenon DEF Counts
  <2>2. a \in Nat /\ Ahead \in Nat /\ Cardinality(Jobs) \in Nat
        /\ Cardinality(Jobs) <= Ahead + MaxConcurrent + 1
    BY TurnIs, Zenon
  <2>3. m \in Nat
    BY <2>1, Times, Zenon
  <2> QED BY <2>1, <2>2, <2>3, Zenon
<1>1. i + c <= Ahead + MaxConcurrent /\ i + c \in Nat /\ Ahead + MaxConcurrent \in Nat
  BY <1>0, SMTT(30)
<1>2. (i + c) * d <= (Ahead + MaxConcurrent) * d /\ (i + c) * d \in Nat
  <2> DEFINE x == i + c
             y == Ahead + MaxConcurrent
  <2>1. x \in Nat /\ y \in Nat /\ x <= y
    BY <1>1, Zenon
  <2> HIDE DEF x, y
  <2>2. x * d <= y * d /\ x * d \in Nat
    BY <1>0, <2>1, Times, Zenon
  <2> QED BY <2>2, Zenon DEF x, y
<1>3. (Ahead + MaxConcurrent) * d = a + m
  <2>1. Ahead \in Nat /\ MaxConcurrent \in Nat /\ d \in Nat
    BY <1>0, Zenon
  <2> HIDE DEF d
  <2> QED BY <2>1, Times, SMTT(30)
<1>4. CASE c < MaxConcurrent
  <2> DEFINE p == (i + c) * d
  <2>1. p <= a + m /\ p \in Nat /\ w + a <= limit
    BY <1>2, <1>3, Zenon
  <2> HIDE DEF p, a, m
  <2>2. w <= limit /\ w + p <= limit + m
    BY <1>0, <2>1, SMTT(30)
  <2> QED BY <1>4, <2>2, Zenon DEF p, m
<1>5. CASE ~(c < MaxConcurrent)
  <2>1. c # 0 /\ i <= Ahead
    BY <1>0, <1>1, <1>5, SMTT(30)
  <2>2. PICK j \in U : TRUE
    BY <2>1, Zenon DEF Counts
  <2>3. i * d <= a /\ i * d \in Nat
    BY <1>0, <2>1, Times, Zenon
  <2>4. run[j] \in 0..DeriveTime
    BY <2>2, Zenon
  <2> DEFINE p == i * d
             n == run[j]
  <2>5. p <= a /\ p \in Nat /\ n \in Nat /\ w + a <= limit
    BY <2>3, <2>4, Numbers, SMTT(30)
  <2> HIDE DEF p, n, a
  <2>6. w + p <= limit + n
    BY <1>0, <2>5, SMTT(30)
  <2> QED BY <1>5, <2>2, <2>6, Zenon DEF p, n
<1> QED BY <1>4, <1>5, Zenon

LEMMA JoinedInTime ==
    ASSUME Clocks, PermitInv, Counts, IsFiniteSet(Jobs),
           NEW i \in Nat, NEW w \in Nat, NEW limit \in Nat,
           i + Cardinality(inUse) + 1 <= Cardinality(Jobs), w + Ahead * DeriveTime <= limit
    PROVE  InTime(i, w, limit)
<1>1. /\ IsFiniteSet(inUse) /\ Cardinality(inUse) <= MaxConcurrent
      /\ running \in [inUse -> 0..DeriveTime]
  BY ClocksGive, Zenon DEF PermitInv
<1>2. IF Cardinality(inUse) < MaxConcurrent
      THEN /\ w <= limit
           /\ w + (i + Cardinality(inUse)) * DeriveTime <= limit + MaxConcurrent * DeriveTime
      ELSE \E j \in inUse : w + i * DeriveTime <= limit + running[j]
  BY <1>1, JoinInTime, Zenon
<1> QED BY <1>2, Zenon DEF InTime

(* Going forward in the line keeps one in time. *)
LEMMA InTimeForward ==
    ASSUME Counts, Clocks, PermitInv, NEW i \in Nat, NEW k \in Nat, k <= i, NEW w \in Nat,
           NEW limit \in Nat, InTime(i, w, limit)
    PROVE  InTime(k, w, limit)
<1> DEFINE c == Cardinality(inUse)
           d == DeriveTime
           m == MaxConcurrent * d
<1>0. c \in Nat /\ d \in Nat /\ m \in Nat /\ MaxConcurrent \in Nat
  BY Numbers, Times, Zenon DEF PermitInv, Counts
<1>1. k * d <= i * d /\ k * d \in Nat /\ i * d \in Nat
  BY <1>0, Times, Zenon
<1>2. CASE c < MaxConcurrent
  <2>1. k + c \in Nat /\ i + c \in Nat /\ k + c <= i + c
    BY <1>0, SMTT(30)
  <2> DEFINE x == k + c
             y == i + c
             p == x * d
             q == y * d
  <2>2. p <= q /\ p \in Nat /\ q \in Nat
    <3> HIDE DEF x, y
    <3> QED BY <1>0, <2>1, Times, Zenon DEF x, y
  <2>3. w <= limit /\ w + q <= limit + m
    BY <1>2, Zenon DEF InTime
  <2> HIDE DEF p, q, m
  <2>4. w + p <= limit + m
    BY <1>0, <2>2, <2>3, SMTT(30)
  <2> QED BY <1>2, <2>3, <2>4, Zenon DEF p, m, InTime
<1>3. CASE ~(c < MaxConcurrent)
  <2>1. PICK j \in inUse : w + i * d <= limit + running[j]
    BY <1>3, Zenon DEF InTime
  <2>2. running[j] \in Nat
    <3>1. running[j] \in 0..DeriveTime
      BY ClocksGive, Zenon
    <3> QED BY <3>1, Numbers
  <2> DEFINE p == k * d
             q == i * d
             n == running[j]
  <2>3. p <= q /\ p \in Nat /\ q \in Nat /\ n \in Nat /\ w + q <= limit + n
    BY <1>1, <2>1, <2>2, Zenon
  <2> HIDE DEF p, q, n
  <2>4. w + p <= limit + n
    BY <2>3, SMTT(30)
  <2> QED BY <1>3, <2>1, <2>4, Zenon DEF p, n, InTime
<1> QED BY <1>2, <1>3, Zenon

(* One who is in time has not waited past the limit. *)
LEMMA InTimeWithin ==
    ASSUME Clocks, PermitInv, NEW i \in Nat \ {0}, NEW w \in Nat, NEW limit \in Nat,
           InTime(i, w, limit)
    PROVE  w <= limit
<1>1. CASE Cardinality(inUse) < MaxConcurrent
  BY <1>1, Zenon DEF InTime
<1>2. CASE ~(Cardinality(inUse) < MaxConcurrent)
  <2>1. PICK j \in inUse : w + i * DeriveTime <= limit + running[j]
    BY <1>2, Zenon DEF InTime
  <2>2. running[j] \in 0..DeriveTime
    BY ClocksGive, Zenon
  <2>3. 1 * DeriveTime <= i * DeriveTime /\ i * DeriveTime \in Nat /\ 1 * DeriveTime = DeriveTime
    <3>1. 1 <= i /\ 1 \in Nat /\ i \in Nat /\ DeriveTime \in Nat
      BY Numbers, SMTT(30)
    <3> QED BY <3>1, Times, SMTT(30)
  <2> DEFINE p == i * DeriveTime
             n == running[j]
  <2>4. p \in Nat /\ n \in 0..DeriveTime /\ DeriveTime <= p /\ w + p <= limit + n
    BY <2>1, <2>2, <2>3, Zenon
  <2> HIDE DEF p, n
  <2> QED BY <2>4, Numbers, SMTT(30)
<1> QED BY <1>1, <1>2, Zenon

(* Everything known of a state, and the budget. *)
All == Inv /\ PermitInv /\ Clocks /\ FirstInv

LEMMA AllGive == ASSUME All PROVE Inv /\ PermitInv /\ Clocks /\ FirstInv
BY Zenon DEF All

(* FirstInv', for steps after which no one is newly in line or newly busy. *)
LEMMA FirstParts ==
    ASSUME FirstInv, DOMAIN outcome' = DOMAIN outcome, HolderInLine',
           \A x \in Requests : at'[x] = "idle" => at[x] = "idle" /\ waited'[x] = waited[x],
           \A x \in Requests : at'[x] = "waiting" => at[x] = "waiting" /\ behind'[x] = behind[x],
           \A x \in Requests : outcome'[x] = "busy" => outcome[x] = "busy",
           \A x \in Requests : at[x] = "done" => at'[x] = "done" /\ behind'[x] = behind[x],
           \A x \in Requests :
              /\ at'[x] = "waiting" /\ at[x] = "waiting" /\ queue # <<>> /\ queue[1] = x
              /\ behind[x] = 1 /\ Accounted(waited[x])
              => queue' # <<>> /\ queue'[1] = x /\ Accounted(waited[x])'
    PROVE  FirstInv'
<1> SUFFICES ASSUME NEW x \in Requests
             PROVE  /\ at'[x] = "idle" => waited'[x] = 0
                    /\ at'[x] = "waiting" => behind'[x] > 0
                    /\ at'[x] = "waiting" /\ behind'[x] = 1 =>
                          queue' # <<>> /\ queue'[1] = x /\ Accounted(waited[x])'
                    /\ outcome'[x] = "busy" => at'[x] = "done" /\ behind'[x] > 1
  BY Zenon DEF FirstInv
<1>1. /\ at[x] = "idle" => waited[x] = 0
      /\ at[x] = "waiting" => behind[x] > 0
      /\ at[x] = "waiting" /\ behind[x] = 1 =>
            queue # <<>> /\ queue[1] = x /\ Accounted(waited[x])
      /\ outcome[x] = "busy" => at[x] = "done" /\ behind[x] > 1
  BY Zenon DEF FirstInv
<1>2. at'[x] = "idle" => waited'[x] = 0
  BY <1>1, Zenon
<1>3. at'[x] = "waiting" => behind'[x] > 0
  BY <1>1, Zenon
<1>4. at'[x] = "waiting" /\ behind'[x] = 1 =>
        queue' # <<>> /\ queue'[1] = x /\ Accounted(waited[x])'
  BY <1>1, Zenon
<1>5. outcome'[x] = "busy" => at'[x] = "done" /\ behind'[x] > 1
  BY <1>1, Zenon
<1> QED BY <1>2, <1>3, <1>4, <1>5, Zenon

(* The slot is handed on: the first in line has it, so no one is first. *)
LEMMA LeaveFirst ==
    ASSUME All, NEW r \in Requests, slot = r, NEW l \in {"done", "permit"}, Leave(r, l)
    PROVE  FirstInv'
<1> USE AllGive, InvGives, ClocksGive
<1>1. /\ Give(queue) /\ at' = AtAfter(r, l, queue)
      /\ outcome' = [outcome EXCEPT ![r] = IF l = "done" THEN "over" ELSE @]
  BY Zenon DEF Leave
<1>2. queue # <<>> =>
         Head(queue) \in Requests /\ at[Head(queue)] = "waiting" /\ Head(queue) = queue[1]
  BY HeadIs, Zenon
<1>3. /\ at'[r] = l /\ r \in Jobs /\ at[r] \notin {"waiting", "done"}
      /\ \A j \in Jobs : j # r => \/ queue # <<>> /\ j = Head(queue) /\ at'[j] = "talking"
                                  \/ at'[j] = at[j] /\ ~(queue # <<>> /\ j = Head(queue))
  <2>1. at[r] \notin {"waiting", "done"}
    BY Zenon DEF Holders
  <2> QED BY <1>1, <2>1, Zenon DEF AtAfter
<1>4. \A x \in Requests : \/ queue # <<>> /\ x = Head(queue)
                          \/ waited'[x] = waited[x] /\ behind'[x] = behind[x]
  BY <1>1, GiveNumbers, Zenon
<1>5. \A x \in Requests : outcome'[x] = "busy" => outcome[x] = "busy"
  <2>1. DOMAIN outcome = Requests
    BY Zenon DEF FirstInv
  <2> QED BY <1>1, <2>1, Zenon
<1>6. \A x \in Requests : at'[x] = "idle" => at[x] = "idle" /\ waited'[x] = waited[x]
  BY <1>2, <1>3, <1>4, Zenon
<1>7. \A x \in Requests : at'[x] = "waiting" => at[x] = "waiting" /\ behind'[x] = behind[x]
  BY <1>2, <1>3, <1>4, Zenon
<1>8. \A x \in Requests : at[x] = "done" => at'[x] = "done" /\ behind'[x] = behind[x]
  BY <1>2, <1>3, <1>4, Zenon
<1>9. \A x \in Requests : at'[x] = "waiting" /\ at[x] = "waiting" => ~(queue # <<>> /\ queue[1] = x)
  BY <1>2, <1>3, Zenon
<1>10. DOMAIN outcome' = DOMAIN outcome
  BY <1>1, Zenon
<1>11. HolderInLine'
  <2>1. slot' # NoOne => slot' \in Requests /\ at'[slot'] = "talking"
    BY <1>1, <1>2, <1>3, Zenon DEF Give
  <2> QED BY <2>1, Zenon DEF HolderInLine
<1> QED BY <1>5, <1>6, <1>7, <1>8, <1>9, <1>10, <1>11, FirstParts, ZenonT(30)

(* The holder's account is unchanged where it keeps or improves its place.  *)
LEMMA AccountedStays ==
    ASSUME All, Counts, IsFiniteSet(Jobs), NEW x \in Requests, Accounted(waited[x]),
           waited'[x] = waited[x], slot' = slot, slot \in Requests, at'[slot] = at[slot],
           UNCHANGED <<tries, held, inUse, running>>, permits' \in Seq(Jobs),
           \A i \in DOMAIN permits : permits[i] = slot =>
              \E k \in DOMAIN permits' : k <= i /\ permits'[k] = slot
    PROVE  Accounted(waited[x])'
<1> USE AllGive, ClocksGive
<1>1. CASE at[slot] = "permit"
  <2>1. PICK i \in DOMAIN permits :
               permits[i] = slot /\ InTime(i, waited[x], Before(tries[slot]))
    BY <1>1, Zenon DEF Accounted
  <2>2. PICK k \in DOMAIN permits' : k <= i /\ permits'[k] = slot
    BY <2>1, Zenon
  <2>3. i \in Nat /\ k \in Nat
    <3>1. permits \in Seq(Jobs)
      BY InvGives, Zenon
    <3> QED BY <2>1, <2>2, <3>1, SMTT(30)
  <2>4. tries[slot] \in 1..MaxTries /\ waited[x] \in Nat
    BY <1>1, InvGives, Zenon
  <2>5. Before(tries[slot]) \in Nat
    BY <2>4, BeforeIs, Zenon
  <2> DEFINE n == Before(tries[slot])
             w == waited[x]
  <2>6. n \in Nat /\ w \in Nat /\ InTime(i, w, n)
    BY <2>1, <2>4, <2>5, Zenon
  <2> HIDE DEF n, w
  <2>7. InTime(k, w, n)
    BY <2>2, <2>3, <2>6, InTimeForward, Zenon
  <2>8. Before(tries'[slot']) = n /\ waited'[x] = w
    BY Zenon DEF n, w, Before
  <2>9. InTime(k, waited[x], Before(tries[slot]))'
    BY <2>7, <2>8, Zenon DEF InTime, n, w, Before
  <2> QED BY <1>1, <2>2, <2>9, Zenon DEF Accounted
<1>2. CASE at[slot] # "permit"
  BY <1>2, Zenon DEF Accounted, Before
<1> QED BY <1>1, <1>2, Zenon

(* The holder of the slot when someone is in line. *)
LEMMA SomeoneHolds ==
    ASSUME Inv, queue # <<>>
    PROVE  /\ slot \in Requests /\ slot \in Jobs
           /\ at[slot] \in {"talking", "permit", "deriving"}
           /\ at[slot] \in {"permit", "deriving"} => kind[slot] = "unlock"
<1>1. slot \in Requests /\ slot \in Jobs
  BY InvGives, Zenon
<1> QED BY <1>1, InvGives, Zenon DEF Holders

(* Someone comes first in line: the holder has all of its time before it. *)
LEMMA JoinAccounted ==
    ASSUME All, Counts, IsFiniteSet(Jobs), NEW r \in Requests, at[r] = "idle", slot \in Requests
    PROVE  Accounted(0)
<1> USE AllGive, ClocksGive
<1>0. slot # NoOne /\ tries[slot] \in Nat /\ held \in Nat
  <2>1. slot # NoOne /\ tries[slot] \in Nat /\ held \in 0..Hold
    BY InvGives, Zenon
  <2>2. \A n \in 0..Hold : n \in Nat
    BY Numbers
  <2> QED BY <2>1, <2>2, Zenon
<1>1. CASE at[slot] = "talking"
  <2>1. tries[slot] * Turn \in Nat
    BY <1>0, Times, TurnIs, Zenon
  <2>2. 0 <= tries[slot] * Turn + held
    BY <1>0, <2>1, SMTT(30)
  <2> QED BY <1>1, <2>2, Zenon DEF Accounted
<1>2. CASE at[slot] \in {"permit", "deriving"}
  <2>1. tries[slot] \in 1..MaxTries
    BY <1>0, <1>2, Zenon
  <2> DEFINE n == Before(tries[slot])
  <2>2. /\ n \in Nat /\ Ahead * DeriveTime \in Nat /\ Hold \in Nat
        /\ n = (tries[slot] - 1) * Turn + Hold + Ahead * DeriveTime
        /\ (tries[slot] - 1) * Turn \in Nat
    BY <2>1, BeforeIs, TurnIs, Numbers, Zenon
  <2> HIDE DEF n
  <2>3. 0 + Ahead * DeriveTime <= n
    BY <2>2, SMTT(30)
  <2>4. CASE at[slot] = "deriving"
    <3>1. slot \in inUse
      BY <2>4, InvGives, Zenon
    <3>2. running[slot] \in 0..DeriveTime
      BY <3>1, Zenon
    <3>3. 0 <= n + running[slot]
      BY <2>2, <3>2, Numbers, SMTT(30)
    <3> QED BY <2>4, <3>3, Zenon DEF Accounted, n
  <2>5. CASE at[slot] = "permit"
    <3>1. PICK i \in DOMAIN permits : permits[i] = slot
      BY <1>0, <2>5, Zenon DEF FirstInv, HolderInLine
    <3>2. /\ permits \in Seq(Jobs) /\ IsInjective(permits) /\ inUse \in SUBSET Jobs
          /\ r \in Jobs /\ r \notin inUse
          /\ \A k \in DOMAIN permits : permits[k] # r /\ permits[k] \notin inUse
      BY InvGives, Zenon DEF Line
    <3>3. Len(permits) + Cardinality(inUse) + 1 <= Cardinality(Jobs)
      BY <3>2, Zenon DEF Counts
    <3>4. /\ IsFiniteSet(inUse) /\ Cardinality(inUse) <= MaxConcurrent
          /\ Cardinality(inUse) \in Nat /\ Cardinality(Jobs) \in Nat
      BY Zenon DEF PermitInv, Counts
    <3>5. i \in Nat /\ i + Cardinality(inUse) + 1 <= Cardinality(Jobs)
      <4>1. i \in 1..Len(permits) /\ Len(permits) \in Nat
        BY <3>1, <3>2
      <4> QED BY <3>3, <3>4, <4>1, SMTT(30)
    <3>6. InTime(i, 0, n)
      BY <2>2, <2>3, <3>5, JoinedInTime, Zenon
    <3> QED BY <2>5, <3>1, <3>6, Zenon DEF Accounted, n
  <2> QED BY <1>2, <2>4, <2>5, Zenon
<1> QED BY <1>1, <1>2, Zenon DEF Accounted

LEMMA AcquireFirst ==
    ASSUME All, Counts, IsFiniteSet(Jobs), NEW r \in Requests, Acquire(r)
    PROVE  FirstInv'
<1> USE AllGive, InvGives, ClocksGive
<1>1. /\ at[r] = "idle" /\ UNCHANGED <<outcome, tries, permits, inUse, running>> /\ r \in Jobs
      /\ \A j \in Jobs : j # r => at'[j] = at[j]
  BY Zenon DEF Acquire, kdf
<1>2. CASE slot = NoOne
  <2>1. Head(<<r>>) = r /\ <<r>> # <<>> /\ <<r>> \in Seq(Requests)
    OBVIOUS
  <2>2. Give(<<r>>) /\ slot' = r /\ at'[r] = "talking" /\ queue = <<>>
    BY <1>1, <1>2, <2>1, Zenon DEF Acquire, Give
  <2>3. \A x \in Requests : x # r => waited'[x] = waited[x] /\ behind'[x] = behind[x]
    BY <2>1, <2>2, GiveNumbers, Zenon
  <2>4. HolderInLine'
    BY <2>2, Zenon DEF HolderInLine
  <2> QED BY <1>1, <2>2, <2>3, <2>4, FirstParts, ZenonT(30)
<1>3. CASE slot # NoOne
  <2>1. /\ slot' = slot /\ held' = held /\ waited' = waited
        /\ queue' = Append(queue, r) /\ at'[r] = "waiting"
        /\ behind'[r] = Len(queue) + 1 /\ \A x \in Requests : x # r => behind'[x] = behind[x]
        /\ slot \in Requests /\ slot # r /\ at'[slot] = at[slot]
    <3>1. slot # r
      BY <1>1, Zenon DEF Holders
    <3> QED BY <1>1, <1>3, <3>1, Zenon DEF Acquire
  <2>2. HolderInLine'
    BY <1>1, <2>1, Zenon DEF HolderInLine, FirstInv
  <2>3. /\ queue' # <<>> /\ Len(queue) + 1 > 0
        /\ queue # <<>> => queue'[1] = queue[1]
        /\ Len(queue) + 1 = 1 => queue'[1] = r
    <3>1. queue \in Seq(Requests)
      BY Zenon
    <3>2. /\ Append(queue, r) # <<>> /\ Len(queue) + 1 > 0
          /\ queue # <<>> => Append(queue, r)[1] = queue[1]
          /\ Len(queue) + 1 = 1 => Append(queue, r)[1] = r
      BY ONLY <3>1, AppendFirst, r \in Requests, SMTT(30)
    <3> QED BY <2>1, <3>2, Zenon
  <2>4. ASSUME NEW x \in Requests
        PROVE  /\ at'[x] = "idle" => waited'[x] = 0
               /\ at'[x] = "waiting" => behind'[x] > 0
               /\ at'[x] = "waiting" /\ behind'[x] = 1 =>
                     queue' # <<>> /\ queue'[1] = x /\ Accounted(waited[x])'
               /\ outcome'[x] = "busy" => at'[x] = "done" /\ behind'[x] > 1
    <3>1. /\ at[x] = "idle" => waited[x] = 0
          /\ at[x] = "waiting" => behind[x] > 0
          /\ at[x] = "waiting" /\ behind[x] = 1 =>
                queue # <<>> /\ queue[1] = x /\ Accounted(waited[x])
          /\ outcome[x] = "busy" => at[x] = "done" /\ behind[x] > 1
      BY Zenon DEF FirstInv
    <3>2. CASE x # r
      <4>1. at'[x] = at[x] /\ behind'[x] = behind[x] /\ waited'[x] = waited[x]
            /\ outcome'[x] = outcome[x]
        BY <1>1, <2>1, <3>2, Zenon
      <4>2. Accounted(waited[x]) => Accounted(waited[x])'
        BY <1>1, <2>1, <4>1, Zenon DEF Accounted, InTime, Before
      <4> QED BY <2>3, <3>1, <4>1, <4>2, ZenonT(30)
    <3>3. CASE x = r
      <4>1. waited[x] = 0 /\ waited'[x] = 0 /\ outcome'[x] # "busy"
        BY <1>1, <2>1, <3>1, <3>3, ZenonT(30)
      <4>2. Accounted(0)
        BY <1>1, <2>1, JoinAccounted, Zenon
      <4>3. Accounted(waited[x])'
        BY <1>1, <2>1, <4>1, <4>2, ZenonT(30) DEF Accounted, InTime, Before
      <4> QED BY <2>1, <2>3, <3>3, <4>1, <4>3, ZenonT(30)
    <3> QED BY <3>2, <3>3, Zenon
  <2> QED BY <1>1, <2>2, <2>4, Zenon DEF FirstInv
<1> QED BY <1>2, <1>3, Zenon

(* A first in line whose wait is accounted for has time left. *)
LEMMA FirstHasTime ==
    ASSUME All, Counts, EnoughBudget, NEW x \in Requests, queue # <<>>, Accounted(waited[x])
    PROVE  waited[x] # QueueBudget
<1> USE AllGive
<1>0. /\ slot \in Requests /\ slot # NoOne /\ at[slot] \in {"talking", "permit", "deriving"}
      /\ slot \in Jobs
  BY SomeoneHolds, InvGives, Zenon
<1>1. /\ tries[slot] \in Nat /\ waited[x] \in Nat /\ held \in 0..Hold
      /\ at[slot] = "talking" => tries[slot] < MaxTries
      /\ at[slot] \in {"permit", "deriving"} => tries[slot] \in 1..MaxTries
  BY <1>0, ClocksGive, Zenon
<1>2. IsFiniteSet(Jobs) /\ MaxTries * Turn < QueueBudget /\ QueueBudget \in Nat
  BY Numbers, Times, Zenon DEF EnoughBudget, QueueBudget
<1>3. /\ Turn \in Nat /\ Turn = Hold + Ahead * DeriveTime + DeriveTime
      /\ Ahead * DeriveTime \in Nat
  BY <1>2, TurnIs, ZenonT(30)
<1>4. CASE at[slot] = "talking"
  <2> DEFINE t == tries[slot]
             p == t * Turn
             m == MaxTries * Turn
  <2>1. t + 1 <= MaxTries /\ t + 1 \in Nat /\ MaxTries \in Nat /\ t \in Nat
    BY <1>1, <1>4, Numbers, SMTT(30)
  <2>2. (t + 1) * Turn <= m /\ (t + 1) * Turn = p + Turn /\ p \in Nat /\ m \in Nat
    <3> HIDE DEF t
    <3>1. (t + 1) * Turn <= MaxTries * Turn
      <4> DEFINE s == t + 1
      <4>1. s \in Nat /\ s <= MaxTries
        BY <2>1, Zenon
      <4> HIDE DEF s
      <4>2. s * Turn <= MaxTries * Turn
        BY <1>3, <2>1, <4>1, Times, Zenon
      <4> QED BY <4>2, Zenon DEF s
    <3> QED BY <1>3, <2>1, <3>1, Times, Zenon
  <2>3. waited[x] <= p + held
    BY <1>4, Zenon DEF Accounted
  <2>4. m < QueueBudget
    BY <1>2, Zenon
  <2>5. p + Turn <= m
    BY <2>2, Zenon
  <2> DEFINE a == Ahead * DeriveTime
  <2>6. a \in Nat /\ Turn = Hold + a + DeriveTime
    BY <1>3, Zenon
  <2> HIDE DEF p, m, t, a
  <2> QED BY <1>1, <1>2, <1>3, <2>2, <2>3, <2>4, <2>5, <2>6, Numbers, SMTT(60)
<1>5. CASE at[slot] \in {"permit", "deriving"}
  <2> DEFINE t == tries[slot]
             n == Before(t)
             m == MaxTries * Turn
  <2>1. t \in 1..MaxTries
    BY <1>1, <1>5, Zenon
  <2>2. n \in Nat /\ t * Turn \in Nat /\ n + DeriveTime = t * Turn /\ t * Turn <= m
    BY <1>2, <2>1, BeforeIs, Zenon
  <2>3. m < QueueBudget /\ m \in Nat
    BY <1>2, <1>3, Numbers, Times, ZenonT(30)
  <2>4. waited[x] <= n + DeriveTime
    <3>1. CASE at[slot] = "permit"
      <4>1. PICK i \in DOMAIN permits : InTime(i, waited[x], n)
        BY <3>1, Zenon DEF Accounted
      <4>2. i \in Nat \ {0}
        <5>1. permits \in Seq(Jobs)
          BY InvGives, Zenon
        <5> QED BY <4>1, <5>1, SMTT(30)
      <4>3. waited[x] <= n
        <5> HIDE DEF n
        <5> QED BY <1>1, <2>2, <4>1, <4>2, InTimeWithin, ZenonT(30)
      <4> HIDE DEF n
      <4> QED BY <1>1, <2>2, <4>3, Numbers, SMTT(30)
    <3>2. CASE at[slot] = "deriving"
      <4>1. running[slot] \in 0..DeriveTime
        BY <1>0, <3>2, ClocksGive, Zenon
      <4>2. waited[x] <= n + running[slot]
        BY <3>2, Zenon DEF Accounted
      <4> HIDE DEF n
      <4> QED BY <1>1, <2>2, <4>1, <4>2, Numbers, SMTT(30)
    <3> QED BY <1>5, <3>1, <3>2, ZenonT(30)
  <2> HIDE DEF n, m, t
  <2> QED BY <1>1, <1>2, <2>2, <2>3, <2>4, SMTT(30)
<1> QED BY <1>0, <1>4, <1>5, ZenonT(30)

LEMMA BusyFirst ==
    ASSUME All, Counts, EnoughBudget, NEW r \in Requests, Busy(r)
    PROVE  FirstInv'
<1> USE AllGive, InvGives, ClocksGive
<1>1. /\ at[r] = "waiting" /\ waited[r] = QueueBudget /\ queue' = Without(queue, r)
      /\ UNCHANGED <<inUse, running, tries, slot, held, behind, permits>>
      /\ waited' = [waited EXCEPT ![r] = 0] /\ r \in Jobs
      /\ \A j \in Jobs : j # r => at'[j] = at[j]
      /\ at'[r] = "done" /\ outcome' = [outcome EXCEPT ![r] = "busy"]
  BY Zenon DEF Busy, kdf
<1>2. behind[r] > 1
  <2>1. behind[r] > 0 /\ behind[r] \in Nat
    BY <1>1, Zenon DEF FirstInv
  <2>2. behind[r] # 1
    BY <1>1, FirstHasTime, Zenon DEF FirstInv
  <2> QED BY ONLY <2>1, <2>2, SMTT(30)
<1>3. slot # r
  BY <1>1, Zenon DEF Holders
<1>4. HolderInLine'
  BY <1>1, <1>3, Zenon DEF HolderInLine, FirstInv
<1>5. DOMAIN outcome = Requests /\ DOMAIN outcome' = Requests
  BY <1>1, Zenon DEF FirstInv
<1>6. ASSUME NEW x \in Requests
      PROVE  /\ at'[x] = "idle" => waited'[x] = 0
             /\ at'[x] = "waiting" => behind'[x] > 0
             /\ at'[x] = "waiting" /\ behind'[x] = 1 =>
                   queue' # <<>> /\ queue'[1] = x /\ Accounted(waited[x])'
             /\ outcome'[x] = "busy" => at'[x] = "done" /\ behind'[x] > 1
  <2>1. CASE x = r
    BY <1>1, <1>2, <2>1, Zenon
  <2>2. CASE x # r
    <3>1. /\ at[x] = "idle" => waited[x] = 0
          /\ at[x] = "waiting" => behind[x] > 0
          /\ at[x] = "waiting" /\ behind[x] = 1 =>
                queue # <<>> /\ queue[1] = x /\ Accounted(waited[x])
          /\ outcome[x] = "busy" => at[x] = "done" /\ behind[x] > 1
      BY Zenon DEF FirstInv
    <3>2. at'[x] = at[x] /\ behind'[x] = behind[x] /\ waited'[x] = waited[x]
          /\ outcome'[x] = outcome[x]
      BY <1>1, <1>5, <2>2, Zenon
    <3>3. queue # <<>> /\ queue[1] = x => queue' # <<>> /\ queue'[1] = x
      <4>1. queue # <<>> /\ queue[1] # r => Without(queue, r) # <<>> /\ Without(queue, r)[1] = queue[1]
        BY WithoutFirst, Zenon
      <4> QED BY <1>1, <2>2, <4>1, Zenon
    <3>4. queue # <<>> /\ Accounted(waited[x]) => Accounted(waited[x])'
      <4>1. queue # <<>> => slot \in Jobs
        BY SomeoneHolds, Zenon
      <4>2. queue # <<>> => at'[slot'] = at[slot]
        BY <1>1, <1>3, <4>1, Zenon
      <4> QED BY <1>1, <3>2, <4>2, ZenonT(30) DEF Accounted, InTime, Before
    <3> QED BY <3>1, <3>2, <3>3, <3>4, ZenonT(30)
  <2> QED BY <2>1, <2>2, Zenon
<1> QED BY <1>4, <1>5, <1>6, ZenonT(30) DEF FirstInv

LEMMA FinishFirst ==
    ASSUME All, Counts, IsFiniteSet(Jobs), NEW r \in Requests, Finish(r), Inv', Clocks'
    PROVE  FirstInv'
<1> USE AllGive
<1>1. slot = r /\ at[r] = "talking" /\ r \in Jobs /\ r # NoOne /\ UNCHANGED <<inUse, running>>
  BY InvGives, Zenon DEF Finish
<1>2. CASE Leave(r, "permit") \/ Leave(r, "done")
  BY <1>1, <1>2, LeaveFirst, Zenon
<1>3. CASE /\ tries' = [tries EXCEPT ![r] = @ + 1] /\ at' = [at EXCEPT ![r] = "permit"]
           /\ permits' = Append(permits, r)
           /\ UNCHANGED <<slot, waited, behind, outcome, queue>>
  <2>1. /\ tries'[r] = tries[r] + 1 /\ tries[r] \in Nat /\ tries[r] < MaxTries
        /\ at'[r] = "permit" /\ \A j \in Jobs : j # r => at'[j] = at[j]
        /\ Requests \subseteq Jobs
    BY <1>1, <1>3, InvGives, ClocksGive, ZenonT(30)
  <2>0. PICK i : i = Len(permits) + 1
    BY Zenon
  <2> DEFINE t == tries[r] + 1
             n == Before(t)
  <2>2. /\ permits \in Seq(Jobs) /\ permits' \in Seq(Jobs) /\ Len(permits') = i /\ i \in Nat
        /\ i \in DOMAIN permits' /\ permits'[i] = r
    <3>1. permits \in Seq(Jobs)
      BY InvGives, Zenon
    <3>2. /\ Append(permits, r) \in Seq(Jobs) /\ Len(Append(permits, r)) = i
          /\ Append(permits, r)[i] = r /\ i \in DOMAIN Append(permits, r) /\ i \in Nat
      BY ONLY <1>1, <2>0, <3>1, SMTT(30)
    <3> QED BY <1>3, <3>1, <3>2, Zenon
  <2>3. HolderInLine'
    BY <1>1, <1>3, <2>2, Zenon DEF HolderInLine
  <2>4. ASSUME NEW x \in Requests, at[x] = "waiting", Accounted(waited[x])
        PROVE  Accounted(waited[x])'
    <3> DEFINE w == waited[x]
    <3>1. w \in Nat /\ held \in 0..Hold
      BY ClocksGive, Zenon
    <3>2. w <= tries[r] * Turn + held
      BY <1>1, <2>4, Zenon DEF Accounted
    <3>3. t \in 1..MaxTries /\ t - 1 = tries[r]
      BY <2>1, Numbers, SMTT(30)
    <3>4. /\ n \in Nat /\ tries[r] * Turn \in Nat
          /\ n = tries[r] * Turn + Hold + Ahead * DeriveTime /\ Ahead * DeriveTime \in Nat
      <4> HIDE DEF t
      <4>1. /\ n \in Nat /\ (t - 1) * Turn \in Nat
            /\ n = (t - 1) * Turn + Hold + Ahead * DeriveTime /\ Ahead * DeriveTime \in Nat
        BY <3>3, BeforeIs, TurnIs, ZenonT(30)
      <4> QED BY <3>3, <4>1, Zenon
    <3> DEFINE p == tries[r] * Turn
               a == Ahead * DeriveTime
    <3>5. n \in Nat /\ p \in Nat /\ a \in Nat /\ n = p + Hold + a /\ w <= p + held
      BY <3>2, <3>4, Zenon
    <3> HIDE DEF t, n, p, a, w
    <3>6. w + a <= n
      BY ONLY <3>1, <3>5, Numbers, SMTT(30)
    <3>7. i + Cardinality(inUse) + 1 <= Cardinality(Jobs)
      <4> DEFINE q == permits'
      <4>1. Line(q, at', "permit") /\ q \in Seq(Jobs) /\ Len(q) = i
        BY <2>2, Zenon DEF Inv, SlotInv
      <4>2. at'[x] = "waiting" /\ x \in Jobs /\ inUse \in SUBSET Jobs
        BY <1>1, <2>1, <2>4, ClocksGive, ZenonT(30)
      <4>3. \A j \in inUse : at'[j] \in {"deriving", "done"}
        BY <1>1, Zenon DEF Clocks, ClockInv
      <4>4. IsInjective(q) /\ \A k \in DOMAIN q : q[k] # x /\ q[k] \notin inUse
        BY <4>1, <4>2, <4>3, ZenonT(30) DEF Line
      <4>5. x \notin inUse
        BY <4>2, <4>3, Zenon
      <4> HIDE DEF q
      <4>6. Len(q) + Cardinality(inUse) + 1 <= Cardinality(Jobs)
        BY <4>1, <4>2, <4>4, <4>5, ZenonT(30) DEF Counts
      <4> QED BY <4>1, <4>6, Zenon
    <3>8. InTime(i, w, n)
      BY <2>2, <3>1, <3>5, <3>6, <3>7, JoinedInTime, ZenonT(30) DEF a
    <3>9. InTime(i, waited[x], Before(tries[slot]))'
      <4>1. Before(tries[slot])' = n /\ waited'[x] = w
        BY <1>1, <1>3, <2>1, ZenonT(30) DEF n, t, w, Before
      <4> QED BY <1>1, <3>8, <4>1, ZenonT(30) DEF InTime
    <3> QED BY <1>1, <1>3, <2>1, <2>2, <3>9, ZenonT(30) DEF Accounted
  <2>5. /\ \A x \in Requests : at'[x] = "idle" => at[x] = "idle" /\ waited'[x] = waited[x]
        /\ \A x \in Requests : at'[x] = "waiting" => at[x] = "waiting" /\ behind'[x] = behind[x]
        /\ \A x \in Requests : at[x] = "done" => at'[x] = "done" /\ behind'[x] = behind[x]
    BY <1>1, <1>3, <2>1, Zenon
  <2> QED BY <1>3, <2>3, <2>4, <2>5, FirstParts, ZenonT(30)
<1> QED BY <1>2, <1>3, ZenonT(30) DEF Finish

LEMMA AbortFirst ==
    ASSUME All, Counts, IsFiniteSet(Jobs), NEW r \in Requests, Abort(r), Inv'
    PROVE  FirstInv'
<1> USE AllGive
<1>1. /\ UNCHANGED <<inUse, running>> /\ r \in Jobs /\ permits' = Without(permits, r)
      /\ at[r] # "done" /\ Requests \subseteq Jobs
  BY InvGives, Zenon DEF Abort, AbandonWork
<1>2. CASE slot = r
  BY <1>1, <1>2, LeaveFirst, Zenon DEF Abort
<1>3. CASE slot # r
  <2>1. /\ UNCHANGED <<tries, slot, held>> /\ queue' = Without(queue, r)
        /\ \A j \in Jobs : j # r => at'[j] = at[j]
        /\ at'[r] = "done" /\ outcome' = [outcome EXCEPT ![r] = "over"]
        /\ \A x \in Requests : x # r => waited'[x] = waited[x] /\ behind'[x] = behind[x]
    BY <1>1, <1>3, InvGives, ClocksGive, ZenonT(30) DEF Abort
  <2>2. DOMAIN outcome = Requests /\ DOMAIN outcome' = DOMAIN outcome
    BY <2>1, Zenon DEF FirstInv
  <2>3. \A x \in Requests : outcome'[x] = "busy" => outcome[x] = "busy"
    BY <2>1, <2>2, Zenon
  <2>4. permits \in Seq(Jobs) /\ permits' \in Seq(Jobs) /\ queue \in Seq(Requests)
    <3>1. permits' \in Seq(Jobs)
      BY Zenon DEF Inv, TypeOK
    <3> QED BY <3>1, InvGives, Zenon
  <2>5. \A i \in DOMAIN permits : permits[i] = slot =>
           \E k \in DOMAIN permits' : k <= i /\ permits'[k] = slot
    <3>1. ASSUME NEW i \in DOMAIN permits, permits[i] = slot
          PROVE  \E k \in DOMAIN Without(permits, r) : k <= i /\ Without(permits, r)[k] = permits[i]
      BY <1>3, <2>4, <3>1, WithoutMoves, ZenonT(30)
    <3> QED BY <1>1, <3>1, Zenon
  <2>6. slot # NoOne => slot \in Requests /\ at'[slot] = at[slot]
    BY <1>1, <1>3, <2>1, InvGives, ZenonT(30)
  <2>7. HolderInLine'
    BY <2>1, <2>5, <2>6, ZenonT(30) DEF HolderInLine, FirstInv
  <2>8. ASSUME NEW x \in Requests, x # r, queue # <<>>, queue[1] = x, Accounted(waited[x])
        PROVE  queue' # <<>> /\ queue'[1] = x /\ Accounted(waited[x])'
    <3>1. queue' # <<>> /\ queue'[1] = x
      <4>1. Without(queue, r) # <<>> /\ Without(queue, r)[1] = queue[1]
        BY <2>4, <2>8, WithoutFirst, Zenon
      <4> QED BY <2>1, <2>8, <4>1, Zenon
    <3>2. slot \in Requests /\ at'[slot] = at[slot]
      BY <2>6, <2>8, SomeoneHolds, InvGives, ZenonT(30)
    <3>3. waited'[x] = waited[x]
      BY <2>1, <2>8, Zenon
    <3>4. Accounted(waited[x])'
      BY <1>1, <2>1, <2>4, <2>5, <2>8, <3>2, <3>3, AccountedStays, ZenonT(30)
    <3> QED BY <3>1, <3>4, Zenon
  <2>9. /\ \A x \in Requests : at'[x] = "idle" => at[x] = "idle" /\ waited'[x] = waited[x]
        /\ \A x \in Requests : at'[x] = "waiting" => at[x] = "waiting" /\ behind'[x] = behind[x]
        /\ \A x \in Requests : at[x] = "done" => at'[x] = "done" /\ behind'[x] = behind[x]
    BY <1>1, <2>1, Zenon
  <2>10. \A x \in Requests :
            /\ at'[x] = "waiting" /\ at[x] = "waiting" /\ queue # <<>> /\ queue[1] = x
            /\ behind[x] = 1 /\ Accounted(waited[x])
            => queue' # <<>> /\ queue'[1] = x /\ Accounted(waited[x])'
    BY <2>1, <2>8, Zenon
  <2> QED BY <2>2, <2>3, <2>7, <2>9, <2>10, FirstParts, ZenonT(30)
<1> QED BY <1>2, <1>3, Zenon

(* The first of the permits' line starts: the others go forward. *)
LEMMA StartInTime ==
    ASSUME Counts, PermitInv, Clocks, NEW CONSTANT i \in Nat \ {0}, NEW CONSTANT w \in Nat,
           NEW CONSTANT limit \in Nat, NEW CONSTANT h, InTime(i + 1, w, limit),
           h \notin inUse, inUse' = inUse \cup {h}, Cardinality(inUse) < MaxConcurrent,
           running'[h] = 0
    PROVE  InTime(i, w, limit)'
<1> DEFINE c == Cardinality(inUse)
           d == DeriveTime
           m == MaxConcurrent * d
           p == (i + 1 + c) * d
<1>0. c \in Nat /\ d \in Nat /\ MaxConcurrent \in Nat /\ Cardinality(inUse') = c + 1
  BY Numbers, Zenon DEF PermitInv, Counts
<1>1. w <= limit /\ w + p <= limit + m
  BY Zenon DEF InTime
<1> HIDE DEF c
<1>2. CASE c + 1 < MaxConcurrent
  <2>1. i + (c + 1) = i + 1 + c
    BY <1>0, SMTT(30)
  <2>2. w + (i + Cardinality(inUse')) * d <= limit + m
    BY <1>0, <1>1, <2>1, Zenon
  <2> QED BY <1>0, <1>1, <1>2, <2>2, ZenonT(30) DEF InTime
<1>3. CASE ~(c + 1 < MaxConcurrent)
  <2> DEFINE q == i * d
  <2>1. i + 1 + c = i + MaxConcurrent /\ i \in Nat
    BY <1>0, <1>3, SMTT(30) DEF c
  <2>2. p = q + m
    <3>1. (i + MaxConcurrent) * d = i * d + MaxConcurrent * d
      BY ONLY <1>0, <2>1, Times, SMTT(30)
    <3> QED BY <2>1, <3>1, Zenon
  <2>3. q \in Nat /\ m \in Nat
    BY <1>0, <2>1, Times, ZenonT(30)
  <2> HIDE DEF p, q, m
  <2>4. w + q <= limit + 0
    BY <1>1, <2>2, <2>3, SMTT(30)
  <2>5. \E j \in inUse' : w + q <= limit + running'[j]
    BY <2>4, Zenon
  <2> QED BY <1>0, <1>3, <2>5, ZenonT(30) DEF InTime, q
<1> QED BY <1>2, <1>3, Zenon

(* A derivation ends: the line is no longer held up. *)
LEMMA EndInTime ==
    ASSUME Counts, PermitInv, Clocks, NEW CONSTANT i \in Nat \ {0}, NEW CONSTANT w \in Nat,
           NEW CONSTANT limit \in Nat, NEW CONSTANT j \in inUse, InTime(i, w, limit),
           inUse' = inUse \ {j}
    PROVE  InTime(i, w, limit)'
<1> DEFINE c == Cardinality(inUse)
           d == DeriveTime
           m == MaxConcurrent * d
           p == (i + (c - 1)) * d
<1>0. /\ c \in Nat /\ d \in Nat /\ MaxConcurrent \in Nat /\ Cardinality(inUse') = c - 1
      /\ c <= MaxConcurrent /\ i \in Nat
  BY Numbers, Zenon DEF PermitInv, Counts
<1>1. c # 0
  BY Zenon DEF PermitInv, Counts
<1>2. w <= limit
  BY InTimeWithin, Zenon
<1>3. c - 1 \in Nat /\ c - 1 < MaxConcurrent /\ i + (c - 1) \in Nat /\ i + c = (i + (c - 1)) + 1
      /\ i + c \in Nat
  <2> HIDE DEF c
  <2> QED BY <1>0, <1>1, SMTT(30)
<1>4. m \in Nat /\ p \in Nat
  BY <1>0, <1>3, Times, Zenon
<1>5. w + p <= limit + m
  <2>1. CASE c < MaxConcurrent
    <3> DEFINE q == (i + c) * d
               x == i + (c - 1)
    <3>1. w + q <= limit + m
      BY <2>1, Zenon DEF InTime
    <3>2. q = p + d
      <4>1. q = (x + 1) * d /\ x \in Nat /\ p = x * d
        BY <1>3, Zenon
      <4> HIDE DEF x, p, q
      <4> QED BY <1>0, <4>1, Times, Zenon
    <3> HIDE DEF p, q, m
    <3> QED BY <1>0, <1>4, <3>1, <3>2, SMTT(30)
  <2>2. CASE ~(c < MaxConcurrent)
    <3>1. PICK k \in inUse : w + i * d <= limit + running[k]
      BY <2>2, Zenon DEF InTime
    <3>2. running[k] \in 0..DeriveTime
      BY <3>1, ClocksGive, Zenon
    <3> DEFINE s == c - 1
               q == i * d
               y == s * d
               n == running[k]
    <3>3. s \in Nat /\ MaxConcurrent = s + 1
      <4> HIDE DEF c
      <4> QED BY <1>0, <1>3, <2>2, SMTT(30)
    <3>4. p = (i + s) * d
      BY Zenon
    <3> HIDE DEF s
    <3>5. p = q + y /\ m = y + d /\ q \in Nat /\ y \in Nat
      <4>1. (i + s) * d = i * d + s * d
        BY ONLY <1>0, <3>3, Times, SMTT(30)
      <4>2. (s + 1) * d = s * d + d
        BY <1>0, <3>3, Times, Zenon
      <4>3. q \in Nat /\ y \in Nat
        BY <1>0, <3>3, Times, ZenonT(30)
      <4> QED BY <3>3, <3>4, <4>1, <4>2, <4>3, ZenonT(30)
    <3>6. w + q <= limit + n /\ n \in 0..d
      BY <3>1, <3>2, Zenon
    <3> HIDE DEF p, q, m, y, n
    <3> QED BY <1>0, <1>4, <3>5, <3>6, SMTT(30)
  <2> QED BY <2>1, <2>2, Zenon
<1> QED BY <1>0, <1>2, <1>3, <1>5, ZenonT(30) DEF InTime

LEMMA StartDeriveFirst ==
    ASSUME All, Counts, IsFiniteSet(Jobs), StartDerive
    PROVE  FirstInv'
<1> USE AllGive
<1>0. PICK h : h = Head(permits)
  BY Zenon
<1>1. /\ permits # <<>> /\ permits \in Seq(Jobs) /\ IsInjective(permits)
      /\ \A i \in DOMAIN permits : at[permits[i]] = "permit"
      /\ Cardinality(inUse) < MaxConcurrent
      /\ inUse' = inUse \cup {h} /\ at' = [at EXCEPT ![h] = "deriving"]
      /\ running' = [x \in DOMAIN running \cup {h} |-> IF x = h THEN 0 ELSE running[x]]
      /\ permits' = Tail(permits)
      /\ UNCHANGED <<slot, tries, held, waited, behind, queue, outcome>>
  BY <1>0, InvGives, Zenon DEF StartDerive, MayStart, dialog, Line
<1>2. /\ h \in Jobs /\ h = permits[1] /\ 1 \in DOMAIN permits
      /\ \A i \in DOMAIN permits : \/ i = 1
                                   \/ /\ i - 1 \in DOMAIN permits' /\ i - 1 \in Nat \ {0}
                                      /\ (i - 1) + 1 = i /\ permits'[i - 1] = permits[i]
  <2>1. /\ DOMAIN Tail(permits) = 1..(Len(permits) - 1) /\ Len(permits) \in Nat \ {0}
        /\ \A k \in 1..(Len(permits) - 1) : Tail(permits)[k] = permits[k + 1]
        /\ Head(permits) = permits[1] /\ Head(permits) \in Jobs
        /\ DOMAIN permits = 1..Len(permits)
    BY ONLY <1>1, SMTT(30)
  <2>2. ASSUME NEW i \in DOMAIN permits, i # 1
        PROVE  /\ i - 1 \in DOMAIN Tail(permits) /\ i - 1 \in Nat \ {0}
               /\ (i - 1) + 1 = i /\ Tail(permits)[i - 1] = permits[i]
    BY ONLY <2>1, <2>2, SMTT(30)
  <2>3. 1 \in DOMAIN permits
    BY ONLY <2>1, SMTT(30)
  <2> QED BY <1>0, <1>1, <2>1, <2>2, <2>3, ZenonT(30)
<1>3. /\ at[h] = "permit" /\ h \notin inUse /\ at'[h] = "deriving"
      /\ \A j \in Jobs : j # h => at'[j] = at[j]
      /\ Requests \subseteq Jobs /\ running'[h] = 0
      /\ \A j \in inUse : running'[j] = running[j]
  BY <1>1, <1>2, InvGives, ClocksGive, ZenonT(30) DEF PermitInv
<1>4. HolderInLine'
  <2> SUFFICES ASSUME slot # NoOne, at'[slot] = "permit"
               PROVE  \E k \in DOMAIN permits' : permits'[k] = slot
    BY <1>1, Zenon DEF HolderInLine
  <2>1. slot \in Jobs /\ slot # h /\ at[slot] = "permit"
    <3>1. slot \in Jobs
      BY <1>3, InvGives, Zenon
    <3> QED BY <1>3, <3>1, Zenon
  <2>2. PICK i \in DOMAIN permits : permits[i] = slot
    BY <2>1, Zenon DEF FirstInv, HolderInLine
  <2> QED BY <1>2, <2>1, <2>2, Zenon
<1>5. ASSUME NEW x \in Requests, queue # <<>>, Accounted(waited[x])
      PROVE  Accounted(waited[x])'
  <2>0. PICK w : w = waited[x]
    BY Zenon
  <2>00. PICK n : n = Before(tries[slot])
    BY Zenon
  <2>1. /\ slot \in Requests /\ slot \in Jobs /\ slot # NoOne /\ w \in Nat /\ w = waited'[x]
        /\ Before(tries[slot])' = n
    BY <1>1, <1>5, <2>0, <2>00, SomeoneHolds, InvGives, ClocksGive, ZenonT(30) DEF Before
  <2>2. CASE at[slot] = "talking"
    BY <1>1, <1>3, <1>5, <2>1, <2>2, ZenonT(30) DEF Accounted
  <2>3. CASE at[slot] = "deriving"
    <3>1. slot \in inUse /\ at'[slot] = "deriving" /\ running'[slot] = running[slot]
      BY <1>3, <2>1, <2>3, ClocksGive, ZenonT(30)
    <3>2. w <= n + running[slot]
      BY <1>5, <2>0, <2>00, <2>3, ZenonT(30) DEF Accounted
    <3> QED BY <1>1, <2>1, <3>1, <3>2, ZenonT(30) DEF Accounted
  <2>4. CASE at[slot] = "permit"
    <3>1. PICK i \in DOMAIN permits : permits[i] = slot /\ InTime(i, w, n)
      BY <1>5, <2>0, <2>00, <2>4, ZenonT(30) DEF Accounted
    <3>2. tries[slot] \in 1..MaxTries
      BY <2>1, <2>4, ClocksGive, ZenonT(30)
    <3>3. n \in Nat
      BY <2>00, <3>2, BeforeIs, ZenonT(30)
    <3>4. CASE i = 1
      <4>1. slot = h /\ at'[slot] = "deriving" /\ running'[slot] = 0
        BY <1>2, <1>3, <3>1, <3>4, ZenonT(30)
      <4>2. w <= n
        <5>1. 1 \in Nat \ {0}
          OBVIOUS
        <5> QED BY <2>1, <3>1, <3>3, <3>4, <5>1, InTimeWithin, ZenonT(30)
      <4>3. w <= n + 0
        BY ONLY <3>3, <4>2, SMTT(30)
      <4> QED BY <1>1, <2>1, <4>1, <4>3, ZenonT(30) DEF Accounted
    <3>5. CASE i # 1
      <4>1. slot # h
        BY <1>1, <1>2, <3>1, <3>5, ZenonT(30) DEF IsInjective
      <4>2. PICK k \in Nat \ {0} : k \in DOMAIN permits' /\ k + 1 = i /\ permits'[k] = slot
        BY <1>2, <3>1, <3>5, Zenon
      <4>3. InTime(k, w, n)'
        BY <1>1, <1>3, <2>1, <3>1, <3>3, <4>2, StartInTime, ZenonT(30)
      <4>4. InTime(k, waited[x], Before(tries[slot]))'
        BY <2>1, <4>3, Zenon DEF InTime
      <4>5. at'[slot'] = "permit"
        BY <1>1, <1>3, <2>1, <2>4, <4>1, ZenonT(30)
      <4>6. slot' = slot
        BY <1>1, Zenon
      <4> QED BY <4>2, <4>4, <4>5, <4>6, ZenonT(30) DEF Accounted
    <3> QED BY <3>4, <3>5, Zenon
  <2> QED BY <1>5, <2>2, <2>3, <2>4, SomeoneHolds, ZenonT(30)
<1>6. /\ \A x \in Requests : at'[x] = "idle" => at[x] = "idle" /\ waited'[x] = waited[x]
      /\ \A x \in Requests : at'[x] = "waiting" => at[x] = "waiting" /\ behind'[x] = behind[x]
      /\ \A x \in Requests : at[x] = "done" => at'[x] = "done" /\ behind'[x] = behind[x]
  BY <1>1, <1>3, Zenon
<1> QED BY <1>1, <1>4, <1>5, <1>6, FirstParts, ZenonT(30)

LEMMA EndDeriveFirst ==
    ASSUME All, Counts, IsFiniteSet(Jobs), NEW j \in Jobs, EndDerive(j)
    PROVE  FirstInv'
<1> USE AllGive
<1>1. /\ j \in inUse /\ inUse' = inUse \ {j} /\ permits' = permits
      /\ \A x \in inUse : x # j => running'[x] = running[x]
      /\ Requests \subseteq Jobs /\ slot \in Requests \cup {NoOne} /\ NoOne \notin Requests
  BY InvGives, ClocksGive, Zenon DEF EndDerive, PermitInv
(* The holder's account, when it is not the holder's derivation that ends. *)
<1>2. ASSUME UNCHANGED dialog, slot # NoOne => at'[slot] = at[slot],
             slot # NoOne /\ at[slot] = "deriving" => slot # j,
             NEW x \in Requests, queue # <<>>, Accounted(waited[x])
      PROVE  Accounted(waited[x])'
  <2>0. PICK w : w = waited[x]
    BY Zenon
  <2>00. PICK n : n = Before(tries[slot])
    BY Zenon
  <2>1. /\ slot \in Requests /\ slot \in Jobs /\ slot # NoOne /\ w \in Nat /\ w = waited'[x]
        /\ UNCHANGED <<slot, tries, held>> /\ at'[slot'] = at[slot]
    BY <1>1, <1>2, <2>0, SomeoneHolds, ClocksGive, ZenonT(30) DEF dialog
  <2>2. Before(tries[slot])' = n
    BY <2>00, <2>1, Zenon DEF Before
  <2>3. CASE at[slot] = "talking"
    BY <1>2, <2>0, <2>1, <2>3, ZenonT(30) DEF Accounted
  <2>4. CASE at[slot] = "deriving"
    <3>1. running'[slot] = running[slot]
      BY <1>1, <1>2, <2>1, <2>4, ClocksGive, ZenonT(30)
    <3>2. w <= n + running[slot]
      BY <1>2, <2>0, <2>00, <2>4, ZenonT(30) DEF Accounted
    <3> QED BY <2>1, <2>2, <2>4, <3>1, <3>2, ZenonT(30) DEF Accounted
  <2>5. CASE at[slot] = "permit"
    <3>1. PICK i \in DOMAIN permits : permits[i] = slot /\ InTime(i, w, n)
      BY <1>2, <2>0, <2>00, <2>5, ZenonT(30) DEF Accounted
    <3>2. tries[slot] \in 1..MaxTries
      BY <2>1, <2>5, ClocksGive, ZenonT(30)
    <3>3. n \in Nat
      BY <2>00, <3>2, BeforeIs, ZenonT(30)
    <3>4. i \in Nat \ {0}
      <4>1. permits \in Seq(Jobs)
        BY InvGives, Zenon
      <4> QED BY ONLY <3>1, <4>1, SMTT(30)
    <3>5. InTime(i, w, n)'
      BY <1>1, <2>1, <3>1, <3>3, <3>4, EndInTime, ZenonT(30)
    <3>6. InTime(i, waited[x], Before(tries[slot]))'
      BY <2>1, <2>2, <3>5, ZenonT(30) DEF InTime
    <3> QED BY <1>1, <2>1, <2>5, <3>1, <3>6, ZenonT(30) DEF Accounted
  <2> QED BY <1>2, <2>3, <2>4, <2>5, SomeoneHolds, ZenonT(30)
<1>3. ASSUME UNCHANGED dialog, slot # NoOne => at'[slot] = at[slot],
             slot # NoOne /\ at[slot] = "deriving" => slot # j,
             \A x \in Jobs : x # j => at'[x] = at[x],
             at'[j] = at[j] \/ (at[j] = "deriving" /\ at'[j] = "done"),
             DOMAIN outcome' = DOMAIN outcome,
             \A x \in Requests : outcome'[x] = "busy" => outcome[x] = "busy"
      PROVE  FirstInv'
  <2>1. HolderInLine'
    BY <1>1, <1>3, Zenon DEF HolderInLine, FirstInv, dialog
  <2>2. UNCHANGED <<queue, waited, behind>>
    BY <1>3, Zenon DEF dialog
  <2>3. /\ \A x \in Requests : at'[x] = "idle" => at[x] = "idle" /\ waited'[x] = waited[x]
        /\ \A x \in Requests : at'[x] = "waiting" => at[x] = "waiting" /\ behind'[x] = behind[x]
        /\ \A x \in Requests : at[x] = "done" => at'[x] = "done" /\ behind'[x] = behind[x]
    BY <1>1, <1>3, <2>2, ZenonT(30)
  <2>4. \A x \in Requests :
           /\ at'[x] = "waiting" /\ at[x] = "waiting" /\ queue # <<>> /\ queue[1] = x
           /\ behind[x] = 1 /\ Accounted(waited[x])
           => queue' # <<>> /\ queue'[1] = x /\ Accounted(waited[x])'
    BY <1>2, <1>3, <2>2, ZenonT(30)
  <2> QED BY <1>3, <2>1, <2>3, <2>4, FirstParts, ZenonT(30)
<1>4. CASE at[j] # "deriving" /\ UNCHANGED <<at, outcome, dialog>>
  BY <1>3, <1>4, Zenon
<1>5. CASE /\ at[j] = "deriving"
           /\ j \in Background \/ (j \in Requests /\ kind[j] = "create")
           /\ at' = [at EXCEPT ![j] = "done"] /\ UNCHANGED dialog
           /\ outcome' = outcome \/ outcome' = [outcome EXCEPT ![j] = "over"]
  <2>1. slot # NoOne => slot # j
    <3>1. "create" # "unlock" /\ "deriving" # "talking"
      OBVIOUS
    <3> QED BY <1>5, <3>1, InvGives, ZenonT(30) DEF Holders
  <2>2. at'[j] = "done" /\ \A x \in Jobs : x # j => at'[x] = at[x]
    BY <1>5, InvGives, Zenon
  <2>3. DOMAIN outcome = Requests
    BY Zenon DEF FirstInv
  <2>4. /\ DOMAIN outcome' = DOMAIN outcome
        /\ \A x \in Requests : outcome'[x] = "busy" => outcome[x] = "busy"
    BY <1>5, <2>3, Zenon
  <2>5. slot # NoOne => at'[slot] = at[slot]
    BY <1>1, <2>1, <2>2, ZenonT(30)
  <2> QED BY <1>3, <1>5, <2>1, <2>2, <2>4, <2>5, ZenonT(30)
<1>6. CASE at[j] = "deriving" /\ j \in Requests /\ kind[j] = "unlock" /\ Leave(j, "done")
  <2>1. slot = j
    BY <1>6, InvGives, Zenon DEF Holders
  <2> QED BY <1>6, <2>1, LeaveFirst, ZenonT(30)
<1>7. CASE /\ at[j] = "deriving" /\ j \in Requests /\ kind[j] = "unlock"
           /\ AskAgain(j) /\ UNCHANGED <<tries, outcome>>
  <2>1. slot = j /\ slot # NoOne
    BY <1>1, <1>7, InvGives, ZenonT(30) DEF Holders
  <2>2. /\ held' = 0 /\ UNCHANGED <<slot, waited, behind, queue>>
        /\ at'[j] = "talking" /\ \A x \in Jobs : x # j => at'[x] = at[x]
    BY <1>7, InvGives, Zenon DEF AskAgain
  <2>3. HolderInLine'
    BY <2>1, <2>2, Zenon DEF HolderInLine
  <2>4. ASSUME NEW x \in Requests, Accounted(waited[x]) PROVE Accounted(waited[x])'
    <3>1. waited[x] \in Nat /\ running[j] \in 0..DeriveTime /\ tries[j] \in 1..MaxTries
      BY <1>1, <1>7, <2>1, ClocksGive, ZenonT(30)
    <3>2. waited[x] <= Before(tries[j]) + running[j]
      BY <1>7, <2>1, <2>4, ZenonT(30) DEF Accounted
    <3> DEFINE n == Before(tries[j])
               p == tries[j] * Turn
    <3>3. n \in Nat /\ p \in Nat /\ n + DeriveTime = p
      BY <3>1, BeforeIs, Zenon
    <3> HIDE DEF n, p
    <3>4. waited[x] <= p + 0
      <4>1. waited[x] <= n + running[j]
        BY <3>2, Zenon DEF n
      <4> QED BY ONLY <3>1, <3>3, <4>1, Numbers, SMTT(30)
    <3> QED BY <1>7, <2>1, <2>2, <3>4, ZenonT(30) DEF Accounted, p
  <2>5. /\ \A x \in Requests : at'[x] = "idle" => at[x] = "idle" /\ waited'[x] = waited[x]
        /\ \A x \in Requests : at'[x] = "waiting" => at[x] = "waiting" /\ behind'[x] = behind[x]
        /\ \A x \in Requests : at[x] = "done" => at'[x] = "done" /\ behind'[x] = behind[x]
    BY <1>1, <1>7, <2>2, ZenonT(30)
  <2> QED BY <1>7, <2>2, <2>3, <2>4, <2>5, FirstParts, ZenonT(30)
<1> QED BY <1>4, <1>5, <1>6, <1>7, ZenonT(30) DEF EndDerive

(* A tick passes only while every permit is taken or no one wants one, so   *)
(* it takes a tick off what is ahead of the holder.                         *)
LEMMA TickFirst ==
    ASSUME All, Counts, IsFiniteSet(Jobs), Tick
    PROVE  FirstInv'
<1> USE AllGive
<1>1. /\ ~MayStart
      /\ waited' = [r \in Requests |-> IF at[r] = "waiting" THEN waited[r] + 1 ELSE waited[r]]
      /\ held' = IF slot # NoOne /\ at[slot] = "talking" THEN held + 1 ELSE held
      /\ running' = [j \in DOMAIN running |-> running[j] + 1]
      /\ UNCHANGED <<at, outcome, queue, slot, tries, behind, permits, inUse>>
  BY Zenon DEF Tick
<1>2. \A x \in Requests : at[x] = "idle" => waited'[x] = waited[x]
  BY <1>1, Zenon
<1>3. HolderInLine'
  BY <1>1, Zenon DEF HolderInLine, FirstInv
<1>4. ASSUME NEW x \in Requests, at[x] = "waiting", queue # <<>>, Accounted(waited[x])
      PROVE  Accounted(waited[x])'
  <2>0. PICK w : w = waited[x]
    BY Zenon
  <2>00. PICK n : n = Before(tries[slot])
    BY Zenon
  <2>1. /\ slot \in Requests /\ slot \in Jobs /\ slot # NoOne /\ w \in Nat /\ w + 1 = waited'[x]
        /\ held \in 0..Hold /\ tries[slot] \in Nat
    BY <1>1, <1>4, <2>0, SomeoneHolds, InvGives, ClocksGive, ZenonT(30)
  <2>2. Before(tries[slot])' = n
    BY <1>1, <2>00, Zenon DEF Before
  <2>3. CASE at[slot] = "talking"
    <3> DEFINE p == tries[slot] * Turn
    <3>1. w <= p + held
      BY <1>4, <2>0, <2>3, ZenonT(30) DEF Accounted
    <3>2. p \in Nat
      BY <2>1, TurnIs, Times, ZenonT(30)
    <3> HIDE DEF p
    <3>3. w + 1 <= p + (held + 1)
      BY ONLY <2>1, <3>1, <3>2, Numbers, SMTT(30)
    <3> QED BY <1>1, <2>1, <2>3, <3>3, ZenonT(30) DEF Accounted, p
  <2>4. CASE at[slot] \in {"permit", "deriving"}
    <3>1. tries[slot] \in 1..MaxTries
      BY <2>1, <2>4, ClocksGive, ZenonT(30)
    <3>2. n \in Nat
      BY <2>00, <3>1, BeforeIs, ZenonT(30)
    <3>3. CASE at[slot] = "deriving"
      <4>1. slot \in inUse /\ running[slot] \in 0..DeriveTime /\ running'[slot] = running[slot] + 1
        BY <1>1, <2>1, <3>3, ClocksGive, ZenonT(30) DEF PermitInv
      <4>2. w <= n + running[slot]
        BY <1>4, <2>0, <2>00, <3>3, ZenonT(30) DEF Accounted
      <4>3. w + 1 <= n + (running[slot] + 1)
        BY ONLY <2>1, <3>2, <4>1, <4>2, Numbers, SMTT(30)
      <4> QED BY <1>1, <2>1, <2>2, <3>3, <4>1, <4>3, ZenonT(30) DEF Accounted
    <3>4. CASE at[slot] = "permit"
      <4>1. PICK i \in DOMAIN permits : permits[i] = slot /\ InTime(i, w, n)
        BY <1>4, <2>0, <2>00, <3>4, ZenonT(30) DEF Accounted
      <4>2. i \in Nat /\ permits # <<>>
        <5>1. permits \in Seq(Jobs)
          BY InvGives, Zenon
        <5> QED BY ONLY <4>1, <5>1, SMTT(30)
      <4>3. ~(Cardinality(inUse) < MaxConcurrent)
        BY <1>1, <4>2, Zenon DEF MayStart
      <4>4. PICK j \in inUse : w + i * DeriveTime <= n + running[j]
        BY <4>1, <4>3, Zenon DEF InTime
      <4>5. running[j] \in 0..DeriveTime /\ running'[j] = running[j] + 1
        BY <1>1, <4>4, ClocksGive, Zenon DEF PermitInv
      <4> DEFINE p == i * DeriveTime
      <4>6. p \in Nat /\ w + p <= n + running[j]
        BY <4>2, <4>4, Numbers, Times, ZenonT(30)
      <4> HIDE DEF p
      <4>7. (w + 1) + p <= n + (running[j] + 1)
        BY ONLY <2>1, <3>2, <4>5, <4>6, Numbers, SMTT(30)
      <4>8. InTime(i, waited[x], Before(tries[slot]))'
        BY <1>1, <2>1, <2>2, <4>3, <4>4, <4>5, <4>7, ZenonT(30) DEF InTime, p
      <4> QED BY <1>1, <3>4, <4>1, <4>8, ZenonT(30) DEF Accounted
    <3> QED BY <2>4, <3>3, <3>4, Zenon
  <2> QED BY <1>4, <2>3, <2>4, SomeoneHolds, ZenonT(30)
<1> QED BY <1>1, <1>2, <1>3, <1>4, FirstParts, ZenonT(30)

(* Steps that neither move the holder nor the first in line. *)
LEMMA QuietFirst ==
    ASSUME All, Counts, IsFiniteSet(Jobs), permits' \in Seq(Jobs),
           UNCHANGED <<outcome, queue, slot, tries, held, waited, behind, inUse, running>>,
           \A x \in Requests : at'[x] = at[x],
           \A i \in DOMAIN permits :
              \E k \in DOMAIN permits' : k <= i /\ permits'[k] = permits[i]
    PROVE  FirstInv'
<1> USE AllGive
<1>1. slot # NoOne => slot \in Requests /\ at'[slot] = at[slot]
  BY InvGives, Zenon
<1>2. \A i \in DOMAIN permits : permits[i] = slot =>
         \E k \in DOMAIN permits' : k <= i /\ permits'[k] = slot
  BY Zenon
<1>3. HolderInLine'
  BY <1>1, <1>2, Zenon DEF HolderInLine, FirstInv
<1>4. ASSUME NEW x \in Requests, queue # <<>>, Accounted(waited[x])
      PROVE  Accounted(waited[x])'
  <2>1. slot \in Requests /\ at'[slot] = at[slot]
    BY <1>4, SomeoneHolds, Zenon
  <2>2. waited'[x] = waited[x]
    BY Zenon
  <2> QED BY <1>2, <1>4, <2>1, <2>2, AccountedStays, ZenonT(30)
<1>5. /\ \A x \in Requests : at'[x] = "idle" => at[x] = "idle" /\ waited'[x] = waited[x]
      /\ \A x \in Requests : at'[x] = "waiting" => at[x] = "waiting" /\ behind'[x] = behind[x]
      /\ \A x \in Requests : at[x] = "done" => at'[x] = "done" /\ behind'[x] = behind[x]
  BY Zenon
<1> QED BY <1>3, <1>4, <1>5, FirstParts, ZenonT(30)

LEMMA FirstStep ==
    ASSUME Counts, EnoughBudget, All, [Next]_vars, PermitInv'
    PROVE  All'
<1> USE AllGive
<1>0. IsFiniteSet(Jobs)
  BY Zenon DEF EnoughBudget
<1>1. Inv' /\ PermitInv' /\ Clocks'
  BY InvStep, ClocksStep, Zenon
<1>2. ASSUME NEW r \in Requests, Acquire(r) \/ Busy(r) \/ Finish(r) \/ Abort(r) PROVE FirstInv'
  BY <1>0, <1>1, <1>2, AcquireFirst, BusyFirst, FinishFirst, AbortFirst, ZenonT(30)
<1>3. ASSUME NEW r \in Requests, DialogTimeout(r) PROVE FirstInv'
  BY <1>3, LeaveFirst, Zenon DEF DialogTimeout
<1>4. permits \in Seq(Jobs) /\ \A i \in DOMAIN permits : i <= i
  <2>1. permits \in Seq(Jobs)
    BY InvGives, Zenon
  <2>2. \A i \in DOMAIN permits : i <= i
    BY ONLY <2>1, SMTT(30)
  <2> QED BY <2>1, <2>2, Zenon
<1>5. ASSUME UNCHANGED <<at, outcome, queue, slot, tries, held, waited, behind, permits,
                         inUse, running>>
      PROVE  FirstInv'
  BY <1>0, <1>4, <1>5, QuietFirst, ZenonT(30)
<1>6. ASSUME NEW r \in Requests, NEW reply \in Replies, Reply(r, reply) PROVE FirstInv'
  BY <1>5, <1>6, Zenon DEF Reply, kdf
<1>7. ASSUME NEW b \in Background, BackgroundDerive(b) PROVE FirstInv'
  <2>1. /\ UNCHANGED <<outcome, queue, slot, tries, held, waited, behind, inUse, running>>
        /\ \A x \in Requests : at'[x] = at[x]
        /\ permits' = Append(permits, b) /\ b \in Jobs
    BY <1>7, InvGives, ZenonT(30) DEF BackgroundDerive, dialog
  <2>2. \A i \in DOMAIN permits :
           i \in DOMAIN Append(permits, b) /\ i <= i /\ Append(permits, b)[i] = permits[i]
    BY ONLY <1>4, <2>1, AppendFirst, SMTT(30)
  <2>3. permits' \in Seq(Jobs)
    BY <1>1, Zenon DEF Inv, TypeOK
  <2> QED BY <1>0, <2>1, <2>2, <2>3, QuietFirst, ZenonT(30)
<1>8. ASSUME UNCHANGED vars PROVE FirstInv'
  BY <1>5, <1>8, Zenon DEF vars, dialog, kdf
<1>9. FirstInv'
  BY <1>0, <1>2, <1>3, <1>6, <1>7, <1>8, StartDeriveFirst, EndDeriveFirst, TickFirst,
     ZenonT(30) DEF Next
<1> QED BY <1>1, <1>9, ZenonT(30) DEF All

-----------------------------------------------------------------------------
(* The dialog's slot *)

(* The slot has one user at a time, who is the one that talks or an unlock  *)
(* between two attempts; places in the queue of the dialog mutex and of the *)
(* semaphore are held once, by jobs that wait there.                        *)
THEOREM SlotInvariance == Spec => []SlotInv
<1>1. Inv => SlotInv
  BY Zenon DEF Inv
<1> QED BY <1>1, InitInv, InvStep, PTL DEF Spec

(* An unlock keeps its turn over its attempts, whoever else queues, gives   *)
(* up or is dismissed meanwhile.                                            *)
THEOREM RetryKeepsItsTurnThm == Spec => RetryKeepsItsTurn
<1> DEFINE Keeps == \A r \in Requests :
             at[r] \in {"permit", "deriving"} /\ kind[r] = "unlock"
                /\ at'[r] # "done" => slot' = r
<1>1. Inv /\ [Next]_vars => [Keeps]_vars
  <2> SUFFICES ASSUME Inv, [Next]_vars PROVE Keeps
    BY Zenon
  <2>1. Inv' /\ Onward
    BY InvStep, Zenon
  <2> QED BY <2>1, Zenon DEF Onward, Inv, SlotInv
<1>2. [][Keeps]_vars <=> RetryKeepsItsTurn
  BY Zenon DEF RetryKeepsItsTurn
<1> HIDE DEF Keeps
<1> QED BY <1>1, <1>2, InitInv, InvStep, PTL DEF Spec

-----------------------------------------------------------------------------
(* The derivation cap *)

(* Permits and running work stay together. *)
LEMMA PermitStep == PermitInv /\ [Next]_vars => PermitInv'
<1> SUFFICES ASSUME PermitInv, [Next]_vars PROVE PermitInv'
  BY Zenon
<1>0. ASSUME UNCHANGED <<inUse, running>> PROVE PermitInv'
  BY <1>0, Zenon DEF PermitInv
<1>1. CASE StartDerive
  <2> DEFINE j == Head(permits)
  <2>1. inUse' = inUse \cup {j} /\ DOMAIN running' = DOMAIN running \cup {j}
        /\ Cardinality(inUse) < MaxConcurrent
    BY <1>1, Zenon DEF StartDerive, MayStart
  <2> HIDE DEF j
  <2>2. IsFiniteSet(inUse') /\ Cardinality(inUse') <= Cardinality(inUse) + 1
        /\ Cardinality(inUse) \in Nat /\ Cardinality(inUse') \in Nat
    <3>1. IsFiniteSet(inUse)
      BY Zenon DEF PermitInv
    <3>2. /\ IsFiniteSet(inUse \cup {j})
          /\ Cardinality(inUse \cup {j}) =
                IF j \in inUse THEN Cardinality(inUse) ELSE Cardinality(inUse) + 1
      BY <3>1, FS_AddElement, Zenon
    <3>3. Cardinality(inUse) \in Nat
      BY <3>1, FS_CardinalityType, ZenonT(30)
    <3> QED BY <2>1, <3>2, <3>3, SMTT(30)
  <2> QED BY <2>1, <2>2, PinentryAssumption, SMTT(30) DEF PermitInv
<1>2. ASSUME NEW j \in Jobs, EndDerive(j) PROVE PermitInv'
  <2>1. inUse' = inUse \ {j} /\ DOMAIN running' = DOMAIN running \ {j}
    BY <1>2, Zenon DEF EndDerive
  <2>2. IsFiniteSet(inUse') /\ Cardinality(inUse') <= Cardinality(inUse)
        /\ Cardinality(inUse) \in Nat /\ Cardinality(inUse') \in Nat
    <3>1. IsFiniteSet(inUse)
      BY Zenon DEF PermitInv
    <3>2. /\ IsFiniteSet(inUse \ {j})
          /\ Cardinality(inUse \ {j}) =
                IF j \in inUse THEN Cardinality(inUse) - 1 ELSE Cardinality(inUse)
      BY <3>1, FS_RemoveElement, Zenon
    <3>3. Cardinality(inUse) \in Nat
      BY <3>1, FS_CardinalityType, Zenon
    <3>4. Cardinality(inUse \ {j}) \in Nat
      BY <3>2, FS_CardinalityType, Zenon
    <3> QED BY <2>1, <3>2, <3>3, <3>4, SMTT(30)
  <2> QED BY <2>1, <2>2, PinentryAssumption, SMTT(30) DEF PermitInv
<1>3. CASE Tick
  BY <1>3, Zenon DEF Tick, PermitInv
<1>4. ASSUME NEW r \in Requests,
             \/ Acquire(r) \/ Busy(r) \/ Finish(r) \/ DialogTimeout(r) \/ Abort(r)
             \/ \E reply \in Replies : Reply(r, reply)
      PROVE  UNCHANGED <<inUse, running>>
  BY <1>4, Zenon DEF Acquire, Busy, Finish, DialogTimeout, Abort, AbandonWork, Reply, kdf
<1>5. ASSUME NEW b \in Background, BackgroundDerive(b) PROVE UNCHANGED <<inUse, running>>
  BY <1>5, Zenon DEF BackgroundDerive
<1>6. CASE UNCHANGED vars
  BY <1>0, <1>6, Zenon DEF vars, kdf
<1> QED BY <1>0, <1>1, <1>2, <1>3, <1>4, <1>5, <1>6, ZenonT(30) DEF Next

(* However prompts start and are abandoned, no more derivations run at once *)
(* than kdf::MAX_CONCURRENT: the permit goes with the blocking work.        *)
THEOREM DerivationsBoundedThm == Spec => []DerivationsBounded
<1>1. Init => PermitInv
  BY FS_EmptySet, PinentryAssumption, SMTT(30) DEF Init, PermitInv
<1>2. PermitInv => DerivationsBounded
  BY Zenon DEF PermitInv, DerivationsBounded
<1> QED BY <1>1, <1>2, PermitStep, PTL DEF Spec

-----------------------------------------------------------------------------
(* The first in line *)

(* Jobs in line and jobs with a permit are different ones, and r is neither. *)
LEMMA RoomInLine ==
    ASSUME NEW S, IsFiniteSet(S), NEW q \in Seq(S), IsInjective(q), NEW U \in SUBSET S,
           NEW r \in S, r \notin U, \A i \in DOMAIN q : q[i] # r /\ q[i] \notin U
    PROVE  Len(q) + Cardinality(U) + 1 <= Cardinality(S)
<1> DEFINE V == U \cup {r}
           T == S \ V
<1>1. Len(q) \in Nat /\ DOMAIN q = 1..Len(q) /\ q \in [1..Len(q) -> S]
  OBVIOUS
<1>2. q \in Injection(1..Len(q), T)
  <2>1. q \in [1..Len(q) -> T]
    BY <1>1, Zenon
  <2> HIDE DEF T
  <2> QED BY <2>1, Zenon DEF Injection
<1>3. IsFiniteSet(U) /\ IsFiniteSet(V) /\ Cardinality(V) = Cardinality(U) + 1
  <2>1. IsFiniteSet(U)
    BY FS_Subset, Zenon
  <2> QED BY <2>1, FS_AddElement, Zenon
<1>4. S \cap V = V
  OBVIOUS
<1> HIDE DEF V
<1>5. IsFiniteSet(T) /\ Cardinality(T) = Cardinality(S) - Cardinality(V)
  BY <1>4, FS_Difference, Zenon
<1> HIDE DEF T
<1>6. Cardinality(1..Len(q)) <= Cardinality(T)
  BY <1>2, <1>5, FS_Injection, ZenonT(30)
<1>7. Cardinality(1..Len(q)) = Len(q)
  BY <1>1, FS_Interval, SMTT(30)
<1>8. Cardinality(S) \in Nat /\ Cardinality(U) \in Nat
  BY <1>3, FS_CardinalityType, Zenon
<1> QED BY <1>1, <1>3, <1>5, <1>6, <1>7, <1>8, SMTT(30)

(* What the lemmas use of finite sets. *)
LEMMA CountsHold == Counts
<1>1. ASSUME NEW S, IsFiniteSet(S)
      PROVE  Cardinality(S) \in Nat /\ (Cardinality(S) = 0 <=> S = {})
  BY <1>1, FS_CardinalityType, FS_EmptySet, ZenonT(30)
<1>2. ASSUME NEW S, NEW x, IsFiniteSet(S), x \notin S
      PROVE  Cardinality(S \cup {x}) = Cardinality(S) + 1
  BY <1>2, FS_AddElement, Zenon
<1>3. ASSUME NEW S, IsFiniteSet(S), NEW x \in S
      PROVE  Cardinality(S \ {x}) = Cardinality(S) - 1
  BY <1>3, FS_RemoveElement, Zenon
<1> QED BY <1>1, <1>2, <1>3, RoomInLine, ZenonT(30) DEF Counts

(* The wait of QUEUE_TIMEOUT_FACTOR dialogs outlasts one whole occupancy:   *)
(* where MaxTries turns of the slot fit in the queue's budget, a turn being *)
(* a dialog that runs to its timeout and a derivation behind everyone else  *)
(* who can want a permit, a request with only the holder before it is never *)
(* told Busy, whatever the holder, the child and the other jobs do.         *)
THEOREM FirstInLineIsServedThm == EnoughBudget => (Spec => []FirstInLineIsServed)
<1> SUFFICES ASSUME EnoughBudget PROVE Spec => []FirstInLineIsServed
  BY Zenon
<1>1. Init => All
  <2> SUFFICES ASSUME Init PROVE All
    BY Zenon
  <2>1. Inv /\ Clocks
    BY InitInv, InitClocks, Zenon
  <2>2. PermitInv
    BY FS_EmptySet, PinentryAssumption, SMTT(30) DEF Init, PermitInv
  <2>3. FirstInv
    BY Zenon DEF Init, FirstInv, HolderInLine, Jobs
  <2> QED BY <2>1, <2>2, <2>3, Zenon DEF All
<1>2. All => FirstInLineIsServed
  BY Zenon DEF All, FirstInv, FirstInLineIsServed
<1>3. All /\ [Next]_vars => All'
  <2> SUFFICES ASSUME All, [Next]_vars PROVE All'
    BY Zenon
  <2>1. PermitInv'
    BY AllGive, PermitStep, Zenon
  <2> QED BY <2>1, CountsHold, FirstStep, Zenon
<1> QED BY <1>1, <1>2, <1>3, PTL DEF Spec
=============================================================================
