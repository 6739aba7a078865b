--------------------------- MODULE ControlProofs ---------------------------
(***************************************************************************)
(* Proofs about module Control, for any number of connections and permits  *)
(* and any limit on a frame: the frames of both ends agree, the permits    *)
(* add up, and every step is one that Service allows.                      *)
(***************************************************************************)
EXTENDS Control, FiniteSetTheorems, TLAPS

-----------------------------------------------------------------------------
(* Frames *)

LEMMA FramedIs ==
    ASSUME NEW size \in Nat
    PROVE  /\ Framed(size) \in Frame /\ Framed(size).len = size + 1
           /\ Framed(size).arrived = size + 1 /\ Framed(size).body = size
           /\ Framed(size).version = PROTOCOL_VERSION
<1>1. size + 1 \in Nat /\ PROTOCOL_VERSION \in Nat
  BY SMTT(30) DEF PROTOCOL_VERSION
<1> QED BY <1>1, SMTT(30) DEF Framed, Frame

(* What encode_frame makes of a message of any size is whole and decodes    *)
(* to a message at the other end.                                           *)
LEMMA EncodedIsReadable ==
    ASSUME NEW size \in Nat, NEW f \in encode_frame(size)
    PROVE  f \in Frame /\ read_frame(f) = "whole" /\ decode_frame(f) = "message"
<1>1. f = Framed(size) /\ ~(size + 1 > MaxFrame)
  BY Zenon DEF encode_frame
<1>2. /\ f \in Frame /\ f.len = size + 1 /\ f.arrived = size + 1 /\ f.body = size
      /\ f.version = PROTOCOL_VERSION
  BY <1>1, FramedIs, Zenon
<1>3. /\ ~(f.len > MaxFrame) /\ ~(f.arrived < f.len) /\ f.len # 0 /\ f.len > 0
      /\ ~(f.body > f.len - 1) /\ ~(f.body < f.len - 1)
  BY <1>1, <1>2, ControlAssumption, SMTT(30)
<1>4. read_frame(f) = "whole"
  BY <1>3, Zenon DEF read_frame
<1>5. decode_frame(f) = "message"
  BY <1>2, <1>3, Zenon DEF decode_frame
<1> QED BY <1>2, <1>4, <1>5, Zenon

(* A response of any size has a frame: its own, or the error's. *)
LEMMA ResponseHasFrame ==
    ASSUME NEW size \in Nat
    PROVE  /\ ResponseFrame(size) # {}
           /\ \A f \in ResponseFrame(size) :
                 f \in Frame /\ read_frame(f) = "whole" /\ decode_frame(f) = "message"
<1>1. 1 \in Nat /\ ~(1 + 1 > MaxFrame)
  BY ControlAssumption, SMTT(30)
<1>2. encode_frame(1) # {}
  BY <1>1, Zenon DEF encode_frame
<1>3. ResponseFrame(size) # {} /\ (ResponseFrame(size) = encode_frame(size) \/ ResponseFrame(size) = encode_frame(1))
  BY <1>2, Zenon DEF ResponseFrame
<1> QED BY <1>1, <1>3, EncodedIsReadable, Zenon

-----------------------------------------------------------------------------
(* The listen queue *)

LEMMA TailIs ==
    ASSUME queue \in Seq(Conns), queue # <<>>
    PROVE  /\ Head(queue) \in Conns /\ Head(queue) = queue[1] /\ 1 \in 1..Len(queue)
           /\ Tail(queue) \in Seq(Conns)
           /\ \A i \in 1..Len(Tail(queue)) :
                 i + 1 \in 1..Len(queue) /\ i + 1 # 1 /\ Tail(queue)[i] = queue[i + 1]
           /\ \A i \in 1..Len(queue) : i # 1 =>
                 \E j \in 1..Len(Tail(queue)) : Tail(queue)[j] = queue[i]
<1>1. Len(queue) \in Nat /\ Len(queue) # 0 /\ Len(Tail(queue)) = Len(queue) - 1
  BY SMTT(30)
<1>2. /\ Head(queue) \in Conns /\ Head(queue) = queue[1] /\ 1 \in 1..Len(queue)
      /\ Tail(queue) \in Seq(Conns)
  BY <1>1, SMTT(30)
<1>3. ASSUME NEW i \in 1..Len(Tail(queue))
      PROVE  i + 1 \in 1..Len(queue) /\ i + 1 # 1 /\ Tail(queue)[i] = queue[i + 1]
  BY <1>1, <1>3, SMTT(30)
<1>4. ASSUME NEW i \in 1..Len(queue), i # 1
      PROVE  \E j \in 1..Len(Tail(queue)) : Tail(queue)[j] = queue[i]
  <2>1. i - 1 \in 1..Len(Tail(queue)) /\ (i - 1) + 1 = i
    BY <1>1, <1>4, SMTT(30)
  <2>2. Tail(queue)[i - 1] = queue[i]
    BY <1>3, <2>1, Zenon
  <2> QED BY <2>1, <2>2, Zenon
<1> QED BY <1>2, <1>3, <1>4, Zenon

LEMMA AppendIs ==
    ASSUME queue \in Seq(Conns), NEW c \in Conns
    PROVE  /\ Append(queue, c) \in Seq(Conns)
           /\ \A i \in 1..Len(queue) :
                 i \in 1..Len(Append(queue, c)) /\ Append(queue, c)[i] = queue[i]
           /\ \E i \in 1..Len(Append(queue, c)) : Append(queue, c)[i] = c
           /\ \A i \in 1..Len(Append(queue, c)) :
                 i \in 1..Len(queue) \/ (i = Len(queue) + 1 /\ Append(queue, c)[i] = c)
<1>1. Len(queue) \in Nat /\ Len(Append(queue, c)) = Len(queue) + 1
  BY SMTT(30)
<1>2. Append(queue, c) \in Seq(Conns) /\ Append(queue, c)[Len(queue) + 1] = c
  BY SMTT(30)
<1>3. Len(queue) + 1 \in 1..Len(Append(queue, c))
  BY <1>1, SMTT(30)
<1>4. ASSUME NEW i \in 1..Len(queue)
      PROVE  i \in 1..Len(Append(queue, c)) /\ Append(queue, c)[i] = queue[i]
  BY <1>1, <1>4, SMTT(30)
<1>5. ASSUME NEW i \in 1..Len(Append(queue, c))
      PROVE  i \in 1..Len(queue) \/ i = Len(queue) + 1
  BY <1>1, <1>5, SMTT(30)
<1> QED BY <1>2, <1>3, <1>4, <1>5, Zenon

-----------------------------------------------------------------------------
(* The invariant *)

Inv == TypeOK /\ QueueInv /\ PermitInv /\ AnswersAreReadable

Readable(f) == read_frame(f) = "whole" /\ decode_frame(f) = "message"

(* Only connection c changes. *)
Becomes(c, r) == conn' = [conn EXCEPT ![c] = r] /\ r \in Connection

LEMMA BecomesIs ==
    ASSUME TypeOK, NEW c \in Conns, NEW r, Becomes(c, r)
    PROVE  /\ conn' \in [Conns -> Connection] /\ conn'[c] = r
           /\ \A d \in Conns : d # c => conn'[d] = conn[d]
BY Zenon DEF Becomes, TypeOK

LEMMA NoFrameType == NoFrame \in Frame
<1>1. 0 \in Nat
  BY SMTT(30)
<1> QED BY <1>1, SMTT(30) DEF NoFrame, Frame

(* A connection that starts anew but for where it is and what it answers. *)
LEMMA NoConnIs ==
    ASSUME NEW at \in Served \cup {"idle", "queued", "answered", "closed"},
           NEW uid \in {Me, Root, Overflow}, NEW frame \in Frame,
           NEW reply \in {"none", "ok", "error"}
    PROVE  /\ NoConn \in Connection /\ NoConn.at = "idle"
           /\ [NoConn EXCEPT !.at = at] \in Connection
           /\ [NoConn EXCEPT !.at = at].at = at
           /\ [NoConn EXCEPT !.at = at, !.reply = reply] \in Connection
           /\ [NoConn EXCEPT !.at = at, !.reply = reply].at = at
           /\ [NoConn EXCEPT !.at = at, !.uid = uid, !.frame = frame] \in Connection
           /\ [NoConn EXCEPT !.at = at, !.uid = uid, !.frame = frame].at = at
<1>1. NoConn \in Connection /\ NoConn.at = "idle"
  BY NoFrameType, SMTT(30) DEF NoConn, Connection
<1>2. /\ [NoConn EXCEPT !.at = at] \in Connection
      /\ [NoConn EXCEPT !.at = at].at = at
  BY <1>1, Zenon DEF Connection
<1>3. /\ [NoConn EXCEPT !.at = at, !.reply = reply] \in Connection
      /\ [NoConn EXCEPT !.at = at, !.reply = reply].at = at
  BY <1>1, Zenon DEF Connection
<1>5. /\ [NoConn EXCEPT !.at = at, !.uid = uid, !.frame = frame] \in Connection
      /\ [NoConn EXCEPT !.at = at, !.uid = uid, !.frame = frame].at = at
  BY <1>1, Zenon DEF Connection
<1> QED BY <1>1, <1>2, <1>3, <1>5, Zenon

(* Fewer permits are within the bound too. *)
LEMMA FewerPermits ==
    ASSUME PermitInv, permits' \subseteq permits
    PROVE  IsFiniteSet(permits') /\ Cardinality(permits') <= MaxConnections
<1>1. IsFiniteSet(permits') /\ Cardinality(permits') <= Cardinality(permits)
  BY FS_Subset, Zenon DEF PermitInv
<1>2. Cardinality(permits') \in Nat
  BY <1>1, FS_CardinalityType, Zenon
<1>3. Cardinality(permits) \in Nat
  BY FS_CardinalityType, Zenon DEF PermitInv
<1>4. MaxConnections \in Nat /\ Cardinality(permits) <= MaxConnections
  BY ControlAssumption, Zenon DEF PermitInv
<1> QED BY <1>1, <1>2, <1>3, <1>4, SMTT(30)

(* What a step of a connection, or of its peer, may do. *)
Served1(c, r) ==
    /\ Becomes(c, r)
    /\ conn[c].at \notin {"idle", "queued"} /\ r.at # "queued"
    /\ \/ conn[c].at \in Served /\ r.at \in Served /\ permits' = permits
       \/ conn[c].at \in Served /\ r.at \in {"answered", "closed"} /\ permits' = permits \ {c}
       \/ conn[c].at \in {"answered", "closed"} /\ r.at = "idle" /\ permits' = permits
    /\ r.at = "answered" => Readable(r.frame)
    /\ UNCHANGED <<up, entry, loop, backoff, queue>>

LEMMA Served1Step ==
    ASSUME Inv, NEW c \in Conns, NEW r, Served1(c, r)
    PROVE  Inv'
<1>1. /\ Becomes(c, r) /\ conn[c].at # "queued" /\ r.at # "queued"
      /\ r.at = "answered" => Readable(r.frame)
      /\ permits' \subseteq permits
      /\ UNCHANGED <<up, entry, loop, backoff, queue>>
  BY Zenon DEF Served1
<1>2. /\ conn' \in [Conns -> Connection] /\ conn'[c] = r
      /\ \A d \in Conns : d # c => conn'[d] = conn[d]
  BY <1>1, BecomesIs, Zenon DEF Inv
<1>3. TypeOK'
  BY <1>1, <1>2, Zenon DEF Inv, TypeOK
<1>4. QueueInv'
  <2>1. queue \in Seq(Conns)
    BY Zenon DEF Inv, TypeOK
  <2>2. \A i \in 1..Len(queue) : queue[i] \in Conns
    BY <2>1, SMTT(30)
  <2>3. \A i \in 1..Len(queue) : conn[queue[i]].at = "queued"
    BY Zenon DEF Inv, QueueInv
  <2>4. \A i \in 1..Len(queue) : conn'[queue[i]].at = "queued"
    BY <1>1, <1>2, <2>2, <2>3, Zenon
  <2>5. \A d \in Conns : conn'[d].at = "queued" => conn[d].at = "queued"
    BY <1>1, <1>2, Zenon
  <2> QED BY <1>1, <2>4, <2>5, ZenonT(30) DEF Inv, QueueInv
<1>5. PermitInv'
  <2>1. IsFiniteSet(permits') /\ Cardinality(permits') <= MaxConnections
    BY <1>1, FewerPermits, Zenon DEF Inv
  <2>2. c \in permits' <=> conn'[c].at \in Served
    BY <1>2, Zenon DEF Inv, PermitInv, Served1, Served
  <2>3. \A d \in Conns : d # c => (d \in permits' <=> d \in permits)
    BY Zenon DEF Served1
  <2>4. \A d \in Conns : d \in permits' <=> conn'[d].at \in Served
    BY <1>2, <2>2, <2>3, Zenon DEF Inv, PermitInv
  <2>5. Loop \in permits' <=> Loop \in permits
    BY ControlAssumption, Zenon DEF Served1
  <2>6. ~up' => permits' = {} /\ queue' = <<>>
    BY <1>1, Zenon DEF Inv, PermitInv
  <2>7. (Loop \in permits' <=> loop' # "permit") /\ (entry' = "live" => up')
    BY <1>1, <2>5, Zenon DEF Inv, PermitInv
  <2> QED BY <2>1, <2>4, <2>6, <2>7, Zenon DEF PermitInv
<1>6. AnswersAreReadable'
  <2>1. ASSUME NEW d \in Conns, conn'[d].at = "answered" PROVE Readable(conn'[d].frame)
    <3>1. CASE d = c
      BY <1>1, <1>2, <2>1, <3>1, Zenon
    <3>2. CASE d # c
      BY <1>2, <2>1, <3>2, Zenon DEF Inv, AnswersAreReadable, Readable
    <3> QED BY <3>1, <3>2, Zenon
  <2> QED BY <2>1, Zenon DEF AnswersAreReadable, Readable, read_frame, decode_frame
<1> QED BY <1>3, <1>4, <1>5, <1>6, Zenon DEF Inv

(* Every step of a connection, and Release, is of that form. *)
LEMMA ConnStep ==
    ASSUME Inv, NEW c \in Conns, Serve(c) \/ Apply(c) \/ WriteFails(c) \/ Release(c)
    PROVE  \E r : Served1(c, r)
<1>1. conn \in [Conns -> Connection] /\ conn[c] \in Connection
  BY Zenon DEF Inv, TypeOK
<1>2. ASSUME NEW at \in Served, NEW reply \in {"none", "ok", "error"}, Goes(c, at, reply),
             conn[c].at \in Served
      PROVE  \E r : Served1(c, r)
  <2> DEFINE r == [NoConn EXCEPT !.at = at, !.reply = reply]
  <2>1. r \in Connection /\ r.at = at
    BY NoConnIs, NoFrameType, Zenon
  <2>2. conn' = [conn EXCEPT ![c] = r] /\ UNCHANGED <<up, entry, loop, backoff, queue, permits>>
    BY <1>2, Zenon DEF Goes
  <2> HIDE DEF r
  <2> QED BY <1>2, <2>1, <2>2, Zenon DEF Served1, Becomes, Served
<1>3. ASSUME Hangup(c), conn[c].at \in Served
      PROVE  \E r : Served1(c, r)
  <2> DEFINE r == [NoConn EXCEPT !.at = "closed"]
  <2>1. r \in Connection /\ r.at = "closed"
    BY NoConnIs, NoFrameType, Zenon
  <2>2. /\ conn' = [conn EXCEPT ![c] = r] /\ permits' = permits \ {c}
        /\ UNCHANGED <<up, entry, loop, backoff, queue>>
    BY <1>3, Zenon DEF Hangup
  <2> HIDE DEF r
  <2> QED BY <1>3, <2>1, <2>2, Zenon DEF Served1, Becomes, Served
<1>4. CASE WriteResponse(c)
  <2>a. PICK size \in {MaxFrame - 1, MaxFrame} : \E frame \in ResponseFrame(size) :
          conn' = [conn EXCEPT ![c] = [NoConn EXCEPT !.at = "answered", !.frame = frame]]
    BY <1>4, Zenon DEF WriteResponse
  <2>1. PICK frame \in ResponseFrame(size) :
          conn' = [conn EXCEPT ![c] = [NoConn EXCEPT !.at = "answered", !.frame = frame]]
    BY <2>a, Zenon
  <2>2. size \in Nat
    BY <2>a, ControlAssumption, SMTT(30)
  <2>3. frame \in Frame /\ Readable(frame)
    BY <2>1, <2>2, ResponseHasFrame, Zenon DEF Readable
  <2> DEFINE r == [NoConn EXCEPT !.at = "answered", !.frame = frame]
  <2>4. r \in Connection /\ r.at = "answered" /\ r.frame = frame
    <3>1. NoConn \in Connection
      BY NoConnIs, NoFrameType, Zenon
    <3> QED BY <2>3, <3>1, Zenon DEF Connection
  <2>5. /\ conn' = [conn EXCEPT ![c] = r] /\ permits' = permits \ {c} /\ conn[c].at = "writing"
        /\ UNCHANGED <<up, entry, loop, backoff, queue>>
    BY <1>4, <2>1, Zenon DEF WriteResponse
  <2> HIDE DEF r
  <2> QED BY <2>3, <2>4, <2>5, Zenon DEF Served1, Becomes, Served
<1>5. CASE Release(c)
  <2>1. NoConn \in Connection /\ NoConn.at = "idle"
    BY NoConnIs, NoFrameType, Zenon
  <2>2. /\ conn' = [conn EXCEPT ![c] = NoConn] /\ conn[c].at \in {"answered", "closed"}
        /\ UNCHANGED <<up, entry, loop, backoff, queue, permits>>
    BY <1>5, Zenon DEF Release
  <2> QED BY <2>1, <2>2, Zenon DEF Served1, Becomes
<1>6. CASE ReadRequest(c)
  BY <1>2, <1>3, <1>6, Zenon DEF ReadRequest, Served
<1>7. CASE ReadTimeout(c) \/ WriteFails(c)
  BY <1>3, <1>7, Zenon DEF ReadTimeout, WriteFails, Served
<1>8. CASE Respond(c)
  <2>1. conn[c].reply \in {"none", "ok", "error"}
    BY <1>1, Zenon DEF Connection
  <2> QED BY <1>2, <1>8, <2>1, Zenon DEF Respond, Served
<1>9. CASE HandlerTimeout(c) \/ Apply(c)
  BY <1>2, <1>9, Zenon DEF HandlerTimeout, Apply, Served
<1> QED BY <1>4, <1>5, <1>6, <1>7, <1>8, <1>9, Zenon DEF Serve

-----------------------------------------------------------------------------
(* The daemon and its loop *)

LEMMA InvInit == Init => Inv
<1> SUFFICES ASSUME Init PROVE Inv
  OBVIOUS
<1>1. \A c \in Conns : conn[c] = NoConn
  BY Zenon DEF Init
<1>2. NoConn \in Connection /\ NoConn.at = "idle"
  BY NoConnIs, NoFrameType, Zenon
<1>3. /\ loop = "permit" /\ backoff = 0 /\ queue = <<>> /\ permits = {} /\ up \in BOOLEAN
      /\ entry = IF up THEN "live" ELSE "none"
      /\ conn \in [Conns -> Connection]
  BY <1>2, Zenon DEF Init
<1>4. 0 \in 0..BackoffMax /\ <<>> \in Seq(Conns) /\ Len(<<>>) = 0 /\ 1..0 = {}
  BY ControlAssumption, SMTT(30)
<1>5. TypeOK
  BY <1>3, <1>4, Zenon DEF TypeOK
<1>6. QueueInv
  BY <1>1, <1>2, <1>3, <1>4, Zenon DEF QueueInv
<1>7. IsFiniteSet({}) /\ Cardinality({}) = 0
  BY FS_EmptySet, Zenon
<1>8. 0 <= MaxConnections
  BY ControlAssumption, SMTT(30)
<1>9. PermitInv
  BY <1>1, <1>2, <1>3, <1>7, <1>8, Zenon DEF PermitInv, Served
<1>10. AnswersAreReadable
  BY <1>1, <1>2, Zenon DEF AnswersAreReadable
<1> QED BY <1>5, <1>6, <1>9, <1>10, Zenon DEF Inv

(* What Closed makes of a connection. *)
LEMMA ClosedIs ==
    ASSUME NEW r \in Connection
    PROVE  /\ Closed(r) \in Connection /\ Closed(r).at \in {"idle", "answered", "closed"}
           /\ Closed(r) # r => Closed(r).at = "closed" /\ r.at \in Served \cup {"queued"}
<1>1. [NoConn EXCEPT !.at = "closed"] \in Connection /\ [NoConn EXCEPT !.at = "closed"].at = "closed"
  BY NoConnIs, NoFrameType, Zenon
<1>2. r.at \in Served \cup {"idle", "queued", "answered", "closed"}
  BY Zenon DEF Connection
<1>3. CASE r.at \in {"idle", "answered", "closed"}
  <2>1. Closed(r) = r
    BY <1>3, Zenon DEF Closed
  <2> QED BY <1>3, <2>1, Zenon
<1>4. CASE r.at \notin {"idle", "answered", "closed"}
  <2>1. Closed(r) = [NoConn EXCEPT !.at = "closed"]
    BY <1>4, Zenon DEF Closed
  <2>2. r.at \in Served \cup {"queued"}
    BY <1>2, <1>4, Zenon
  <2> QED BY <1>1, <2>1, <2>2, Zenon
<1> QED BY <1>3, <1>4, Zenon

LEMMA DaemonEndsStep ==
    ASSUME Inv, Crash \/ Stop
    PROVE  Inv'
<1>1. /\ up' = FALSE /\ entry' \in {"none", "stale"} /\ loop' = "permit" /\ backoff' = 0
      /\ queue' = <<>> /\ permits' = {} /\ conn' = [c \in Conns |-> Closed(conn[c])]
  BY Zenon DEF Inv, TypeOK, Crash, Stop, DaemonEnds
<1>2. conn \in [Conns -> Connection]
  BY Zenon DEF Inv, TypeOK
<1>3. ASSUME NEW c \in Conns
      PROVE  /\ conn'[c] = Closed(conn[c]) /\ conn'[c] \in Connection
             /\ conn'[c].at \in {"idle", "answered", "closed"}
             /\ conn'[c].at = "answered" => conn'[c] = conn[c]
  <2>1. conn[c] \in Connection /\ conn'[c] = Closed(conn[c])
    BY <1>1, <1>2, Zenon
  <2> DEFINE r == conn[c]
  <2> HIDE DEF r
  <2>2. Closed(r) \in Connection /\ Closed(r).at \in {"idle", "answered", "closed"}
    BY <2>1, ClosedIs, ZenonT(30) DEF r
  <2>3. Closed(r) = r \/ Closed(r).at = "closed"
    BY <2>1, ClosedIs, ZenonT(30) DEF r
  <2>4. Closed(r).at = "answered" => Closed(r) = r
    BY <2>3, Zenon
  <2> QED BY <2>1, <2>2, <2>4, Zenon DEF r
<1>4. conn' \in [Conns -> Connection]
  BY <1>1, <1>3, Zenon
<1>5. 0 \in 0..BackoffMax /\ <<>> \in Seq(Conns) /\ Len(<<>>) = 0 /\ 1..0 = {}
  BY ControlAssumption, SMTT(30)
<1>6. TypeOK'
  BY <1>1, <1>4, <1>5, Zenon DEF TypeOK
<1>7. QueueInv'
  BY <1>1, <1>3, <1>5, Zenon DEF QueueInv
<1>8. permits' \subseteq permits
  BY <1>1, Zenon
<1>9. IsFiniteSet(permits') /\ Cardinality(permits') <= MaxConnections
  BY <1>8, FewerPermits, Zenon DEF Inv
<1>10. PermitInv'
  BY <1>1, <1>3, <1>9, Zenon DEF PermitInv, Served
<1>11. AnswersAreReadable'
  BY <1>3, ZenonT(30) DEF Inv, AnswersAreReadable, read_frame, decode_frame
<1> QED BY <1>6, <1>7, <1>10, <1>11, Zenon DEF Inv

(* The steps that touch no connection. *)
LEMMA LoopStep ==
    ASSUME Inv, bind \/ Unlink \/ TakePermit \/ AcceptFails \/ BackoffEnds
    PROVE  Inv'
<1>1. UNCHANGED <<queue, conn>>
  BY Zenon DEF bind, Unlink, TakePermit, AcceptFails, BackoffEnds
<1>2. QueueInv' /\ AnswersAreReadable'
  BY <1>1, ZenonT(30) DEF Inv, QueueInv, AnswersAreReadable, read_frame, decode_frame
<1>3. backoff' \in 0..BackoffMax
  <2>1. backoff \in 0..BackoffMax
    BY Zenon DEF Inv, TypeOK
  <2>2. 0 \in 0..BackoffMax /\ next_accept_backoff(backoff) \in 0..BackoffMax
    BY <2>1, ControlAssumption, SMTT(30) DEF next_accept_backoff
  <2> QED BY <2>1, <2>2, Zenon DEF bind, Unlink, TakePermit, AcceptFails, BackoffEnds
<1>4. /\ up' \in BOOLEAN /\ entry' \in {"none", "stale", "live"}
      /\ loop' \in {"permit", "accept", "backoff"} /\ permits' \subseteq Conns \cup {Loop}
  BY Zenon DEF Inv, TypeOK, bind, Unlink, TakePermit, AcceptFails, BackoffEnds
<1>5. TypeOK'
  BY <1>1, <1>3, <1>4, Zenon DEF Inv, TypeOK
<1>6. IsFiniteSet(permits') /\ Cardinality(permits') <= MaxConnections
  <2>1. CASE TakePermit
    <3>1. permits' = permits \cup {Loop} /\ Cardinality(permits) < MaxConnections /\ IsFiniteSet(permits)
      BY <2>1, Zenon DEF TakePermit, Inv, PermitInv
    <3>2. /\ IsFiniteSet(permits')
          /\ Cardinality(permits') \in {Cardinality(permits), Cardinality(permits) + 1}
      BY <3>1, FS_AddElement, Zenon
    <3>3. Cardinality(permits) \in Nat /\ MaxConnections \in Nat
      BY <3>1, FS_CardinalityType, ControlAssumption, Zenon
    <3>4. Cardinality(permits') <= MaxConnections
      BY <3>1, <3>2, <3>3, SMTT(30)
    <3> QED BY <3>2, <3>4, Zenon
  <2>2. CASE bind \/ Unlink \/ AcceptFails \/ BackoffEnds
    <3>1. permits' \subseteq permits
      BY <2>2, Zenon DEF bind, Unlink, AcceptFails, BackoffEnds
    <3> QED BY <3>1, FewerPermits, Zenon DEF Inv
  <2> QED BY <2>1, <2>2, Zenon
<1>7. \A c \in Conns : c \in permits' <=> c \in permits
  BY ControlAssumption, Zenon DEF Inv, PermitInv, bind, Unlink, TakePermit, AcceptFails, BackoffEnds
<1>8. /\ Loop \in permits' <=> loop' # "permit"
      /\ entry' = "live" => up'
      /\ ~up' => permits' = {} /\ queue' = <<>>
  BY Zenon DEF Inv, PermitInv, bind, Unlink, TakePermit, AcceptFails, BackoffEnds
<1>9. PermitInv'
  BY <1>1, <1>6, <1>7, <1>8, Zenon DEF Inv, PermitInv
<1> QED BY <1>2, <1>5, <1>9, Zenon DEF Inv

(* The connection at the head of the queue leaves it, for its task or for   *)
(* good.                                                                    *)
LEMMA AcceptIs ==
    ASSUME Inv, Accept
    PROVE  LET c == Head(queue) IN
           /\ c \in Conns /\ conn[c].at = "queued" /\ queue' = Tail(queue) /\ backoff' = 0
           /\ loop = "accept" /\ loop' = "permit" /\ UNCHANGED <<up, entry>> /\ up /\ queue # <<>>
           /\ \E r : /\ Becomes(c, r)
                     /\ \/ r.at = "reading" /\ permits' = (permits \ {Loop}) \cup {c}
                        \/ r.at = "closed" /\ permits' = permits \ {Loop}
<1> DEFINE c == Head(queue)
<1>1. queue \in Seq(Conns) /\ queue # <<>> /\ conn \in [Conns -> Connection]
  BY Zenon DEF Inv, TypeOK, Accept
<1>2. c \in Conns /\ c = queue[1] /\ 1 \in 1..Len(queue)
  BY <1>1, TailIs, Zenon
<1>3. conn[c].at = "queued"
  BY <1>2, ZenonT(30) DEF Inv, QueueInv
<1>4. /\ queue' = Tail(queue) /\ backoff' = 0 /\ loop = "accept" /\ loop' = "permit"
      /\ UNCHANGED <<up, entry>> /\ up
  BY Zenon DEF Accept
<1>5. CASE MovePermit(c) /\ conn' = [conn EXCEPT ![c].at = "reading", ![c].uid = Me]
  <2> DEFINE r == [conn[c] EXCEPT !.at = "reading", !.uid = Me]
  <2>1. conn' = [conn EXCEPT ![c] = r] /\ conn[c] \in Connection
    BY <1>1, <1>2, <1>5, Zenon
  <2>2. r \in Connection /\ r.at = "reading"
    BY <2>1, Zenon DEF Connection, Served
  <2>3. permits' = (permits \ {Loop}) \cup {c}
    BY <1>5, Zenon DEF MovePermit
  <2> HIDE DEF r
  <2> QED BY <1>1, <1>2, <1>3, <1>4, <2>1, <2>2, <2>3, Zenon DEF Becomes
<1>6. CASE permits' = permits \ {Loop} /\ conn' = [conn EXCEPT ![c] = Closed(@)]
  <2>1. conn' = [conn EXCEPT ![c] = Closed(conn[c])] /\ conn[c] \in Connection
    BY <1>1, <1>2, <1>6, Zenon
  <2>2. Closed(conn[c]) \in Connection /\ Closed(conn[c]).at = "closed"
    <3>1. /\ Closed(conn[c]) \in Connection /\ Closed(conn[c]).at \in {"idle", "answered", "closed"}
          /\ Closed(conn[c]) # conn[c] => Closed(conn[c]).at = "closed"
      BY <2>1, ClosedIs, Zenon
    <3> QED BY <1>3, <3>1, Zenon
  <2> QED BY <1>1, <1>2, <1>3, <1>4, <1>6, <2>1, <2>2, Zenon DEF Becomes
<1> QED BY <1>5, <1>6, Zenon DEF Accept

LEMMA AcceptStep == ASSUME Inv, Accept PROVE Inv'
<1> DEFINE c == Head(queue)
<1>1. /\ c \in Conns /\ conn[c].at = "queued" /\ queue' = Tail(queue) /\ backoff' = 0
      /\ loop = "accept" /\ loop' = "permit" /\ UNCHANGED <<up, entry>> /\ up /\ queue # <<>>
  BY AcceptIs, Zenon
<1>2. PICK r : /\ Becomes(c, r)
               /\ \/ r.at = "reading" /\ permits' = (permits \ {Loop}) \cup {c}
                  \/ r.at = "closed" /\ permits' = permits \ {Loop}
  BY AcceptIs, Zenon
<1>3. queue \in Seq(Conns)
  BY Zenon DEF Inv, TypeOK
<1>4. /\ c = queue[1] /\ 1 \in 1..Len(queue) /\ queue' \in Seq(Conns)
      /\ \A i \in 1..Len(queue') :
            i + 1 \in 1..Len(queue) /\ i + 1 # 1 /\ queue'[i] = queue[i + 1]
      /\ \A i \in 1..Len(queue) : i # 1 => \E j \in 1..Len(queue') : queue'[j] = queue[i]
  BY <1>1, <1>3, TailIs, Zenon
<1> HIDE DEF c
<1>5. /\ conn' \in [Conns -> Connection] /\ conn'[c] = r
      /\ \A d \in Conns : d # c => conn'[d] = conn[d]
  BY <1>1, <1>2, BecomesIs, Zenon DEF Inv
<1>6. TypeOK'
  <2>1. 0 \in 0..BackoffMax
    BY ControlAssumption, SMTT(30)
  <2> QED BY <1>1, <1>2, <1>4, <1>5, <2>1, Zenon DEF Inv, TypeOK
<1>7. QueueInv'
  <2>1. \A i \in 1..Len(queue) : queue[i] \in Conns /\ conn[queue[i]].at = "queued"
    <3>1. \A i \in 1..Len(queue) : queue[i] \in Conns
      BY <1>3, SMTT(30)
    <3> QED BY <3>1, Zenon DEF Inv, QueueInv
  <2>2. \A i, j \in 1..Len(queue) : queue[i] = queue[j] => i = j
    BY Zenon DEF Inv, QueueInv
  <2>3. ASSUME NEW i \in 1..Len(queue') PROVE conn'[queue'[i]].at = "queued"
    <3>1. i + 1 \in 1..Len(queue) /\ queue'[i] = queue[i + 1] /\ i + 1 # 1
      BY <1>4, <2>3, Zenon
    <3>2. c = queue[1] /\ 1 \in 1..Len(queue)
      BY <1>4, Zenon
    <3>3. queue[i + 1] # c
      BY <2>2, <3>1, <3>2, Zenon
    <3> QED BY <1>5, <2>1, <3>1, <3>3, ZenonT(30)
  <2>4. ASSUME NEW i \in 1..Len(queue'), NEW j \in 1..Len(queue'), queue'[i] = queue'[j]
        PROVE  i = j
    <3>1. /\ i + 1 \in 1..Len(queue) /\ queue'[i] = queue[i + 1]
          /\ j + 1 \in 1..Len(queue) /\ queue'[j] = queue[j + 1]
      BY <1>4, <2>4, Zenon
    <3>2. i + 1 = j + 1
      BY <2>2, <2>4, <3>1, Zenon
    <3> QED BY <2>4, <3>2, SMTT(30)
  <2>5. ASSUME NEW d \in Conns, conn'[d].at = "queued"
        PROVE  \E i \in 1..Len(queue') : queue'[i] = d
    <3>1. d # c /\ conn[d].at = "queued"
      BY <1>2, <1>5, <2>5, Zenon
    <3>2. PICK i \in 1..Len(queue) : queue[i] = d
      BY <3>1, Zenon DEF Inv, QueueInv
    <3> QED BY <1>4, <3>1, <3>2, Zenon
  <2> QED BY <2>3, <2>4, <2>5, Zenon DEF QueueInv
<1>8. IsFiniteSet(permits') /\ Cardinality(permits') <= MaxConnections
  <2>1. Loop \in permits /\ IsFiniteSet(permits) /\ Cardinality(permits) <= MaxConnections
    BY <1>1, Zenon DEF Inv, PermitInv
  <2> DEFINE P == permits \ {Loop}
  <2>2. IsFiniteSet(P) /\ Cardinality(P) = Cardinality(permits) - 1
    BY <2>1, FS_RemoveElement, Zenon
  <2>3. Cardinality(P) \in Nat
    BY <2>2, FS_CardinalityType, Zenon
  <2>4. /\ IsFiniteSet(P \cup {c})
        /\ Cardinality(P \cup {c}) \in {Cardinality(P), Cardinality(P) + 1}
    BY <2>2, FS_AddElement, Zenon
  <2>5. Cardinality(permits) \in Nat /\ MaxConnections \in Nat
    BY <2>1, FS_CardinalityType, ControlAssumption, Zenon
  <2>6. permits' = P \/ permits' = P \cup {c}
    BY <1>2, Zenon
  <2> HIDE DEF P
  <2>7. Cardinality(P) <= MaxConnections /\ Cardinality(P \cup {c}) <= MaxConnections
    BY <2>1, <2>2, <2>3, <2>4, <2>5, SMTT(30)
  <2> QED BY <2>2, <2>4, <2>6, <2>7, Zenon
<1>9. PermitInv'
  <2>1. Loop \notin permits' /\ Loop # c
    BY <1>1, <1>2, ControlAssumption, Zenon
  <2>2. c \notin permits
    BY <1>1, Zenon DEF Inv, PermitInv, Served
  <2>3. c \in permits' <=> conn'[c].at \in Served
    BY <1>2, <1>5, <2>2, Zenon DEF Served
  <2>4. \A d \in Conns : d # c => (d \in permits' <=> d \in permits)
    BY <1>2, ControlAssumption, Zenon
  <2>5. \A d \in Conns : d \in permits' <=> conn'[d].at \in Served
    BY <1>5, <2>3, <2>4, Zenon DEF Inv, PermitInv
  <2> QED BY <1>1, <1>8, <2>1, <2>5, Zenon DEF PermitInv
<1>10. AnswersAreReadable'
  <2>1. \A d \in Conns : conn'[d].at = "answered" => conn'[d] = conn[d]
    BY <1>2, <1>5, Zenon
  <2> QED BY <2>1, ZenonT(30) DEF Inv, AnswersAreReadable, read_frame, decode_frame
<1> QED BY <1>6, <1>7, <1>9, <1>10, Zenon DEF Inv

LEMMA ConnectIs ==
    ASSUME Inv, NEW c \in Conns, connect(c)
    PROVE  /\ entry = "live" /\ conn[c].at = "idle" /\ queue' = Append(queue, c)
           /\ UNCHANGED <<up, entry, loop, backoff, permits>>
           /\ \E r : Becomes(c, r) /\ r.at = "queued"
<1>1. /\ entry = "live" /\ conn[c].at = "idle" /\ queue' = Append(queue, c)
      /\ UNCHANGED <<up, entry, loop, backoff, permits>>
  BY Zenon DEF connect
<1>2. PICK uid \in {Me, Root, Overflow} : \E frame \in Frames :
          conn' = [conn EXCEPT ![c] = [NoConn EXCEPT !.at = "queued", !.uid = uid, !.frame = frame]]
  BY Zenon DEF connect
<1>3. PICK frame \in Frames :
          conn' = [conn EXCEPT ![c] = [NoConn EXCEPT !.at = "queued", !.uid = uid, !.frame = frame]]
  BY <1>2, Zenon
<1>4. frame \in Frame
  <2>1. /\ RequestSize \in Nat /\ RequestSize - 1 \in Nat /\ MaxFrame + 1 \in Nat /\ 4 \in Nat
        /\ 1 \in Nat
    BY ControlAssumption, SMTT(30)
  <2> DEFINE f == Framed(RequestSize)
  <2>2. f \in Frame /\ f.body = RequestSize
    BY <2>1, FramedIs, Zenon
  <2>3. frame \in {f, [f EXCEPT !.version = 4], [f EXCEPT !.body = @ - 1],
                  [f EXCEPT !.len = MaxFrame + 1, !.arrived = MaxFrame + 1], [f EXCEPT !.arrived = 1]}
    BY <1>3, Zenon DEF Frames
  <2> HIDE DEF f
  <2>4. [f EXCEPT !.body = @ - 1] = [f EXCEPT !.body = RequestSize - 1]
    BY <2>2, Zenon DEF Frame
  <2>5. /\ [f EXCEPT !.version = 4] \in Frame /\ [f EXCEPT !.body = RequestSize - 1] \in Frame
        /\ [f EXCEPT !.len = MaxFrame + 1, !.arrived = MaxFrame + 1] \in Frame
        /\ [f EXCEPT !.arrived = 1] \in Frame
    BY <2>1, <2>2, Zenon DEF Frame
  <2> QED BY <2>2, <2>3, <2>4, <2>5, Zenon
<1> DEFINE r == [NoConn EXCEPT !.at = "queued", !.uid = uid, !.frame = frame]
<1>5. r \in Connection /\ r.at = "queued"
  <2>1. NoConn \in Connection
    BY NoConnIs, NoFrameType, Zenon
  <2> QED BY <1>2, <1>4, <2>1, Zenon DEF Connection
<1>6. conn' = [conn EXCEPT ![c] = r]
  BY <1>3, Zenon
<1> HIDE DEF r
<1> QED BY <1>1, <1>5, <1>6, Zenon DEF Becomes

LEMMA ConnectStep == ASSUME Inv, NEW c \in Conns, connect(c) PROVE Inv'
<1>1. /\ entry = "live" /\ conn[c].at = "idle" /\ queue' = Append(queue, c)
      /\ UNCHANGED <<up, entry, loop, backoff, permits>>
  BY ConnectIs, Zenon
<1>2. PICK r : Becomes(c, r) /\ r.at = "queued"
  BY ConnectIs, Zenon
<1>3. /\ conn' \in [Conns -> Connection] /\ conn'[c] = r
      /\ \A d \in Conns : d # c => conn'[d] = conn[d]
  BY <1>2, BecomesIs, Zenon DEF Inv
<1>4. queue \in Seq(Conns) /\ up
  BY <1>1, Zenon DEF Inv, TypeOK, PermitInv
<1>5. /\ queue' \in Seq(Conns)
      /\ \A i \in 1..Len(queue) : i \in 1..Len(queue') /\ queue'[i] = queue[i]
      /\ \E i \in 1..Len(queue') : queue'[i] = c
      /\ \A i \in 1..Len(queue') : i \in 1..Len(queue) \/ (i = Len(queue) + 1 /\ queue'[i] = c)
  BY <1>1, <1>4, AppendIs, Zenon
<1>6. TypeOK'
  BY <1>1, <1>3, <1>5, Zenon DEF Inv, TypeOK
<1>7. QueueInv'
  <2>1. \A i \in 1..Len(queue) : queue[i] \in Conns /\ conn[queue[i]].at = "queued"
    <3>1. \A i \in 1..Len(queue) : queue[i] \in Conns
      BY <1>4, SMTT(30)
    <3> QED BY <3>1, Zenon DEF Inv, QueueInv
  <2>2. \A i \in 1..Len(queue) : queue'[i] # c
    BY <1>1, <1>5, <2>1, Zenon
  <2>3. ASSUME NEW i \in 1..Len(queue') PROVE conn'[queue'[i]].at = "queued"
    <3>1. CASE i \in 1..Len(queue)
      BY <1>3, <1>5, <2>1, <2>2, <3>1, ZenonT(30)
    <3>2. CASE queue'[i] = c
      BY <1>2, <1>3, <3>2, Zenon
    <3> QED BY <1>5, <2>3, <3>1, <3>2, Zenon
  <2>4. ASSUME NEW i \in 1..Len(queue'), NEW j \in 1..Len(queue'), queue'[i] = queue'[j]
        PROVE  i = j
    <3>1. CASE i \in 1..Len(queue) /\ j \in 1..Len(queue)
      BY <1>5, <2>4, <3>1, Zenon DEF Inv, QueueInv
    <3>2. CASE i \notin 1..Len(queue) \/ j \notin 1..Len(queue)
      BY <1>5, <2>2, <2>4, <3>2, Zenon
    <3> QED BY <3>1, <3>2, Zenon
  <2>5. ASSUME NEW d \in Conns, conn'[d].at = "queued"
        PROVE  \E i \in 1..Len(queue') : queue'[i] = d
    <3>1. CASE d = c
      BY <1>5, <3>1, Zenon
    <3>2. CASE d # c
      <4>1. PICK i \in 1..Len(queue) : queue[i] = d
        BY <1>3, <2>5, <3>2, Zenon DEF Inv, QueueInv
      <4> QED BY <1>5, <4>1, Zenon
    <3> QED BY <3>1, <3>2, Zenon
  <2> QED BY <2>3, <2>4, <2>5, Zenon DEF QueueInv
<1>8. PermitInv'
  <2>1. \A d \in Conns : conn'[d].at \in Served <=> conn[d].at \in Served
    BY <1>1, <1>2, <1>3, Zenon DEF Served
  <2> QED BY <1>1, <1>4, <2>1, Zenon DEF Inv, PermitInv
<1>9. AnswersAreReadable'
  <2>1. \A d \in Conns : conn'[d].at = "answered" => conn'[d] = conn[d]
    BY <1>2, <1>3, Zenon
  <2> QED BY <2>1, ZenonT(30) DEF Inv, AnswersAreReadable, read_frame, decode_frame
<1> QED BY <1>6, <1>7, <1>8, <1>9, Zenon DEF Inv

LEMMA InvStep == Inv /\ [Next]_vars => Inv'
<1> SUFFICES ASSUME Inv, [Next]_vars PROVE Inv'
  OBVIOUS
<1>1. CASE bind \/ Unlink \/ TakePermit \/ AcceptFails \/ BackoffEnds
  BY <1>1, LoopStep, Zenon
<1>2. CASE Crash \/ Stop
  BY <1>2, DaemonEndsStep, Zenon
<1>3. CASE Accept
  BY <1>3, AcceptStep, Zenon
<1>4. ASSUME NEW c \in Conns, Serve(c) \/ Apply(c) \/ WriteFails(c) \/ Release(c) PROVE Inv'
  BY <1>4, ConnStep, Served1Step, Zenon
<1>5. ASSUME NEW c \in Conns, connect(c) PROVE Inv'
  BY <1>5, ConnectStep, Zenon
<1>6. CASE UNCHANGED vars
  <2>1. UNCHANGED <<up, entry, loop, backoff, queue, permits, conn>>
    BY <1>6, Zenon DEF vars
  <2>2. TypeOK' /\ QueueInv'
    BY <2>1, Zenon DEF Inv, TypeOK, QueueInv
  <2>3. PermitInv'
    BY <2>1, Zenon DEF Inv, PermitInv
  <2>4. AnswersAreReadable'
    BY <2>1, ZenonT(30) DEF Inv, AnswersAreReadable, read_frame, decode_frame
  <2> QED BY <2>2, <2>3, <2>4, Zenon DEF Inv
<1> QED BY <1>1, <1>2, <1>3, <1>4, <1>5, <1>6, Zenon DEF Next

-----------------------------------------------------------------------------
(* Every variable of Control stays in its domain; the pause after a failed  *)
(* accept never exceeds ACCEPT_BACKOFF_MAX.                                 *)
THEOREM TypeCorrect == Spec => []TypeOK
<1>1. Inv => TypeOK
  BY Zenon DEF Inv
<1> QED BY <1>1, InvInit, InvStep, PTL DEF Spec

(* Whatever a peer is answered it can read: the frame is within MAX_FRAME   *)
(* and decodes, for every value of the limit.                               *)
THEOREM AnswersAreReadableThm == Spec => []AnswersAreReadable
<1>1. Inv => AnswersAreReadable
  BY Zenon DEF Inv
<1> QED BY <1>1, InvInit, InvStep, PTL DEF Spec

(* At most MAX_CONNECTIONS connections are served at once, through crashes, *)
(* refused peers, failed accepts and deadlines, for any number of peers.    *)
THEOREM ServedBoundedThm == Spec => []ServedBounded
<1>1. Inv => ServedBounded
  <2> SUFFICES ASSUME Inv PROVE ServedBounded
    OBVIOUS
  <2> DEFINE S == {c \in Conns : conn[c].at \in Served}
  <2>1. S \subseteq permits
    BY Zenon DEF Inv, PermitInv
  <2>2. IsFiniteSet(permits) /\ Cardinality(permits) <= MaxConnections
    BY Zenon DEF Inv, PermitInv
  <2> HIDE DEF S
  <2>3. IsFiniteSet(S) /\ Cardinality(S) <= Cardinality(permits)
    BY <2>1, <2>2, FS_Subset, Zenon
  <2>4. Cardinality(S) \in Nat
    BY <2>3, FS_CardinalityType, Zenon
  <2>5. Cardinality(permits) \in Nat /\ MaxConnections \in Nat
    BY <2>2, FS_CardinalityType, ControlAssumption, Zenon
  <2>6. Cardinality(S) <= MaxConnections
    BY <2>2, <2>3, <2>4, <2>5, SMTT(30)
  <2> USE DEF S
  <2> QED BY <2>3, <2>6, Zenon DEF ServedBounded
<1> QED BY <1>1, InvInit, InvStep, PTL DEF Spec

-----------------------------------------------------------------------------
(* Control implements Service *)

(* A connection is open for its peer from the queue to its end. *)
LEMMA CallStateIs ==
    /\ CallState("idle") = "none" /\ CallState("answered") = "answered"
    /\ CallState("closed") = "closed" /\ CallState("queued") = "open"
    /\ \A at \in Served : CallState(at) = "open"
BY Zenon DEF CallState, Served

(* What a step on one connection is to its peer. *)
LEMMA CallsIs ==
    ASSUME TypeOK, NEW c \in Conns, NEW r, Becomes(c, r)
    PROVE  /\ calls[c] = CallState(conn[c].at)
           /\ calls' = [calls EXCEPT ![c] = CallState(r.at)]
           /\ CallState(r.at) = calls[c] => calls' = calls
<1>1. /\ conn' \in [Conns -> Connection] /\ conn'[c] = r
      /\ \A d \in Conns : d # c => conn'[d] = conn[d]
  BY BecomesIs, Zenon
<1>2. /\ calls = [d \in Conns |-> CallState(conn[d].at)]
      /\ calls' = [d \in Conns |-> CallState(conn'[d].at)]
  BY Zenon DEF calls, CallState
<1>3. calls' = [calls EXCEPT ![c] = CallState(r.at)]
  BY <1>1, <1>2, Zenon
<1>4. CallState(r.at) = calls[c] => calls' = calls
  BY <1>1, <1>2, Zenon
<1> QED BY <1>2, <1>3, <1>4, Zenon

LEMMA ServiceStep ==
    Inv /\ [Next]_vars => [Abstract!ServiceNext]_(Abstract!service)
<1> SUFFICES ASSUME Inv, [Next]_vars
             PROVE  Abstract!ServiceNext \/ UNCHANGED <<up, entry, calls>>
  BY Zenon DEF Abstract!service
<1>t. TypeOK
  BY Zenon DEF Inv
<1>1. CASE bind
  <2>1. ~up /\ up' = TRUE /\ entry' = "live" /\ calls' = calls
    BY <1>1, Zenon DEF bind, calls, CallState
  <2> QED BY <2>1, Zenon DEF Abstract!ServiceNext, Abstract!Starts
<1>2. CASE Crash \/ Stop
  <2>1. /\ up /\ up' = FALSE /\ entry' \in {"none", IF entry = "live" THEN "stale" ELSE entry}
        /\ conn' = [c \in Conns |-> Closed(conn[c])]
    BY <1>2, Zenon DEF Crash, Stop, DaemonEnds
  <2>2. ASSUME NEW c \in Conns
        PROVE  CallState(conn'[c].at) = IF calls[c] = "open" THEN "closed" ELSE calls[c]
    <3>1. /\ conn[c] \in Connection /\ conn'[c] = Closed(conn[c])
          /\ calls[c] = CallState(conn[c].at)
      BY <1>t, <2>1, Zenon DEF TypeOK, calls
    <3>2. CASE conn'[c] = conn[c]
      <4>1. conn'[c].at \in {"idle", "answered", "closed"}
        BY <3>1, ClosedIs, Zenon
      <4> QED BY <3>1, <3>2, <4>1, CallStateIs, Zenon
    <3>3. CASE conn'[c] # conn[c]
      <4>1. conn'[c].at = "closed" /\ conn[c].at \in Served \cup {"queued"}
        BY <3>1, <3>3, ClosedIs, Zenon
      <4> QED BY <3>1, <4>1, CallStateIs, Zenon
    <3> QED BY <3>2, <3>3, Zenon
  <2>3. calls' = [c \in Conns |-> CallState(conn'[c].at)]
    BY Zenon DEF calls, CallState
  <2>4. calls' = [c \in Conns |-> IF calls[c] = "open" THEN "closed" ELSE calls[c]]
    BY <2>2, <2>3, Zenon
  <2> QED BY <2>1, <2>4, Zenon DEF Abstract!ServiceNext, Abstract!Stops
<1>3. CASE Unlink
  <2>1. entry' = "none" /\ up' = up /\ calls' = calls
    BY <1>3, Zenon DEF Unlink, calls, CallState
  <2> QED BY <2>1, Zenon DEF Abstract!ServiceNext, Abstract!RemoveName
<1>4. CASE TakePermit \/ AcceptFails \/ BackoffEnds \/ UNCHANGED vars
  BY <1>4, Zenon DEF TakePermit, AcceptFails, BackoffEnds, vars, calls, CallState
<1>5. CASE Accept
  <2> DEFINE c == Head(queue)
  <2>1. c \in Conns /\ conn[c].at = "queued" /\ UNCHANGED <<up, entry>>
    BY <1>5, AcceptIs, Zenon
  <2>2. PICK r : Becomes(c, r) /\ r.at \in {"reading", "closed"}
    BY <1>5, AcceptIs, Zenon
  <2> HIDE DEF c
  <2>a. /\ calls[c] = CallState(conn[c].at) /\ calls' = [calls EXCEPT ![c] = CallState(r.at)]
        /\ CallState(r.at) = calls[c] => calls' = calls
    BY <1>t, <2>1, <2>2, CallsIs, Zenon
  <2>3. calls[c] = "open" /\ (CallState(r.at) = "open" => calls' = calls)
    BY <2>1, <2>a, CallStateIs, Zenon
  <2>4. CallState(r.at) \in {"open", "closed"}
    BY <2>2, CallStateIs, Zenon DEF Served
  <2> QED BY <2>1, <2>a, <2>3, <2>4, Zenon DEF Abstract!ServiceNext, Abstract!End
<1>6. ASSUME NEW c \in Conns, Serve(c) \/ Apply(c) \/ WriteFails(c) \/ Release(c)
      PROVE  Abstract!ServiceNext \/ UNCHANGED <<up, entry, calls>>
  <2>1. PICK r : Served1(c, r)
    BY <1>6, ConnStep, Zenon
  <2>2. /\ Becomes(c, r) /\ UNCHANGED <<up, entry>>
        /\ \/ conn[c].at \in Served /\ r.at \in Served
           \/ conn[c].at \in Served /\ r.at \in {"answered", "closed"}
           \/ conn[c].at \in {"answered", "closed"} /\ r.at = "idle"
    BY <2>1, Zenon DEF Served1
  <2>3. /\ calls[c] = CallState(conn[c].at) /\ calls' = [calls EXCEPT ![c] = CallState(r.at)]
        /\ CallState(r.at) = calls[c] => calls' = calls
    BY <1>t, <2>2, CallsIs, Zenon
  <2>4. CASE conn[c].at \in Served /\ r.at \in Served
    BY <2>2, <2>3, <2>4, CallStateIs, Zenon
  <2>5. CASE conn[c].at \in Served /\ r.at \in {"answered", "closed"}
    <3>1. calls[c] = "open" /\ CallState(r.at) \in {"answered", "closed"}
      BY <2>3, <2>5, CallStateIs, Zenon
    <3> QED BY <2>2, <2>3, <3>1, Zenon DEF Abstract!ServiceNext, Abstract!End
  <2>6. CASE conn[c].at \in {"answered", "closed"} /\ r.at = "idle"
    <3>1. calls[c] # "none" /\ CallState(r.at) = "none"
      BY <2>3, <2>6, CallStateIs, Zenon
    <3> QED BY <2>2, <2>3, <3>1, Zenon DEF Abstract!ServiceNext, Abstract!Forget
  <2> QED BY <2>2, <2>4, <2>5, <2>6, Zenon
<1>7. ASSUME NEW c \in Conns, connect(c)
      PROVE  Abstract!ServiceNext
  <2>1. entry = "live" /\ conn[c].at = "idle" /\ UNCHANGED <<up, entry>>
    BY <1>7, ConnectIs, Zenon
  <2>2. PICK r : Becomes(c, r) /\ r.at = "queued"
    BY <1>7, ConnectIs, Zenon
  <2>a. calls[c] = CallState(conn[c].at) /\ calls' = [calls EXCEPT ![c] = CallState(r.at)]
    BY <1>t, <2>2, CallsIs, Zenon
  <2>3. calls[c] = "none" /\ calls' = [calls EXCEPT ![c] = "open"]
    BY <2>1, <2>2, <2>a, CallStateIs, Zenon
  <2> QED BY <2>1, <2>3, Zenon DEF Abstract!ServiceNext, Abstract!Open
<1> QED BY <1>1, <1>2, <1>3, <1>4, <1>5, <1>6, <1>7, Zenon DEF Next

(* Control implements Service step by step: whatever the loop, the tasks,   *)
(* the deadlines and a crash do, a peer sees its call opened, answered or   *)
(* closed once, and forgotten, in that order.  The fairness of Service      *)
(* needs ENABLED and stays with TLC.                                        *)
THEOREM ImplementsServiceSafely == Spec => StepsAreServiceSteps
<1>1. Init => Abstract!ServiceInit
  <2> SUFFICES ASSUME Init PROVE Abstract!ServiceInit
    OBVIOUS
  <2>1. NoConn.at = "idle"
    BY NoConnIs, NoFrameType, Zenon
  <2>2. calls = [c \in Conns |-> "none"]
    BY <2>1, CallStateIs, Zenon DEF Init, calls
  <2> QED BY <2>2, Zenon DEF Init, Abstract!ServiceInit
<1>2. Spec => Abstract!ServiceInit /\ [][Abstract!ServiceNext]_(Abstract!service)
  BY <1>1, ServiceStep, InvInit, InvStep, PTL DEF Spec
<1> QED BY <1>2, Zenon DEF StepsAreServiceSteps

=============================================================================
