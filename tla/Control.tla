------------------------------ MODULE Control -------------------------------
(***************************************************************************)
(* The control socket: the accept loop and the connections of              *)
(* src/src/control/server.rs, and the frames of src/src/protocol.rs.       *)
(*                                                                         *)
(* The loop takes a permit, then accepts, then hands the permit to the     *)
(* task that serves the connection.  A connection is one request and one   *)
(* response.  Reading, handling and writing each have a deadline, and a    *)
(* deadline may strike at any moment: no clock is kept here.  What a       *)
(* request does is the matter of Vault, Collections and Prompts.           *)
(***************************************************************************)
EXTENDS Integers, Sequences, FiniteSets

CONSTANTS
    Conns,          \* connections that may exist at once
    MaxConnections, \* MAX_CONNECTIONS: 16
    Backlog,        \* length of the listen queue
    BackoffStart, BackoffMax,   \* in units of 100 ms: 1 and 10
    MaxFrame,       \* MAX_FRAME
    RequestSize,    \* of a request
    Loop,           \* the accept loop, as the holder of a permit
    Me, Root, Overflow  \* uids: the daemon's, root's, and an unmapped one's

ASSUME ControlAssumption ==
    /\ MaxConnections \in Nat \ {0} /\ Backlog \in Nat \ {0}
    /\ BackoffStart \in Nat \ {0} /\ BackoffMax \in Nat /\ BackoffMax >= BackoffStart
    /\ MaxFrame \in Nat /\ RequestSize \in 1 .. MaxFrame - 1
    /\ Loop \notin Conns /\ Me # Root /\ Overflow \notin {Me, Root}

VARIABLES
    up,        \* whether the daemon runs; it owns the bus name, so there is one
    entry,     \* what is at the socket's path: "none", "stale" or "live"
    loop,      \* the accept loop: "permit", "accept" or "backoff"
    backoff,
    queue,     \* connections in the listen queue
    permits,   \* who holds a permit of `slots`
    conn       \* the connections

vars == <<up, entry, loop, backoff, queue, permits, conn>>

NoFrame == [len |-> 0, version |-> 0, body |-> 0, arrived |-> 0]
NoConn == [at |-> "idle", uid |-> Me, frame |-> NoFrame, reply |-> "none"]

Init ==
    /\ up \in BOOLEAN
    /\ entry = IF up THEN "live" ELSE "none"
    /\ loop = "permit" /\ backoff = 0 /\ queue = <<>> /\ permits = {}
    /\ conn = [c \in Conns |-> NoConn]

-----------------------------------------------------------------------------
(* Frames *)

PROTOCOL_VERSION == 5

(* A frame is the length before it, the version byte, the size of the       *)
(* message postcard finds in it, and how much of it reaches the reader.     *)
Framed(size) == [len |-> size + 1, version |-> PROTOCOL_VERSION, body |-> size,
                 arrived |-> size + 1]

(* Variant: the version byte is not counted. *)
CountBodyOnly(size) == IF size > MaxFrame THEN {} ELSE {Framed(size)}

encode_frame(size) == IF size + 1 > MaxFrame THEN {} ELSE {Framed(size)}

(* read_frame and read_frame_sync: the length is checked before the body is *)
(* read.  A body that stops short is waited for.                            *)
read_frame(frame) ==
    IF frame.len > MaxFrame THEN "FrameTooLarge"
    ELSE IF frame.arrived < frame.len THEN "waiting" ELSE "whole"

decode_frame(frame) ==
    CASE frame.len = 0 -> "Encoding"
      [] frame.len > 0 /\ frame.version # PROTOCOL_VERSION -> "UnsupportedVersion"
      [] frame.len > 0 /\ frame.version = PROTOCOL_VERSION ->
            IF frame.body > frame.len - 1 THEN "Encoding"
            ELSE IF frame.body < frame.len - 1 THEN "TrailingBytes" ELSE "message"

-----------------------------------------------------------------------------
(* The daemon comes and goes *)

(* bind: the listener is renamed over whatever is at the path. *)
bind ==
    /\ ~up /\ up' = TRUE /\ entry' = "live"
    /\ loop' = "permit" /\ backoff' = 0 /\ permits' = {}
    /\ UNCHANGED <<queue, conn>>

(* The end of the process closes what was open: a peer that waits for an    *)
(* answer reads the end of the stream.                                      *)
Closed(c) ==
    IF c.at \in {"idle", "answered", "closed"} THEN c ELSE [NoConn EXCEPT !.at = "closed"]

DaemonEnds(left) ==
    /\ up /\ up' = FALSE /\ entry' = left
    /\ loop' = "permit" /\ backoff' = 0 /\ queue' = <<>> /\ permits' = {}
    /\ conn' = [c \in Conns |-> Closed(conn[c])]

(* A crash leaves the socket's name behind; Drop removes it. *)
Crash == DaemonEnds(IF entry = "live" THEN "stale" ELSE entry)
Stop == DaemonEnds("none")

-----------------------------------------------------------------------------
(* The accept loop *)

next_accept_backoff(current) ==
    IF current = 0 THEN BackoffStart
    ELSE IF 2 * current > BackoffMax THEN BackoffMax ELSE 2 * current

uid_allowed(peer) == peer = Me \/ peer = Root

TakePermit ==
    /\ up /\ loop = "permit" /\ Cardinality(permits) < MaxConnections
    /\ permits' = permits \cup {Loop} /\ loop' = "accept"
    /\ UNCHANGED <<up, entry, backoff, queue, conn>>

(* The permit moves into the spawned task. *)
MovePermit(c) == permits' = (permits \ {Loop}) \cup {c}

Accept ==
    /\ up /\ loop = "accept" /\ queue # <<>>
    /\ queue' = Tail(queue) /\ backoff' = 0 /\ loop' = "permit"
    /\ LET c == Head(queue) IN
         \/ /\ uid_allowed(conn[c].uid)
            /\ MovePermit(c) /\ conn' = [conn EXCEPT ![c].at = "reading", ![c].uid = Me]
         \/ /\ ~uid_allowed(conn[c].uid)
            /\ permits' = permits \ {Loop} /\ conn' = [conn EXCEPT ![c] = Closed(@)]
    /\ UNCHANGED <<up, entry>>

(* accept(2) fails.  The permit is kept while the loop sleeps. *)
AcceptFails ==
    /\ up /\ loop = "accept"
    /\ backoff' = next_accept_backoff(backoff) /\ loop' = "backoff"
    /\ UNCHANGED <<up, entry, queue, permits, conn>>

BackoffEnds ==
    /\ up /\ loop = "backoff" /\ loop' = "permit" /\ permits' = permits \ {Loop}
    /\ UNCHANGED <<up, entry, backoff, queue, conn>>

-----------------------------------------------------------------------------
(* One connection: handle_connection *)

Hangup(c) ==
    /\ conn' = [conn EXCEPT ![c] = [NoConn EXCEPT !.at = "closed"]]
    /\ permits' = permits \ {c}
    /\ UNCHANGED <<up, entry, loop, backoff, queue>>

Goes(c, at, reply) ==
    /\ conn' = [conn EXCEPT ![c] = [NoConn EXCEPT !.at = at, !.reply = reply]]
    /\ UNCHANGED <<up, entry, loop, backoff, queue, permits>>

(* The request arrives.  One that cannot be decoded is answered with an     *)
(* error; one too long ends the connection.                                 *)
ReadRequest(c) ==
    /\ conn[c].at = "reading"
    /\ LET frame == conn[c].frame IN
         \/ read_frame(frame) = "whole" /\ decode_frame(frame) = "message" /\ Goes(c, "handling", "none")
         \/ read_frame(frame) = "whole" /\ decode_frame(frame) # "message" /\ Goes(c, "writing", "error")
         \/ read_frame(frame) = "FrameTooLarge" /\ Hangup(c)

(* The deadline for a peer that does not send all of its request. *)
ReadTimeout(c) ==
    conn[c].at = "reading" /\ read_frame(conn[c].frame) = "waiting" /\ Hangup(c)

(* The handler has done its work and returns. *)
Respond(c) == conn[c].at = "applied" /\ Goes(c, "writing", conn[c].reply)

(* Variant: a handler with no deadline. *)
NeverCut(c) == FALSE /\ UNCHANGED vars

(* The handler's deadline drops it at an await, before or after its effect. *)
HandlerTimeout(c) ==
    /\ conn[c].at \in {"handling", "applied"} /\ Goes(c, "writing", "error")

(* The frame of a response.  One that is too large is replaced by an error. *)
ResponseFrame(size) == IF encode_frame(size) # {} THEN encode_frame(size) ELSE encode_frame(1)

WriteResponse(c) ==
    /\ conn[c].at = "writing"
    /\ \E size \in {MaxFrame - 1, MaxFrame} :
       \E frame \in ResponseFrame(size) :
         conn' = [conn EXCEPT ![c] = [NoConn EXCEPT !.at = "answered", !.frame = frame]]
    /\ permits' = permits \ {c}
    /\ UNCHANGED <<up, entry, loop, backoff, queue>>

(* The peer stopped reading, or has gone. *)
WriteFails(c) == conn[c].at = "writing" /\ Hangup(c)

-----------------------------------------------------------------------------
(* The peers: call_inner *)

(* A request, one of another version, one with bytes after it, one that is  *)
(* too long, and one that never arrives in full.                            *)
Frames ==
    LET f == Framed(RequestSize)
    IN {f, [f EXCEPT !.version = 4], [f EXCEPT !.body = @ - 1],
        [f EXCEPT !.len = MaxFrame + 1, !.arrived = MaxFrame + 1], [f EXCEPT !.arrived = 1]}

(* connect(2) finds a listener with room in its queue.  A full queue is     *)
(* tried again until the deadline.                                          *)
connect(c) ==
    /\ entry = "live" /\ Len(queue) < Backlog /\ conn[c].at = "idle"
    /\ queue' = Append(queue, c)
    /\ \E uid \in {Me, Root, Overflow}, frame \in Frames :
         conn' = [conn EXCEPT ![c] = [NoConn EXCEPT !.at = "queued", !.uid = uid, !.frame = frame]]
    /\ UNCHANGED <<up, entry, loop, backoff, permits>>

(* The peer has its answer, or the end of the stream, and closes. *)
Release(c) ==
    /\ conn[c].at \in {"answered", "closed"}
    /\ conn' = [conn EXCEPT ![c] = NoConn]
    /\ UNCHANGED <<up, entry, loop, backoff, queue, permits>>

(* Somebody removes the socket's name: a login that took it for stale. *)
Unlink == entry' = "none" /\ UNCHANGED <<up, loop, backoff, queue, permits, conn>>

-----------------------------------------------------------------------------
(* handle_control returns a response: Ok or Error. *)
Apply(c) ==
    /\ conn[c].at = "handling"
    /\ \E reply \in {"ok", "error"} : Goes(c, "applied", reply)

Serve(c) ==
    \/ ReadRequest(c) \/ Respond(c) \/ WriteResponse(c)
    \/ ReadTimeout(c) \/ HandlerTimeout(c)

Next ==
    \/ bind \/ Crash \/ Stop \/ Unlink
    \/ TakePermit \/ Accept \/ AcceptFails \/ BackoffEnds
    \/ \E c \in Conns : Serve(c) \/ Apply(c) \/ WriteFails(c) \/ connect(c) \/ Release(c)

Spec == Init /\ [][Next]_vars

(* The loop and the connections are futures the runtime keeps polling, each *)
(* with a deadline.  A handler need not finish: only its deadline is sure   *)
(* to come.  An accept that is tried again and again succeeds at last.      *)
FairSpec ==
    /\ Spec
    /\ WF_vars(TakePermit) /\ WF_vars(BackoffEnds) /\ SF_vars(Accept)
    /\ \A c \in Conns : WF_vars(Serve(c))

-----------------------------------------------------------------------------
(* Properties *)

(* Every answer a peer gets, the largest that fits and the error in place   *)
(* of one that does not included, passes the limit and the decoder at its   *)
(* end: both ends count the version byte.                                   *)
AnswersAreReadable ==
    \A c \in Conns : conn[c].at = "answered" =>
       read_frame(conn[c].frame) = "whole" /\ decode_frame(conn[c].frame) = "message"

CallState(at) ==
    CASE at = "idle" -> "none"
      [] at \in {"answered", "closed"} -> at
      [] OTHER -> "open"

calls == [c \in Conns |-> CallState(conn[c].at)]

Abstract == INSTANCE Service WITH Calls <- Conns, call <- calls

(* The server implements Service, its fairness included: every connection   *)
(* the listener took is answered or closed, also when every slot is held by *)
(* a silent peer or by a handler that never finishes.                       *)
ImplementsService == Abstract!ServiceSpec

(* What it promises whatever the scheduling: the steps of Service and no    *)
(* others.                                                                  *)
StepsAreServiceSteps == Abstract!ServiceInit /\ [][Abstract!ServiceNext]_(Abstract!service)

-----------------------------------------------------------------------------
(* What the properties rest on *)

Frame == [len : Nat, version : Nat, body : Nat, arrived : Nat]

(* A connection its task has the permit for. *)
Served == {"reading", "handling", "applied", "writing"}

Connection ==
    [at : Served \cup {"idle", "queued", "answered", "closed"}, uid : {Me, Root, Overflow},
     frame : Frame, reply : {"none", "ok", "error"}]

(* Every variable stays in its domain; the pause after a failed accept is   *)
(* never longer than ACCEPT_BACKOFF_MAX.                                    *)
TypeOK ==
    /\ up \in BOOLEAN /\ entry \in {"none", "stale", "live"}
    /\ loop \in {"permit", "accept", "backoff"} /\ backoff \in 0..BackoffMax
    /\ queue \in Seq(Conns) /\ permits \subseteq Conns \cup {Loop}
    /\ conn \in [Conns -> Connection]

(* The listen queue holds every connection that waits, once. *)
QueueInv ==
    /\ \A i \in 1..Len(queue) : conn[queue[i]].at = "queued"
    /\ \A i, j \in 1..Len(queue) : queue[i] = queue[j] => i = j
    /\ \A c \in Conns : conn[c].at = "queued" => \E i \in 1..Len(queue) : queue[i] = c

(* Every permit is with the loop or with the task of one connection, and a  *)
(* daemon that is not running has neither.                                  *)
PermitInv ==
    /\ IsFiniteSet(permits) /\ Cardinality(permits) <= MaxConnections
    /\ \A c \in Conns : c \in permits <=> conn[c].at \in Served
    /\ Loop \in permits <=> loop # "permit"
    /\ entry = "live" => up
    /\ ~up => permits = {} /\ queue = <<>>

(* At most MAX_CONNECTIONS are "served at once; the rest wait in the listen *)
(* backlog": no path through the loop or a connection loses a permit or     *)
(* uses one twice.                                                          *)
ServedBounded ==
    LET serving == {c \in Conns : conn[c].at \in Served}
    IN IsFiniteSet(serving) /\ Cardinality(serving) <= MaxConnections
=============================================================================
