------------------------------ MODULE Service -------------------------------
(***************************************************************************)
(* What a peer of the control socket may rely on.  The daemon comes and    *)
(* goes.  A name that is left behind refuses connections, and a call that  *)
(* was accepted by the listener is answered or closed.  Control implements *)
(* this; the hooks of Login are written against it.                        *)
(***************************************************************************)
CONSTANT Calls

VARIABLES
    up,      \* whether the daemon runs; it owns the bus name, so there is one
    entry,   \* what is at the socket's path: "none", "stale" or "live"
    call     \* per call: "none", "open", "answered" or "closed"

service == <<up, entry, call>>

ServiceInit ==
    /\ up \in BOOLEAN
    /\ entry = IF up THEN "live" ELSE "none"
    /\ call = [c \in Calls |-> "none"]

(* bind renames the listener over whatever is at the path. *)
Starts == ~up /\ up' = TRUE /\ entry' = "live" /\ UNCHANGED call

(* The end of the process ends the calls.  A crash leaves the name behind;  *)
(* dropping the server removes it.                                          *)
Stops ==
    /\ up /\ up' = FALSE
    /\ entry' \in {"none", IF entry = "live" THEN "stale" ELSE entry}
    /\ call' = [c \in Calls |-> IF call[c] = "open" THEN "closed" ELSE call[c]]

Open(c) ==
    /\ entry = "live" /\ call[c] = "none"
    /\ call' = [call EXCEPT ![c] = "open"] /\ UNCHANGED <<up, entry>>

(* A request is answered, or the connection closed: its peer was refused,   *)
(* was too slow or sent too much.                                           *)
End(c) ==
    /\ call[c] = "open"
    /\ \E e \in {"answered", "closed"} : call' = [call EXCEPT ![c] = e]
    /\ UNCHANGED <<up, entry>>

(* The peer hangs up, with or without its answer. *)
Forget(c) ==
    /\ call[c] # "none"
    /\ call' = [call EXCEPT ![c] = "none"] /\ UNCHANGED <<up, entry>>

(* Somebody removes the name. *)
RemoveName == entry' = "none" /\ UNCHANGED <<up, call>>

ServiceNext ==
    \/ Starts \/ Stops \/ RemoveName
    \/ \E c \in Calls : Open(c) \/ End(c) \/ Forget(c)

(* Every call ends. *)
ServiceSpec ==
    /\ ServiceInit /\ [][ServiceNext]_service
    /\ \A c \in Calls : WF_service(End(c))
=============================================================================
