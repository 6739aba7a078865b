------------------------------ MODULE Pinentry ------------------------------
(***************************************************************************)
(* The dialog slot and the key-derivation cap: src/src/prompt/pinentry.rs, *)
(* src/src/kdf.rs and the three prompts that use them (dbus/prompt.rs).    *)
(*                                                                         *)
(* Every prompt that wants a dialog queues for one process-wide slot, with *)
(* a budget for the wait and another, shorter one for each dialog.  An     *)
(* unlock keeps the slot over its attempts and the derivations between     *)
(* them; a create gives it up before it derives.  Derivations share two    *)
(* permits with the requests of the control socket.                        *)
(*                                                                         *)
(* Time is counted in ticks.  Tick waits for every timer that has run out, *)
(* so a budget is never exceeded, and timers that run out together may be  *)
(* handled in any order.                                                   *)
(***************************************************************************)
EXTENDS Naturals, Sequences, FiniteSets, Functions

CONSTANTS
    Requests,      \* prompts that want a dialog
    Background,    \* derivations asked for through the control socket
    Kinds,         \* [Requests -> {"unlock", "create", "delete"}], to choose from
    NoOne,
    Hold,          \* DEFAULT_TIMEOUT, in ticks
    QueueFactor,   \* QUEUE_TIMEOUT_FACTOR: 5
    MaxTries,      \* attempts per unlock: 3
    MaxConcurrent, \* kdf::MAX_CONCURRENT: 2
    DeriveTime     \* longest derivation, in ticks

ASSUME PinentryAssumption ==
    /\ Requests \cap Background = {} /\ NoOne \notin Requests
    /\ Kinds \subseteq [Requests -> {"unlock", "create", "delete"}]
    /\ \A n \in {Hold, QueueFactor, MaxTries, MaxConcurrent, DeriveTime} :
          n \in Nat \ {0}

Jobs == Requests \cup Background

VARIABLES
    kind,       \* per request: which prompt it is
    at,         \* per job: "idle", "waiting" for the slot, "talking",
                \* "permit" (waiting for one), "deriving", "done"
    outcome,    \* per request: "none" yet, "busy", or "over" in another way
    tries,      \* per request: dialogs it has finished
    waited,     \* per request: ticks in the queue
    behind,     \* history, per request: how many were before it
    queue,      \* the dialog mutex: who waits, first come first served
    slot,       \* who holds it
    talk,       \* the conversation with the pinentry child
    held,       \* ticks the current dialog has taken
    permits,    \* kdf::SLOTS: who waits for a permit, in order
    inUse,      \* permits taken, by whom
    running     \* per derivation on the blocking pool: ticks it has taken

dialog == <<queue, slot, talk, held, waited, behind, tries>>
kdf == <<permits, inUse, running>>
vars == <<kind, at, outcome, dialog, kdf>>

NoTalk == [script |-> <<>>, result |-> "none"]

Init ==
    /\ kind \in Kinds
    /\ at = [j \in Jobs |-> "idle"]
    /\ outcome = [r \in Requests |-> "none"]
    /\ tries = [r \in Requests |-> 0]
    /\ waited = [r \in Requests |-> 0] /\ behind = [r \in Requests |-> 0]
    /\ queue = <<>> /\ slot = NoOne /\ talk = NoTalk /\ held = 0
    /\ permits = <<>> /\ inUse = {} /\ running = <<>>

-----------------------------------------------------------------------------
(* The conversation with the child *)

(* What is sent, in order.  SETUP stands for the greeting, SETDESC and      *)
(* SETPROMPT; OPTION for what command_lenient sends (OPTION, SETTITLE,      *)
(* SETERROR, SETREPEAT), whose ERR is ignored.                              *)
Script(k) == <<"SETUP", "OPTION", IF k = "delete" THEN "CONFIRM" ELSE "GETPIN", "BYE">>

(* read_reply: OK, a data line, ERR with the cancel code or another one, or *)
(* the end of the connection and lines that do not parse.                   *)
Replies == {"OK", "D", "CANCEL", "ERR", "EOF"}

(* What a reply to a command does to the conversation: the next one, or     *)
(* the error that ends it.  An ERR to CONFIRM is a no; to GETPIN it is a    *)
(* cancel or an error; whatever comes after BYE is ignored.                 *)
Answered(t, reply) ==
    LET command == Head(t.script)
        rest == [t EXCEPT !.script = Tail(@)]
        Ends(result) == [script |-> <<>>, result |-> result]
        Says(result) == [rest EXCEPT !.result = result]
    IN  CASE command = "BYE" -> rest
          [] command # "BYE" /\ reply = "EOF" -> Ends("error")
          [] command = "GETPIN" /\ reply = "D" -> [t EXCEPT !.result = "pin"]
          [] command = "GETPIN" /\ reply = "OK" ->
                Says(IF t.result = "pin" THEN "pin" ELSE "empty")
          [] command = "GETPIN" /\ reply = "CANCEL" -> Says("cancelled")
          [] command = "CONFIRM" /\ reply \in {"OK", "CANCEL", "ERR"} ->
                Says(IF reply = "OK" THEN "yes" ELSE "no")
          [] command = "OPTION" /\ reply \in {"OK", "CANCEL", "ERR"} -> rest
          [] command = "SETUP" /\ reply = "OK" -> rest
          [] OTHER -> Ends("error")

-----------------------------------------------------------------------------
(* The slot *)

(* Hands the slot to the first of a queue, or frees it. *)
Give(q) ==
    /\ queue' = IF q = <<>> THEN <<>> ELSE Tail(q)
    /\ slot' = IF q = <<>> THEN NoOne ELSE Head(q)
    /\ talk' = IF q = <<>> THEN NoTalk
               ELSE [script |-> Script(kind[Head(q)]), result |-> "none"]
    /\ held' = 0
    /\ LET Served(f) == [r \in Requests |-> IF q # <<>> /\ r = Head(q) THEN 0 ELSE f[r]]
       IN  waited' = Served(waited) /\ behind' = Served(behind)

(* What becomes of at when r goes to l and the slot is handed on from q. *)
AtAfter(r, l, q) ==
    [j \in Jobs |-> IF j = r THEN l
                    ELSE IF q # <<>> /\ j = Head(q) THEN "talking" ELSE at[j]]

(* Pinentry::session and the acquire of ask and confirm. *)
Acquire(r) ==
    /\ at[r] = "idle"
    /\ IF slot = NoOne
       THEN Give(<<r>>) /\ at' = [at EXCEPT ![r] = "talking"]
       ELSE /\ queue' = Append(queue, r)
            /\ at' = [at EXCEPT ![r] = "waiting"]
            /\ behind' = [behind EXCEPT ![r] = Len(queue) + 1]
            /\ UNCHANGED <<slot, talk, held, waited>>
    /\ UNCHANGED <<kind, outcome, tries, kdf>>

(* A future that is dropped gives up its one place in a queue. *)
CloseGap(q, i) == [k \in 1..(Len(q) - 1) |-> IF k < i THEN q[k] ELSE q[k + 1]]
Without(q, r) ==
    IF \E i \in DOMAIN q : q[i] = r THEN CloseGap(q, CHOOSE i \in DOMAIN q : q[i] = r) ELSE q

EqualBudgets == Hold                   \* variant: the wait is one dialog long
QueueBudget == Hold * QueueFactor

(* The queue budget runs out: Busy, and no dialog was shown. *)
Busy(r) ==
    /\ at[r] = "waiting"
    /\ waited[r] = QueueBudget
    /\ queue' = Without(queue, r)
    /\ at' = [at EXCEPT ![r] = "done"]
    /\ outcome' = [outcome EXCEPT ![r] = "busy"]
    /\ waited' = [waited EXCEPT ![r] = 0]
    /\ UNCHANGED <<kind, slot, talk, held, tries, behind, kdf>>

(* The holder is done with the slot: the guard is dropped. *)
Leave(r, l) ==
    /\ Give(queue)
    /\ at' = AtAfter(r, l, queue)
    /\ outcome' = [outcome EXCEPT ![r] = IF l = "done" THEN "over" ELSE @]
    /\ tries' = [tries EXCEPT ![r] = 0]
    /\ UNCHANGED kind

(* The next attempt runs on the slot the session already holds. *)
AskAgain(r) ==
    /\ talk' = [script |-> Script(kind[r]), result |-> "none"]
    /\ held' = 0
    /\ at' = [at EXCEPT ![r] = "talking"]
    /\ UNCHANGED <<queue, slot, waited, behind>>

-----------------------------------------------------------------------------
(* ask_held and confirm_held, and what the prompts make of the result *)

(* The child cannot be started, or it sends a line. *)
Reply(r, reply) ==
    /\ slot = r /\ at[r] = "talking"
    /\ talk.script # <<>>
    /\ talk' = Answered(talk, reply)
    /\ UNCHANGED <<kind, at, outcome, queue, slot, held, tries, waited, behind,
                   kdf>>

(* The conversation has ended.  A password goes to the derivation, with the *)
(* slot kept by an unlock and given up by a create, which refuses an empty  *)
(* one; everything else ends the prompt.                                    *)
Finish(r) ==
    /\ slot = r /\ at[r] = "talking"
    /\ talk.script = <<>>
    /\ \/ /\ kind[r] = "unlock" /\ talk.result \in {"pin", "empty"}
          /\ tries' = [tries EXCEPT ![r] = @ + 1]
          /\ at' = [at EXCEPT ![r] = "permit"]
          /\ permits' = Append(permits, r)
          /\ talk' = NoTalk /\ held' = 0
          /\ UNCHANGED <<kind, outcome, queue, slot, waited, behind>>
       \/ /\ kind[r] = "create" /\ talk.result = "pin"
          /\ Leave(r, "permit")
          /\ permits' = Append(permits, r)
       \/ /\ ~(kind[r] = "unlock" /\ talk.result \in {"pin", "empty"})
          /\ ~(kind[r] = "create" /\ talk.result = "pin")
          /\ Leave(r, "done")
          /\ UNCHANGED permits
    /\ UNCHANGED <<inUse, running>>

(* Variant: only the question is timed, not the set-up before it. *)
QuestionTimeout(r) ==
    /\ slot = r /\ at[r] = "talking"
    /\ talk.script # <<>>
    /\ Head(talk.script) \in {"GETPIN", "CONFIRM"}
    /\ held = Hold
    /\ Leave(r, "done")
    /\ UNCHANGED kdf

(* The dialog's budget runs out: the child is killed, and the prompt hears  *)
(* of a cancellation or a no, whatever the conversation had got to.         *)
DialogTimeout(r) ==
    /\ slot = r /\ at[r] = "talking"
    /\ talk.script # <<>>
    /\ held = Hold
    /\ Leave(r, "done")
    /\ UNCHANGED kdf

-----------------------------------------------------------------------------
(* kdf::run_bounded *)

BackgroundDerive(b) ==
    /\ at[b] = "idle"
    /\ at' = [at EXCEPT ![b] = "permit"]
    /\ permits' = Append(permits, b)
    /\ UNCHANGED <<kind, outcome, dialog, inUse, running>>

(* A permit is free and someone wants it. *)
MayStart == permits # <<>> /\ Cardinality(inUse) < MaxConcurrent

(* A permit is free: the first in line starts its work on the blocking      *)
(* pool.                                                                    *)
StartDerive ==
    /\ MayStart
    /\ LET j == Head(permits) IN
       /\ inUse' = inUse \cup {j}
       /\ at' = [at EXCEPT ![j] = "deriving"]
       /\ running' = [x \in DOMAIN running \cup {j} |->
                        IF x = j THEN 0 ELSE running[x]]
    /\ permits' = Tail(permits)
    /\ UNCHANGED <<kind, outcome, dialog>>

(* The work is done and its permit dropped.  An unlock that was given the   *)
(* wrong password asks again, up to MaxTries dialogs; work whose caller has *)
(* gone changes nothing else.                                               *)
EndDerive(j) ==
    /\ j \in DOMAIN running
    /\ running' = [x \in DOMAIN running \ {j} |-> running[x]]
    /\ inUse' = inUse \ {j}
    /\ \/ /\ at[j] # "deriving"
          /\ UNCHANGED <<kind, at, outcome, dialog>>
       \/ /\ at[j] = "deriving" /\ j \in Background
          /\ at' = [at EXCEPT ![j] = "done"]
          /\ UNCHANGED <<kind, outcome, dialog>>
       \/ /\ at[j] = "deriving" /\ j \in Requests /\ kind[j] = "create"
          /\ at' = [at EXCEPT ![j] = "done"]
          /\ outcome' = [outcome EXCEPT ![j] = "over"]
          /\ UNCHANGED <<kind, dialog>>
       \/ /\ at[j] = "deriving" /\ j \in Requests /\ kind[j] = "unlock"
          /\ \/ Leave(j, "done")
             \/ /\ tries[j] < MaxTries
                /\ AskAgain(j)
                /\ UNCHANGED <<kind, outcome, tries>>
    /\ UNCHANGED permits

(* Variant: the permit is held by the caller, and freed when it goes. *)
DropPermit(j) == inUse' = inUse \ {j} /\ UNCHANGED running

(* spawn_blocking cannot be cancelled: the work keeps its permit. *)
AbandonWork(j) == UNCHANGED <<inUse, running>>

-----------------------------------------------------------------------------
(* The prompt is dismissed or its client has gone: its future is dropped at *)
(* whatever it waits for, and with it the place in a queue or the slot.     *)
Abort(r) ==
    /\ at[r] \in {"waiting", "talking", "permit", "deriving"}
    /\ permits' = Without(permits, r)
    /\ AbandonWork(r)
    /\ IF slot = r
       THEN Leave(r, "done")
       ELSE /\ queue' = Without(queue, r)
            /\ at' = [at EXCEPT ![r] = "done"]
            /\ outcome' = [outcome EXCEPT ![r] = "over"]
            /\ waited' = [waited EXCEPT ![r] = 0]
            /\ behind' = [behind EXCEPT ![r] = 0]
            /\ UNCHANGED <<kind, slot, talk, held, tries>>

(* Time passes, unless a timer has run out or a task can go on: the         *)
(* scheduler takes no time.                                                 *)
Tick ==
    /\ ~MayStart
    /\ slot # NoOne /\ at[slot] = "talking" => talk.script # <<>>
    /\ \A r \in Requests : at[r] = "waiting" => waited[r] < QueueBudget
    /\ slot # NoOne /\ at[slot] = "talking" => held < Hold
    /\ \A j \in DOMAIN running : running[j] < DeriveTime
    /\ \E j \in Jobs : at[j] \in {"waiting", "talking"} \/ j \in DOMAIN running
    /\ waited' = [r \in Requests |-> IF at[r] = "waiting" THEN waited[r] + 1 ELSE waited[r]]
    /\ held' = IF slot # NoOne /\ at[slot] = "talking" THEN held + 1 ELSE held
    /\ running' = [j \in DOMAIN running |-> running[j] + 1]
    /\ UNCHANGED <<kind, at, outcome, queue, slot, talk, tries, behind, permits, inUse>>

Next ==
    \/ \E r \in Requests :
          \/ Acquire(r) \/ Busy(r) \/ Finish(r) \/ DialogTimeout(r) \/ Abort(r)
          \/ \E reply \in Replies : Reply(r, reply)
    \/ \E b \in Background : BackgroundDerive(b)
    \/ StartDerive
    \/ \E j \in Jobs : EndDerive(j)
    \/ Tick

Spec == Init /\ [][Next]_vars

(* Timers fire, time passes, and the blocking pool works.  No fairness for  *)
(* the user, the pinentry child or clients.                                 *)
FairSpec ==
    /\ Spec
    /\ WF_vars(Tick) /\ WF_vars(StartDerive)
    /\ \A r \in Requests : WF_vars(Busy(r)) /\ WF_vars(Finish(r))
                           /\ WF_vars(DialogTimeout(r))
    /\ \A j \in Jobs : WF_vars(EndDerive(j) /\ running[j] = DeriveTime)

-----------------------------------------------------------------------------
(* Properties *)

(* Every variable that orders the dialogs and derivations has its type. *)
TypeOK ==
    /\ kind \in [Requests -> {"unlock", "create", "delete"}]
    /\ at \in [Jobs -> {"idle", "waiting", "talking", "permit", "deriving", "done"}]
    /\ slot \in Requests \cup {NoOne}
    /\ queue \in Seq(Requests) /\ permits \in Seq(Jobs)

(* A line of jobs that wait for one thing, each of them once. *)
Line(q, where, state) == IsInjective(q) /\ \A i \in DOMAIN q : where[q[i]] = state

(* Who may use the slot: the job that talks, or an unlock that derives      *)
(* between two of its dialogs; a place in a queue is held once, by a job    *)
(* that waits there.                                                        *)
SlotInv ==
    /\ Line(queue, at, "waiting") /\ Line(permits, at, "permit")
    /\ slot = NoOne => queue = <<>>
    /\ \A r \in Requests :
          slot = r <=> \/ at[r] = "talking"
                       \/ kind[r] = "unlock" /\ at[r] \in {"permit", "deriving"}

(* A permit is taken for as long as the work it was taken for runs. *)
PermitInv == inUse = DOMAIN running /\ IsFiniteSet(inUse) /\ Cardinality(inUse) <= MaxConcurrent

(* QUEUE_TIMEOUT_FACTOR: "the guarantee is one full hostile occupancy       *)
(* survived".  A request with only the holder before it always gets its     *)
(* dialog, although the holder may let every attempt run to its timeout and *)
(* wait for derivations in between.                                         *)
FirstInLineIsServed ==
    \A r \in Requests : outcome[r] = "busy" => behind[r] > 1

(* Pinentry::session: an unlock that asks again does so before anyone else  *)
(* is shown a dialog, so a mistyped password never goes to the back of the  *)
(* queue.                                                                   *)
RetryKeepsItsTurn ==
    [][\A r \in Requests :
          at[r] \in {"permit", "deriving"} /\ kind[r] = "unlock"
             /\ at'[r] # "done" => slot' = r]_vars

(* MAX_CONCURRENT: never more arenas at once than permits, however often    *)
(* prompts are started and abandoned in the middle of a derivation.         *)
DerivationsBounded == Cardinality(DOMAIN running) <= MaxConcurrent

(* Nobody waits for ever: for the slot, for a dialog or for a permit, with  *)
(* a user who never answers and a child that never speaks.                  *)
EveryRequestEnds ==
    \A r \in Requests : at[r] # "idle" ~> at[r] = "done"

-----------------------------------------------------------------------------
(* What FirstInLineIsServed rests on *)

(* How many turns of the permits can go by before the holder's derivation   *)
(* starts, and the longest that one attempt of an unlock keeps the slot.    *)
Ahead == IF Cardinality(Jobs) > MaxConcurrent + 1 THEN Cardinality(Jobs) - MaxConcurrent - 1 ELSE 0
Turn == Hold + (Ahead + 1) * DeriveTime

(* The wait outlasts the longest occupancy. *)
EnoughBudget == IsFiniteSet(Jobs) /\ MaxTries * Turn < QueueBudget

(* Timers stay within their budgets; a derivation has its permit from its   *)
(* start to its end, also when its caller has gone.                         *)
ClockInv ==
    /\ waited \in [Requests -> Nat] /\ behind \in [Requests -> Nat] /\ tries \in [Requests -> Nat]
    /\ held \in 0..Hold /\ running \in [inUse -> 0..DeriveTime] /\ inUse \subseteq Jobs
    /\ \A j \in Jobs : at[j] = "deriving" => j \in inUse
    /\ \A j \in inUse : at[j] \in {"deriving", "done"}

(* Only the holder of the slot counts its attempts. *)
TriesInv ==
    /\ \A r \in Requests : slot # r => tries[r] = 0
    /\ slot # NoOne /\ at[slot] = "talking" => tries[slot] < MaxTries
    /\ slot # NoOne /\ at[slot] \in {"permit", "deriving"} => tries[slot] \in 1..MaxTries

(* Of a derivation that is the i-th in line for a permit, after w ticks:    *)
(* the permits ahead of it fit what is left of limit.                       *)
InTime(i, w, limit) ==
    IF Cardinality(inUse) < MaxConcurrent
    THEN /\ w <= limit
         /\ w + (i + Cardinality(inUse)) * DeriveTime <= limit + MaxConcurrent * DeriveTime
    ELSE \E j \in inUse : w + i * DeriveTime <= limit + running[j]

(* The latest that the derivation of the t-th attempt starts. *)
Before(t) == (t - 1) * Turn + Hold + Ahead * DeriveTime

(* The first in line has not waited longer than its holder's attempts so    *)
(* far, and the stage of the present one, account for.                      *)
Accounted(w) ==
    /\ at[slot] = "talking" => w <= tries[slot] * Turn + held
    /\ at[slot] = "permit" =>
          \E i \in DOMAIN permits : permits[i] = slot /\ InTime(i, w, Before(tries[slot]))
    /\ at[slot] = "deriving" => w <= Before(tries[slot]) + running[slot]

(* An unlock that keeps the slot while it wants a permit is in line for it. *)
HolderInLine ==
    slot # NoOne /\ at[slot] = "permit" => \E i \in DOMAIN permits : permits[i] = slot

FirstInv ==
    /\ DOMAIN outcome = Requests /\ HolderInLine
    /\ \A r \in Requests :
          /\ at[r] = "idle" => waited[r] = 0
          /\ at[r] = "waiting" => behind[r] > 0
          /\ at[r] = "waiting" /\ behind[r] = 1 =>
                queue # <<>> /\ queue[1] = r /\ Accounted(waited[r])
          /\ outcome[r] = "busy" => at[r] = "done" /\ behind[r] > 1
=============================================================================
