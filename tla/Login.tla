------------------------------- MODULE Login --------------------------------
(***************************************************************************)
(* Logins and password changes: the hooks of src/src/pam/, talking to the  *)
(* daemon through the control socket.                                      *)
(*                                                                         *)
(* A hook is one sequence of stages with one budget of time.  Past the     *)
(* headers it works as the target user, in a forked child when the caller  *)
(* is root.  The child tells its parent two bytes; the parent waits for    *)
(* them no longer than the budget lasts.  Each hook has a clock of its own *)
(* and a stage takes no time or as long as it may.  The daemon comes and   *)
(* goes, other peers use the socket, and a request may be served after the *)
(* hook has stopped waiting for it.  What it does to a vault is the matter *)
(* of Vault and Prompts.                                                   *)
(***************************************************************************)
EXTENDS Service, Pam

CONSTANTS
    Hooks,         \* hooks at work at the same time
    Directories,   \* vault directories to choose from: id -> file
    Arguments,     \* module arguments to choose from
    Database,      \* entries of the password database to choose from
    Callers,       \* effective uids of the calling process to choose from
    HookKinds,     \* "session", "password"
    HookBudget, CallBudget, StartTimeout, ReapTimeout,   \* 8, 3, 5 and 2 seconds
    DeriveTime,    \* a key derivation at the login ceiling
    User           \* the uid of the user who logs in

ASSUME LoginAssumption ==
    /\ Hooks = Calls /\ User # 0
    /\ \A n \in {HookBudget, CallBudget, StartTimeout, ReapTimeout} : n \in Nat \ {0}
    /\ DeriveTime \in Nat
    /\ HookKinds \subseteq {"session", "password"}

(* A directory is finite and its ids are ordered, so that they can be       *)
(* listed one after the other.                                              *)
ASSUME ListingAssumption ==
    \A files \in Directories, listable \in BOOLEAN, args \in Arguments :
      LET configured == parse_options(args).collection
      IN all_vault_ids(files, listable, configured)
           \in Seq(list_vault_collections(files, listable) \cup {configured})

VARIABLES
    dir,       \* the socket's directory: "absent", "safe" or "unsafe"
    hook       \* the hooks

vars == <<service, dir, hook>>

Fresh(kind) ==
    [kind |-> kind, pc |-> "auth", at |-> 0, stash |-> FALSE, files |-> <<>>, todo |-> <<>>,
     vaults |-> <<>>,
     auto |-> TRUE, target |-> 0, euid |-> 0, child |-> FALSE, held |-> FALSE,
     stage |-> "first", left |-> 0, err |-> "ok",
     first |-> <<>>, success |-> <<>>, header |-> FALSE, whole |-> TRUE,
     ready |-> {}, tried |-> {}, answered |-> {}, decided |-> <<>>, outcome |-> <<>>]

Init ==
    /\ ServiceInit
    /\ dir = IF up THEN "safe" ELSE "absent"
    /\ hook \in {[l \in Hooks |-> Fresh(kinds[l])] : kinds \in [Hooks -> HookKinds]}

-----------------------------------------------------------------------------
(* Time *)

remaining(l) == hook[l].at < HookBudget

(* Variant: a stage has its own limit only. *)
Uncapped(l, max) == max

capped(l, max) == Min({HookBudget - hook[l].at, max})

(* A stage of a forked child that would outlast the budget is cut by the    *)
(* parent (Kill) instead.                                                   *)
Takes(l, d) == ~hook[l].child \/ hook[l].at + d <= HookBudget

DirOf == [type |-> "dir", uid |-> User, private |-> dir = "safe"]

(* SocketDir::open refuses nothing that is not there. *)
DirRefused == dir # "absent" /\ ~runtime_subdir_is_safe(DirOf, User)

-----------------------------------------------------------------------------
(* The end of a hook *)

(* The hook returns.  ClearStash runs on every path; the session hook       *)
(* disarms it when there was nothing to clear.                              *)
Returned(h, o) ==
    [h EXCEPT !.pc = "done", !.outcome = o,
              !.stash = h.stash /\ h.kind = "session" /\ ~clears_stash(o),
              !.files = <<>>, !.todo = <<>>, !.vaults = <<>>, !.err = "ok", !.left = 0,
              !.stage = "first", !.first = <<>>, !.success = <<>>,
              !.auto = TRUE, !.held = FALSE, !.euid = 0, !.target = 0]

Return(l, o) == hook' = [hook EXCEPT ![l] = Returned(@, o)] /\ UNCHANGED <<service, dir>>

(* What the parent makes of a child that told it nothing. *)
NoReport(h) == IF h.kind = "session" THEN <<"Failed">> ELSE chauthtok_outcome_from_report(<<>>)

Local(l, h) == hook' = [hook EXCEPT ![l] = h] /\ UNCHANGED <<service, dir>>

(* catch_unwind: a panic ends the hook with nothing stashed.  In a child it  *)
(* ends the child.                                                          *)
Panic(l) ==
    /\ hook[l].pc \notin {"auth", "done"} /\ ~hook[l].child
    /\ Return(l, <<"Panic">>)

-----------------------------------------------------------------------------
(* Before the fork *)

(* The token libpam has, has not, or will not hand over. *)
authenticate_decision(token) ==
    CASE token = "some" -> "Stash" [] token = "none" -> "NoToken" [] OTHER -> "Unavailable"

Authenticate(l) ==
    /\ hook[l].pc = "auth"
    /\ \E token \in {"some", "none", "error"} :
         Local(l, [hook[l] EXCEPT !.pc = "hook", !.stash = authenticate_decision(token) = "Stash"])

(* Resolve the target, open the directory, list the vaults. *)
Prepare(l, refused) ==
    \E args \in Arguments, pw \in Database, euid \in Callers, listable \in BOOLEAN, files \in Directories :
      LET opts == parse_options(args)
          target == target_for(pw, opts, euid)
      IN \/ target = {} /\ Return(l, <<"NoTarget">>)
         \/ /\ target # {} /\ DirRefused /\ Return(l, refused)
         \/ /\ target # {} /\ ~DirRefused
            /\ Local(l, [hook[l] EXCEPT
                 !.pc = "headers", !.auto = opts.auto_start, !.held = dir # "absent",
                 !.target = CHOOSE t \in target : TRUE, !.euid = euid,
                 !.todo = all_vault_ids(files, listable, opts.collection),
                 !.ready = {id \in Range(all_vault_ids(files, listable, opts.collection)) :
                              \E t \in target : vault_header(files[id], t)},
                 !.files = files])

open_session(l) ==
    /\ hook[l].pc = "hook" /\ hook[l].kind = "session"
    /\ \/ ~hook[l].stash /\ Return(l, <<"NoPassword">>)
       \/ hook[l].stash /\ Prepare(l, <<"RefusedSocketDir">>)

(* The preliminary pass and a missing password do nothing. *)
chauthtok(l) ==
    /\ hook[l].pc = "hook" /\ hook[l].kind = "password"
    /\ \/ \E o \in {"Prelim", "Missing"} : Return(l, <<o>>)
       \/ Prepare(l, <<"RefusedSocketDir">>)

(* The next header of the session hook.  A read that stalls takes what is   *)
(* left of the budget.                                                      *)
ReadHeader(l) ==
    /\ hook[l].pc = "headers" /\ hook[l].kind = "session" /\ hook[l].todo # <<>>
    /\ LET h == hook[l]
           id == Head(h.todo)
           file == hook[l].files[id]
       IN Local(l, IF ~remaining(l) THEN [h EXCEPT !.todo = <<>>]
                   ELSE [h EXCEPT !.todo = Tail(h.todo),
                                  !.at = IF Stalls(file, h.target) THEN HookBudget ELSE @,
                                  !.vaults = IF vault_header(file, h.target) THEN Append(@, id) ELSE @])

Built(h, time) ==
    [h EXCEPT !.at = @ + 2 * time, !.todo = Tail(@), !.header = TRUE,
              !.vaults = Append(@, Head(h.todo))]

(* Variant: a request that cannot be built is left out in silence. *)
ForgetSkipped(h, time, fails) ==
    IF fails \/ h.at + time >= HookBudget
    THEN [h EXCEPT !.at = @ + time, !.todo = Tail(@), !.header = TRUE]
    ELSE Built(h, time)

(* change_key_request: two derivations, each started only within the        *)
(* budget; either may fail, and so may the generation of a salt.  A request *)
(* that cannot be built leaves the change incomplete.                       *)
change_key_request(h, time, fails) ==
    IF fails \/ h.at + time >= HookBudget
    THEN [h EXCEPT !.at = @ + time, !.todo = Tail(@), !.header = TRUE, !.whole = FALSE]
    ELSE Built(h, time)

(* The next header of the password hook, and the request made from it. *)
ReadAndBuild(l) ==
    /\ hook[l].pc = "headers" /\ hook[l].kind = "password" /\ hook[l].todo # <<>>
    /\ LET h == hook[l]
           file == hook[l].files[Head(h.todo)]
       IN \/ /\ ~remaining(l)
             /\ Local(l, [h EXCEPT !.todo = <<>>, !.whole = FALSE])
          \/ /\ remaining(l) /\ ~vault_header(file, h.target)
             /\ Local(l, [h EXCEPT !.todo = Tail(@),
                                   !.at = IF Stalls(file, h.target) THEN HookBudget ELSE @])
          \/ /\ remaining(l) /\ vault_header(file, h.target)
             /\ \E time \in {0, DeriveTime}, fails \in BOOLEAN :
                  Local(l, change_key_request(h, time, fails))

(* Root facing another user forks.  A process that cannot fork gives up. *)
Begin(l) ==
    LET h == hook[l]
        forks == privileges_to_drop(h.euid, h.target)
    IN \/ Local(l, [h EXCEPT !.pc = "tail", !.child = forks, !.left = capped(l, CallBudget)])
       \/ forks /\ Return(l, NoReport(h))

HeadersDone(l) ==
    /\ hook[l].pc = "headers" /\ hook[l].todo = <<>>
    /\ LET h == hook[l] IN
         \/ /\ h.vaults = <<>>
            /\ Return(l, IF h.kind = "password" /\ h.header THEN <<"NoRequest">>
                         ELSE <<"NoVaultHeader">>)
         \/ h.vaults # <<>> /\ ~remaining(l) /\ Return(l, <<"BudgetSpent">>)
         \/ h.vaults # <<>> /\ remaining(l) /\ Begin(l)

-----------------------------------------------------------------------------
(* One call: unlock_once and password_socket_tail *)

(* connect_path: the name must be a socket, if its directory is held.  The  *)
(* look may be slow. *)
connect_path(l) ==
    /\ hook[l].pc = "check"
    /\ LET h == hook[l]
           next == IF h.kind = "session" THEN "derive" ELSE "connect"
       IN \/ h.held /\ entry = "none" /\ Local(l, [h EXCEPT !.pc = "decide", !.err = "NotFound"])
          \/ h.held /\ entry # "none" /\ Local(l, [h EXCEPT !.pc = "decide", !.err = "NotSocket"])
          \/ /\ h.held => entry # "none"
             /\ \E d \in {0, 1} : Takes(l, d) /\ Local(l, [h EXCEPT !.pc = next, !.at = @ + d])

(* derive: not started once the budget is spent, and then nothing is sent,  *)
(* which counts as done.                                                    *)
derive(l) ==
    /\ hook[l].pc = "derive"
    /\ LET h == hook[l] IN
         \/ ~remaining(l) /\ Local(l, [h EXCEPT !.pc = "decide", !.err = "ok"])
         \/ /\ remaining(l)
            /\ \E d \in {0, DeriveTime} :
                 Takes(l, d) /\ Local(l, [h EXCEPT !.pc = "connect", !.at = @ + d])

(* The connect fails as it may, or the request is on its way.  A listener   *)
(* with no room takes all the time of the call.                             *)
Send(l) ==
    /\ hook[l].pc = "connect"
    /\ LET h == hook[l]
           failed(e, d) == [h EXCEPT !.pc = "decide", !.err = e, !.at = @ + d]
       IN \/ entry = "none" /\ Local(l, failed("NotFound", 0))
          \/ entry = "stale" /\ Local(l, failed("Refused", 0))
          \/ entry = "live" /\ Takes(l, h.left) /\ Local(l, failed("TimedOut", h.left))
          \/ Open(l) /\ hook' = [hook EXCEPT ![l].pc = "answer"] /\ UNCHANGED dir

(* The answer, the end of the stream, or the deadline of the call. *)
Receive(l) ==
    /\ hook[l].pc = "answer"
    /\ LET h == hook[l]
           got(e, d) == [h EXCEPT !.pc = "decide", !.err = e, !.at = @ + d]
       IN /\ \/ /\ call[l] = "answered"
                /\ hook' = [hook EXCEPT ![l] = [got("ok", 0) EXCEPT !.answered = @ \cup {Head(h.vaults)}]]
             \/ call[l] = "closed" /\ hook' = [hook EXCEPT ![l] = got("Reset", 0)]
             \/ /\ call[l] = "open" /\ Takes(l, h.left)
                /\ hook' = [hook EXCEPT ![l] = got("Deadline", h.left)]
          /\ Forget(l) /\ UNCHANGED dir

-----------------------------------------------------------------------------
(* The session's tail *)

(* Variant: the first vault that reaches the daemon is enough. *)
StopAtFirst(h, o) ==
    [h EXCEPT !.pc = "tail", !.vaults = IF Reached(o) THEN <<>> ELSE Tail(@),
              !.success = IF Reached(o) /\ @ = <<>> THEN o ELSE @,
              !.first = IF ~Reached(o) /\ @ = <<>> THEN o ELSE @]

(* One vault is over, and session_socket_tail_all goes on to the next. *)
VaultOver(h, o) ==
    [h EXCEPT !.pc = "tail", !.vaults = Tail(@),
              !.success = IF Reached(o) /\ @ = <<>> THEN o ELSE @,
              !.first = IF ~Reached(o) /\ @ = <<>> THEN o ELSE @]

(* What is reported when the loop ends. *)
Decided(h) ==
    IF h.kind = "password"
    THEN IF h.success = <<>> /\ h.whole THEN <<"Sent">> ELSE <<"SendFailed">>
    ELSE IF h.success # <<>> THEN h.success
    ELSE IF h.first # <<>> THEN h.first
    ELSE <<"BudgetSpent">>

TailOver(l) ==
    LET h == hook[l] IN
    IF h.child THEN Local(l, [h EXCEPT !.pc = "report", !.vaults = <<>>, !.decided = Decided(h)])
    ELSE Local(l, [Returned(h, Decided(h)) EXCEPT !.decided = Decided(h)])

(* The session looks at the budget before each vault; the password hook     *)
(* sends every request with the deadline it computed once.                  *)
NextVault(l) ==
    /\ hook[l].pc = "tail"
    /\ LET h == hook[l]
           begin == [h EXCEPT !.pc = "check", !.tried = @ \cup {Head(h.vaults)}]
       IN \/ h.vaults = <<>> /\ TailOver(l)
          \/ h.vaults # <<>> /\ h.kind = "password" /\ Local(l, begin)
          \/ h.vaults # <<>> /\ h.kind = "session" /\ ~remaining(l) /\ TailOver(l)
          \/ /\ h.vaults # <<>> /\ h.kind = "session" /\ remaining(l)
             /\ Local(l, [begin EXCEPT !.stage = "first", !.left = capped(l, CallBudget)])

(* A reset is tried once more, if there is time and the directory is still  *)
(* the one that was validated.                                              *)
RetryReset(l) ==
    LET h == hook[l] IN
    IF ~remaining(l) THEN Local(l, VaultOver(h, <<"NoCallBudget">>))
    ELSE IF DirRefused THEN Local(l, VaultOver(h, <<"Failed">>))
    ELSE Local(l, [h EXCEPT !.pc = "check", !.stage = "again", !.left = capped(l, CallBudget),
                            !.held = dir # "absent"])

(* start_and_retry, up to the unlink. *)
StartPath(l) ==
    LET h == hook[l] IN
    IF stale_socket_action(h.err) = "none" THEN Local(l, VaultOver(h, <<"ConnectNotStale">>))
    ELSE IF ~remaining(l) THEN Local(l, VaultOver(h, <<"Started", <<"NoStartBudget">>>>))
    ELSE Local(l, [h EXCEPT !.pc = "clear"])

(* What session_socket_tail does with the result of a call.  The password   *)
(* hook keeps a failed send in `success`.                                   *)
Decide(l) ==
    /\ hook[l].pc = "decide"
    /\ LET h == hook[l] IN
         \/ /\ h.kind = "password"
            /\ Local(l, [h EXCEPT !.pc = "tail", !.vaults = Tail(@),
                                  !.success = IF h.err = "ok" THEN @ ELSE <<"SendFailed">>])
         \/ /\ h.kind = "session" /\ h.stage = "start"
            /\ Local(l, VaultOver(h, <<"Started", <<"Retried">>>>))
         \/ /\ h.kind = "session" /\ h.stage # "start"
            /\ \/ h.err = "ok" /\ Local(l, VaultOver(h, <<"Attempted">>))
               \/ h.err \in ConnectErrors /\ h.auto /\ StartPath(l)
               \/ h.stage = "first" /\ retryable_reset(h.err) /\ RetryReset(l)
               \/ /\ h.err # "ok" /\ ~(h.err \in ConnectErrors /\ h.auto)
                  /\ ~(h.stage = "first" /\ retryable_reset(h.err))
                  /\ Local(l, VaultOver(h, <<"Failed">>))

(* start_after_clearing.  Without a directory there is nothing to unlink. *)
Clear(l) ==
    /\ hook[l].pc = "clear"
    /\ LET h == hook[l]
           unlink == stale_socket_action(h.err) = "Unlink" /\ h.held
       IN \/ ~unlink /\ Local(l, [h EXCEPT !.pc = "systemctl"])
          \/ /\ unlink /\ RemoveName
             /\ hook' = [hook EXCEPT ![l].pc = "systemctl"]
             /\ UNCHANGED dir
          \/ unlink /\ Local(l, VaultOver(h, <<"Started", <<"StaleSocketStuck">>>>))

(* systemctl runs for as long as it may, and may have to be reaped.  The    *)
(* user's name is known, since the target was found by it.                  *)
start_daemon(l) ==
    /\ hook[l].pc = "systemctl"
    /\ \E d \in {0, capped(l, StartTimeout), capped(l, StartTimeout) + ReapTimeout} :
         /\ Takes(l, d)
         /\ Local(l, [hook[l] EXCEPT !.pc = "wait", !.at = @ + d])

(* wait_for, the re-check, and the second attempt. *)
WaitForSocket(l) ==
    /\ hook[l].pc = "wait"
    /\ LET h == hook[l]
           left == IF remaining(l) THEN capped(l, StartTimeout) ELSE 0
           notRetried(w, r, d) == [VaultOver(h, <<"Started", <<"NotRetried", w, r>>>>) EXCEPT !.at = @ + d]
       IN \/ /\ entry = "none" \/ ~remaining(l)
             /\ Takes(l, left) /\ Local(l, notRetried(FALSE, "None", left))
          \/ /\ entry # "none" /\ remaining(l)
             /\ \E d \in {0, left} :
                  /\ Takes(l, d)
                  /\ Local(l, IF DirRefused THEN notRetried(TRUE, "False", d)
                              ELSE IF h.at + d >= HookBudget
                              THEN [VaultOver(h, <<"Started", <<"RetryBudgetSpent">>>>) EXCEPT !.at = @ + d]
                              ELSE [h EXCEPT !.at = @ + d, !.pc = "check", !.stage = "start",
                                             !.held = dir # "absent",
                                             !.left = Min({HookBudget - h.at - d, CallBudget})])

-----------------------------------------------------------------------------
(* Parent and child *)

(* The parent has the two bytes and reaps the child, which may take two     *)
(* attempts.                                                                *)
Report(l) ==
    /\ hook[l].pc = "report"
    /\ LET h == hook[l]
           code == session_outcome_code(h.decided)
           o == IF h.kind = "session" THEN session_outcome_from_codes(code[1], code[2])
                ELSE chauthtok_outcome_from_report(<<chauthtok_outcome_code(h.decided)>>)
       IN \E d \in {0, ReapTimeout, 2 * ReapTimeout} :
            Local(l, [Returned(h, o) EXCEPT !.at = @ + d])

AtWork(l) == hook[l].child /\ hook[l].pc # "done"

(* The child panics or is killed by another: the pipe ends. *)
ChildDies(l) ==
    /\ AtWork(l)
    /\ \E d \in {0, ReapTimeout} : Local(l, [Returned(hook[l], NoReport(hook[l])) EXCEPT !.at = @ + d])

(* Variant: the parent waits for the report as long as it takes. *)
NeverKill(l) == FALSE /\ UNCHANGED vars

(* wait_for_report: the budget is spent and the child is killed. *)
Kill(l) ==
    /\ AtWork(l)
    /\ \E d \in {0, ReapTimeout} :
         Local(l, [Returned(hook[l], NoReport(hook[l])) EXCEPT !.at = HookBudget + d])

-----------------------------------------------------------------------------
(* The daemon, and the user's own doings *)

(* bind creates the directory, or makes it private again. *)
DaemonStarts == Starts /\ dir' = "safe" /\ UNCHANGED hook

DaemonStops == Stops /\ UNCHANGED <<dir, hook>>

CallEnds(l) == End(l) /\ UNCHANGED <<dir, hook>>

(* The user changes the mode of the directory. *)
ChangeDir == dir = "safe" /\ dir' = "unsafe" /\ UNCHANGED <<service, hook>>

HookStep(l) ==
    \/ Authenticate(l) \/ open_session(l) \/ chauthtok(l)
    \/ ReadHeader(l) \/ ReadAndBuild(l) \/ HeadersDone(l)
    \/ connect_path(l) \/ derive(l) \/ Send(l) \/ Receive(l)
    \/ NextVault(l) \/ Decide(l) \/ Clear(l) \/ start_daemon(l) \/ WaitForSocket(l)
    \/ Report(l)

Next ==
    \/ \E l \in Hooks : HookStep(l) \/ Panic(l) \/ ChildDies(l) \/ Kill(l) \/ CallEnds(l)
    \/ DaemonStarts \/ DaemonStops \/ ChangeDir

Spec == Init /\ [][Next]_vars

(* A hook is a running process whose every wait has a deadline. *)
FairSpec == Spec /\ \A l \in Hooks : WF_vars(HookStep(l)) /\ WF_vars(Kill(l))

-----------------------------------------------------------------------------
(* Properties *)

(* Once the session or the password hook has returned, by whatever path, a  *)
(* panic and a killed child included, the login password that auth stashed  *)
(* is gone.                                                                 *)
StashGone == \A l \in Hooks : hook[l].pc = "done" => ~hook[l].stash

(* A session that reports having reached the daemon has tried every vault   *)
(* whose header it could read, unless the budget ran out on the way.        *)
EveryVaultTried ==
    \A l \in Hooks :
      LET h == hook[l]
      IN h.pc = "done" /\ Reached(h.outcome) /\ h.at < HookBudget => h.tried = h.ready

(* A password change reported as sent was answered by the daemon for every  *)
(* vault whose header could be read: a vault that was skipped, or whose     *)
(* request could not be built or delivered, shows in the outcome.           *)
SentIsDelivered ==
    \A l \in Hooks : hook[l].outcome = <<"Sent">> => hook[l].answered = hook[l].ready

(* A hook takes no longer than its budget and either a slow look at the     *)
(* name and one derivation that had begun, or the time it takes to reap a   *)
(* child.  A password hook that does not fork has no parent to cut it, and  *)
(* is left out.                                                             *)
Overrun == Max({1 + DeriveTime, 2 * ReapTimeout})
HookIsBounded ==
    \A l \in Hooks :
      hook[l].kind = "session" \/ hook[l].child => hook[l].at <= HookBudget + Overrun

(* Every hook returns: a login waits neither for a daemon that does not     *)
(* start or answer nor for a child that never reports.                      *)
HookReturns == \A l \in Hooks : <>(hook[l].pc = "done")

(* The name of a daemon's socket stays while the daemon runs: only a socket *)
(* nobody listens on is unlinked (stale_socket_action).  Fails when a       *)
(* daemon binds the name between a refused connect and the unlink.          *)
LiveSocketKept == [][up /\ up' /\ entry = "live" => entry' = "live"]_vars

-----------------------------------------------------------------------------
(* What the properties rest on *)

(* The ids a directory and a module argument give. *)
Ids == (UNION {DOMAIN files : files \in Directories})
       \cup {parse_options(args).collection : args \in Arguments}

(* The stages of one call, with the daemon's start and the retry. *)
Calling == {"check", "derive", "connect", "answer", "decide", "clear", "systemctl", "wait"}

(* What the tail of a session may decide. *)
TailOutcomes == {o \in SessionOutcomes : clears_stash(o)}

Outcomes ==
    {<<>>} \cup SessionOutcomes
    \cup {<<o>> : o \in {"Panic", "Prelim", "Missing", "NoRequest", "Sent", "SendFailed"}}

Kinds == {"session", "password"}
Stages == {"auth", "hook", "headers", "tail", "report", "done"} \cup Calling
Attempts == {"first", "again", "start"}
Results == {"ok", "Reset", "Deadline"} \cup ConnectErrors
Files == Directories \cup {<<>>}
Uids == {0} \cup Callers \cup {pw.uid : pw \in Database}
AutoStarts == {TRUE} \cup {parse_options(args).auto_start : args \in Arguments}

Hook ==
    [kind : Kinds, pc : Stages, at : Nat, stash : BOOLEAN, files : Files, todo : Seq(Ids),
     vaults : Seq(Ids), auto : AutoStarts, target : Uids, euid : Uids, child : BOOLEAN,
     held : BOOLEAN, stage : Attempts, left : Nat, err : Results,
     first : Outcomes, success : Outcomes, header : BOOLEAN, whole : BOOLEAN,
     ready : SUBSET Ids, tried : SUBSET Ids, answered : SUBSET Ids,
     decided : Outcomes, outcome : Outcomes]

TypeOK == hook \in [Hooks -> Hook]

(* What a hook keeps in each stage.  A stash is left only while the hook    *)
(* runs, and no outcome of a tail is the one that keeps it.                 *)
StashInv(h) ==
    /\ h.pc = "done" => ~h.stash
    /\ h.kind = "session" => {h.first, h.success} \subseteq TailOutcomes \cup {<<>>}
    /\ h.kind = "session" /\ h.pc = "report" => h.decided \in TailOutcomes

(* The vaults of the files yet to be read. *)
Unread(h) == {id \in Range(h.todo) : vault_header(h.files[id], h.target)}

(* A vault of a session is unread, in line or tried, until the budget is    *)
(* spent.                                                                   *)
TriedInv(h) ==
    /\ h.pc \in {"auth", "hook"} => h.vaults = <<>>
    /\ h.pc \in {"auth", "hook", "headers"} => h.tried = {}
    /\ h.pc \in Calling => h.vaults # <<>> /\ Head(h.vaults) \in h.tried
    /\ h.kind = "password" /\ h.pc = "done" => ~Reached(h.outcome)
    /\ h.kind = "session" /\ h.at < HookBudget =>
         /\ h.pc = "headers" => Unread(h) \cup Range(h.vaults) = h.ready
         /\ h.pc \in {"tail"} \cup Calling => Range(h.vaults) \cup h.tried = h.ready
         /\ h.pc = "report" => h.tried = h.ready
         /\ h.pc = "done" /\ Reached(h.outcome) => h.tried = h.ready

(* A vault of a password change is unread, in line or answered, unless the  *)
(* change is known to be incomplete.                                        *)
SentInv(h) ==
    /\ h.pc \in {"auth", "hook", "headers"} => h.answered = {}
    /\ h.pc # "done" => h.outcome = <<>>
    /\ h.outcome = <<"Sent">> => h.kind = "password"
    /\ h.kind = "password" =>
         /\ h.pc \notin {"derive", "clear", "systemctl", "wait"}
         /\ h.pc = "decide" /\ h.err = "ok" => Head(h.vaults) \in h.answered
         /\ h.pc = "headers" /\ h.whole => Unread(h) \cup Range(h.vaults) = h.ready
         /\ h.pc \in {"tail"} \cup Calling /\ h.whole /\ h.success = <<>> =>
              Range(h.vaults) \cup h.answered = h.ready
         /\ h.pc = "report" /\ h.decided = <<"Sent">> => h.answered = h.ready
         /\ h.outcome = <<"Sent">> => h.answered = h.ready

(* How far the clock of a hook can be in each stage.  A child is cut at the *)
(* budget.                                                                  *)
TimeInv(h) ==
    /\ h.pc \in {"auth", "hook"} => h.at = 0
    /\ h.pc \in {"auth", "hook", "headers"} => ~h.child
    /\ h.pc = "report" => h.child
    /\ h.pc \in {"clear", "systemctl"} => h.at < HookBudget
    /\ h.child /\ h.pc # "done" => h.at <= HookBudget
    /\ h.kind = "session" /\ ~h.child =>
         /\ h.pc = "headers" => h.at <= HookBudget
         /\ h.pc = "check" => h.at + h.left <= HookBudget
         /\ h.pc = "derive" => h.at + h.left <= HookBudget + 1
         /\ h.pc \in {"connect", "answer"} => h.at + h.left <= HookBudget + 1 + DeriveTime
         /\ h.pc = "wait" => h.at <= HookBudget + ReapTimeout
    /\ h.kind = "session" \/ h.child => h.at <= HookBudget + Overrun

HookInv == \A l \in Hooks : StashInv(hook[l]) /\ TriedInv(hook[l]) /\ SentInv(hook[l]) /\ TimeInv(hook[l])
=============================================================================
