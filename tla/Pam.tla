-------------------------------- MODULE Pam ---------------------------------
(***************************************************************************)
(* What the PAM module decides, without the time it takes:                 *)
(* src/src/pam/mod.rs.  Files, directories and errors are records of the   *)
(* facts the code asks about.  The hooks themselves are in Login.          *)
(***************************************************************************)
EXTENDS Integers, Sequences, FiniteSets, FiniteSetsExt

CONSTANTS
    ValidIds,      \* what collection_is_valid accepts; numbers, for their order
    DefaultId,     \* the collection "default"
    MinM, MinT,    \* kdf_acceptable_for_login: 19 MiB, 2 passes
    MaxM, MaxT, MaxP   \* 64 MiB, 4 passes, 2 lanes

-----------------------------------------------------------------------------
(* Options *)

DefaultOptions ==
    [collection |-> DefaultId, auto_start |-> TRUE, socket |-> FALSE, vault_dir |-> "home"]

parse_bool(v) ==
    CASE v \in {"no", "false", "0", "off"} -> {FALSE}
      [] v \in {"yes", "true", "1", "on"} -> {TRUE}
      [] OTHER -> {}

collection_is_valid(v) == v \in ValidIds

(* An option that makes no sense leaves what was there. *)
ApplyOption(opts, arg) ==
    CASE arg.name = "collection" /\ collection_is_valid(arg.value) ->
            [opts EXCEPT !.collection = arg.value]
      [] arg.name = "auto_start" /\ parse_bool(arg.value) # {} ->
            [opts EXCEPT !.auto_start = CHOOSE b \in parse_bool(arg.value) : TRUE]
      [] arg.name = "socket" -> [opts EXCEPT !.socket = TRUE]
      [] arg.name = "vault_dir" /\ arg.value = "absolute" -> [opts EXCEPT !.vault_dir = "option"]
      [] OTHER -> opts

(* From the first argument to the last: a later one overrides. *)
parse_options(args) ==
    MapThenFoldSet(LAMBDA arg, opts : ApplyOption(opts, arg), DefaultOptions,
                   LAMBDA i : args[i], LAMBDA S : Max(S), DOMAIN args)

-----------------------------------------------------------------------------
(* The target *)

(* user_info: one entry of the password database, if it is usable. *)
user_info(pw) == IF pw.found /\ pw.home = "absolute" THEN {pw.uid} ELSE {}

socket_override_allowed(euid) == euid # 0

(* The uid the daemon must have.  socket= counts only without root. *)
target_for(pw, opts, euid) ==
    IF user_info(pw) = {} THEN {}
    ELSE IF opts.socket /\ socket_override_allowed(euid) THEN {euid} ELSE user_info(pw)

privileges_to_drop(euid, target) == euid = 0 /\ target # 0 /\ euid # target

runtime_subdir_is_safe(dir, uid) == dir.type = "dir" /\ dir.uid = uid /\ dir.private

-----------------------------------------------------------------------------
(* The vault's header *)

kdf_acceptable_for_login(kdf) ==
    /\ kdf.m \in MinM .. MaxM /\ kdf.t \in MinT .. MaxT /\ kdf.p \in 1 .. MaxP
    /\ kdf.m * kdf.t <= MaxM * MaxT

(* Everything about the file that is checked before it is read. *)
MayRead(file, uid) ==
    file.opens /\ file.type = "file" /\ file.uid = uid /\ file.private

(* vault_header, for a file whose bytes arrive in time. *)
vault_header(file, uid) ==
    MayRead(file, uid) /\ file.bytes = "header" /\ kdf_acceptable_for_login(file.kdf)

(* A file that passes every check and never delivers its bytes. *)
Stalls(file, uid) == MayRead(file, uid) /\ file.bytes = "stalls"

(* The regular files whose names are ids; none, if the directory cannot be  *)
(* listed.                                                                  *)
list_vault_collections(files, listable) ==
    IF listable THEN {id \in DOMAIN files \cap ValidIds : files[id].type = "file"} ELSE {}

(* Sorted, each id once. *)
all_vault_ids(files, listable, configured) ==
    LET ids == list_vault_collections(files, listable) \cup {configured}
    IN CHOOSE s \in [1 .. Cardinality(ids) -> ids] : \A i, j \in DOMAIN s : i < j => s[i] < s[j]

-----------------------------------------------------------------------------
(* Outcomes *)

(* The variants of SessionOutcome.  Started carries a StartOutcome, and      *)
(* NotRetried whether the socket appeared and what the re-check said.        *)
Plain == <<"NoPassword", "NoTarget", "RefusedSocketDir", "NoVaultHeader", "BudgetSpent",
           "NoCallBudget", "Attempted", "Failed", "ConnectNotStale">>
Revalidated == <<"None", "False", "True">>
StartOutcomes == {<<s>> : s \in {"NoStartBudget", "StaleSocketStuck", "NoUser",
                                 "RetryBudgetSpent", "NoRetryCallBudget", "Retried"}}
                 \cup ({"NotRetried"} \X BOOLEAN \X Range(Revalidated))
SessionOutcomes == {<<p>> : p \in Range(Plain)} \cup {<<"Started", s>> : s \in StartOutcomes}

REPORT_STARTED == 9
REPORT_NOT_RETRIED_BASE == 10
REPORT_RETRY_BASE == 20

IndexIn(seq, x) == CHOOSE i \in DOMAIN seq : seq[i] = x

StartCode(s) ==
    CASE s = <<"NoStartBudget">> -> 0
      [] s = <<"StaleSocketStuck">> -> 1
      [] s = <<"NoUser">> -> 2
      [] s[1] = "NotRetried" ->
            REPORT_NOT_RETRIED_BASE + (IF s[2] THEN 1 ELSE 0) + 2 * (IndexIn(Revalidated, s[3]) - 1)
      [] s = <<"RetryBudgetSpent">> -> REPORT_RETRY_BASE
      [] s = <<"NoRetryCallBudget">> -> REPORT_RETRY_BASE + 1
      [] s = <<"Retried">> -> REPORT_RETRY_BASE + 2

session_outcome_code(o) ==
    IF o[1] = "Started" THEN <<REPORT_STARTED, StartCode(o[2])>>
    ELSE <<IndexIn(Plain, o[1]) - 1, 0>>

(* A pair of bytes no outcome has is a failure. *)
session_outcome_from_codes(a, b) ==
    CASE a < REPORT_STARTED /\ b = 0 -> <<Plain[a + 1]>>
      [] a = REPORT_STARTED /\ b = 0 -> <<"Started", <<"NoStartBudget">>>>
      [] a = REPORT_STARTED /\ b = 1 -> <<"Started", <<"StaleSocketStuck">>>>
      [] a = REPORT_STARTED /\ b = 2 -> <<"Started", <<"NoUser">>>>
      [] a = REPORT_STARTED /\ b \in REPORT_NOT_RETRIED_BASE .. REPORT_NOT_RETRIED_BASE + 5 ->
            LET n == b - REPORT_NOT_RETRIED_BASE
            IN <<"Started", <<"NotRetried", n % 2 = 1, Revalidated[(n \div 2) + 1]>>>>
      [] a = REPORT_STARTED /\ b = REPORT_RETRY_BASE -> <<"Started", <<"RetryBudgetSpent">>>>
      [] a = REPORT_STARTED /\ b = REPORT_RETRY_BASE + 1 -> <<"Started", <<"NoRetryCallBudget">>>>
      [] a = REPORT_STARTED /\ b = REPORT_RETRY_BASE + 2 -> <<"Started", <<"Retried">>>>
      [] OTHER -> <<"Failed">>

(* Variant: a path that keeps the stash. *)
KeepsStash(o) == o[1] \notin {"NoPassword", "NoTarget"}

clears_stash(o) == o[1] # "NoPassword"

(* The outcomes session_socket_tail_all takes for success. *)
Reached(o) == o \in {<<"Attempted">>, <<"Started", <<"Retried">>>>}

CHAUTHTOK_SENT == 1
chauthtok_outcome_code(o) == IF o = <<"Sent">> THEN CHAUTHTOK_SENT ELSE 0
chauthtok_outcome_from_report(report) ==
    IF report # <<>> /\ report[1] = CHAUTHTOK_SENT THEN <<"Sent">> ELSE <<"SendFailed">>

-----------------------------------------------------------------------------
(* Errors of a call *)

ConnectErrors == {"NotFound", "Refused", "NotSocket", "TimedOut"}

(* What a failed connect says about the socket's name. *)
stale_socket_action(e) ==
    CASE e = "Refused" -> "Unlink"
      [] e = "NotFound" -> "LeaveAlone"
      [] OTHER -> "none"

retryable_reset(e) == e = "Reset"
=============================================================================
