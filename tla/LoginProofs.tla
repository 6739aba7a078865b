---------------------------- MODULE LoginProofs ----------------------------
(***************************************************************************)
(* Proofs about module Login, for any hooks, directories, arguments and    *)
(* limits: what the child decided is what the parent reports, the stash is *)
(* gone, every vault is tried, a change reported as sent was answered, and *)
(* a hook is bounded in time.                                              *)
(***************************************************************************)
EXTENDS Login, TLAPS

-----------------------------------------------------------------------------
(* Outcomes *)

LEMMA PlainIndex ==
    ASSUME NEW i \in 1 .. 9
    PROVE  IndexIn(Plain, Plain[i]) = i
<1>1. DOMAIN Plain = 1 .. 9
  BY SMTT(30) DEF Plain
<1>2. \A j \in 1 .. 9 : Plain[j] = Plain[i] => j = i
  BY SMTT(30) DEF Plain
<1>3. \A j \in DOMAIN Plain : Plain[j] = Plain[i] <=> j = i
  BY <1>1, <1>2, Zenon
<1> QED BY <1>1, <1>3, Zenon DEF IndexIn

LEMMA RevalidatedIndex ==
    ASSUME NEW i \in 1 .. 3
    PROVE  IndexIn(Revalidated, Revalidated[i]) = i
<1>1. DOMAIN Revalidated = 1 .. 3
  BY SMTT(30) DEF Revalidated
<1>2. \A j \in 1 .. 3 : Revalidated[j] = Revalidated[i] => j = i
  BY SMTT(30) DEF Revalidated
<1>3. \A j \in DOMAIN Revalidated : Revalidated[j] = Revalidated[i] <=> j = i
  BY <1>1, <1>2, Zenon
<1> QED BY <1>1, <1>3, Zenon DEF IndexIn

LEMMA PlainNotStarted ==
    ASSUME NEW i \in 1 .. 9
    PROVE  Plain[i] # "Started"
BY SMTT(30) DEF Plain

(* The two bytes of a plain outcome. *)
LEMMA PlainRoundTrip ==
    ASSUME NEW i \in 1 .. 9
    PROVE  LET c == session_outcome_code(<<Plain[i]>>)
           IN session_outcome_from_codes(c[1], c[2]) = <<Plain[i]>>
<1>1. session_outcome_code(<<Plain[i]>>) = <<i - 1, 0>>
  <2>1. <<Plain[i]>>[1] = Plain[i]
    BY SMTT(30)
  <2> QED BY <2>1, PlainIndex, PlainNotStarted, Zenon DEF session_outcome_code
<1>2. <<i - 1, 0>>[1] = i - 1 /\ <<i - 1, 0>>[2] = 0 /\ i - 1 < 9 /\ (i - 1) + 1 = i
  BY SMTT(30)
<1> DEFINE a == i - 1
<1>3. a < REPORT_STARTED /\ a + 1 = i /\ a # REPORT_STARTED
  BY <1>2, SMTT(30) DEF REPORT_STARTED
<1> HIDE DEF a
<1>4. session_outcome_from_codes(a, 0) = <<Plain[a + 1]>>
  BY <1>3, SMTT(30) DEF session_outcome_from_codes
<1> QED BY <1>1, <1>2, <1>3, <1>4, Zenon DEF a

(* The second byte of a start that was not retried: 10 to 15. *)
LEMMA NotRetriedRoundTrip ==
    ASSUME NEW w \in BOOLEAN, NEW i \in 1 .. 3
    PROVE  LET o == <<"Started", <<"NotRetried", w, Revalidated[i]>>>>
               c == session_outcome_code(o)
           IN session_outcome_from_codes(c[1], c[2]) = o
<1> DEFINE s == <<"NotRetried", w, Revalidated[i]>>
           n == (IF w THEN 1 ELSE 0) + 2 * (i - 1)
           b == 10 + n
<1>1. /\ s[1] = "NotRetried" /\ s[2] = w /\ s[3] = Revalidated[i]
      /\ \A x \in STRING : s # <<x>>
      /\ <<"Started", s>>[1] = "Started" /\ <<"Started", s>>[2] = s
  BY SMTT(30)
<1>2. StartCode(s) = REPORT_NOT_RETRIED_BASE + n
  <2> HIDE DEF s
  <2>1. IndexIn(Revalidated, s[3]) = i
    BY <1>1, RevalidatedIndex, Zenon
  <2>2. /\ s # <<"NoStartBudget">> /\ s # <<"StaleSocketStuck">> /\ s # <<"NoUser">>
        /\ s # <<"RetryBudgetSpent">> /\ s # <<"NoRetryCallBudget">> /\ s # <<"Retried">>
    BY <1>1, SMTT(30)
  <2>3. StartCode(s) = REPORT_NOT_RETRIED_BASE + (IF s[2] THEN 1 ELSE 0) + 2 * (IndexIn(Revalidated, s[3]) - 1)
    BY <1>1, <2>2, SMTT(30) DEF StartCode
  <2> QED BY <1>1, <2>1, <2>3, SMTT(30) DEF REPORT_NOT_RETRIED_BASE
<1>3. session_outcome_code(<<"Started", s>>) = <<REPORT_STARTED, b>>
  <2> HIDE DEF s
  <2>1. REPORT_NOT_RETRIED_BASE + n = b
    BY SMTT(30) DEF REPORT_NOT_RETRIED_BASE
  <2> QED BY <1>1, <1>2, <2>1, Zenon DEF session_outcome_code
<1>4. <<REPORT_STARTED, b>>[1] = REPORT_STARTED /\ <<REPORT_STARTED, b>>[2] = b
  BY SMTT(30)
<1>5. /\ b \in 10 .. 15 /\ b - 10 = n /\ (n \div 2) + 1 = i
      /\ (n % 2 = 1) <=> w
  <2>1. CASE w
    <3>1. n = 1 + 2 * (i - 1) /\ n \in Nat /\ n <= 5
      BY <2>1, SMTT(30)
    <3>2. n % 2 = 1 /\ n \div 2 = i - 1
      BY <3>1, SMTT(30)
    <3> QED BY <2>1, <3>1, <3>2, SMTT(30)
  <2>2. CASE ~w
    <3>1. n = 2 * (i - 1) /\ n \in Nat /\ n <= 4
      BY <2>2, SMTT(30)
    <3>2. n % 2 = 0 /\ n \div 2 = i - 1
      BY <3>1, SMTT(30)
    <3> QED BY <2>2, <3>1, <3>2, SMTT(30)
  <2> QED BY <2>1, <2>2, Zenon
<1>6. session_outcome_from_codes(REPORT_STARTED, b) = <<"Started", s>>
  <2>1. /\ ~(REPORT_STARTED < REPORT_STARTED) /\ b # 0 /\ b # 1 /\ b # 2
        /\ b \in REPORT_NOT_RETRIED_BASE .. REPORT_NOT_RETRIED_BASE + 5
        /\ b # REPORT_RETRY_BASE /\ b # REPORT_RETRY_BASE + 1 /\ b # REPORT_RETRY_BASE + 2
        /\ b - REPORT_NOT_RETRIED_BASE = n
    BY <1>5, SMTT(30) DEF REPORT_STARTED, REPORT_NOT_RETRIED_BASE, REPORT_RETRY_BASE
  <2>2. ((n % 2 = 1) <=> w) /\ (n \div 2) + 1 = i
    BY <1>5, Zenon
  <2> HIDE DEF n, b
  <2>3. session_outcome_from_codes(REPORT_STARTED, b)
          = <<"Started", <<"NotRetried", n % 2 = 1, Revalidated[(n \div 2) + 1]>>>>
    BY <2>1, Zenon DEF session_outcome_from_codes
  <2>4. (n % 2 = 1) = w
    BY <2>2, Zenon
  <2> QED BY <2>2, <2>3, <2>4, Zenon
<1> QED BY <1>3, <1>4, <1>6, Zenon

(* What the child of a session writes to the pipe is what the parent reads  *)
(* from it, for every outcome the session can have.                         *)
THEOREM SessionReportReadsBack ==
    \A o \in SessionOutcomes :
        session_outcome_from_codes(session_outcome_code(o)[1], session_outcome_code(o)[2]) = o
<1> SUFFICES ASSUME NEW o \in SessionOutcomes
             PROVE  session_outcome_from_codes(session_outcome_code(o)[1], session_outcome_code(o)[2]) = o
  OBVIOUS
<1>1. CASE o \in {<<p>> : p \in Range(Plain)}
  <2>1. PICK p \in Range(Plain) : o = <<p>>
    BY <1>1, Zenon
  <2>2. DOMAIN Plain = 1 .. 9
    BY SMTT(30) DEF Plain
  <2>3. PICK i \in 1 .. 9 : p = Plain[i]
    BY <2>2, Zenon DEF Range
  <2> QED BY <2>1, <2>3, PlainRoundTrip, Zenon
<1>2. CASE o \in {<<"Started", s>> : s \in StartOutcomes}
  <2>1. PICK s \in StartOutcomes : o = <<"Started", s>>
    BY <1>2, Zenon
  <2>2. CASE s \in {"NotRetried"} \X BOOLEAN \X Range(Revalidated)
    <3>1. s = <<"NotRetried", s[2], s[3]>> /\ s[2] \in BOOLEAN /\ s[3] \in Range(Revalidated)
      BY <2>2, SMTT(30)
    <3>2. DOMAIN Revalidated = 1 .. 3
      BY SMTT(30) DEF Revalidated
    <3>3. PICK i \in 1 .. 3 : s[3] = Revalidated[i]
      BY <3>1, <3>2, Zenon DEF Range
    <3> QED BY <2>1, <3>1, <3>3, NotRetriedRoundTrip, Zenon
  <2>3. CASE s \in {<<x>> : x \in {"NoStartBudget", "StaleSocketStuck", "NoUser",
                                  "RetryBudgetSpent", "NoRetryCallBudget", "Retried"}}
    <3>1. PICK x \in {"NoStartBudget", "StaleSocketStuck", "NoUser",
                      "RetryBudgetSpent", "NoRetryCallBudget", "Retried"} : s = <<x>>
      BY <2>3, Zenon
    <3>2. /\ <<"Started", s>>[1] = "Started" /\ <<"Started", s>>[2] = s /\ s[1] = x
          /\ \A y : <<x>> = <<y>> <=> x = y
      BY <3>1, SMTT(30)
    <3>3. session_outcome_code(o) = <<REPORT_STARTED, StartCode(s)>>
      BY <2>1, <3>2, Zenon DEF session_outcome_code
    <3>4. <<REPORT_STARTED, StartCode(s)>>[1] = REPORT_STARTED /\ <<REPORT_STARTED, StartCode(s)>>[2] = StartCode(s)
      BY SMTT(30)
    <3>5. session_outcome_from_codes(REPORT_STARTED, StartCode(s)) = <<"Started", <<x>>>>
      <4> DEFINE from(b) == session_outcome_from_codes(9, b)
      <4>0. /\ \A y : s = <<y>> <=> x = y
            /\ s[1] # "NotRetried" /\ REPORT_STARTED = 9
        BY <3>1, <3>2, SMTT(30) DEF REPORT_STARTED
      <4>1. CASE x = "NoStartBudget"
        <5>1. StartCode(s) = 0
          BY <4>0, <4>1, SMTT(30) DEF StartCode, REPORT_RETRY_BASE
        <5>2. from(0) = <<"Started", <<"NoStartBudget">>>>
          BY SMTT(30) DEF session_outcome_from_codes, REPORT_STARTED, REPORT_NOT_RETRIED_BASE, REPORT_RETRY_BASE
        <5> QED BY <4>0, <4>1, <5>1, <5>2, Zenon
      <4>2. CASE x = "StaleSocketStuck"
        <5>1. StartCode(s) = 1
          BY <4>0, <4>2, SMTT(30) DEF StartCode, REPORT_RETRY_BASE
        <5>2. from(1) = <<"Started", <<"StaleSocketStuck">>>>
          BY SMTT(30) DEF session_outcome_from_codes, REPORT_STARTED, REPORT_NOT_RETRIED_BASE, REPORT_RETRY_BASE
        <5> QED BY <4>0, <4>2, <5>1, <5>2, Zenon
      <4>3. CASE x = "NoUser"
        <5>1. StartCode(s) = 2
          BY <4>0, <4>3, SMTT(30) DEF StartCode, REPORT_RETRY_BASE
        <5>2. from(2) = <<"Started", <<"NoUser">>>>
          BY SMTT(30) DEF session_outcome_from_codes, REPORT_STARTED, REPORT_NOT_RETRIED_BASE, REPORT_RETRY_BASE
        <5> QED BY <4>0, <4>3, <5>1, <5>2, Zenon
      <4>4. CASE x = "RetryBudgetSpent"
        <5>1. StartCode(s) = 20
          BY <4>0, <4>4, SMTT(30) DEF StartCode, REPORT_RETRY_BASE
        <5>2. from(20) = <<"Started", <<"RetryBudgetSpent">>>>
          BY SMTT(30) DEF session_outcome_from_codes, REPORT_STARTED, REPORT_NOT_RETRIED_BASE, REPORT_RETRY_BASE
        <5> QED BY <4>0, <4>4, <5>1, <5>2, Zenon
      <4>5. CASE x = "NoRetryCallBudget"
        <5>1. StartCode(s) = 21
          BY <4>0, <4>5, SMTT(30) DEF StartCode, REPORT_RETRY_BASE
        <5>2. from(21) = <<"Started", <<"NoRetryCallBudget">>>>
          BY SMTT(30) DEF session_outcome_from_codes, REPORT_STARTED, REPORT_NOT_RETRIED_BASE, REPORT_RETRY_BASE
        <5> QED BY <4>0, <4>5, <5>1, <5>2, Zenon
      <4>6. CASE x = "Retried"
        <5>1. StartCode(s) = 22
          BY <4>0, <4>6, SMTT(30) DEF StartCode, REPORT_RETRY_BASE
        <5>2. from(22) = <<"Started", <<"Retried">>>>
          BY SMTT(30) DEF session_outcome_from_codes, REPORT_STARTED, REPORT_NOT_RETRIED_BASE, REPORT_RETRY_BASE
        <5> QED BY <4>0, <4>6, <5>1, <5>2, Zenon
      <4> QED BY <4>1, <4>2, <4>3, <4>4, <4>5, <4>6, Zenon
    <3> QED BY <2>1, <3>1, <3>3, <3>4, <3>5, Zenon
  <2> QED BY <2>2, <2>3, Zenon DEF StartOutcomes
<1> QED BY <1>1, <1>2, Zenon DEF SessionOutcomes

(* Outcomes of one word differ as the words do. *)
LEMMA OneWord ==
    /\ \A x, y : <<x>> = <<y>> <=> x = y
    /\ \A x, y, z : <<x>> # <<y, z>>
    /\ \A x : <<x>> # <<>> /\ <<x>>[1] = x
    /\ \A x, y : <<x, y>> # <<>> /\ <<x, y>>[1] = x
BY SMTT(30)

LEMMA PlainWords ==
    Range(Plain) = {"NoPassword", "NoTarget", "RefusedSocketDir", "NoVaultHeader", "BudgetSpent",
                    "NoCallBudget", "Attempted", "Failed", "ConnectNotStale"}
BY SMTT(30) DEF Range, Plain

LEMMA SessionOutcomeIs ==
    ASSUME NEW o \in SessionOutcomes
    PROVE  o \in Outcomes /\ o # <<>> /\ o # <<"Sent">>
<1>1. CASE o \in {<<p>> : p \in Range(Plain)}
  BY <1>1, OneWord, PlainWords, Zenon DEF Outcomes
<1>2. CASE o \in {<<"Started", s>> : s \in StartOutcomes}
  <2>1. PICK s \in StartOutcomes : o = <<"Started", s>>
    BY <1>2, Zenon
  <2>2. o # <<>> /\ o # <<"Sent">>
    BY <2>1, OneWord, Zenon
  <2> QED BY <2>2, Zenon DEF Outcomes
<1> QED BY <1>1, <1>2, Zenon DEF SessionOutcomes

LEMMA TailOutcomeIs ==
    /\ \A o \in TailOutcomes : o \in SessionOutcomes /\ clears_stash(o)
    /\ \A x \in {"BudgetSpent", "NoCallBudget", "Attempted", "Failed", "ConnectNotStale"} :
          <<x>> \in TailOutcomes
    /\ \A x \in StartOutcomes : <<"Started", x>> \in TailOutcomes
<1>1. \A x \in {"BudgetSpent", "NoCallBudget", "Attempted", "Failed", "ConnectNotStale"} :
          <<x>> \in TailOutcomes
  BY OneWord, PlainWords, Zenon DEF TailOutcomes, SessionOutcomes, clears_stash
<1>2. \A x \in StartOutcomes : <<"Started", x>> \in TailOutcomes
  BY OneWord, Zenon DEF TailOutcomes, SessionOutcomes, clears_stash
<1> QED BY <1>1, <1>2, Zenon DEF TailOutcomes

LEMMA StartOutcomeIs ==
    /\ \A x \in {"NoStartBudget", "StaleSocketStuck", "RetryBudgetSpent", "Retried"} :
          <<x>> \in StartOutcomes
    /\ \A w \in BOOLEAN, r \in {"None", "False"} : <<"NotRetried", w, r>> \in StartOutcomes
<1>1. "None" \in Range(Revalidated) /\ "False" \in Range(Revalidated)
  BY SMTT(30) DEF Range, Revalidated
<1> QED BY <1>1, SMTT(30) DEF StartOutcomes

LEMMA PasswordOutcomeIs ==
    \A o \in {<<"Sent">>, <<"SendFailed">>} : ~Reached(o)
<1>1. ASSUME NEW x \in {"Sent", "SendFailed"}
      PROVE  ~Reached(<<x>>)
  BY OneWord, Zenon DEF Reached
<1> QED BY <1>1, Zenon

(* What a hook returns outside its tail. *)
LEMMA OtherOutcomeIs ==
    ASSUME NEW x \in {"Panic", "Prelim", "Missing", "NoRequest", "SendFailed", "NoPassword",
                      "NoTarget", "RefusedSocketDir", "NoVaultHeader", "BudgetSpent", "Failed"}
    PROVE  /\ <<x>> \in Outcomes /\ <<x>> # <<"Sent">> /\ ~Reached(<<x>>)
           /\ x # "NoPassword" => clears_stash(<<x>>)
<1>1. <<x>> \in Outcomes
  BY PlainWords, Zenon DEF Outcomes, SessionOutcomes
<1>2. ~Reached(<<x>>)
  BY OneWord, Zenon DEF Reached
<1>3. <<x>> # <<"Sent">>
  BY OneWord, Zenon
<1>4. x # "NoPassword" => clears_stash(<<x>>)
  BY OneWord, Zenon DEF clears_stash
<1> QED BY <1>1, <1>2, <1>3, <1>4, Zenon

-----------------------------------------------------------------------------
(* Lines of vaults *)

LEMMA EmptyLine == <<>> \in Seq(Ids) /\ Range(<<>>) = {}
BY SMTT(30) DEF Range

LEMMA HeadAndTail ==
    ASSUME NEW s \in Seq(Ids), s # <<>>
    PROVE  /\ Head(s) \in Ids /\ Tail(s) \in Seq(Ids)
           /\ Range(s) = {Head(s)} \cup Range(Tail(s))
<1>1. /\ Head(s) \in Ids /\ Tail(s) \in Seq(Ids) /\ Len(s) \in Nat \ {0}
      /\ Head(s) = s[1] /\ DOMAIN s = 1 .. Len(s)
      /\ DOMAIN Tail(s) = 1 .. Len(s) - 1 /\ \A i \in 1 .. Len(s) - 1 : Tail(s)[i] = s[i + 1]
  BY SMTT(30)
<1>2. \A i \in 1 .. Len(s) : i = 1 \/ (i - 1 \in 1 .. Len(s) - 1 /\ (i - 1) + 1 = i)
  BY <1>1, SMTT(30)
<1>3. 1 \in 1 .. Len(s) /\ \A i \in 1 .. Len(s) - 1 : i + 1 \in 1 .. Len(s)
  BY <1>1, SMTT(30)
<1>4. ASSUME NEW x \in Range(s)
      PROVE  x \in {Head(s)} \cup Range(Tail(s))
  <2>1. PICK i \in 1 .. Len(s) : x = s[i]
    BY <1>1, <1>4, Zenon DEF Range
  <2>2. CASE i = 1
    BY <1>1, <2>1, <2>2, Zenon
  <2>3. CASE i - 1 \in 1 .. Len(s) - 1 /\ (i - 1) + 1 = i
    <3>1. x = Tail(s)[i - 1] /\ i - 1 \in DOMAIN Tail(s)
      BY <1>1, <2>1, <2>3, Zenon
    <3> QED BY <3>1, Zenon DEF Range
  <2> QED BY <1>2, <2>2, <2>3, Zenon
<1>5. ASSUME NEW x \in {Head(s)} \cup Range(Tail(s))
      PROVE  x \in Range(s)
  <2>1. CASE x = Head(s)
    <3>1. x = s[1] /\ 1 \in DOMAIN s
      BY <1>1, <1>3, <2>1, Zenon
    <3> QED BY <3>1, Zenon DEF Range
  <2>2. CASE x \in Range(Tail(s))
    <3>1. PICK i \in 1 .. Len(s) - 1 : x = Tail(s)[i]
      BY <1>1, <2>2, Zenon DEF Range
    <3>2. x = s[i + 1] /\ i + 1 \in DOMAIN s
      BY <1>1, <1>3, <3>1, Zenon
    <3> QED BY <3>2, Zenon DEF Range
  <2> QED BY <1>5, <2>1, <2>2, Zenon
<1> QED BY <1>1, <1>4, <1>5, Zenon

LEMMA Appended ==
    ASSUME NEW s \in Seq(Ids), NEW x \in Ids
    PROVE  Append(s, x) \in Seq(Ids) /\ Range(Append(s, x)) = Range(s) \cup {x}
<1>1. /\ Append(s, x) \in Seq(Ids) /\ Len(s) \in Nat /\ DOMAIN s = 1 .. Len(s)
      /\ DOMAIN Append(s, x) = 1 .. Len(s) + 1
      /\ Append(s, x)[Len(s) + 1] = x /\ \A i \in 1 .. Len(s) : Append(s, x)[i] = s[i]
  BY SMTT(30)
<1>2. /\ Len(s) + 1 \in 1 .. Len(s) + 1
      /\ \A i \in 1 .. Len(s) + 1 : i = Len(s) + 1 \/ i \in 1 .. Len(s)
      /\ \A i \in 1 .. Len(s) : i \in 1 .. Len(s) + 1
  BY <1>1, SMTT(30)
<1>3. ASSUME NEW y \in Range(Append(s, x))
      PROVE  y \in Range(s) \cup {x}
  BY <1>1, <1>2, <1>3, Zenon DEF Range
<1>4. ASSUME NEW y \in Range(s) \cup {x}
      PROVE  y \in Range(Append(s, x))
  BY <1>1, <1>2, <1>4, Zenon DEF Range
<1> QED BY <1>1, <1>3, <1>4, Zenon

(* The files of a directory come as a sequence. *)
LEMMA IdsOfADirectory ==
    ASSUME NEW files \in Directories, NEW listable \in BOOLEAN, NEW args \in Arguments
    PROVE  LET ids == all_vault_ids(files, listable, parse_options(args).collection)
           IN ids \in Seq(Ids) /\ Range(ids) \subseteq Ids
<1> DEFINE c == parse_options(args).collection
           S == list_vault_collections(files, listable) \cup {c}
           ids == all_vault_ids(files, listable, c)
<1>1. S \subseteq Ids
  <2>1. list_vault_collections(files, listable) \subseteq DOMAIN files
    BY Zenon DEF list_vault_collections
  <2>2. DOMAIN files \subseteq Ids
    <3>1. DOMAIN files \in {DOMAIN f : f \in Directories}
      BY Zenon
    <3> QED BY <3>1, Zenon DEF Ids
  <2>3. c \in {parse_options(a).collection : a \in Arguments}
    BY Zenon
  <2>4. c \in Ids
    <3> HIDE DEF c
    <3> QED BY <2>3, Zenon DEF Ids
  <2> QED BY <2>1, <2>2, <2>4, Zenon
<1>2. ids \in Seq(S)
  BY ListingAssumption, Zenon
<1> HIDE DEF S, ids
<1>3. ids \in Seq(Ids) /\ \A i \in DOMAIN ids : ids[i] \in Ids
  BY <1>1, <1>2, SMTT(30)
<1> QED BY <1>3, Zenon DEF Range, ids

-----------------------------------------------------------------------------
(* One hook *)

Good(h) == h \in Hook /\ StashInv(h) /\ TriedInv(h) /\ SentInv(h) /\ TimeInv(h)

LEMMA Updated ==
    ASSUME TypeOK, HookInv, NEW l \in Hooks, NEW r, Good(r), hook' = [hook EXCEPT ![l] = r]
    PROVE  TypeOK' /\ HookInv'
<1>1. hook' \in [Hooks -> Hook]
  BY Zenon DEF TypeOK, Good
<1>2. \A k \in Hooks : hook'[k] = r \/ hook'[k] = hook[k]
  BY Zenon DEF TypeOK
<1> QED BY <1>1, <1>2, Zenon DEF TypeOK, HookInv, Good

LEMMA HookIs ==
    ASSUME TypeOK, HookInv, NEW l \in Hooks
    PROVE  Good(hook[l])
BY Zenon DEF TypeOK, HookInv, Good

LEMMA Times ==
    /\ HookBudget \in Nat \ {0} /\ CallBudget \in Nat \ {0} /\ StartTimeout \in Nat \ {0}
    /\ ReapTimeout \in Nat \ {0} /\ DeriveTime \in Nat
    /\ Overrun \in Nat /\ Overrun >= 1 + DeriveTime /\ Overrun >= 2 * ReapTimeout
<1>1. /\ HookBudget \in Nat \ {0} /\ CallBudget \in Nat \ {0} /\ StartTimeout \in Nat \ {0}
      /\ ReapTimeout \in Nat \ {0} /\ DeriveTime \in Nat
  BY LoginAssumption, Zenon
<1> DEFINE a == 1 + DeriveTime
           b == 2 * ReapTimeout
<1>2. a \in Nat /\ b \in Nat
  BY <1>1, SMTT(30)
<1> HIDE DEF a, b
<1>3. \E x \in {a, b} : \A y \in {a, b} : x >= y
  BY <1>2, SMTT(30)
<1>4. Max({a, b}) \in {a, b} /\ \A y \in {a, b} : Max({a, b}) >= y
  BY <1>3, Zenon DEF Max
<1>5. Max({a, b}) \in Nat /\ Max({a, b}) >= a /\ Max({a, b}) >= b
  BY <1>2, <1>4, Zenon
<1> QED BY <1>1, <1>5, Zenon DEF Overrun, a, b

LEMMA MinIs ==
    ASSUME NEW a \in Nat, NEW b \in Nat
    PROVE  Min({a, b}) \in Nat /\ Min({a, b}) <= a
<1>1. \E x \in {a, b} : \A y \in {a, b} : x <= y
  BY SMTT(30)
<1>2. Min({a, b}) \in {a, b} /\ \A y \in {a, b} : Min({a, b}) <= y
  BY <1>1, Zenon DEF Min
<1> QED BY <1>2, Zenon

(* What is left of the budget, or less. *)
LEMMA Capped ==
    ASSUME NEW l \in Hooks, hook[l].at \in Nat, hook[l].at < HookBudget, NEW max \in Nat \ {0}
    PROVE  capped(l, max) \in Nat /\ hook[l].at + capped(l, max) <= HookBudget
<1> DEFINE a == HookBudget - hook[l].at
           m == Min({a, max})
<1>1. a \in Nat
  BY Times, SMTT(30)
<1>2. m \in Nat /\ m <= a
  <2> HIDE DEF a
  <2> QED BY <1>1, MinIs, Zenon
<1>3. capped(l, max) = m
  BY Zenon DEF capped
<1> HIDE DEF m
<1>4. hook[l].at + m <= HookBudget
  BY <1>2, Times, SMTT(30)
<1> QED BY <1>2, <1>3, <1>4, Zenon

(* A hook that has returned. *)
LEMMA Finished ==
    ASSUME NEW r \in Hook, r.pc = "done", ~r.stash, r.first = <<>>, r.success = <<>>,
           r.kind = "session" /\ r.at < HookBudget /\ Reached(r.outcome) => r.tried = r.ready,
           r.kind = "password" => ~Reached(r.outcome),
           r.outcome = <<"Sent">> => r.kind = "password" /\ r.answered = r.ready,
           r.kind = "session" \/ r.child => r.at <= HookBudget + Overrun
    PROVE  Good(r)
<1>1. r.pc \notin Calling /\ r.pc \notin {"auth", "hook", "headers", "tail", "report", "clear", "systemctl"}
  BY Zenon DEF Calling
<1>2. StashInv(r)
  BY <1>1, Zenon DEF StashInv
<1>3. TriedInv(r)
  BY <1>1, Zenon DEF TriedInv
<1>4. SentInv(r)
  BY <1>1, Zenon DEF SentInv
<1>5. TimeInv(r)
  BY <1>1, Zenon DEF TimeInv
<1> QED BY <1>2, <1>3, <1>4, <1>5, Zenon DEF Good

LEMMA ReturnedIs ==
    ASSUME NEW h \in Hook, NEW o \in Outcomes
    PROVE  LET r == Returned(h, o)
           IN /\ r \in Hook /\ r.pc = "done" /\ r.outcome = o /\ r.first = <<>> /\ r.success = <<>>
              /\ r.stash <=> h.stash /\ h.kind = "session" /\ ~clears_stash(o)
              /\ r.kind = h.kind /\ r.child = h.child /\ r.at = h.at
              /\ r.ready = h.ready /\ r.tried = h.tried /\ r.answered = h.answered
<1> DEFINE st == h.stash /\ h.kind = "session" /\ ~clears_stash(o)
<1> HIDE DEF st
<1>1. st \in BOOLEAN
  BY Zenon DEF st
<1>2. <<>> \in Outcomes /\ <<>> \in Seq(Ids) /\ "done" \in Stages /\ "ok" \in Results
      /\ "first" \in Attempts /\ <<>> \in Files /\ TRUE \in AutoStarts /\ 0 \in Uids
  BY EmptyLine, Zenon DEF Outcomes, Stages, Results, Attempts, Files, AutoStarts, Uids
<1> DEFINE r == [h EXCEPT !.pc = "done", !.outcome = o, !.stash = st,
                   !.files = <<>>, !.todo = <<>>, !.vaults = <<>>, !.err = "ok", !.left = 0,
                   !.stage = "first", !.first = <<>>, !.success = <<>>,
                   !.auto = TRUE, !.held = FALSE, !.euid = 0, !.target = 0]
<1>3. Returned(h, o) = r
  BY Zenon DEF Returned, st
<1>4. r \in Hook
  BY <1>1, <1>2, ZenonT(60) DEF Hook
<1>5. /\ r.pc = "done" /\ r.outcome = o /\ r.first = <<>> /\ r.success = <<>> /\ r.stash = st
      /\ r.kind = h.kind /\ r.child = h.child /\ r.at = h.at
      /\ r.ready = h.ready /\ r.tried = h.tried /\ r.answered = h.answered
  BY Zenon DEF Hook
<1> HIDE DEF r
<1> QED BY <1>3, <1>4, <1>5, Zenon DEF st

(* A hook that gives up with a word of its own. *)
Words == {"Panic", "Prelim", "Missing", "NoRequest", "SendFailed", "NoPassword", "NoTarget",
          "RefusedSocketDir", "NoVaultHeader", "BudgetSpent", "Failed"}

LEMMA GivesUp ==
    ASSUME NEW h, Good(h), NEW x \in Words, x # "NoPassword" \/ ~h.stash
    PROVE  Good(Returned(h, <<x>>))
<1> DEFINE r == Returned(h, <<x>>)
<1>1. <<x>> \in Outcomes /\ <<x>> # <<"Sent">> /\ ~Reached(<<x>>)
  BY OtherOutcomeIs, Zenon DEF Words
<1>2. clears_stash(<<x>>) \/ ~h.stash
  BY OtherOutcomeIs, Zenon DEF Words
<1>3. r \in Hook /\ r.pc = "done" /\ r.outcome = <<x>> /\ r.first = <<>> /\ r.success = <<>>
  <2> DEFINE o == <<x>>
  <2>1. h \in Hook /\ o \in Outcomes
    BY <1>1, Zenon DEF Good
  <2> HIDE DEF o
  <2>2. LET q == Returned(h, o)
        IN q \in Hook /\ q.pc = "done" /\ q.outcome = o /\ q.first = <<>> /\ q.success = <<>>
    BY <2>1, ReturnedIs, SMTT(30)
  <2> QED BY <2>2, Zenon DEF o
<1>4. r.kind = h.kind /\ r.child = h.child /\ r.at = h.at
  BY <1>1, ReturnedIs, Zenon DEF Good
<1>5. ~r.stash
  BY <1>1, <1>2, ReturnedIs, Zenon DEF Good
<1> HIDE DEF r
<1>6. r.kind = "session" \/ r.child => r.at <= HookBudget + Overrun
  BY <1>4, Zenon DEF Good, TimeInv
<1>7. Good(r)
  BY <1>1, <1>3, <1>5, <1>6, Finished, Zenon
<1> QED BY <1>7, Zenon DEF r

(* The same, some time later. *)
LEMMA GivesUpLate ==
    ASSUME NEW h, Good(h), NEW x \in Words, x # "NoPassword", NEW t \in Nat,
           t <= HookBudget + Overrun
    PROVE  Good([Returned(h, <<x>>) EXCEPT !.at = t])
<1> DEFINE q == Returned(h, <<x>>)
           r == [q EXCEPT !.at = t]
<1>1. <<x>> \in Outcomes /\ <<x>> # <<"Sent">> /\ ~Reached(<<x>>) /\ clears_stash(<<x>>)
  BY OtherOutcomeIs, Zenon DEF Words
<1>2. /\ q \in Hook /\ q.pc = "done" /\ q.outcome = <<x>> /\ q.first = <<>> /\ q.success = <<>>
      /\ ~q.stash
  BY <1>1, ReturnedIs, Zenon DEF Good
<1> HIDE DEF q
<1>3. /\ r \in Hook /\ r.pc = q.pc /\ r.outcome = q.outcome /\ r.first = q.first
      /\ r.success = q.success /\ r.stash = q.stash /\ r.at = t
  BY <1>2, Zenon DEF Hook
<1> HIDE DEF r
<1>4. Good(r)
  BY <1>1, <1>2, <1>3, Finished, Zenon
<1> QED BY <1>4, Zenon DEF r, q

LEMMA NoReportIs ==
    ASSUME NEW h
    PROVE  \E x \in Words : x # "NoPassword" /\ NoReport(h) = <<x>>
<1>1. chauthtok_outcome_from_report(<<>>) = <<"SendFailed">>
  BY Zenon DEF chauthtok_outcome_from_report
<1> QED BY <1>1, Zenon DEF NoReport, Words

(* A call goes on to its next stage. *)
Same(h, r) ==
    /\ r.kind = h.kind /\ r.child = h.child /\ r.ready = h.ready /\ r.tried = h.tried
    /\ r.whole = h.whole /\ r.outcome = h.outcome /\ r.vaults = h.vaults
    /\ r.first = h.first /\ r.success = h.success

LEMMA GoesOn ==
    ASSUME NEW h, Good(h), h.pc \in Calling, NEW r \in Hook, r.pc \in Calling, Same(h, r),
           h.at <= r.at, TimeInv(r),
           r.answered = h.answered \/ r.answered = h.answered \cup {Head(h.vaults)},
           r.kind = "password" =>
             /\ r.pc \notin {"derive", "clear", "systemctl", "wait"}
             /\ r.pc = "decide" /\ r.err = "ok" => Head(h.vaults) \in r.answered
    PROVE  Good(r)
<1>1. \A x \in Calling : x \notin {"auth", "hook", "headers", "tail", "report", "done"}
  BY Zenon DEF Calling
<1>2. h \in Hook /\ h.at \in Nat /\ r.at \in Nat /\ h.vaults \in Seq(Ids)
  BY Zenon DEF Good, Hook
<1>3. r.at < HookBudget => h.at < HookBudget
  BY <1>2, Times, SMTT(30)
<1>4. h.vaults # <<>> /\ Head(h.vaults) \in h.tried
  BY Zenon DEF Good, TriedInv
<1>5. Head(h.vaults) \in Range(h.vaults)
  BY <1>2, <1>4, HeadAndTail, Zenon
<1>6. StashInv(r)
  BY <1>1, Zenon DEF Good, StashInv, Same
<1>7. TriedInv(r)
  BY <1>1, <1>3, <1>4, Zenon DEF Good, TriedInv, Same
<1>8. SentInv(r)
  <2>1. h.outcome = <<>> /\ <<>> # <<"Sent">>
    BY <1>1, OneWord, Zenon DEF Good, SentInv
  <2>2. CASE r.kind = "password" /\ r.whole /\ r.success = <<>>
    <3>1. Range(h.vaults) \cup h.answered = h.ready
      BY <2>2, Zenon DEF Good, SentInv, Same
    <3>2. Range(r.vaults) \cup r.answered = r.ready
      BY <1>5, <3>1, Zenon DEF Same
    <3> QED BY <1>1, <2>1, <3>2, Zenon DEF SentInv, Same
  <2>3. CASE ~(r.kind = "password" /\ r.whole /\ r.success = <<>>)
    BY <1>1, <2>1, <2>3, Zenon DEF SentInv, Same
  <2> QED BY <2>2, <2>3, Zenon
<1> QED BY <1>6, <1>7, <1>8, Zenon DEF Good

(* The parts of TimeInv that a stage of a call has to show. *)
Clock(r) ==
    /\ r.pc \in {"clear", "systemctl"} => r.at < HookBudget
    /\ r.child => r.at <= HookBudget
    /\ r.kind = "session" /\ ~r.child =>
         /\ r.pc = "check" => r.at + r.left <= HookBudget
         /\ r.pc = "derive" => r.at + r.left <= HookBudget + 1
         /\ r.pc \in {"connect", "answer"} => r.at + r.left <= HookBudget + 1 + DeriveTime
         /\ r.pc = "wait" => r.at <= HookBudget + ReapTimeout
         /\ r.at <= HookBudget + Overrun

LEMMA ClockIs ==
    ASSUME NEW r \in Hook, r.pc \in Calling \cup {"tail"}
    PROVE  TimeInv(r) <=> Clock(r)
<1>1. r.pc \notin {"auth", "hook", "headers", "report", "done"}
  BY Zenon DEF Calling
<1>2. r.at \in Nat
  BY Zenon DEF Hook
<1>3. r.at <= HookBudget => r.at <= HookBudget + Overrun
  BY <1>2, Times, SMTT(30)
<1> QED BY <1>1, <1>3, Zenon DEF TimeInv, Clock

LEMMA CallIs ==
    ASSUME NEW h, Good(h), h.pc \in Calling
    PROVE  /\ h \in Hook /\ Clock(h) /\ h.at \in Nat /\ h.left \in Nat
           /\ h.vaults \in Seq(Ids) /\ h.vaults # <<>> /\ Head(h.vaults) \in h.tried
           /\ h.at <= h.at
<1>1. h \in Hook /\ TimeInv(h) /\ TriedInv(h)
  BY Zenon DEF Good
<1>2. h.at \in Nat /\ h.left \in Nat /\ h.vaults \in Seq(Ids)
  BY <1>1, Zenon DEF Hook
<1>3. Clock(h)
  BY <1>1, ClockIs, Zenon
<1>4. h.vaults # <<>> /\ Head(h.vaults) \in h.tried
  BY <1>1, Zenon DEF TriedInv
<1>5. h.at <= h.at
  BY <1>2, SMTT(30)
<1> QED BY <1>1, <1>2, <1>3, <1>4, <1>5, Zenon

(* A stage that takes some time, with the clock it leaves. *)
LEMMA GoesOnFor ==
    ASSUME NEW h, Good(h), h.pc \in Calling, NEW r \in Hook, r.pc \in Calling, Same(h, r),
           NEW d \in Nat, r.at = h.at + d, Clock(r), r.answered = h.answered,
           r.kind = "password" =>
             r.pc \notin {"derive", "clear", "systemctl", "wait"} /\ (r.pc = "decide" => r.err # "ok")
    PROVE  Good(r)
<1>1. h.at \in Nat
  BY CallIs, Zenon
<1>2. h.at <= r.at
  BY <1>1, SMTT(30)
<1>3. TimeInv(r)
  BY ClockIs, Zenon
<1> QED BY <1>2, <1>3, GoesOn, Zenon

(* The call has failed without taking time. *)
LEMMA Fails ==
    ASSUME TypeOK, HookInv, NEW l \in Hooks, hook[l].pc \in Calling,
           NEW e \in Results, e # "ok",
           hook' = [hook EXCEPT ![l] = [hook[l] EXCEPT !.pc = "decide", !.err = e]]
    PROVE  TypeOK' /\ HookInv'
<1> DEFINE h == hook[l]
           r == [h EXCEPT !.pc = "decide", !.err = e]
<1>1. Good(h)
  BY HookIs, Zenon
<1> HIDE DEF h
<1>2. h \in Hook /\ Clock(h) /\ h.at \in Nat /\ h.pc \in Calling
  BY <1>1, CallIs, Zenon DEF h
<1>3. "decide" \in Calling /\ "decide" \in Stages
  BY Zenon DEF Calling, Stages
<1>4. /\ r \in Hook /\ Same(h, r) /\ r.pc = "decide" /\ r.err = e /\ r.at = h.at
      /\ r.answered = h.answered
  BY <1>2, <1>3, Zenon DEF Hook, Same
<1> HIDE DEF r
<1>5. Clock(r)
  BY <1>2, <1>4, Zenon DEF Clock, Same
<1>6. 0 \in Nat /\ r.at = h.at + 0
  BY <1>2, <1>4, SMTT(30)
<1>7. Good(r)
  BY <1>1, <1>2, <1>3, <1>4, <1>5, <1>6, GoesOnFor, Zenon
<1>8. hook' = [hook EXCEPT ![l] = r]
  BY Zenon DEF r, h
<1> QED BY <1>7, <1>8, Updated, Zenon

LEMMA connect_pathStep ==
    ASSUME TypeOK, HookInv, NEW l \in Hooks, connect_path(l)
    PROVE  TypeOK' /\ HookInv'
<1> DEFINE h == hook[l]
           next == IF h.kind = "session" THEN "derive" ELSE "connect"
<1>1. Good(h) /\ h.pc = "check" /\ h.pc \in Calling
  BY HookIs, Zenon DEF connect_path, Calling
<1>2. CASE \E e \in {"NotFound", "NotSocket"} : Local(l, [h EXCEPT !.pc = "decide", !.err = e])
  <2>1. PICK e \in {"NotFound", "NotSocket"} : Local(l, [h EXCEPT !.pc = "decide", !.err = e])
    BY <1>2, Zenon
  <2>2. e \in Results /\ e # "ok"
    BY Zenon DEF Results, ConnectErrors
  <2>3. hook' = [hook EXCEPT ![l] = [hook[l] EXCEPT !.pc = "decide", !.err = e]]
    BY <2>1, Zenon DEF Local
  <2> QED BY <1>1, <2>2, <2>3, Fails, Zenon
<1>3. ASSUME NEW d \in {0, 1}, Takes(l, d), Local(l, [h EXCEPT !.pc = next, !.at = @ + d])
      PROVE  TypeOK' /\ HookInv'
  <2> DEFINE t == h.at + d
             r == [h EXCEPT !.pc = next, !.at = t]
  <2>0. ~h.child \/ h.at + d <= HookBudget
    BY <1>3, Zenon DEF Takes
  <2>1. hook' = [hook EXCEPT ![l] = r]
    BY <1>3, Zenon DEF Local
  <2> HIDE DEF h
  <2>2. h \in Hook /\ Clock(h) /\ h.at \in Nat /\ h.left \in Nat
    BY <1>1, CallIs, Zenon
  <2>3. next \in Calling /\ next \in Stages /\ (h.kind = "password" => next # "derive") /\ next # "decide"
        /\ next \in {"derive", "connect"} /\ (h.kind = "session" => next = "derive")
    BY Zenon DEF Calling, Stages
  <2>4. d \in Nat /\ t \in Nat /\ (h.at + h.left <= HookBudget => t + h.left <= HookBudget + 1 /\ t <= HookBudget + Overrun)
    BY <2>2, Times, SMTT(30)
  <2> HIDE DEF next, t
  <2>5. /\ r \in Hook /\ Same(h, r) /\ r.pc = next /\ r.at = t /\ r.left = h.left
        /\ r.answered = h.answered
    BY <2>2, <2>3, <2>4, Zenon DEF Hook, Same
  <2> HIDE DEF r
  <2>6. r.at = h.at + d
    BY <2>5, Zenon DEF t
  <2>7. h.child => r.at <= HookBudget
    BY <2>0, <2>6, Zenon
  <2>8. Clock(r)
    <3>1. h.kind = "session" /\ ~h.child => h.at + h.left <= HookBudget
      BY <1>1, <2>2, Zenon DEF Clock
    <3>2. r.pc \notin {"clear", "systemctl", "check", "wait"}
      BY <2>3, <2>5, Zenon
    <3> QED BY <2>3, <2>4, <2>5, <2>7, <3>1, <3>2, Zenon DEF Clock, Same
  <2>9. Good(r)
    BY <1>1, <2>3, <2>4, <2>5, <2>6, <2>8, GoesOnFor, Zenon DEF Same
  <2> QED BY <2>1, <2>9, Updated, Zenon
<1> QED BY <1>2, <1>3, Zenon DEF connect_path

LEMMA deriveStep ==
    ASSUME TypeOK, HookInv, NEW l \in Hooks, derive(l)
    PROVE  TypeOK' /\ HookInv'
<1> DEFINE h == hook[l]
<1>1. Good(h) /\ h.pc = "derive" /\ h.pc \in Calling
  BY HookIs, Zenon DEF derive, Calling
<1>2. h \in Hook /\ Clock(h) /\ h.at \in Nat /\ h.left \in Nat
  BY <1>1, CallIs, Zenon
<1>3. h.kind # "password"
  BY <1>1, Zenon DEF Good, SentInv
<1>4. {"decide", "connect"} \subseteq Calling \cap Stages
  BY Zenon DEF Calling, Stages
<1>5. CASE Local(l, [h EXCEPT !.pc = "decide", !.err = "ok"])
  <2> DEFINE r == [h EXCEPT !.pc = "decide", !.err = "ok"]
  <2>1. hook' = [hook EXCEPT ![l] = r]
    BY <1>5, Zenon DEF Local
  <2>2. "ok" \in Results
    BY Zenon DEF Results
  <2> HIDE DEF h
  <2>3. r \in Hook /\ Same(h, r) /\ r.pc = "decide" /\ r.at = h.at /\ r.answered = h.answered
    BY <1>2, <1>4, <2>2, Zenon DEF Hook, Same
  <2> HIDE DEF r
  <2>4. Clock(r)
    BY <1>2, <2>3, Zenon DEF Clock, Same
  <2>5. 0 \in Nat /\ r.at = h.at + 0
    BY <1>2, <2>3, SMTT(30)
  <2>6. Good(r)
    BY <1>1, <1>3, <1>4, <2>3, <2>4, <2>5, GoesOnFor, ZenonT(30) DEF Same
  <2> QED BY <2>1, <2>6, Updated, Zenon
<1>6. ASSUME NEW d \in {0, DeriveTime}, remaining(l), Takes(l, d),
             Local(l, [h EXCEPT !.pc = "connect", !.at = @ + d])
      PROVE  TypeOK' /\ HookInv'
  <2> DEFINE t == h.at + d
             r == [h EXCEPT !.pc = "connect", !.at = t]
  <2>1. (~h.child \/ t <= HookBudget) /\ h.at < HookBudget
    BY <1>6, Zenon DEF Takes, remaining
  <2>2. hook' = [hook EXCEPT ![l] = r]
    BY <1>6, Zenon DEF Local
  <2> HIDE DEF h
  <2>3. /\ d \in Nat /\ t \in Nat /\ t <= HookBudget + Overrun
        /\ h.at + h.left <= HookBudget + 1 => t + h.left <= HookBudget + 1 + DeriveTime
    BY <1>2, <2>1, Times, SMTT(30)
  <2>4. t = h.at + d
    OBVIOUS
  <2> HIDE DEF t
  <2>5. /\ r \in Hook /\ Same(h, r) /\ r.pc = "connect" /\ r.at = t /\ r.left = h.left
        /\ r.answered = h.answered
    BY <1>2, <1>4, <2>3, Zenon DEF Hook, Same
  <2> HIDE DEF r
  <2>6. Clock(r)
    <3>1. h.kind = "session" /\ ~h.child => h.at + h.left <= HookBudget + 1
      BY <1>1, <1>2, Zenon DEF Clock
    <3> QED BY <2>1, <2>3, <2>5, <3>1, Zenon DEF Clock, Same
  <2>7. Good(r)
    BY <1>1, <1>4, <2>3, <2>4, <2>5, <2>6, GoesOnFor, ZenonT(30)
  <2> QED BY <2>2, <2>7, Updated, Zenon
<1> QED BY <1>5, <1>6, Zenon DEF derive

(* The call has failed after some time. *)
LEMMA FailsAfter ==
    ASSUME TypeOK, HookInv, NEW l \in Hooks, hook[l].pc \in Calling,
           NEW e \in Results, e # "ok", NEW d \in Nat,
           hook[l].child => hook[l].at + d <= HookBudget,
           hook[l].kind = "session" /\ ~hook[l].child => hook[l].at + d <= HookBudget + Overrun,
           hook' = [hook EXCEPT ![l] = [hook[l] EXCEPT !.pc = "decide", !.err = e, !.at = @ + d]]
    PROVE  TypeOK' /\ HookInv'
<1> DEFINE h == hook[l]
           t == h.at + d
           r == [h EXCEPT !.pc = "decide", !.err = e, !.at = t]
<1>1. Good(h)
  BY HookIs, Zenon
<1>2. hook' = [hook EXCEPT ![l] = r]
  OBVIOUS
<1>3. /\ h.child => t <= HookBudget
      /\ h.kind = "session" /\ ~h.child => t <= HookBudget + Overrun
  BY Zenon
<1>4. h \in Hook /\ h.at \in Nat /\ h.pc \in Calling
  BY <1>1, CallIs, Zenon
<1> HIDE DEF h
<1>5. "decide" \in Calling /\ "decide" \in Stages
  BY Zenon DEF Calling, Stages
<1>6. t \in Nat /\ t = h.at + d
  BY <1>4, SMTT(30)
<1> HIDE DEF t
<1>7. /\ r \in Hook /\ Same(h, r) /\ r.pc = "decide" /\ r.err = e /\ r.at = t
      /\ r.answered = h.answered
  BY <1>4, <1>5, <1>6, Zenon DEF Hook, Same
<1> HIDE DEF r
<1>8. Clock(r)
  BY <1>3, <1>7, Zenon DEF Clock, Same
<1>9. Good(r)
  BY <1>1, <1>4, <1>5, <1>6, <1>7, <1>8, GoesOnFor, ZenonT(30)
<1> QED BY <1>2, <1>9, Updated, Zenon

(* The time of a call that has been sent, or is about to be. *)
LEMMA CallTime ==
    ASSUME NEW h, Good(h), h.pc \in {"connect", "answer"}
    PROVE  /\ h.kind = "session" /\ ~h.child => h.at + h.left <= HookBudget + Overrun
           /\ h.kind = "session" /\ ~h.child => h.at + 0 <= HookBudget + Overrun
           /\ h.child => h.at + 0 <= HookBudget
           /\ h.pc \in Calling /\ h.left \in Nat /\ 0 \in Nat
<1>1. h.pc \in Calling
  BY Zenon DEF Calling
<1>2. Clock(h) /\ h.at \in Nat /\ h.left \in Nat
  BY <1>1, CallIs, Zenon
<1>3. /\ h.kind = "session" /\ ~h.child => h.at + h.left <= HookBudget + 1 + DeriveTime
      /\ h.child => h.at <= HookBudget
      /\ h.kind = "session" /\ ~h.child => h.at <= HookBudget + Overrun
  BY <1>2, Zenon DEF Clock
<1>4. /\ h.at + h.left <= HookBudget + 1 + DeriveTime => h.at + h.left <= HookBudget + Overrun
      /\ h.at + 0 = h.at /\ 0 \in Nat
  BY <1>2, Times, SMTT(30)
<1> QED BY <1>1, <1>2, <1>3, <1>4, Zenon

LEMMA SendStep ==
    ASSUME TypeOK, HookInv, NEW l \in Hooks, Send(l)
    PROVE  TypeOK' /\ HookInv'
<1> DEFINE h == hook[l]
           failed(e, d) == [h EXCEPT !.pc = "decide", !.err = e, !.at = @ + d]
<1>1. Good(h) /\ h.pc = "connect"
  BY HookIs, Zenon DEF Send
<1>2. /\ h.kind = "session" /\ ~h.child => h.at + h.left <= HookBudget + Overrun
      /\ h.kind = "session" /\ ~h.child => h.at + 0 <= HookBudget + Overrun
      /\ h.child => h.at + 0 <= HookBudget
      /\ h.pc \in Calling /\ h.left \in Nat /\ 0 \in Nat
  BY <1>1, CallTime, Zenon
<1>3. {"NotFound", "Refused", "TimedOut"} \subseteq Results \ {"ok"}
  BY Zenon DEF Results, ConnectErrors
<1>4. ASSUME NEW e \in {"NotFound", "Refused"}, Local(l, failed(e, 0))
      PROVE  TypeOK' /\ HookInv'
  <2>1. hook' = [hook EXCEPT ![l] = [hook[l] EXCEPT !.pc = "decide", !.err = e, !.at = @ + 0]]
    BY <1>4, Zenon DEF Local
  <2>2. e \in Results /\ e # "ok"
    BY <1>3, Zenon
  <2> QED BY <1>2, <2>1, <2>2, FailsAfter, ZenonT(30)
<1>5. CASE Takes(l, h.left) /\ Local(l, failed("TimedOut", h.left))
  <2>1. hook' = [hook EXCEPT ![l] = [hook[l] EXCEPT !.pc = "decide", !.err = "TimedOut", !.at = @ + h.left]]
    BY <1>5, Zenon DEF Local
  <2>2. h.child => h.at + h.left <= HookBudget
    BY <1>5, Zenon DEF Takes
  <2>3. "TimedOut" \in Results /\ "TimedOut" # "ok"
    BY <1>3, Zenon
  <2> QED BY <1>2, <2>1, <2>2, <2>3, FailsAfter, ZenonT(30)
<1>6. CASE hook' = [hook EXCEPT ![l].pc = "answer"]
  <2> DEFINE r == [h EXCEPT !.pc = "answer"]
  <2>1. hook' = [hook EXCEPT ![l] = r]
    BY <1>6, Zenon
  <2>2. h \in Hook /\ Clock(h) /\ h.at \in Nat
    BY <1>1, <1>2, CallIs, Zenon
  <2> HIDE DEF h
  <2>3. "answer" \in Calling /\ "answer" \in Stages
    BY Zenon DEF Calling, Stages
  <2>4. /\ r \in Hook /\ Same(h, r) /\ r.pc = "answer" /\ r.at = h.at /\ r.left = h.left
        /\ r.answered = h.answered
    BY <2>2, <2>3, Zenon DEF Hook, Same
  <2> HIDE DEF r
  <2>5. Clock(r)
    BY <1>1, <2>2, <2>4, Zenon DEF Clock, Same
  <2>6. r.at = h.at + 0
    BY <2>2, <2>4, SMTT(30)
  <2>7. Good(r)
    BY <1>1, <1>2, <2>3, <2>4, <2>5, <2>6, GoesOnFor, ZenonT(30)
  <2> QED BY <2>1, <2>7, Updated, Zenon
<1> QED BY <1>4, <1>5, <1>6, Zenon DEF Send

LEMMA ReceiveStep ==
    ASSUME TypeOK, HookInv, NEW l \in Hooks, Receive(l)
    PROVE  TypeOK' /\ HookInv'
<1> DEFINE h == hook[l]
           got(e, d) == [h EXCEPT !.pc = "decide", !.err = e, !.at = @ + d]
<1>1. Good(h) /\ h.pc = "answer"
  BY HookIs, Zenon DEF Receive
<1>2. /\ h.kind = "session" /\ ~h.child => h.at + h.left <= HookBudget + Overrun
      /\ h.kind = "session" /\ ~h.child => h.at + 0 <= HookBudget + Overrun
      /\ h.child => h.at + 0 <= HookBudget
      /\ h.pc \in Calling /\ h.left \in Nat /\ 0 \in Nat
  BY <1>1, CallTime, Zenon
<1>3. {"Reset", "Deadline"} \subseteq Results \ {"ok"} /\ "ok" \in Results
  BY Zenon DEF Results
<1>4. CASE hook' = [hook EXCEPT ![l] = got("Reset", 0)]
  <2>1. "Reset" \in Results /\ "Reset" # "ok"
    BY <1>3, Zenon
  <2> QED BY <1>2, <1>4, <2>1, FailsAfter, ZenonT(30)
<1>5. CASE Takes(l, h.left) /\ hook' = [hook EXCEPT ![l] = got("Deadline", h.left)]
  <2>1. h.child => h.at + h.left <= HookBudget
    BY <1>5, Zenon DEF Takes
  <2>2. "Deadline" \in Results /\ "Deadline" # "ok"
    BY <1>3, Zenon
  <2> QED BY <1>2, <1>5, <2>1, <2>2, FailsAfter, ZenonT(30)
<1>6. CASE hook' = [hook EXCEPT ![l] = [got("ok", 0) EXCEPT !.answered = @ \cup {Head(h.vaults)}]]
  <2> DEFINE t == h.at + 0
             q == [h EXCEPT !.pc = "decide", !.err = "ok", !.at = t]
             a == h.answered \cup {Head(h.vaults)}
             r == [q EXCEPT !.answered = a]
  <2>1. h \in Hook /\ Clock(h) /\ h.at \in Nat /\ h.vaults \in Seq(Ids) /\ h.vaults # <<>> /\ h.at <= h.at
    BY <1>1, <1>2, CallIs, Zenon
  <2>2. "decide" \in Calling /\ "decide" \in Stages
    BY Zenon DEF Calling, Stages
  <2>3. t \in Nat /\ t = h.at
    BY <2>1, SMTT(30)
  <2>4. a \in SUBSET Ids /\ Head(h.vaults) \in a
    <3>1. Head(h.vaults) \in Ids /\ h.answered \subseteq Ids
      BY <2>1, HeadAndTail, Zenon DEF Hook
    <3> QED BY <3>1, Zenon
  <2>5. q.answered = h.answered
    BY <2>1, Zenon DEF Hook
  <2>6. hook' = [hook EXCEPT ![l] = r]
    BY <1>6, <2>5, Zenon
  <2> HIDE DEF h, t
  <2>7. /\ q \in Hook /\ Same(h, q) /\ q.pc = "decide" /\ q.at = t
    BY <1>3, <2>1, <2>2, <2>3, Zenon DEF Hook, Same
  <2>8. a = h.answered \cup {Head(h.vaults)}
    OBVIOUS
  <2> HIDE DEF q, a
  <2>9. r \in Hook /\ Same(q, r) /\ r.pc = q.pc /\ r.at = q.at /\ r.answered = a
    BY <2>4, <2>7, Zenon DEF Hook, Same
  <2> HIDE DEF r
  <2>10. Same(h, r) /\ r.pc = "decide" /\ r.at = h.at
    BY <2>3, <2>7, <2>9, Zenon DEF Same
  <2>11. Clock(r)
    BY <2>1, <2>10, Zenon DEF Clock, Same
  <2>12. TimeInv(r)
    BY <2>2, <2>9, <2>10, <2>11, ClockIs, Zenon
  <2>13. Good(r)
    BY <1>1, <1>2, <2>1, <2>2, <2>4, <2>8, <2>9, <2>10, <2>12, GoesOn, ZenonT(30)
  <2> QED BY <2>6, <2>13, Updated, Zenon
<1> QED BY <1>4, <1>5, <1>6, Zenon DEF Receive

-----------------------------------------------------------------------------
(* From one vault to the next *)

(* One vault is over, for either hook. *)
Follows(h, r) ==
    /\ r.pc = "tail" /\ r.vaults = Tail(h.vaults)
    /\ r.kind = h.kind /\ r.child = h.child /\ r.ready = h.ready /\ r.tried = h.tried
    /\ r.answered = h.answered /\ r.whole = h.whole /\ r.outcome = h.outcome

LEMMA GoesToNext ==
    ASSUME NEW h, Good(h), h.pc \in Calling, NEW r \in Hook, Follows(h, r), h.at <= r.at, Clock(r),
           r.kind = "session" => {r.first, r.success} \subseteq TailOutcomes \cup {<<>>},
           r.kind = "password" /\ r.success = <<>> => h.success = <<>> /\ Head(h.vaults) \in h.answered
    PROVE  Good(r)
<1>1. \A x \in Calling : x \notin {"auth", "hook", "headers", "tail", "report", "done"}
  BY Zenon DEF Calling
<1>2. /\ h \in Hook /\ h.at \in Nat /\ h.vaults \in Seq(Ids) /\ h.vaults # <<>>
      /\ Head(h.vaults) \in h.tried
  BY CallIs, Zenon
<1>3. r.at \in Nat
  BY Zenon DEF Hook
<1>4. r.at < HookBudget => h.at < HookBudget
  BY <1>2, <1>3, Times, SMTT(30)
<1>5. Range(h.vaults) = {Head(h.vaults)} \cup Range(r.vaults)
  BY <1>2, HeadAndTail, Zenon DEF Follows
<1>6. r.pc = "tail" /\ r.pc \notin Calling
  BY <1>1, Zenon DEF Follows
<1>7. StashInv(r)
  BY <1>6, Zenon DEF StashInv
<1>8. TriedInv(r)
  <2>1. r.kind = "session" /\ r.at < HookBudget => Range(h.vaults) \cup h.tried = h.ready
    BY <1>4, Zenon DEF Good, TriedInv, Follows
  <2>2. r.kind = "session" /\ r.at < HookBudget => Range(r.vaults) \cup r.tried = r.ready
    BY <1>2, <1>5, <2>1, Zenon DEF Follows
  <2> QED BY <1>6, <2>2, Zenon DEF TriedInv
<1>9. SentInv(r)
  <2>1. h.outcome = <<>> /\ <<>> # <<"Sent">>
    BY <1>1, OneWord, Zenon DEF Good, SentInv
  <2>2. r.kind = "password" /\ r.whole /\ r.success = <<>> => Range(h.vaults) \cup h.answered = h.ready
    BY Zenon DEF Good, SentInv, Follows
  <2>3. r.kind = "password" /\ r.whole /\ r.success = <<>> => Range(r.vaults) \cup r.answered = r.ready
    BY <1>5, <2>2, Zenon DEF Follows
  <2>4. r.outcome = <<>>
    BY <2>1, Zenon DEF Follows
  <2> QED BY <1>6, <2>1, <2>3, <2>4, Zenon DEF SentInv
<1>10. TimeInv(r)
  BY <1>6, ClockIs, Zenon
<1> QED BY <1>7, <1>8, <1>9, <1>10, Zenon DEF Good

LEMMA VaultOverIs ==
    ASSUME NEW h, Good(h), h.pc \in Calling, h.kind = "session", NEW o \in TailOutcomes
    PROVE  LET q == VaultOver(h, o)
           IN /\ q \in Hook /\ Follows(h, q) /\ q.at = h.at
              /\ {q.first, q.success} \subseteq TailOutcomes \cup {<<>>}
<1> DEFINE s == IF Reached(o) /\ h.success = <<>> THEN o ELSE h.success
           f == IF ~Reached(o) /\ h.first = <<>> THEN o ELSE h.first
           v == Tail(h.vaults)
           q == [h EXCEPT !.pc = "tail", !.vaults = v, !.success = s, !.first = f]
<1>1. VaultOver(h, o) = q
  BY Zenon DEF VaultOver
<1>2. h \in Hook /\ h.vaults \in Seq(Ids) /\ h.vaults # <<>>
  BY CallIs, Zenon
<1>3. v \in Seq(Ids) /\ "tail" \in Stages
  BY <1>2, HeadAndTail, Zenon DEF Stages
<1>4. {f, s} \subseteq TailOutcomes \cup {<<>>}
  BY Zenon DEF Good, StashInv
<1>5. TailOutcomes \cup {<<>>} \subseteq Outcomes
  BY TailOutcomeIs, SessionOutcomeIs, Zenon DEF Outcomes
<1>6. f \in Outcomes /\ s \in Outcomes /\ v = Tail(h.vaults)
  BY <1>4, <1>5, Zenon
<1> HIDE DEF f, s, v
<1>7. q \in Hook /\ Follows(h, q) /\ q.at = h.at /\ q.first = f /\ q.success = s
  BY <1>2, <1>3, <1>6, Zenon DEF Hook, Follows
<1> HIDE DEF q
<1> QED BY <1>1, <1>4, <1>7, Zenon

LEMMA VaultDone ==
    ASSUME TypeOK, HookInv, NEW l \in Hooks, hook[l].pc \in Calling, hook[l].kind = "session",
           NEW o \in TailOutcomes, Local(l, VaultOver(hook[l], o))
    PROVE  TypeOK' /\ HookInv'
<1> DEFINE h == hook[l]
           r == VaultOver(h, o)
<1>1. Good(h) /\ hook' = [hook EXCEPT ![l] = r]
  BY HookIs, Zenon DEF Local
<1>2. Clock(h) /\ h.at <= h.at
  BY <1>1, CallIs, Zenon
<1>3. r \in Hook /\ Follows(h, r) /\ r.at = h.at /\ {r.first, r.success} \subseteq TailOutcomes \cup {<<>>}
  BY <1>1, VaultOverIs, Zenon
<1>4. h.pc \in Calling /\ h.kind # "password"
  BY Zenon
<1> HIDE DEF h, r
<1>5. Clock(r) /\ r.kind # "password"
  BY <1>2, <1>3, <1>4, Zenon DEF Clock, Follows
<1>6. Good(r)
  BY <1>1, <1>2, <1>3, <1>4, <1>5, GoesToNext, ZenonT(30)
<1> QED BY <1>1, <1>6, Updated, Zenon

LEMMA VaultDoneAfter ==
    ASSUME TypeOK, HookInv, NEW l \in Hooks, hook[l].pc \in Calling, hook[l].kind = "session",
           NEW o \in TailOutcomes, NEW d \in Nat,
           hook[l].child => hook[l].at + d <= HookBudget,
           ~hook[l].child => hook[l].at + d <= HookBudget + Overrun,
           Local(l, [VaultOver(hook[l], o) EXCEPT !.at = @ + d])
    PROVE  TypeOK' /\ HookInv'
<1> DEFINE h == hook[l]
           q == VaultOver(h, o)
           t == q.at + d
           r == [q EXCEPT !.at = t]
<1>1. Good(h) /\ hook' = [hook EXCEPT ![l] = r]
  BY HookIs, Zenon DEF Local
<1>2. h.at \in Nat
  BY <1>1, CallIs, Zenon
<1>3. q \in Hook /\ Follows(h, q) /\ q.at = h.at /\ {q.first, q.success} \subseteq TailOutcomes \cup {<<>>}
  BY <1>1, VaultOverIs, Zenon
<1>4. /\ h.pc \in Calling /\ h.kind # "password"
      /\ h.child => h.at + d <= HookBudget
      /\ ~h.child => h.at + d <= HookBudget + Overrun
  BY Zenon
<1> HIDE DEF h, q
<1>5. t \in Nat /\ h.at <= t /\ t = h.at + d
  BY <1>2, <1>3, SMTT(30)
<1> HIDE DEF t
<1>6. r \in Hook /\ Follows(h, r) /\ r.at = t /\ r.first = q.first /\ r.success = q.success
  BY <1>3, <1>5, Zenon DEF Hook, Follows
<1> HIDE DEF r
<1>7. Clock(r) /\ r.kind # "password"
  BY <1>4, <1>5, <1>6, Zenon DEF Clock, Follows
<1>8. Good(r)
  BY <1>1, <1>3, <1>4, <1>5, <1>6, <1>7, GoesToNext, ZenonT(30)
<1> QED BY <1>1, <1>8, Updated, Zenon

LEMMA RetryResetStep ==
    ASSUME TypeOK, HookInv, NEW l \in Hooks, hook[l].pc = "decide", hook[l].kind = "session",
           RetryReset(l)
    PROVE  TypeOK' /\ HookInv'
<1> DEFINE h == hook[l]
<1>1. Good(h) /\ h.pc \in Calling /\ h.kind = "session"
  BY HookIs, Zenon DEF Calling
<1>2. <<"NoCallBudget">> \in TailOutcomes /\ <<"Failed">> \in TailOutcomes
  BY TailOutcomeIs, Zenon
<1>3. CASE Local(l, VaultOver(h, <<"NoCallBudget">>)) \/ Local(l, VaultOver(h, <<"Failed">>))
  BY <1>1, <1>2, <1>3, VaultDone, Zenon
<1> DEFINE c == capped(l, CallBudget)
           b == dir # "absent"
           r == [h EXCEPT !.pc = "check", !.stage = "again", !.left = c, !.held = b]
<1>4. CASE remaining(l) /\ Local(l, r)
  <2>1. h \in Hook /\ Clock(h) /\ h.at \in Nat /\ h.at < HookBudget
    BY <1>1, <1>4, CallIs, Zenon DEF remaining
  <2>2. c \in Nat /\ h.at + c <= HookBudget
    BY <2>1, Times, Capped, Zenon
  <2>3. hook' = [hook EXCEPT ![l] = r]
    BY <1>4, Zenon DEF Local
  <2>4. b \in BOOLEAN
    BY Zenon
  <2> HIDE DEF h, c, b
  <2>5. "check" \in Calling /\ "check" \in Stages /\ "again" \in Attempts
    BY Zenon DEF Calling, Stages, Attempts
  <2>6. r \in Hook /\ Same(h, r) /\ r.pc = "check" /\ r.at = h.at /\ r.left = c /\ r.answered = h.answered
    BY <2>1, <2>2, <2>4, <2>5, Zenon DEF Hook, Same
  <2> HIDE DEF r
  <2>7. Clock(r)
    BY <2>1, <2>2, <2>6, Zenon DEF Clock, Same
  <2>8. 0 \in Nat /\ r.at = h.at + 0
    BY <2>1, <2>6, SMTT(30)
  <2>9. Good(r)
    BY <1>1, <2>5, <2>6, <2>7, <2>8, GoesOnFor, ZenonT(30)
  <2> QED BY <2>3, <2>9, Updated, Zenon
<1> QED BY <1>3, <1>4, Zenon DEF RetryReset

(* The call moves to a stage before the daemon's start. *)
LEMMA MovesOn ==
    ASSUME TypeOK, HookInv, NEW l \in Hooks, hook[l].pc \in Calling, hook[l].kind = "session",
           hook[l].at < HookBudget, NEW x \in {"clear", "systemctl"},
           hook' = [hook EXCEPT ![l] = [hook[l] EXCEPT !.pc = x]]
    PROVE  TypeOK' /\ HookInv'
<1> DEFINE h == hook[l]
           r == [h EXCEPT !.pc = x]
<1>1. Good(h) /\ h.pc \in Calling /\ h.kind = "session" /\ h.at < HookBudget
  BY HookIs, Zenon
<1>2. hook' = [hook EXCEPT ![l] = r]
  BY Zenon
<1> HIDE DEF h
<1>3. h \in Hook /\ Clock(h) /\ h.at \in Nat
  BY <1>1, CallIs, Zenon
<1>4. x \in Calling /\ x \in Stages
  BY Zenon DEF Calling, Stages
<1>5. r \in Hook /\ Same(h, r) /\ r.pc = x /\ r.at = h.at /\ r.answered = h.answered
  BY <1>3, <1>4, Zenon DEF Hook, Same
<1> HIDE DEF r
<1>6. Clock(r) /\ r.kind # "password"
  BY <1>1, <1>3, <1>5, Zenon DEF Clock, Same
<1>7. 0 \in Nat /\ r.at = h.at + 0
  BY <1>3, <1>5, SMTT(30)
<1>8. Good(r)
  BY <1>1, <1>4, <1>5, <1>6, <1>7, GoesOnFor, ZenonT(30)
<1> QED BY <1>2, <1>8, Updated, Zenon

LEMMA StartPathStep ==
    ASSUME TypeOK, HookInv, NEW l \in Hooks, hook[l].pc = "decide", hook[l].kind = "session",
           StartPath(l)
    PROVE  TypeOK' /\ HookInv'
<1> DEFINE h == hook[l]
<1>1. h.pc \in Calling
  BY Zenon DEF Calling
<1>2. <<"ConnectNotStale">> \in TailOutcomes
  BY TailOutcomeIs, Zenon
<1>3. <<"Started", <<"NoStartBudget">>>> \in TailOutcomes
  BY StartOutcomeIs, TailOutcomeIs, Zenon
<1>4. CASE Local(l, VaultOver(h, <<"ConnectNotStale">>))
  BY <1>1, <1>2, <1>4, VaultDone, Zenon
<1>5. CASE Local(l, VaultOver(h, <<"Started", <<"NoStartBudget">>>>))
  BY <1>1, <1>3, <1>5, VaultDone, Zenon
<1>6. CASE remaining(l) /\ Local(l, [h EXCEPT !.pc = "clear"])
  <2>1. hook[l].at < HookBudget /\ hook' = [hook EXCEPT ![l] = [hook[l] EXCEPT !.pc = "clear"]]
    BY <1>6, Zenon DEF remaining, Local
  <2>2. "clear" \in {"clear", "systemctl"}
    OBVIOUS
  <2> QED BY <1>1, <2>1, <2>2, MovesOn, Zenon
<1> QED BY <1>4, <1>5, <1>6, Zenon DEF StartPath

LEMMA DecideStep ==
    ASSUME TypeOK, HookInv, NEW l \in Hooks, Decide(l)
    PROVE  TypeOK' /\ HookInv'
<1> DEFINE h == hook[l]
<1>1. Good(h) /\ h.pc = "decide" /\ h.pc \in Calling
  BY HookIs, Zenon DEF Decide, Calling
<1>2. <<"Attempted">> \in TailOutcomes /\ <<"Failed">> \in TailOutcomes
  BY TailOutcomeIs, Zenon
<1>3. <<"Started", <<"Retried">>>> \in TailOutcomes
  BY StartOutcomeIs, TailOutcomeIs, Zenon
<1>4. CASE h.kind = "session"
  <2>1. \/ \E o \in TailOutcomes : Local(l, VaultOver(h, o))
        \/ StartPath(l)
        \/ RetryReset(l)
    BY <1>2, <1>3, <1>4, ZenonT(30) DEF Decide
  <2>2. CASE \E o \in TailOutcomes : Local(l, VaultOver(h, o))
    BY <1>1, <1>4, <2>2, VaultDone, Zenon
  <2>3. CASE StartPath(l)
    BY <1>1, <1>4, <2>3, StartPathStep, Zenon
  <2>4. CASE RetryReset(l)
    BY <1>1, <1>4, <2>4, RetryResetStep, Zenon
  <2> QED BY <2>1, <2>2, <2>3, <2>4, Zenon
<1>5. CASE h.kind = "password"
  <2> DEFINE s == IF h.err = "ok" THEN h.success ELSE <<"SendFailed">>
             v == Tail(h.vaults)
             r == [h EXCEPT !.pc = "tail", !.vaults = v, !.success = s]
  <2>1. hook' = [hook EXCEPT ![l] = r]
    BY <1>5, Zenon DEF Decide, Local
  <2>2. h \in Hook /\ Clock(h) /\ h.vaults \in Seq(Ids) /\ h.vaults # <<>> /\ h.at <= h.at
    BY <1>1, CallIs, Zenon
  <2>3. v \in Seq(Ids) /\ v = Tail(h.vaults)
    BY <2>2, HeadAndTail, Zenon
  <2>4. h.success \in Outcomes /\ <<"SendFailed">> \in Outcomes
    BY <2>2, Zenon DEF Hook, Outcomes
  <2>5. s \in Outcomes /\ (s = <<>> => h.err = "ok" /\ h.success = <<>>)
    BY <2>4, OneWord, Zenon
  <2>6. h.err = "ok" => Head(h.vaults) \in h.answered
    BY <1>1, <1>5, Zenon DEF Good, SentInv
  <2>7. "tail" \in Stages
    BY Zenon DEF Stages
  <2> HIDE DEF h, s, v
  <2>8. r \in Hook /\ Follows(h, r) /\ r.at = h.at /\ r.success = s
    BY <2>2, <2>3, <2>5, <2>7, Zenon DEF Hook, Follows
  <2> HIDE DEF r
  <2>9. Clock(r) /\ r.kind # "session"
    BY <1>5, <2>2, <2>8, Zenon DEF Clock, Follows
  <2>10. Good(r)
    BY <1>1, <2>2, <2>5, <2>6, <2>8, <2>9, GoesToNext, ZenonT(30)
  <2> QED BY <2>1, <2>10, Updated, Zenon
<1> QED BY <1>4, <1>5, Zenon DEF Decide

LEMMA ClearStep ==
    ASSUME TypeOK, HookInv, NEW l \in Hooks, Clear(l)
    PROVE  TypeOK' /\ HookInv'
<1> DEFINE h == hook[l]
<1>1. Good(h) /\ h.pc = "clear" /\ h.pc \in Calling
  BY HookIs, Zenon DEF Clear, Calling
<1>2. h \in Hook /\ h.at < HookBudget
  BY <1>1, Zenon DEF Good, TimeInv
<1>3. h.kind = "session"
  <2>1. h.kind \in {"session", "password"}
    BY <1>2, Zenon DEF Hook, Kinds
  <2> QED BY <1>1, <2>1, Zenon DEF Good, SentInv
<1>4. <<"Started", <<"StaleSocketStuck">>>> \in TailOutcomes
  BY StartOutcomeIs, TailOutcomeIs, Zenon
<1>5. CASE Local(l, VaultOver(h, <<"Started", <<"StaleSocketStuck">>>>))
  BY <1>1, <1>3, <1>4, <1>5, VaultDone, Zenon
<1>6. CASE hook' = [hook EXCEPT ![l] = [hook[l] EXCEPT !.pc = "systemctl"]]
  <2>1. "systemctl" \in {"clear", "systemctl"}
    OBVIOUS
  <2> QED BY <1>1, <1>2, <1>3, <1>6, <2>1, MovesOn, Zenon
<1> QED BY <1>5, <1>6, Zenon DEF Clear, Local

LEMMA start_daemonStep ==
    ASSUME TypeOK, HookInv, NEW l \in Hooks, start_daemon(l)
    PROVE  TypeOK' /\ HookInv'
<1> DEFINE h == hook[l]
           c == capped(l, StartTimeout)
<1>1. Good(h) /\ h.pc = "systemctl" /\ h.pc \in Calling
  BY HookIs, Zenon DEF start_daemon, Calling
<1>2. h \in Hook /\ h.at \in Nat
  BY <1>1, CallIs, Zenon
<1>3. h.at < HookBudget /\ h.kind # "password"
  BY <1>1, Zenon DEF Good, TimeInv, SentInv
<1>4. c \in Nat /\ h.at + c <= HookBudget
  BY <1>2, <1>3, Times, Capped, Zenon
<1>5. PICK d \in {0, c, c + ReapTimeout} : Takes(l, d) /\ Local(l, [hook[l] EXCEPT !.pc = "wait", !.at = @ + d])
  BY Zenon DEF start_daemon
<1> DEFINE t == h.at + d
           r == [h EXCEPT !.pc = "wait", !.at = t]
<1>6. hook' = [hook EXCEPT ![l] = r] /\ (~h.child \/ t <= HookBudget)
  BY <1>5, Zenon DEF Local, Takes
<1> HIDE DEF h, c
<1>7. d \in Nat /\ t \in Nat /\ t <= HookBudget + ReapTimeout /\ t <= HookBudget + Overrun /\ t = h.at + d
  BY <1>2, <1>4, Times, SMTT(30)
<1>8. "wait" \in Calling /\ "wait" \in Stages
  BY Zenon DEF Calling, Stages
<1> HIDE DEF t
<1>9. r \in Hook /\ Same(h, r) /\ r.pc = "wait" /\ r.at = t /\ r.answered = h.answered
  BY <1>2, <1>7, <1>8, Zenon DEF Hook, Same
<1> HIDE DEF r
<1>10. Clock(r) /\ r.kind # "password"
  BY <1>3, <1>6, <1>7, <1>9, Zenon DEF Clock, Same
<1>11. Good(r)
  BY <1>1, <1>7, <1>8, <1>9, <1>10, GoesOnFor, ZenonT(30)
<1> QED BY <1>6, <1>11, Updated, Zenon

LEMMA WaitForSocketStep ==
    ASSUME TypeOK, HookInv, NEW l \in Hooks, WaitForSocket(l)
    PROVE  TypeOK' /\ HookInv'
<1> DEFINE h == hook[l]
           left == IF remaining(l) THEN capped(l, StartTimeout) ELSE 0
           notRetried(w, x, d) == [VaultOver(h, <<"Started", <<"NotRetried", w, x>>>>) EXCEPT !.at = @ + d]
           m(d) == Min({HookBudget - h.at - d, CallBudget})
           b == dir # "absent"
           again(d) == [h EXCEPT !.at = @ + d, !.pc = "check", !.stage = "start", !.held = b, !.left = m(d)]
<1>1. Good(h) /\ h.pc = "wait" /\ h.pc \in Calling
  BY HookIs, Zenon DEF WaitForSocket, Calling
<1>2. h \in Hook /\ h.at \in Nat /\ Clock(h)
  BY <1>1, CallIs, Zenon
<1>3. h.kind = "session"
  <2>1. h.kind \in {"session", "password"}
    BY <1>2, Zenon DEF Hook, Kinds
  <2> QED BY <1>1, <2>1, Zenon DEF Good, SentInv
<1>4. left \in Nat /\ 0 \in Nat /\ (remaining(l) => h.at + left <= HookBudget) /\ (~remaining(l) => left = 0)
  <2>1. CASE remaining(l)
    <3>1. h.at < HookBudget
      BY <2>1, Zenon DEF remaining
    <3>2. left = capped(l, StartTimeout) /\ capped(l, StartTimeout) \in Nat
          /\ h.at + capped(l, StartTimeout) <= HookBudget
      BY <1>2, <2>1, <3>1, Times, Capped, Zenon
    <3>3. 0 \in Nat
      BY SMTT(30)
    <3> QED BY <2>1, <3>2, <3>3, Zenon
  <2>2. CASE ~remaining(l)
    <3>1. 0 \in Nat /\ left = 0
      BY <2>2, SMTT(30)
    <3> QED BY <2>2, <3>1, Zenon
  <2> QED BY <2>1, <2>2, Zenon
<1>5. ~h.child => h.at <= HookBudget + Overrun
  BY <1>2, <1>3, Zenon DEF Clock
<1>6. \A w \in BOOLEAN, x \in {"None", "False"} : <<"Started", <<"NotRetried", w, x>>>> \in TailOutcomes
  BY StartOutcomeIs, TailOutcomeIs, Zenon
<1>7. <<"Started", <<"RetryBudgetSpent">>>> \in TailOutcomes
  BY StartOutcomeIs, TailOutcomeIs, Zenon
<1>8. ASSUME NEW d \in {0, left}
      PROVE  /\ d \in Nat /\ (~h.child => h.at + d <= HookBudget + Overrun)
             /\ Takes(l, d) => (h.child => h.at + d <= HookBudget)
  <2>1. d \in Nat
    BY <1>4, Zenon
  <2>2. CASE d = 0
    <3>1. h.at + d = h.at
      BY <1>2, <2>2, SMTT(30)
    <3> QED BY <1>5, <2>1, <3>1, Zenon DEF Takes
  <2>3. CASE d = left /\ remaining(l)
    <3>1. h.at + d <= HookBudget
      BY <1>4, <2>3, Zenon
    <3>2. h.at + d <= HookBudget + Overrun
      BY <1>2, <2>1, <3>1, Times, SMTT(30)
    <3> QED BY <2>1, <3>1, <3>2, Zenon
  <2> QED BY <1>4, <1>8, <2>2, <2>3, Zenon
<1>9. CASE Takes(l, left) /\ Local(l, notRetried(FALSE, "None", left))
  <2>1. /\ left \in {0, left} /\ left \in Nat /\ (~h.child => h.at + left <= HookBudget + Overrun)
        /\ (h.child => h.at + left <= HookBudget)
    BY <1>8, <1>9, Zenon
  <2> HIDE DEF left
  <2> QED BY <1>1, <1>3, <1>6, <1>9, <2>1, VaultDoneAfter, ZenonT(30)
<1>10. ASSUME NEW d \in {0, left}, Takes(l, d), Local(l, notRetried(TRUE, "False", d))
       PROVE  TypeOK' /\ HookInv'
  <2>1. d \in Nat /\ (~h.child => h.at + d <= HookBudget + Overrun) /\ (h.child => h.at + d <= HookBudget)
    BY <1>8, <1>10, Zenon
  <2> HIDE DEF left
  <2> QED BY <1>1, <1>3, <1>6, <1>10, <2>1, VaultDoneAfter, ZenonT(30)
<1>11. ASSUME NEW d \in {0, left}, Takes(l, d),
              Local(l, [VaultOver(h, <<"Started", <<"RetryBudgetSpent">>>>) EXCEPT !.at = @ + d])
       PROVE  TypeOK' /\ HookInv'
  <2>1. d \in Nat /\ (~h.child => h.at + d <= HookBudget + Overrun) /\ (h.child => h.at + d <= HookBudget)
    BY <1>8, <1>11, Zenon
  <2> HIDE DEF left
  <2> QED BY <1>1, <1>3, <1>7, <1>11, <2>1, VaultDoneAfter, ZenonT(30)
<1>12. ASSUME NEW d \in {0, left}, Takes(l, d), ~(h.at + d >= HookBudget), Local(l, again(d))
       PROVE  TypeOK' /\ HookInv'
  <2> DEFINE t == h.at + d
             c == m(d)
             r == [h EXCEPT !.at = t, !.pc = "check", !.stage = "start", !.held = b, !.left = c]
  <2>1. hook' = [hook EXCEPT ![l] = r]
    BY <1>12, Zenon DEF Local
  <2>2. d \in Nat
    BY <1>8, <1>12, Zenon
  <2>3. c \in Nat /\ t + c <= HookBudget /\ t \in Nat /\ t <= HookBudget
    <3> DEFINE a == HookBudget - h.at - d
    <3>1. ~(h.at + d >= HookBudget)
      BY <1>12, Zenon
    <3> HIDE DEF h
    <3>2. a \in Nat /\ t \in Nat /\ t <= HookBudget /\ CallBudget \in Nat
      BY <1>2, <2>2, <3>1, Times, SMTT(30)
    <3>3. c \in Nat /\ c <= a
      <4> HIDE DEF a
      <4> QED BY <3>2, MinIs, Zenon DEF a
    <3> HIDE DEF c
    <3>4. t + c <= HookBudget
      BY <1>2, <2>2, <3>2, <3>3, Times, SMTT(30)
    <3> QED BY <3>2, <3>3, <3>4, Zenon
  <2>4. b \in BOOLEAN /\ t = h.at + d
    BY Zenon
  <2>5. "check" \in Calling /\ "check" \in Stages /\ "start" \in Attempts
    BY Zenon DEF Calling, Stages, Attempts
  <2> HIDE DEF h, t, c, b
  <2>6. r \in Hook /\ Same(h, r) /\ r.pc = "check" /\ r.at = t /\ r.left = c /\ r.answered = h.answered
    BY <1>2, <2>3, <2>4, <2>5, ZenonT(30) DEF Hook, Same
  <2> HIDE DEF r
  <2>7. t <= HookBudget + Overrun
    BY <2>3, Times, SMTT(30)
  <2>8. Clock(r) /\ r.kind # "password"
    BY <1>3, <2>3, <2>6, <2>7, Zenon DEF Clock, Same
  <2>9. Good(r)
    BY <1>1, <2>2, <2>4, <2>5, <2>6, <2>8, GoesOnFor, ZenonT(30)
  <2> QED BY <2>1, <2>9, Updated, Zenon
<1>13. \/ Takes(l, left) /\ Local(l, notRetried(FALSE, "None", left))
       \/ \E d \in {0, left} :
            /\ Takes(l, d)
            /\ \/ Local(l, notRetried(TRUE, "False", d))
               \/ Local(l, [VaultOver(h, <<"Started", <<"RetryBudgetSpent">>>>) EXCEPT !.at = @ + d])
               \/ ~(h.at + d >= HookBudget) /\ Local(l, again(d))
  BY ZenonT(30) DEF WaitForSocket
<1> HIDE DEF left, notRetried, again, h
<1> QED BY <1>9, <1>10, <1>11, <1>12, <1>13, Zenon

-----------------------------------------------------------------------------
(* The end of a tail *)

LEMMA DecidedIs ==
    ASSUME NEW h, Good(h)
    PROVE  /\ Decided(h) \in Outcomes
           /\ h.kind = "session" => Decided(h) \in TailOutcomes
           /\ h.kind = "password" =>
                /\ Decided(h) \in {<<"Sent">>, <<"SendFailed">>}
                /\ Decided(h) = <<"Sent">> => h.success = <<>> /\ h.whole
<1>1. h.kind \in {"session", "password"}
  BY Zenon DEF Good, Hook, Kinds
<1>2. CASE h.kind = "session"
  <2>1. <<"BudgetSpent">> \in TailOutcomes
    BY TailOutcomeIs, Zenon
  <2>2. {h.first, h.success} \subseteq TailOutcomes \cup {<<>>}
    BY <1>2, Zenon DEF Good, StashInv
  <2>3. Decided(h) \in TailOutcomes
    BY <1>2, <2>1, <2>2, Zenon DEF Decided
  <2>4. Decided(h) \in Outcomes
    BY <2>3, TailOutcomeIs, SessionOutcomeIs, Zenon
  <2> QED BY <1>2, <2>3, <2>4, Zenon
<1>3. CASE h.kind = "password"
  <2>1. Decided(h) = IF h.success = <<>> /\ h.whole THEN <<"Sent">> ELSE <<"SendFailed">>
    BY <1>3, Zenon DEF Decided
  <2>2. <<"Sent">> # <<"SendFailed">> /\ {<<"Sent">>, <<"SendFailed">>} \subseteq Outcomes
    BY OneWord, Zenon DEF Outcomes
  <2> QED BY <1>3, <2>1, <2>2, Zenon
<1> QED BY <1>1, <1>2, <1>3, Zenon

(* No vault is left when a tail ends, unless the budget is spent. *)
LEMMA TailEnds ==
    ASSUME NEW h, Good(h), h.pc = "tail",
           h.vaults = <<>> \/ (h.kind = "session" /\ ~(h.at < HookBudget))
    PROVE  /\ h.kind = "session" /\ h.at < HookBudget => h.tried = h.ready
           /\ h.kind = "password" /\ h.success = <<>> /\ h.whole => h.answered = h.ready
<1>1. h.vaults = <<>> => Range(h.vaults) = {}
  BY EmptyLine, Zenon
<1>2. h.kind = "session" /\ h.at < HookBudget => Range(h.vaults) \cup h.tried = h.ready
  BY Zenon DEF Good, TriedInv
<1>3. h.kind = "password" /\ h.success = <<>> /\ h.whole => Range(h.vaults) \cup h.answered = h.ready
  BY Zenon DEF Good, SentInv
<1> QED BY <1>1, <1>2, <1>3, Zenon

LEMMA TailOverStep ==
    ASSUME TypeOK, HookInv, NEW l \in Hooks, hook[l].pc = "tail", TailOver(l),
           hook[l].vaults = <<>> \/ (hook[l].kind = "session" /\ ~remaining(l))
    PROVE  TypeOK' /\ HookInv'
<1> DEFINE h == hook[l]
           o == Decided(h)
<1>1. Good(h) /\ h.pc = "tail" /\ h \in Hook
  BY HookIs, Zenon DEF Good
<1>2. /\ h.kind = "session" /\ h.at < HookBudget => h.tried = h.ready
      /\ h.kind = "password" /\ h.success = <<>> /\ h.whole => h.answered = h.ready
  BY <1>1, TailEnds, Zenon DEF remaining
<1>3. /\ o \in Outcomes
      /\ h.kind = "session" => o \in TailOutcomes
      /\ h.kind = "password" => o \in {<<"Sent">>, <<"SendFailed">>}
      /\ h.kind = "password" => (o = <<"Sent">> => h.answered = h.ready)
  BY <1>1, <1>2, DecidedIs, Zenon
<1>4. h.kind \in {"session", "password"}
  BY <1>1, Zenon DEF Hook, Kinds
<1>5. h.kind = "session" => o # <<"Sent">> /\ clears_stash(o)
  BY <1>3, TailOutcomeIs, SessionOutcomeIs, Zenon
<1>6. CASE h.child
  <2> DEFINE r == [h EXCEPT !.pc = "report", !.vaults = <<>>, !.decided = o]
  <2>1. hook' = [hook EXCEPT ![l] = r]
    BY <1>6, Zenon DEF TailOver, Local
  <2>2. "report" \in Stages /\ <<>> \in Seq(Ids)
    BY EmptyLine, Zenon DEF Stages
  <2> HIDE DEF h, o
  <2>3. /\ r \in Hook /\ r.pc = "report" /\ r.decided = o /\ r.kind = h.kind /\ r.child = h.child
        /\ r.at = h.at /\ r.ready = h.ready /\ r.tried = h.tried /\ r.answered = h.answered
        /\ r.outcome = h.outcome /\ r.first = h.first /\ r.success = h.success
    BY <1>1, <1>3, <2>2, Zenon DEF Hook
  <2> HIDE DEF r
  <2>4. r.pc \notin Calling
    BY <2>3, Zenon DEF Calling
  <2>5. StashInv(r)
    BY <1>1, <1>3, <2>3, Zenon DEF Good, StashInv
  <2>6. TriedInv(r)
    BY <1>2, <2>3, <2>4, Zenon DEF TriedInv
  <2>7. SentInv(r)
    <3>1. h.outcome = <<>> /\ <<>> # <<"Sent">>
      BY <1>1, OneWord, Zenon DEF Good, SentInv
    <3> QED BY <1>3, <2>3, <2>4, <3>1, Zenon DEF SentInv
  <2>8. TimeInv(r)
    <3>1. h.at <= HookBudget /\ h.at <= HookBudget + Overrun
      BY <1>1, <1>6, Zenon DEF Good, TimeInv
    <3> QED BY <1>6, <2>3, <3>1, Zenon DEF TimeInv
  <2>9. Good(r)
    BY <2>3, <2>5, <2>6, <2>7, <2>8, Zenon DEF Good
  <2> QED BY <2>1, <2>9, Updated, Zenon
<1>7. CASE ~h.child
  <2> DEFINE q == Returned(h, o)
             r == [q EXCEPT !.decided = o]
  <2>1. hook' = [hook EXCEPT ![l] = r]
    BY <1>7, Zenon DEF TailOver, Local
  <2> HIDE DEF h, o
  <2>2. /\ q \in Hook /\ q.pc = "done" /\ q.outcome = o /\ q.first = <<>> /\ q.success = <<>>
        /\ q.kind = h.kind /\ q.child = h.child /\ q.at = h.at
    BY <1>1, <1>3, ReturnedIs, SMTT(30)
  <2>3. q.ready = h.ready /\ q.tried = h.tried /\ q.answered = h.answered
    BY <1>1, <1>3, ReturnedIs, SMTT(30)
  <2>4. ~q.stash
    BY <1>1, <1>3, <1>4, <1>5, ReturnedIs, SMTT(30)
  <2> HIDE DEF q
  <2>5. /\ r \in Hook /\ r.pc = q.pc /\ r.outcome = q.outcome /\ r.first = q.first
        /\ r.success = q.success /\ r.kind = q.kind /\ r.child = q.child /\ r.at = q.at
        /\ r.ready = q.ready /\ r.tried = q.tried /\ r.answered = q.answered /\ r.stash = q.stash
    BY <1>3, <2>2, Zenon DEF Hook
  <2> HIDE DEF r
  <2>6. h.kind = "session" \/ h.child => h.at <= HookBudget + Overrun
    BY <1>1, Zenon DEF Good, TimeInv
  <2>7. r.kind = "session" \/ r.child => r.at <= HookBudget + Overrun
    BY <2>2, <2>5, <2>6, Zenon
  <2>8. r.kind = "session" /\ r.at < HookBudget /\ Reached(r.outcome) => r.tried = r.ready
    BY <1>2, <2>2, <2>3, <2>5, Zenon
  <2>9. r.outcome = <<"Sent">> => r.kind = "password" /\ r.answered = r.ready
    BY <1>3, <1>4, <1>5, <2>2, <2>3, <2>5, Zenon
  <2>10. r \in Hook /\ r.pc = "done" /\ ~r.stash /\ r.first = <<>> /\ r.success = <<>>
    BY <2>2, <2>4, <2>5, Zenon
  <2>11. r.kind = "password" => ~Reached(r.outcome)
    BY <1>3, <2>2, <2>5, PasswordOutcomeIs, Zenon
  <2>12. Good(r)
    BY <2>7, <2>8, <2>9, <2>10, <2>11, Finished, Zenon
  <2> QED BY <2>1, <2>12, Updated, Zenon
<1> QED BY <1>6, <1>7, Zenon

LEMMA NextVaultStep ==
    ASSUME TypeOK, HookInv, NEW l \in Hooks, NextVault(l)
    PROVE  TypeOK' /\ HookInv'
<1> DEFINE h == hook[l]
           a == h.tried \cup {Head(h.vaults)}
           begin == [h EXCEPT !.pc = "check", !.tried = a]
           c == capped(l, CallBudget)
<1>1. Good(h) /\ h.pc = "tail" /\ h \in Hook
  BY HookIs, Zenon DEF Good, NextVault
<1>2. CASE TailOver(l) /\ (h.vaults = <<>> \/ (h.kind = "session" /\ ~remaining(l)))
  BY <1>1, <1>2, TailOverStep, Zenon
<1>3. ASSUME h.vaults # <<>>, NEW r \in Hook, r.pc = "check", r.tried = a, r.kind = h.kind,
             r.child = h.child, r.at = h.at, r.ready = h.ready, r.answered = h.answered,
             r.vaults = h.vaults, r.whole = h.whole, r.outcome = h.outcome,
             r.first = h.first, r.success = h.success,
             r.kind = "session" => r.at + r.left <= HookBudget
      PROVE  Good(r)
  <2>1. h.vaults \in Seq(Ids) /\ h.at \in Nat
    BY <1>1, Zenon DEF Hook
  <2>2. Head(h.vaults) \in Range(h.vaults) /\ Head(h.vaults) \in a
    BY <1>3, <2>1, HeadAndTail, Zenon
  <2>3. "check" \in Calling /\ r.pc \notin {"auth", "hook", "headers", "tail", "report", "done"}
    BY <1>3, Zenon DEF Calling
  <2>4. Range(h.vaults) \cup a = Range(h.vaults) \cup h.tried
    BY <2>2, Zenon
  <2> HIDE DEF h, a
  <2>5. StashInv(r)
    BY <1>1, <1>3, <2>3, Zenon DEF Good, StashInv
  <2>6. TriedInv(r)
    <3>1. h.kind = "session" /\ h.at < HookBudget => Range(h.vaults) \cup h.tried = h.ready
      BY <1>1, Zenon DEF Good, TriedInv
    <3>2. r.kind = "session" /\ r.at < HookBudget => Range(r.vaults) \cup r.tried = r.ready
      BY <1>3, <2>4, <3>1, Zenon
    <3> QED BY <1>3, <2>2, <2>3, <3>2, Zenon DEF TriedInv
  <2>7. SentInv(r)
    <3>1. h.outcome = <<>> /\ <<>> # <<"Sent">>
      BY <1>1, OneWord, Zenon DEF Good, SentInv
    <3>2. h.kind = "password" /\ h.whole /\ h.success = <<>> => Range(h.vaults) \cup h.answered = h.ready
      BY <1>1, Zenon DEF Good, SentInv
    <3> QED BY <1>3, <2>3, <3>1, <3>2, Zenon DEF SentInv
  <2>8. Clock(r)
    <3>1. TimeInv(h) /\ h.pc \in Calling \cup {"tail"}
      BY <1>1, Zenon DEF Good
    <3>2. Clock(h)
      BY <1>1, <3>1, ClockIs, Zenon
    <3> QED BY <1>3, <3>2, Zenon DEF Clock
  <2>9. TimeInv(r)
    BY <1>3, <2>3, <2>8, ClockIs, Zenon
  <2> QED BY <1>3, <2>5, <2>6, <2>7, <2>9, Zenon DEF Good
<1>4. ASSUME h.vaults # <<>>
      PROVE  a \in SUBSET Ids /\ "check" \in Stages /\ "first" \in Attempts
  <2>1. h.vaults \in Seq(Ids) /\ h.tried \subseteq Ids
    BY <1>1, Zenon DEF Hook
  <2>2. Head(h.vaults) \in Ids
    BY <1>4, <2>1, HeadAndTail, Zenon
  <2> QED BY <2>1, <2>2, Zenon DEF Stages, Calling, Attempts
<1>5. CASE h.vaults # <<>> /\ h.kind = "password" /\ Local(l, begin)
  <2>1. hook' = [hook EXCEPT ![l] = begin]
    BY <1>5, Zenon DEF Local
  <2> HIDE DEF h, a
  <2>2. /\ begin \in Hook /\ begin.pc = "check" /\ begin.tried = a /\ begin.kind = h.kind
        /\ begin.child = h.child /\ begin.at = h.at /\ begin.ready = h.ready /\ begin.answered = h.answered
        /\ begin.vaults = h.vaults /\ begin.whole = h.whole /\ begin.outcome = h.outcome
        /\ begin.first = h.first /\ begin.success = h.success
    BY <1>1, <1>4, <1>5, Zenon DEF Hook
  <2> HIDE DEF begin
  <2>3. Good(begin)
    BY <1>3, <1>5, <2>2, ZenonT(30)
  <2> QED BY <2>1, <2>3, Updated, Zenon
<1>6. CASE /\ h.vaults # <<>> /\ h.kind = "session" /\ remaining(l)
           /\ Local(l, [begin EXCEPT !.stage = "first", !.left = c])
  <2> DEFINE r == [h EXCEPT !.pc = "check", !.tried = a, !.stage = "first", !.left = c]
  <2>1. hook' = [hook EXCEPT ![l] = r]
    BY <1>6, Zenon DEF Local
  <2>2. h.at \in Nat /\ h.at < HookBudget
    BY <1>1, <1>6, Zenon DEF Hook, remaining
  <2>3. c \in Nat /\ h.at + c <= HookBudget
    BY <2>2, Times, Capped, Zenon
  <2> HIDE DEF h, a, c
  <2>4. /\ r \in Hook /\ r.pc = "check" /\ r.tried = a /\ r.kind = h.kind
        /\ r.child = h.child /\ r.at = h.at /\ r.ready = h.ready /\ r.answered = h.answered
        /\ r.vaults = h.vaults /\ r.whole = h.whole /\ r.outcome = h.outcome
        /\ r.first = h.first /\ r.success = h.success /\ r.left = c
    BY <1>1, <1>4, <1>6, <2>3, Zenon DEF Hook
  <2> HIDE DEF r
  <2>5. Good(r)
    BY <1>3, <1>6, <2>3, <2>4, ZenonT(30)
  <2> QED BY <2>1, <2>5, Updated, Zenon
<1> QED BY <1>2, <1>5, <1>6, Zenon DEF NextVault

-----------------------------------------------------------------------------
(* Parent and child *)

LEMMA ReportStep ==
    ASSUME TypeOK, HookInv, NEW l \in Hooks, Report(l)
    PROVE  TypeOK' /\ HookInv'
<1> DEFINE h == hook[l]
           code == session_outcome_code(h.decided)
           o == IF h.kind = "session" THEN session_outcome_from_codes(code[1], code[2])
                ELSE chauthtok_outcome_from_report(<<chauthtok_outcome_code(h.decided)>>)
<1>1. Good(h) /\ h.pc = "report" /\ h \in Hook
  BY HookIs, Zenon DEF Good, Report
<1>2. h.kind \in {"session", "password"}
  BY <1>1, Zenon DEF Hook, Kinds
<1>3. h.kind = "session" => o \in TailOutcomes
  <2>1. h.kind = "session" => h.decided \in TailOutcomes
    BY <1>1, Zenon DEF Good, StashInv
  <2>2. h.kind = "session" => h.decided \in SessionOutcomes
    BY <2>1, TailOutcomeIs, Zenon
  <2>3. h.kind = "session" => session_outcome_from_codes(code[1], code[2]) = h.decided
    BY <2>2, SessionReportReadsBack, Zenon
  <2> QED BY <2>1, <2>3, Zenon
<1>4. h.kind = "password" => o \in {<<"Sent">>, <<"SendFailed">>} /\ (o = <<"Sent">> => h.decided = <<"Sent">>)
  <2> DEFINE n == chauthtok_outcome_code(h.decided)
  <2>1. h.decided # <<"Sent">> => n = 0
    BY Zenon DEF chauthtok_outcome_code
  <2>2. <<n>>[1] = n /\ <<"Sent">> # <<"SendFailed">>
    BY OneWord, Zenon
  <2>3. 0 # CHAUTHTOK_SENT
    BY SMTT(30) DEF CHAUTHTOK_SENT
  <2> HIDE DEF n
  <2>4. chauthtok_outcome_from_report(<<n>>) \in {<<"Sent">>, <<"SendFailed">>}
    BY Zenon DEF chauthtok_outcome_from_report
  <2>5. chauthtok_outcome_from_report(<<n>>) = <<"Sent">> => h.decided = <<"Sent">>
    BY <2>1, <2>2, <2>3, Zenon DEF chauthtok_outcome_from_report
  <2>6. h.kind = "password" => o = chauthtok_outcome_from_report(<<n>>)
    BY Zenon DEF n
  <2> HIDE DEF o
  <2> QED BY <2>4, <2>5, <2>6, Zenon
<1>5. o \in Outcomes
  BY <1>2, <1>3, <1>4, TailOutcomeIs, SessionOutcomeIs, Zenon DEF Outcomes
<1>6. h.kind = "session" => o # <<"Sent">> /\ clears_stash(o)
  <2> HIDE DEF o
  <2> QED BY <1>3, TailOutcomeIs, SessionOutcomeIs, Zenon
<1>7. h.kind = "password" => (o = <<"Sent">> => h.answered = h.ready)
  <2> HIDE DEF o
  <2> QED BY <1>1, <1>4, Zenon DEF Good, SentInv
<1>8. h.kind = "session" /\ h.at < HookBudget => h.tried = h.ready
  BY <1>1, Zenon DEF Good, TriedInv
<1>9. h.at \in Nat /\ h.at <= HookBudget
  BY <1>1, Zenon DEF Good, Hook, TimeInv
<1>10. PICK d \in {0, ReapTimeout, 2 * ReapTimeout} : Local(l, [Returned(h, o) EXCEPT !.at = @ + d])
  BY Zenon DEF Report
<1> DEFINE q == Returned(h, o)
           t == q.at + d
           r == [q EXCEPT !.at = t]
<1>11. hook' = [hook EXCEPT ![l] = r]
  BY <1>10, Zenon DEF Local
<1> HIDE DEF h, o
<1>12. /\ q \in Hook /\ q.pc = "done" /\ q.outcome = o /\ q.first = <<>> /\ q.success = <<>>
       /\ q.kind = h.kind /\ q.child = h.child /\ q.at = h.at
  BY <1>1, <1>5, ReturnedIs, SMTT(30)
<1>13. q.ready = h.ready /\ q.tried = h.tried /\ q.answered = h.answered
  BY <1>1, <1>5, ReturnedIs, SMTT(30)
<1>14. ~q.stash
  BY <1>1, <1>2, <1>5, <1>6, ReturnedIs, SMTT(30)
<1> HIDE DEF q
<1>15. t \in Nat /\ t <= HookBudget + Overrun /\ (t < HookBudget => h.at < HookBudget)
  BY <1>9, <1>12, Times, SMTT(90)
<1> HIDE DEF t
<1>16. /\ r \in Hook /\ r.pc = q.pc /\ r.outcome = q.outcome /\ r.first = q.first
       /\ r.success = q.success /\ r.kind = q.kind /\ r.child = q.child /\ r.at = t
       /\ r.ready = q.ready /\ r.tried = q.tried /\ r.answered = q.answered /\ r.stash = q.stash
  BY <1>12, <1>15, Zenon DEF Hook
<1> HIDE DEF r
<1>17. r.kind = "session" /\ r.at < HookBudget /\ Reached(r.outcome) => r.tried = r.ready
  BY <1>8, <1>12, <1>13, <1>15, <1>16, Zenon
<1>18. r.outcome = <<"Sent">> => r.kind = "password" /\ r.answered = r.ready
  BY <1>2, <1>6, <1>7, <1>12, <1>13, <1>16, Zenon
<1>19. /\ r \in Hook /\ r.pc = "done" /\ ~r.stash /\ r.first = <<>> /\ r.success = <<>>
       /\ r.at <= HookBudget + Overrun
  BY <1>12, <1>14, <1>15, <1>16, Zenon
<1>20. r.kind = "password" => ~Reached(r.outcome)
  BY <1>4, <1>12, <1>16, PasswordOutcomeIs, Zenon
<1>21. Good(r)
  BY <1>17, <1>18, <1>19, <1>20, Finished, Zenon
<1> QED BY <1>11, <1>21, Updated, Zenon

(* The child tells its parent nothing: it died, or it was cut. *)
LEMMA NoReportStep ==
    ASSUME TypeOK, HookInv, NEW l \in Hooks, ChildDies(l) \/ Kill(l)
    PROVE  TypeOK' /\ HookInv'
<1> DEFINE h == hook[l]
<1>1. Good(h) /\ h \in Hook /\ h.child /\ h.pc # "done"
  BY HookIs, Zenon DEF Good, ChildDies, Kill, AtWork
<1>2. h.at \in Nat /\ h.at <= HookBudget
  BY <1>1, Zenon DEF Good, Hook, TimeInv
<1>3. PICK x \in Words : x # "NoPassword" /\ NoReport(h) = <<x>>
  BY NoReportIs, Zenon
<1> DEFINE q == Returned(h, <<x>>)
<1>4. q.at = h.at
  <2>1. <<x>> \in Outcomes
    BY OtherOutcomeIs, Zenon DEF Words
  <2> QED BY <1>1, <2>1, ReturnedIs, Zenon
<1>5. \E t \in {q.at + 0, q.at + ReapTimeout, HookBudget + 0, HookBudget + ReapTimeout} :
         hook' = [hook EXCEPT ![l] = [q EXCEPT !.at = t]]
  BY <1>3, ZenonT(30) DEF ChildDies, Kill, Local
<1>6. PICK t \in {q.at + 0, q.at + ReapTimeout, HookBudget + 0, HookBudget + ReapTimeout} :
         hook' = [hook EXCEPT ![l] = [q EXCEPT !.at = t]]
  BY <1>5, Zenon
<1>7. t \in Nat /\ t <= HookBudget + Overrun
  <2> HIDE DEF h, q
  <2> QED BY <1>2, <1>4, Times, SMTT(30)
<1>8. Good([q EXCEPT !.at = t])
  BY <1>1, <1>3, <1>7, GivesUpLate, Zenon
<1> QED BY <1>6, <1>8, Updated, Zenon

LEMMA ReturnStep ==
    ASSUME TypeOK, HookInv, NEW l \in Hooks, NEW x \in Words,
           x # "NoPassword" \/ ~hook[l].stash, Return(l, <<x>>)
    PROVE  TypeOK' /\ HookInv'
<1>1. Good(hook[l])
  BY HookIs, Zenon
<1>2. Good(Returned(hook[l], <<x>>))
  BY <1>1, GivesUp, Zenon
<1>3. hook' = [hook EXCEPT ![l] = Returned(hook[l], <<x>>)]
  BY Zenon DEF Return
<1> QED BY <1>2, <1>3, Updated, Zenon

LEMMA PanicStep ==
    ASSUME TypeOK, HookInv, NEW l \in Hooks, Panic(l)
    PROVE  TypeOK' /\ HookInv'
<1>1. "Panic" \in Words /\ "Panic" # "NoPassword"
  BY Zenon DEF Words
<1> QED BY <1>1, ReturnStep, Zenon DEF Panic

-----------------------------------------------------------------------------
(* Before the fork *)

LEMMA FreshIs ==
    ASSUME NEW kind \in HookKinds
    PROVE  Good(Fresh(kind))
<1> DEFINE r == Fresh(kind)
<1>1. /\ kind \in Kinds /\ "auth" \in Stages /\ 0 \in Nat /\ <<>> \in Files /\ <<>> \in Seq(Ids)
      /\ TRUE \in AutoStarts /\ 0 \in Uids /\ "first" \in Attempts /\ "ok" \in Results
      /\ <<>> \in Outcomes /\ {} \in SUBSET Ids
  <2>1. 0 \in Nat
    BY SMTT(30)
  <2> QED BY <2>1, LoginAssumption, EmptyLine, Zenon
        DEF Kinds, Stages, Files, AutoStarts, Uids, Attempts, Results, Outcomes
<1>2. r \in Hook
  BY <1>1, ZenonT(30) DEF Fresh, Hook
<1>3. /\ r.pc = "auth" /\ r.at = 0 /\ ~r.child /\ r.first = <<>> /\ r.success = <<>>
      /\ r.vaults = <<>> /\ r.tried = {} /\ r.answered = {} /\ r.outcome = <<>>
  BY Zenon DEF Fresh
<1> HIDE DEF r
<1>4. r.pc \notin Calling /\ <<>> # <<"Sent">>
  BY <1>3, OneWord, Zenon DEF Calling
<1>5. StashInv(r)
  BY <1>3, Zenon DEF StashInv
<1>6. TriedInv(r)
  BY <1>3, <1>4, Zenon DEF TriedInv
<1>7. SentInv(r)
  BY <1>3, <1>4, Zenon DEF SentInv
<1>8. TimeInv(r)
  <2>1. 0 <= HookBudget + Overrun
    BY Times, SMTT(30)
  <2> QED BY <1>3, <2>1, Zenon DEF TimeInv
<1>9. Good(r)
  BY <1>2, <1>5, <1>6, <1>7, <1>8, Zenon DEF Good
<1> QED BY <1>9, Zenon DEF r

LEMMA AuthenticateStep ==
    ASSUME TypeOK, HookInv, NEW l \in Hooks, Authenticate(l)
    PROVE  TypeOK' /\ HookInv'
<1> DEFINE h == hook[l]
<1>1. Good(h) /\ h.pc = "auth" /\ h \in Hook
  BY HookIs, Zenon DEF Good, Authenticate
<1>2. PICK b \in BOOLEAN : hook' = [hook EXCEPT ![l] = [h EXCEPT !.pc = "hook", !.stash = b]]
  BY Zenon DEF Authenticate, Local
<1> DEFINE r == [h EXCEPT !.pc = "hook", !.stash = b]
<1>3. hook' = [hook EXCEPT ![l] = r]
  BY <1>2, Zenon
<1>4. "hook" \in Stages
  BY Zenon DEF Stages
<1> HIDE DEF h
<1>5. /\ r \in Hook /\ r.pc = "hook" /\ r.at = h.at /\ r.child = h.child /\ r.first = h.first
      /\ r.success = h.success /\ r.vaults = h.vaults /\ r.tried = h.tried
      /\ r.answered = h.answered /\ r.outcome = h.outcome /\ r.kind = h.kind
  BY <1>1, <1>4, Zenon DEF Hook
<1> HIDE DEF r
<1>6. r.pc \notin Calling /\ h.outcome = <<>> /\ <<>> # <<"Sent">>
  BY <1>1, <1>5, OneWord, Zenon DEF Calling, Good, SentInv
<1>7. StashInv(r)
  BY <1>1, <1>5, Zenon DEF Good, StashInv
<1>8. TriedInv(r)
  BY <1>1, <1>5, <1>6, Zenon DEF Good, TriedInv
<1>9. SentInv(r)
  BY <1>1, <1>5, <1>6, Zenon DEF Good, SentInv
<1>10. TimeInv(r)
  BY <1>1, <1>5, Zenon DEF Good, TimeInv
<1>11. Good(r)
  BY <1>5, <1>7, <1>8, <1>9, <1>10, Zenon DEF Good
<1> QED BY <1>3, <1>11, Updated, Zenon

(* There is one target, or none. *)
LEMMA TargetIs ==
    ASSUME NEW pw \in Database, NEW opts, NEW euid \in Callers, target_for(pw, opts, euid) # {}
    PROVE  \E u \in Uids : target_for(pw, opts, euid) = {u}
<1>1. pw.uid \in Uids /\ euid \in Uids
  BY Zenon DEF Uids
<1> QED BY <1>1, Zenon DEF target_for, user_info

(* A hook with headers to read. *)
LEMMA Reads ==
    ASSUME NEW h, Good(h), h.pc \in {"hook", "headers"}, NEW r \in Hook, r.pc = "headers",
           r.kind = h.kind, r.child = h.child, r.tried = h.tried, r.answered = h.answered,
           r.outcome = h.outcome, r.first = h.first, r.success = h.success,
           r.kind = "session" => r.at <= HookBudget,
           (r.kind = "session" /\ r.at < HookBudget) \/ (r.kind = "password" /\ r.whole) =>
              Unread(r) \cup Range(r.vaults) = r.ready
    PROVE  Good(r)
<1>1. r.pc \notin Calling /\ h.outcome = <<>> /\ <<>> # <<"Sent">>
  BY OneWord, Zenon DEF Calling, Good, SentInv
<1>2. StashInv(r)
  BY Zenon DEF Good, StashInv
<1>3. TriedInv(r)
  BY <1>1, Zenon DEF Good, TriedInv
<1>4. SentInv(r)
  BY <1>1, Zenon DEF Good, SentInv
<1>5. TimeInv(r)
  <2>1. r.at \in Nat
    BY Zenon DEF Hook
  <2>2. r.at <= HookBudget => r.at <= HookBudget + Overrun
    BY <2>1, Times, SMTT(30)
  <2>3. ~r.child
    BY Zenon DEF Good, TimeInv
  <2> QED BY <2>2, <2>3, Zenon DEF TimeInv
<1> QED BY <1>2, <1>3, <1>4, <1>5, Zenon DEF Good

LEMMA PrepareStep ==
    ASSUME TypeOK, HookInv, NEW l \in Hooks, hook[l].pc = "hook", Prepare(l, <<"RefusedSocketDir">>)
    PROVE  TypeOK' /\ HookInv'
<1> DEFINE h == hook[l]
<1>1. Good(h) /\ h.pc = "hook" /\ h \in Hook
  BY HookIs, Zenon DEF Good
<1>2. PICK args \in Arguments, pw \in Database, euid \in Callers, listable \in BOOLEAN, files \in Directories :
        LET opts == parse_options(args)
            target == target_for(pw, opts, euid)
        IN \/ target = {} /\ Return(l, <<"NoTarget">>)
           \/ /\ target # {} /\ DirRefused /\ Return(l, <<"RefusedSocketDir">>)
           \/ /\ target # {} /\ ~DirRefused
              /\ Local(l, [hook[l] EXCEPT
                   !.pc = "headers", !.auto = opts.auto_start, !.held = dir # "absent",
                   !.target = CHOOSE t \in target : TRUE, !.euid = euid,
                   !.todo = all_vault_ids(files, listable, opts.collection),
                   !.ready = {id \in Range(all_vault_ids(files, listable, opts.collection)) :
                                \E t \in target : vault_header(files[id], t)},
                   !.files = files])
  BY Zenon DEF Prepare
<1> DEFINE opts == parse_options(args)
           target == target_for(pw, opts, euid)
           ids == all_vault_ids(files, listable, opts.collection)
           u == CHOOSE t \in target : TRUE
           b == dir # "absent"
           a == opts.auto_start
           rd == {id \in Range(ids) : \E t \in target : vault_header(files[id], t)}
           r == [h EXCEPT !.pc = "headers", !.auto = a, !.held = b, !.target = u, !.euid = euid,
                          !.todo = ids, !.ready = rd, !.files = files]
<1>3. CASE Return(l, <<"NoTarget">>) \/ Return(l, <<"RefusedSocketDir">>)
  <2>1. {"NoTarget", "RefusedSocketDir"} \subseteq Words \ {"NoPassword"}
    BY Zenon DEF Words
  <2> QED BY <1>3, <2>1, ReturnStep, Zenon
<1>4. CASE target # {} /\ Local(l, r)
  <2>1. hook' = [hook EXCEPT ![l] = r]
    BY <1>4, Zenon DEF Local
  <2>2. PICK v \in Uids : target = {v}
    BY <1>4, TargetIs, Zenon
  <2>3. u = v
    <3> HIDE DEF target
    <3> QED BY <2>2, Zenon
  <2>4. ids \in Seq(Ids) /\ Range(ids) \subseteq Ids
    BY IdsOfADirectory, Zenon
  <2>5. rd = {id \in Range(ids) : vault_header(files[id], u)}
    <3> HIDE DEF target, u, ids
    <3> QED BY <2>2, <2>3, Zenon
  <2>6. rd \in SUBSET Ids
    <3> HIDE DEF ids, target
    <3> QED BY <2>4, Zenon
  <2>7. /\ "headers" \in Stages /\ a \in AutoStarts /\ b \in BOOLEAN /\ u \in Uids
        /\ euid \in Uids /\ files \in Files
    BY <2>2, <2>3, Zenon DEF Stages, AutoStarts, Uids, Files
  <2>8. h.vaults = <<>> /\ h.at = 0
    BY <1>1, Zenon DEF Good, TriedInv, TimeInv
  <2> HIDE DEF h, ids, u, b, a, rd
  <2>9. r \in Hook
    BY <1>1, <2>4, <2>6, <2>7, ZenonT(60) DEF Hook
  <2>10. /\ r.pc = "headers" /\ r.kind = h.kind /\ r.child = h.child /\ r.tried = h.tried
         /\ r.answered = h.answered /\ r.outcome = h.outcome /\ r.first = h.first
         /\ r.success = h.success /\ r.at = h.at /\ r.vaults = h.vaults
    BY <1>1, Zenon DEF Hook
  <2>11. r.todo = ids /\ r.ready = rd /\ r.files = files /\ r.target = u
    BY <1>1, Zenon DEF Hook
  <2> HIDE DEF r
  <2>12. Unread(r) = rd
    BY <2>5, <2>11, Zenon DEF Unread
  <2>13. Unread(r) \cup Range(r.vaults) = r.ready
    BY <2>8, <2>10, <2>11, <2>12, EmptyLine, Zenon
  <2>14. r.at <= HookBudget
    BY <2>8, <2>10, Times, SMTT(30)
  <2>15. Good(r)
    BY <1>1, <2>9, <2>10, <2>13, <2>14, Reads, ZenonT(30)
  <2> QED BY <2>1, <2>15, Updated, Zenon
<1> QED BY <1>2, <1>3, <1>4, Zenon

LEMMA open_sessionStep ==
    ASSUME TypeOK, HookInv, NEW l \in Hooks, open_session(l)
    PROVE  TypeOK' /\ HookInv'
<1>1. "NoPassword" \in Words
  BY Zenon DEF Words
<1>2. CASE ~hook[l].stash /\ Return(l, <<"NoPassword">>)
  BY <1>1, <1>2, ReturnStep, Zenon
<1>3. CASE Prepare(l, <<"RefusedSocketDir">>)
  BY <1>3, PrepareStep, Zenon DEF open_session
<1> QED BY <1>2, <1>3, Zenon DEF open_session

LEMMA chauthtokStep ==
    ASSUME TypeOK, HookInv, NEW l \in Hooks, chauthtok(l)
    PROVE  TypeOK' /\ HookInv'
<1>1. {"Prelim", "Missing"} \subseteq Words \ {"NoPassword"}
  BY Zenon DEF Words
<1>2. CASE \E o \in {"Prelim", "Missing"} : Return(l, <<o>>)
  BY <1>1, <1>2, ReturnStep, Zenon
<1>3. CASE Prepare(l, <<"RefusedSocketDir">>)
  BY <1>3, PrepareStep, Zenon DEF chauthtok
<1> QED BY <1>2, <1>3, Zenon DEF chauthtok

(* One file less to read. *)
LEMMA UnreadIs ==
    ASSUME NEW h \in Hook, h.todo # <<>>, NEW r \in Hook,
           r.todo = Tail(h.todo), r.files = h.files, r.target = h.target
    PROVE  /\ Head(h.todo) \in Ids /\ Tail(h.todo) \in Seq(Ids)
           /\ vault_header(h.files[Head(h.todo)], h.target) => Unread(h) = {Head(h.todo)} \cup Unread(r)
           /\ ~vault_header(h.files[Head(h.todo)], h.target) => Unread(h) = Unread(r)
<1>1. h.todo \in Seq(Ids)
  BY Zenon DEF Hook
<1>2. /\ Head(h.todo) \in Ids /\ Tail(h.todo) \in Seq(Ids)
      /\ Range(h.todo) = {Head(h.todo)} \cup Range(r.todo)
  BY <1>1, HeadAndTail, Zenon
<1> QED BY <1>2, Zenon DEF Unread

(* What a step on one header keeps. *)
Reading(h, r) ==
    /\ r.pc = "headers" /\ r.kind = h.kind /\ r.child = h.child /\ r.tried = h.tried
    /\ r.answered = h.answered /\ r.outcome = h.outcome /\ r.first = h.first
    /\ r.success = h.success /\ r.ready = h.ready /\ r.files = h.files /\ r.target = h.target

(* A header that was read, with the vault put in line if it is one. *)
LEMMA ReadsOn ==
    ASSUME NEW h, Good(h), h.pc = "headers", h.todo # <<>>, NEW r \in Hook, Reading(h, r),
           r.todo = Tail(h.todo),
           r.kind = "session" => r.at <= HookBudget /\ h.at < HookBudget,
           r.kind = "password" => (r.whole => h.whole),
           vault_header(h.files[Head(h.todo)], h.target) =>
              r.vaults = Append(h.vaults, Head(h.todo)) \/ (r.kind = "password" /\ ~r.whole),
           ~vault_header(h.files[Head(h.todo)], h.target) => r.vaults = h.vaults
    PROVE  Good(r)
<1>1. h \in Hook /\ h.vaults \in Seq(Ids)
  BY Zenon DEF Good, Hook
<1>2. /\ Head(h.todo) \in Ids
      /\ vault_header(h.files[Head(h.todo)], h.target) => Unread(h) = {Head(h.todo)} \cup Unread(r)
      /\ ~vault_header(h.files[Head(h.todo)], h.target) => Unread(h) = Unread(r)
  BY <1>1, UnreadIs, Zenon DEF Reading
<1>3. Range(Append(h.vaults, Head(h.todo))) = Range(h.vaults) \cup {Head(h.todo)}
  BY <1>1, <1>2, Appended, Zenon
<1>4. ASSUME (r.kind = "session" /\ r.at < HookBudget) \/ (r.kind = "password" /\ r.whole)
      PROVE  Unread(r) \cup Range(r.vaults) = r.ready
  <2>1. Unread(h) \cup Range(h.vaults) = h.ready
    <3>1. CASE r.kind = "session"
      BY <3>1, Zenon DEF Good, TriedInv, Reading
    <3>2. CASE r.kind = "password" /\ r.whole
      BY <3>2, Zenon DEF Good, SentInv, Reading
    <3> QED BY <1>4, <3>1, <3>2, Zenon
  <2>2. CASE vault_header(h.files[Head(h.todo)], h.target)
    <3>1. r.vaults = Append(h.vaults, Head(h.todo))
      <4>1. ~(r.kind = "password" /\ ~r.whole)
        BY <1>4, Zenon
      <4> QED BY <2>2, <4>1, Zenon
    <3>2. Range(r.vaults) = Range(h.vaults) \cup {Head(h.todo)}
      BY <1>3, <3>1, Zenon
    <3>3. Unread(h) = {Head(h.todo)} \cup Unread(r)
      BY <1>2, <2>2, Zenon
    <3>4. r.ready = h.ready
      BY Zenon DEF Reading
    <3> QED BY <2>1, <3>2, <3>3, <3>4, Zenon
  <2>3. CASE ~vault_header(h.files[Head(h.todo)], h.target)
    <3>1. Unread(h) = Unread(r) /\ r.vaults = h.vaults /\ r.ready = h.ready
      BY <1>2, <2>3, Zenon DEF Reading
    <3> QED BY <2>1, <3>1, Zenon
  <2> QED BY <2>2, <2>3, Zenon
<1>5. h.pc \in {"hook", "headers"}
  BY Zenon
<1> QED BY <1>4, <1>5, Reads, ZenonT(30) DEF Reading

(* The budget is spent before every header was read. *)
LEMMA ReadsNoMore ==
    ASSUME NEW h, Good(h), h.pc = "headers", NEW r \in Hook, Reading(h, r), r.at = h.at,
           ~(h.at < HookBudget), r.kind = "password" => ~r.whole
    PROVE  Good(r)
<1>1. h.kind = "session" => h.at <= HookBudget
  BY Zenon DEF Good, TimeInv
<1>2. h.pc \in {"hook", "headers"}
  BY Zenon
<1> QED BY <1>1, <1>2, Reads, ZenonT(30) DEF Reading

LEMMA ReadHeaderStep ==
    ASSUME TypeOK, HookInv, NEW l \in Hooks, ReadHeader(l)
    PROVE  TypeOK' /\ HookInv'
<1> DEFINE h == hook[l]
           file == h.files[Head(h.todo)]
<1>1. Good(h) /\ h.pc = "headers" /\ h \in Hook /\ h.kind = "session" /\ h.todo # <<>>
  BY HookIs, Zenon DEF Good, ReadHeader
<1>2. CASE ~remaining(l)
  <2> DEFINE r == [h EXCEPT !.todo = <<>>]
  <2>1. hook' = [hook EXCEPT ![l] = r]
    BY <1>2, Zenon DEF ReadHeader, Local
  <2>2. ~(h.at < HookBudget)
    BY <1>2, Zenon DEF remaining
  <2> HIDE DEF h
  <2>3. r \in Hook /\ Reading(h, r) /\ r.at = h.at
    BY <1>1, EmptyLine, Zenon DEF Hook, Reading
  <2> HIDE DEF r
  <2>4. r.kind # "password"
    BY <1>1, <2>3, Zenon DEF Reading
  <2>5. Good(r)
    BY <1>1, <2>2, <2>3, <2>4, ReadsNoMore, Zenon
  <2> QED BY <2>1, <2>5, Updated, Zenon
<1>3. CASE remaining(l)
  <2> DEFINE t == IF Stalls(file, h.target) THEN HookBudget ELSE h.at
             v == IF vault_header(file, h.target) THEN Append(h.vaults, Head(h.todo)) ELSE h.vaults
             w == Tail(h.todo)
             r == [h EXCEPT !.todo = w, !.at = t, !.vaults = v]
  <2>1. hook' = [hook EXCEPT ![l] = r]
    BY <1>3, Zenon DEF ReadHeader, Local
  <2>2. h.at < HookBudget /\ h.at \in Nat /\ h.vaults \in Seq(Ids) /\ h.todo \in Seq(Ids)
    BY <1>1, <1>3, Zenon DEF Hook, remaining
  <2>3. Head(h.todo) \in Ids /\ w \in Seq(Ids) /\ w = Tail(h.todo)
    BY <1>1, <2>2, HeadAndTail, Zenon
  <2>4. v \in Seq(Ids)
    BY <2>2, <2>3, Appended, Zenon
  <2>5. t \in Nat /\ t <= HookBudget
    <3>1. h.at <= HookBudget /\ HookBudget <= HookBudget /\ HookBudget \in Nat
      BY <2>2, Times, SMTT(30)
    <3> QED BY <2>2, <3>1, Zenon
  <2>6. /\ vault_header(file, h.target) => v = Append(h.vaults, Head(h.todo))
        /\ ~vault_header(file, h.target) => v = h.vaults
    BY Zenon
  <2>7. file = h.files[Head(h.todo)]
    OBVIOUS
  <2> HIDE DEF h, file, t, v, w
  <2>8. r \in Hook /\ Reading(h, r) /\ r.at = t /\ r.todo = w /\ r.vaults = v
    BY <1>1, <2>3, <2>4, <2>5, ZenonT(30) DEF Hook, Reading
  <2> HIDE DEF r
  <2>9. r.kind # "password" /\ r.todo = Tail(h.todo) /\ r.at <= HookBudget
    BY <1>1, <2>3, <2>5, <2>8, Zenon DEF Reading
  <2>10. Good(r)
    BY <1>1, <2>2, <2>6, <2>7, <2>8, <2>9, ReadsOn, ZenonT(30)
  <2> QED BY <2>1, <2>10, Updated, Zenon
<1> QED BY <1>2, <1>3, Zenon

(* change_key_request, for a file with a header. *)
LEMMA change_key_requestGood ==
    ASSUME NEW h, Good(h), h.pc = "headers", h.kind = "password", h.todo # <<>>,
           vault_header(h.files[Head(h.todo)], h.target),
           NEW time \in {0, DeriveTime}, NEW fails \in BOOLEAN
    PROVE  Good(change_key_request(h, time, fails))
<1>1. h \in Hook /\ h.at \in Nat /\ h.vaults \in Seq(Ids) /\ h.todo \in Seq(Ids)
  BY Zenon DEF Good, Hook
<1> DEFINE t == h.at + time
           t2 == h.at + 2 * time
           w == Tail(h.todo)
           v == Append(h.vaults, Head(h.todo))
           skip == [h EXCEPT !.at = t, !.todo = w, !.header = TRUE, !.whole = FALSE]
           built == [h EXCEPT !.at = t2, !.todo = w, !.header = TRUE, !.vaults = v]
<1>2. t \in Nat /\ t2 \in Nat
  BY <1>1, Times, SMTT(30)
<1>3. Head(h.todo) \in Ids /\ w \in Seq(Ids) /\ w = Tail(h.todo)
  BY <1>1, HeadAndTail, Zenon
<1>4. v \in Seq(Ids) /\ v = Append(h.vaults, Head(h.todo))
  BY <1>1, <1>3, Appended, Zenon
<1>5. change_key_request(h, time, fails) \in {skip, built}
  BY Zenon DEF change_key_request, Built
<1> HIDE DEF t, t2, w, v
<1>6. skip \in Hook /\ Reading(h, skip) /\ skip.todo = w /\ skip.whole = FALSE
  BY <1>1, <1>2, <1>3, ZenonT(30) DEF Hook, Reading
<1>7. built \in Hook /\ Reading(h, built) /\ built.todo = w /\ built.vaults = v /\ built.whole = h.whole
  BY <1>1, <1>2, <1>3, <1>4, ZenonT(30) DEF Hook, Reading
<1> HIDE DEF skip, built
<1>8. Good(skip)
  <2>1. skip.kind = "password" /\ ~skip.whole /\ skip.todo = Tail(h.todo)
    BY <1>3, <1>6, Zenon DEF Reading
  <2> QED BY <1>6, <2>1, ReadsOn, ZenonT(30)
<1>9. Good(built)
  <2>1. built.kind = "password" /\ built.todo = Tail(h.todo) /\ built.vaults = Append(h.vaults, Head(h.todo))
    BY <1>3, <1>4, <1>7, Zenon DEF Reading
  <2> QED BY <1>7, <2>1, ReadsOn, ZenonT(30)
<1> QED BY <1>5, <1>8, <1>9, Zenon

LEMMA ReadAndBuildStep ==
    ASSUME TypeOK, HookInv, NEW l \in Hooks, ReadAndBuild(l)
    PROVE  TypeOK' /\ HookInv'
<1> DEFINE h == hook[l]
           file == h.files[Head(h.todo)]
<1>1. Good(h) /\ h.pc = "headers" /\ h \in Hook /\ h.kind = "password" /\ h.todo # <<>>
  BY HookIs, Zenon DEF Good, ReadAndBuild
<1>2. CASE ~remaining(l) /\ Local(l, [h EXCEPT !.todo = <<>>, !.whole = FALSE])
  <2> DEFINE r == [h EXCEPT !.todo = <<>>, !.whole = FALSE]
  <2>1. hook' = [hook EXCEPT ![l] = r] /\ ~(h.at < HookBudget)
    BY <1>2, Zenon DEF remaining, Local
  <2> HIDE DEF h
  <2>2. r \in Hook /\ Reading(h, r) /\ r.at = h.at /\ r.whole = FALSE
    BY <1>1, EmptyLine, Zenon DEF Hook, Reading
  <2> HIDE DEF r
  <2>3. Good(r)
    BY <1>1, <2>1, <2>2, ReadsNoMore, Zenon
  <2> QED BY <2>1, <2>3, Updated, Zenon
<1>3. CASE /\ remaining(l) /\ ~vault_header(file, h.target)
           /\ Local(l, [h EXCEPT !.todo = Tail(@), !.at = IF Stalls(file, h.target) THEN HookBudget ELSE @])
  <2> DEFINE t == IF Stalls(file, h.target) THEN HookBudget ELSE h.at
             w == Tail(h.todo)
             r == [h EXCEPT !.todo = w, !.at = t]
  <2>1. hook' = [hook EXCEPT ![l] = r]
    BY <1>3, Zenon DEF Local
  <2>2. h.at \in Nat /\ h.todo \in Seq(Ids) /\ HookBudget \in Nat
    BY <1>1, Times, Zenon DEF Hook
  <2>3. w \in Seq(Ids) /\ w = Tail(h.todo) /\ t \in Nat
    BY <1>1, <2>2, HeadAndTail, Zenon
  <2>4. ~vault_header(h.files[Head(h.todo)], h.target)
    BY <1>3, Zenon
  <2> HIDE DEF h, file, t, w
  <2>5. r \in Hook /\ Reading(h, r) /\ r.todo = w /\ r.vaults = h.vaults /\ r.whole = h.whole
    BY <1>1, <2>3, Zenon DEF Hook, Reading
  <2> HIDE DEF r
  <2>6. r.kind = "password" /\ r.todo = Tail(h.todo)
    BY <1>1, <2>3, <2>5, Zenon DEF Reading
  <2>7. Good(r)
    BY <1>1, <2>4, <2>5, <2>6, ReadsOn, ZenonT(30)
  <2> QED BY <2>1, <2>7, Updated, Zenon
<1>4. ASSUME NEW time \in {0, DeriveTime}, NEW fails \in BOOLEAN, vault_header(file, h.target),
             Local(l, change_key_request(h, time, fails))
      PROVE  TypeOK' /\ HookInv'
  <2>1. hook' = [hook EXCEPT ![l] = change_key_request(h, time, fails)]
    BY <1>4, Zenon DEF Local
  <2>2. vault_header(h.files[Head(h.todo)], h.target)
    BY <1>4, Zenon
  <2>3. Good(change_key_request(h, time, fails))
    BY <1>1, <2>2, change_key_requestGood, ZenonT(30)
  <2> QED BY <2>1, <2>3, Updated, Zenon
<1> QED BY <1>2, <1>3, <1>4, Zenon DEF ReadAndBuild

(* From the headers to the calls: every vault with a header is in line. *)
LEMMA TailBegins ==
    ASSUME NEW h, Good(h), h.pc = "headers", h.todo = <<>>, h.at < HookBudget,
           NEW r \in Hook, r.pc = "tail", r.kind = h.kind, r.at = h.at, r.vaults = h.vaults,
           r.ready = h.ready, r.tried = h.tried, r.answered = h.answered, r.whole = h.whole,
           r.outcome = h.outcome, r.first = h.first, r.success = h.success
    PROVE  Good(r)
<1>1. r.pc \notin Calling /\ r.pc \notin {"auth", "hook", "headers", "report", "done", "check", "derive",
                                          "connect", "answer", "clear", "systemctl", "wait", "decide"}
  BY Zenon DEF Calling
<1>2. Unread(h) = {}
  BY EmptyLine, Zenon DEF Unread
<1>3. h.outcome = <<>> /\ h.tried = {} /\ h.answered = {} /\ <<>> # <<"Sent">>
  <2>1. h.outcome = <<>> /\ h.tried = {} /\ h.answered = {}
    BY Zenon DEF Good, TriedInv, SentInv
  <2>2. <<>> # <<"Sent">>
    BY SMTT(30)
  <2> QED BY <2>1, <2>2, Zenon
<1>4. h \in Hook /\ h.at \in Nat
  BY Zenon DEF Good, Hook
<1>5. h.at <= HookBudget /\ h.at <= HookBudget + Overrun
  BY <1>4, Times, SMTT(30)
<1>6. StashInv(r)
  BY <1>1, Zenon DEF Good, StashInv
<1>7. TriedInv(r)
  BY <1>1, <1>2, <1>3, Zenon DEF Good, TriedInv
<1>8. SentInv(r)
  BY <1>1, <1>2, <1>3, ZenonT(30) DEF Good, SentInv
<1>9. TimeInv(r)
  BY <1>1, <1>5, Zenon DEF TimeInv
<1> QED BY <1>6, <1>7, <1>8, <1>9, Zenon DEF Good

LEMMA HeadersDoneStep ==
    ASSUME TypeOK, HookInv, NEW l \in Hooks, HeadersDone(l)
    PROVE  TypeOK' /\ HookInv'
<1> DEFINE h == hook[l]
<1>1. Good(h) /\ h.pc = "headers" /\ h \in Hook /\ h.todo = <<>> /\ h.at \in Nat
  BY HookIs, Zenon DEF Good, HeadersDone, Hook
<1>2. {"NoRequest", "NoVaultHeader", "BudgetSpent"} \subseteq Words \ {"NoPassword"}
  BY Zenon DEF Words
<1>3. CASE \E x \in {"NoRequest", "NoVaultHeader", "BudgetSpent"} : Return(l, <<x>>)
  BY <1>2, <1>3, ReturnStep, Zenon
<1>4. CASE Return(l, NoReport(h))
  BY <1>4, NoReportIs, ReturnStep, Zenon
<1>5. ASSUME remaining(l),
             Local(l, [h EXCEPT !.pc = "tail", !.child = privileges_to_drop(h.euid, h.target),
                                !.left = capped(l, CallBudget)])
      PROVE  TypeOK' /\ HookInv'
  <2> DEFINE f == privileges_to_drop(h.euid, h.target)
             c == capped(l, CallBudget)
             r == [h EXCEPT !.pc = "tail", !.child = f, !.left = c]
  <2>1. hook' = [hook EXCEPT ![l] = r] /\ h.at < HookBudget
    BY <1>5, Zenon DEF Local, remaining
  <2>2. f \in BOOLEAN
    BY Zenon DEF privileges_to_drop
  <2>3. c \in Nat
    BY <1>1, <2>1, Times, Capped, Zenon
  <2>4. "tail" \in Stages
    BY Zenon DEF Stages
  <2> HIDE DEF h, f, c
  <2>5. r \in Hook
    BY <1>1, <2>2, <2>3, <2>4, Zenon DEF Hook
  <2>6. /\ r.pc = "tail" /\ r.kind = h.kind /\ r.at = h.at /\ r.vaults = h.vaults
        /\ r.ready = h.ready /\ r.tried = h.tried /\ r.answered = h.answered /\ r.whole = h.whole
        /\ r.outcome = h.outcome /\ r.first = h.first /\ r.success = h.success
    BY <1>1, ZenonT(30) DEF Hook
  <2> HIDE DEF r
  <2>7. Good(r)
    BY <1>1, <2>1, <2>5, <2>6, TailBegins, Zenon
  <2> QED BY <2>1, <2>7, Updated, Zenon
<1> QED BY <1>3, <1>4, <1>5, Zenon DEF HeadersDone, Begin

-----------------------------------------------------------------------------
(* The hooks, the daemon and the directory together *)

LEMMA InvInit ==
    ASSUME Init
    PROVE  TypeOK /\ HookInv
<1>1. PICK kinds \in [Hooks -> HookKinds] : hook = [l \in Hooks |-> Fresh(kinds[l])]
  BY Zenon DEF Init
<1>2. ASSUME NEW l \in Hooks
      PROVE  hook[l] = Fresh(kinds[l]) /\ kinds[l] \in HookKinds
  BY <1>1, Zenon
<1>3. ASSUME NEW l \in Hooks
      PROVE  Good(hook[l])
  BY <1>2, <1>3, FreshIs, Zenon
<1>4. hook = [l \in Hooks |-> hook[l]]
  BY <1>1, Zenon
<1>5. \A l \in Hooks : hook[l] \in Hook
  BY <1>3, Zenon DEF Good
<1> HIDE <1>1
<1>6. TypeOK
  BY <1>4, <1>5, Zenon DEF TypeOK
<1> QED BY <1>3, <1>6, Zenon DEF Good, HookInv

LEMMA InvNext ==
    ASSUME TypeOK, HookInv, [Next]_vars
    PROVE  TypeOK' /\ HookInv'
<1>1. ASSUME hook' = hook
      PROVE  TypeOK' /\ HookInv'
  BY <1>1, Zenon DEF TypeOK, HookInv
<1>2. ASSUME NEW l \in Hooks, HookStep(l)
      PROVE  TypeOK' /\ HookInv'
  <2>1. CASE Authenticate(l) \/ open_session(l) \/ chauthtok(l)
    BY <2>1, AuthenticateStep, open_sessionStep, chauthtokStep, Zenon
  <2>2. CASE ReadHeader(l) \/ ReadAndBuild(l) \/ HeadersDone(l)
    BY <2>2, ReadHeaderStep, ReadAndBuildStep, HeadersDoneStep, Zenon
  <2>3. CASE connect_path(l) \/ derive(l) \/ Send(l) \/ Receive(l)
    BY <2>3, connect_pathStep, deriveStep, SendStep, ReceiveStep, Zenon
  <2>4. CASE NextVault(l) \/ Decide(l) \/ Clear(l)
    BY <2>4, NextVaultStep, DecideStep, ClearStep, Zenon
  <2>5. CASE start_daemon(l) \/ WaitForSocket(l) \/ Report(l)
    BY <2>5, start_daemonStep, WaitForSocketStep, ReportStep, Zenon
  <2> QED BY <1>2, <2>1, <2>2, <2>3, <2>4, <2>5, Zenon DEF HookStep
<1>3. ASSUME NEW l \in Hooks, Panic(l) \/ ChildDies(l) \/ Kill(l)
      PROVE  TypeOK' /\ HookInv'
  BY <1>3, PanicStep, NoReportStep, Zenon
<1>4. ASSUME NEW l \in Hooks, CallEnds(l)
      PROVE  TypeOK' /\ HookInv'
  BY <1>1, <1>4, Zenon DEF CallEnds
<1>5. CASE DaemonStarts \/ DaemonStops \/ ChangeDir
  BY <1>1, <1>5, Zenon DEF DaemonStarts, DaemonStops, ChangeDir
<1>6. CASE UNCHANGED vars
  BY <1>1, <1>6, Zenon DEF vars
<1> QED BY <1>2, <1>3, <1>4, <1>5, <1>6, Zenon DEF Next

(* The variables of Login stay in their domains: a hook is at a stage of    *)
(* its code, and each of its locals holds what that code can put there.     *)
THEOREM TypeCorrect == Spec => []TypeOK
BY InvInit, InvNext, PTL DEF Spec

(* For any number of hooks, vaults and budgets: once pam_sm_open_session or *)
(* pam_sm_chauthtok has returned, also through a panic that is caught or    *)
(* after its child was cut, the stashed password is gone.                   *)
THEOREM StashGoneThm == Spec => []StashGone
<1>1. HookInv => StashGone
  BY Zenon DEF HookInv, StashInv, StashGone
<1> QED BY <1>1, InvInit, InvNext, PTL DEF Spec

(* For any vault directory: a session that reports having reached the       *)
(* daemon within its budget has called it for every vault whose header it   *)
(* could read, whatever the daemon answered or failed to answer before.     *)
THEOREM EveryVaultTriedThm == Spec => []EveryVaultTried
<1>1. TypeOK /\ HookInv => EveryVaultTried
  <2> SUFFICES ASSUME TypeOK, HookInv, NEW l \in Hooks, hook[l].pc = "done",
                      Reached(hook[l].outcome), hook[l].at < HookBudget
               PROVE  hook[l].tried = hook[l].ready
    BY Zenon DEF EveryVaultTried
  <2>1. Good(hook[l])
    BY HookIs, Zenon
  <2>2. hook[l].kind \in {"session", "password"}
    BY <2>1, Zenon DEF Good, Hook, Kinds
  <2> QED BY <2>1, <2>2, Zenon DEF Good, TriedInv
<1> QED BY <1>1, InvInit, InvNext, PTL DEF Spec

(* For any vault directory: chauthtok returns Sent, also across the pipe    *)
(* from a child that dropped its privileges, only when the daemon answered  *)
(* the change for every vault whose header could be read.                   *)
THEOREM SentIsDeliveredThm == Spec => []SentIsDelivered
<1>1. HookInv => SentIsDelivered
  BY Zenon DEF HookInv, SentInv, SentIsDelivered
<1> QED BY <1>1, InvInit, InvNext, PTL DEF Spec

(* For any positive budgets and any time a derivation takes: a session, or  *)
(* a hook that forked, is over by its budget and one Overrun.  The retry    *)
(* after a reset and the wait for a started daemon add nothing to that.     *)
THEOREM HookIsBoundedThm == Spec => []HookIsBounded
<1>1. HookInv => HookIsBounded
  BY Zenon DEF HookInv, TimeInv, HookIsBounded
<1> QED BY <1>1, InvInit, InvNext, PTL DEF Spec
============================================================================
