--------------------------- MODULE PromptsProofs ---------------------------
(***************************************************************************)
(* Proofs about module Prompts, for any number of clients, prompts,        *)
(* collections and attempts.                                               *)
(***************************************************************************)
EXTENDS Prompts, FiniteSetTheorems, TLAPS

-----------------------------------------------------------------------------
(* Types: what the variables below are functions of *)

Tasks == {"none", "spawning", "top", "cancelled?", "owner?", "locked?", "dialog", "confirmed",
          "claim", "derive", "open", "drop", "end", "relock", "act", "settle", "finish",
          "done", "dead"}

PerPrompt(f) == f = [p \in Prompts |-> f[p]]

Shapes ==
    /\ locked \in [Colls -> BOOLEAN] /\ pinned \in [Colls -> BOOLEAN]
    /\ opener \in [Colls -> Prompts \cup {Nobody, Control}]
    /\ kind \in [Prompts -> {"unlock", "modify"}]
    /\ call \in [Prompts -> {"none", "resolving", "exported", "returned"}]
    /\ armed \in [Prompts -> BOOLEAN]
    /\ owned \in [Prompts -> BOOLEAN] /\ handle \in [Prompts -> BOOLEAN]
    /\ commit \in [Prompts -> BOOLEAN] /\ aborted \in [Prompts -> BOOLEAN]
    /\ gate \in [Prompts -> BOOLEAN] /\ cancelled \in [Prompts -> BOOLEAN]
    /\ abandoned \in [Prompts -> BOOLEAN]
    /\ dis \in [Prompts -> {"none", "marked", "won", "finished", "late"}]
    /\ task \in [Prompts -> Tasks]
    /\ tries \in [Prompts -> Nat] /\ completed \in [Prompts -> Nat]
    /\ PerPrompt(todo) /\ PerPrompt(record) /\ PerPrompt(now)

LEMMA OneChanged ==
    ASSUME NEW S, NEW T, NEW f \in [S -> T], NEW g, NEW x \in S, NEW y \in T,
           g = [f EXCEPT ![x] = y]
    PROVE  g \in [S -> T] /\ g[x] = y /\ \A z \in S : z # x => g[z] = f[z]
BY Zenon

LEMMA PerPromptExcept ==
    ASSUME NEW f, NEW g, PerPrompt(f), NEW p \in Prompts, NEW x, g = [f EXCEPT ![p] = x]
    PROVE  PerPrompt(g) /\ g[p] = x /\ \A q \in Prompts : q # p => g[q] = f[q]
BY Zenon DEF PerPrompt

-----------------------------------------------------------------------------
(* Steps that concern one prompt *)

Same(q) ==
    /\ armed'[q] = armed[q]
    /\ call'[q] = call[q] /\ owned'[q] = owned[q] /\ handle'[q] = handle[q]
    /\ commit'[q] = commit[q] /\ aborted'[q] = aborted[q] /\ gate'[q] = gate[q]
    /\ cancelled'[q] = cancelled[q] /\ abandoned'[q] = abandoned[q] /\ dis'[q] = dis[q]
    /\ task'[q] = task[q] /\ tries'[q] = tries[q] /\ completed'[q] = completed[q]
    /\ todo'[q] = todo[q] /\ record'[q] = record[q] /\ now'[q] = now[q]

Holds(p) == LifeInv(p) /\ HandleInv(p) /\ GateInv(p) /\ DismissInv(p) /\ OpenerInv(p)

LEMMA SameKeeps ==
    ASSUME NEW q \in Prompts, Holds(q), Same(q), UNCHANGED <<opener, relock, kind>>
    PROVE  Holds(q)'
<1>1. LifeInv(q)'
  BY Zenon DEF Holds, Same, LifeInv
<1>2. HandleInv(q)'
  BY Zenon DEF Holds, Same, HandleInv, Running
<1>3. GateInv(q)'
  BY Zenon DEF Holds, Same, GateInv
<1>4. DismissInv(q)'
  BY Zenon DEF Holds, Same, DismissInv
<1>5. OpenerInv(q)'
  BY Zenon DEF Holds, Same, OpenerInv
<1> QED BY <1>1, <1>2, <1>3, <1>4, <1>5, Zenon DEF Holds

LEMMA LocalStep ==
    ASSUME PromptInv, NEW p \in Prompts, Holds(p)',
           UNCHANGED <<locked, pinned, opener, relock, kind>>,
           \A q \in Prompts : q # p => Same(q)
    PROVE  PromptInv'
<1>1. \A q \in Prompts : q # p => Holds(q)'
  <2> SUFFICES ASSUME NEW q \in Prompts, q # p PROVE Holds(q)'
    BY Zenon
  <2>1. Holds(q) /\ Same(q)
    BY Zenon DEF PromptInv, Holds
  <2> QED BY <2>1, SameKeeps, Zenon
<1>2. \A q \in Prompts : Holds(q)'
  BY <1>1, Zenon
<1>3. \A c \in Colls : locked'[c] => opener'[c] = Nobody /\ ~pinned'[c]
  BY Zenon DEF PromptInv
<1> QED BY <1>2, <1>3, Zenon DEF PromptInv, Holds

-----------------------------------------------------------------------------
(* Steps of the task *)

(* Those that move only task, todo, tries, gate and record. *)
Still == UNCHANGED <<locked, pinned, opener, relock, kind, armed, call, owned, handle, commit,
                     aborted, cancelled, abandoned, dis, completed, now>>

Moves(p) ==
    /\ Still
    /\ \E l \in Tasks : task' = [task EXCEPT ![p] = l]
    /\ todo' = todo \/ todo' = [todo EXCEPT ![p] = Tail(@)]
    /\ tries' = tries \/ \E n \in Nat : tries' = [tries EXCEPT ![p] = n]
    /\ gate' = gate \/ \E b \in BOOLEAN : gate' = [gate EXCEPT ![p] = b]
    /\ record' = record \/ \E r : record' = [record EXCEPT ![p] = r]

LEMMA MovesShape ==
    ASSUME Shapes, NEW p \in Prompts, Moves(p)
    PROVE  Shapes' /\ \A q \in Prompts : q # p => Same(q)
<1>1. PerPrompt(todo) /\ PerPrompt(record) /\ PerPrompt(now)
  BY Zenon DEF Shapes
<1>2. PerPrompt(todo') /\ \A q \in Prompts : q # p => todo'[q] = todo[q]
  BY <1>1, Zenon DEF PerPrompt, Moves, Still
<1>3. PerPrompt(record') /\ \A q \in Prompts : q # p => record'[q] = record[q]
  BY <1>1, PerPromptExcept, SMTT(30) DEF Moves, Still
<1>4. task' \in [Prompts -> Tasks] /\ \A q \in Prompts : q # p => task'[q] = task[q]
  BY DEF Shapes, Moves, Still
<1>5. tries' \in [Prompts -> Nat] /\ \A q \in Prompts : q # p => tries'[q] = tries[q]
  <2>1. tries \in [Prompts -> Nat]
    BY Zenon DEF Shapes
  <2> QED BY <2>1, OneChanged DEF Moves, Still
<1>6. gate' \in [Prompts -> BOOLEAN] /\ \A q \in Prompts : q # p => gate'[q] = gate[q]
  <2>1. gate \in [Prompts -> BOOLEAN]
    BY Zenon DEF Shapes
  <2>2. CASE gate' = gate
    BY <2>1, <2>2, Zenon
  <2>3. ASSUME NEW b \in BOOLEAN, gate' = [gate EXCEPT ![p] = b]
        PROVE  gate' \in [Prompts -> BOOLEAN] /\ \A q \in Prompts : q # p => gate'[q] = gate[q]
    BY <2>1, <2>3, OneChanged, Zenon
  <2> QED BY <2>2, <2>3, Zenon DEF Moves, Still
<1>7. Shapes'
  BY <1>1, <1>2, <1>3, <1>4, <1>5, <1>6, Zenon DEF Shapes, Moves, Still, PerPrompt
<1> QED BY <1>2, <1>3, <1>4, <1>5, <1>6, <1>7, Zenon DEF Same, Moves, Still

LEMMA MoveKeeps ==
    ASSUME Shapes, PromptInv, NEW p \in Prompts, Moves(p), task[p] # "none",
           HandleInv(p)', GateInv(p)', DismissInv(p)', OpenerInv(p)'
    PROVE  Shapes' /\ PromptInv'
<1>1. Shapes' /\ \A q \in Prompts : q # p => Same(q)
  BY MovesShape, Zenon
<1>2. LifeInv(p)'
  BY Zenon DEF PromptInv, LifeInv, Moves, Still
<1>3. Holds(p)'
  BY <1>2, Zenon DEF Holds
<1>4. PromptInv'
  BY <1>1, <1>3, LocalStep, Zenon DEF Moves, Still
<1> QED BY <1>1, <1>4, Zenon

LEMMA TopStep == ASSUME Shapes, PromptInv, NEW p \in Prompts, Top(p) PROVE Shapes' /\ PromptInv'
<1>1. Moves(p)
  BY Zenon DEF Top, Moves, Still, Goto, Tasks, collections, bus, object, outcome
<1>2. /\ task[p] = "top" /\ tries'[p] = 0 /\ todo'[p] = todo[p] /\ record'[p] = record[p]
      /\ \/ kind[p] = "unlock" /\ task'[p] = "end" /\ gate'[p] = gate[p]
         \/ kind[p] = "unlock" /\ task'[p] = "cancelled?" /\ gate'[p] = FALSE
         \/ kind[p] = "modify" /\ task'[p] = "cancelled?" /\ gate'[p] = gate[p]
  BY DEF Top, Goto, Shapes, Tasks
<1>a. Holds(p) /\ Still
  BY <1>1, Zenon DEF PromptInv, Holds, Moves
<1>3. HandleInv(p)'
  BY <1>a, <1>2, Zenon DEF Holds, LifeInv, HandleInv, Still, Running, Ending
<1>4. GateInv(p)'
  BY <1>a, <1>2 DEF Holds, GateInv, Still, Ending
<1>5. DismissInv(p)'
  BY <1>a, <1>2, Zenon DEF Holds, DismissInv, Still, Ending
<1>6. OpenerInv(p)'
  BY <1>a, <1>2, Zenon DEF Holds, OpenerInv, Still
<1> QED BY <1>1, <1>2, <1>3, <1>4, <1>5, <1>6, MoveKeeps, Zenon

LEMMA CheckCancelledStep ==
    ASSUME Shapes, PromptInv, NEW p \in Prompts, CheckCancelled(p) PROVE Shapes' /\ PromptInv'
<1>1. Moves(p)
  BY Zenon DEF CheckCancelled, Moves, Still, Goto, Tasks, collections, bus, object, sync, locals, outcome
<1>2. /\ task[p] = "cancelled?" /\ tries'[p] = tries[p] /\ todo'[p] = todo[p]
      /\ record'[p] = record[p] /\ gate'[p] = gate[p]
      /\ \/ task'[p] \in {"finish", "end"} /\ cancelled[p] /\ (task'[p] = "finish" => kind[p] = "modify")
         \/ task'[p] = "dialog" /\ kind[p] = "modify" /\ ~cancelled[p]
         \/ task'[p] = "owner?" /\ kind[p] = "unlock" /\ ~cancelled[p]
  BY Zenon DEF CheckCancelled, Goto, Shapes, Tasks, sync, locals
<1>a. Holds(p) /\ Still
  BY <1>1 DEF PromptInv, Holds, Moves
<1>3. HandleInv(p)'
  BY <1>a, <1>2, Zenon DEF Holds, LifeInv, HandleInv, Still, Running, Ending
<1>4. GateInv(p)'
  BY <1>a, <1>2, Zenon DEF Holds, GateInv, Still, Ending
<1>5. DismissInv(p)'
  BY <1>a, <1>2, Zenon DEF Holds, DismissInv, Still, Ending
<1>6. OpenerInv(p)'
  BY <1>a, <1>2, Zenon DEF Holds, OpenerInv, Still
<1> QED BY <1>1, <1>2, <1>3, <1>4, <1>5, <1>6, MoveKeeps, Zenon

LEMMA CheckOwnerStep ==
    ASSUME Shapes, PromptInv, NEW p \in Prompts, CheckOwner(p) PROVE Shapes' /\ PromptInv'
<1>1. Moves(p)
  BY Zenon DEF CheckOwner, Moves, Still, Goto, Shapes, Tasks, collections, bus, object, sync, locals, outcome
<1>2. /\ task[p] = "owner?" /\ tries'[p] = tries[p] /\ todo'[p] = todo[p]
      /\ record'[p] = record[p] /\ gate'[p] = gate[p]
      /\ (task'[p] = "locked?" /\ owned[p]) \/ task'[p] = "end"
  BY Zenon DEF CheckOwner, Goto, Shapes, PerPrompt, Tasks, collections, bus, object, sync, locals, outcome
<1>a. Holds(p) /\ Still
  BY <1>1 DEF PromptInv, Holds, Moves
<1>3. HandleInv(p)'
  BY <1>a, <1>2, Zenon DEF Holds, LifeInv, HandleInv, Still, Running, Ending
<1>4. GateInv(p)'
  BY <1>a, <1>2, Zenon DEF Holds, GateInv, Still, Ending
<1>5. DismissInv(p)'
  BY <1>a, <1>2, Zenon DEF Holds, DismissInv, Still, Ending
<1>6. OpenerInv(p)'
  BY <1>a, <1>2, Zenon DEF Holds, LifeInv, OpenerInv, Still
<1> QED BY <1>1, <1>2, <1>3, <1>4, <1>5, <1>6, MoveKeeps, Zenon DEF Running

LEMMA CheckLockedStep ==
    ASSUME Shapes, PromptInv, NEW p \in Prompts, CheckLocked(p) PROVE Shapes' /\ PromptInv'
<1>1. Moves(p)
  BY Zenon DEF CheckLocked, Moves, Still, Goto, Shapes, Tasks, collections, bus, object, sync, locals, outcome, NextColl
<1>2. /\ task[p] = "locked?" /\ tries'[p] = tries[p]
      /\ record'[p] = record[p] /\ gate'[p] = gate[p]
      /\ \/ task'[p] = "dialog" /\ todo'[p] = todo[p] /\ locked[Head(todo[p])]
         \/ task'[p] = "top"
  BY ZenonT(30) DEF CheckLocked, Goto, Shapes, PerPrompt, Tasks, collections, bus, object, sync, locals, outcome, NextColl
<1>a. Holds(p) /\ Still
  BY <1>1 DEF PromptInv, Holds, Moves
<1>3. HandleInv(p)'
  BY <1>a, <1>2, Zenon DEF Holds, LifeInv, HandleInv, Still, Running, Ending
<1>4. GateInv(p)'
  BY <1>a, <1>2, Zenon DEF Holds, GateInv, Still, Ending
<1>5. DismissInv(p)'
  BY <1>a, <1>2, Zenon DEF Holds, DismissInv, Still, Ending
<1>6. OpenerInv(p)'
  BY <1>a, <1>2, PromptsAssumption DEF PromptInv, Holds, LifeInv, OpenerInv, Still
<1> QED BY <1>1, <1>2, <1>3, <1>4, <1>5, <1>6, MoveKeeps, Zenon DEF Running

LEMMA DialogStep ==
    ASSUME Shapes, PromptInv, NEW p \in Prompts, Dialog(p) PROVE Shapes' /\ PromptInv'
<1>1. Moves(p)
  BY Zenon DEF Dialog, Moves, Still, Goto, Shapes, Tasks, collections, bus, object, sync, locals, outcome, NextColl
<1>2. /\ task[p] = "dialog" /\ tries'[p] = tries[p]
      /\ record'[p] = record[p] /\ gate'[p] = gate[p]
      /\ \/ task'[p] = "claim" /\ todo'[p] = todo[p]
         \/ task'[p] \in {"end", "top"}
         \/ task'[p] \in {"confirmed", "finish"} /\ kind[p] = "modify"
  BY Zenon DEF Dialog, Goto, Shapes, PerPrompt, Tasks, collections, bus, object, sync, locals, outcome, NextColl
<1>a. Holds(p) /\ Still
  BY <1>1 DEF PromptInv, Holds, Moves
<1>3. HandleInv(p)'
  BY <1>a, <1>2, Zenon DEF Holds, LifeInv, HandleInv, Still, Running, Ending
<1>4. GateInv(p)'
  BY <1>a, <1>2, Zenon DEF Holds, GateInv, Still, Ending
<1>5. DismissInv(p)'
  BY <1>a, <1>2, Zenon DEF Holds, DismissInv, Still, Ending
<1>6. OpenerInv(p)'
  BY <1>a, <1>2, Zenon DEF Holds, LifeInv, OpenerInv, Still
<1> QED BY <1>1, <1>2, <1>3, <1>4, <1>5, <1>6, MoveKeeps, Zenon DEF Running

LEMMA CheckCancelledAgainStep ==
    ASSUME Shapes, PromptInv, NEW p \in Prompts, CheckCancelledAgain(p) PROVE Shapes' /\ PromptInv'
<1>1. Moves(p)
  BY Zenon DEF CheckCancelledAgain, Moves, Still, Goto, Shapes, Tasks, collections, bus, object, sync, locals, outcome
<1>2. /\ task[p] = "confirmed" /\ tries'[p] = tries[p] /\ todo'[p] = todo[p]
      /\ record'[p] = record[p] /\ gate'[p] = gate[p]
      /\ (task'[p] = "claim" \/ (task'[p] = "finish" /\ cancelled[p]))
  BY Zenon DEF CheckCancelledAgain, Goto, Shapes, PerPrompt, Tasks, collections, bus, object, sync, locals, outcome
<1>a. Holds(p) /\ Still
  BY <1>1 DEF PromptInv, Holds, Moves
<1>3. HandleInv(p)'
  BY <1>a, <1>2, Zenon DEF Holds, LifeInv, HandleInv, Still, Running, Ending
<1>4. GateInv(p)'
  BY <1>a, <1>2, Zenon DEF Holds, GateInv, Still, Ending
<1>5. DismissInv(p)'
  BY <1>a, <1>2, Zenon DEF Holds, DismissInv, Still, Ending
<1>6. OpenerInv(p)'
  BY <1>a, <1>2, Zenon DEF Holds, LifeInv, OpenerInv, Still
<1> QED BY <1>1, <1>2, <1>3, <1>4, <1>5, <1>6, MoveKeeps, Zenon DEF Running

LEMMA ClaimStep ==
    ASSUME Shapes, PromptInv, NEW p \in Prompts, Claim(p) PROVE Shapes' /\ PromptInv'
<1>1. Moves(p)
  BY Zenon DEF Claim, Moves, Still, Goto, Shapes, Tasks, collections, bus, object, sync, locals, outcome
<1>2. /\ task[p] = "claim" /\ tries'[p] = tries[p] /\ todo'[p] = todo[p]
      /\ record'[p] = record[p]
      /\ \/ /\ gate'[p] = TRUE /\ (tries[p] > 0 \/ ~gate[p])
            /\ (task'[p] = "derive" /\ kind[p] = "unlock") \/ (task'[p] = "act" /\ kind[p] = "modify")
         \/ /\ gate'[p] = gate[p] /\ gate[p]
            /\ task'[p] = "end" \/ (task'[p] = "finish" /\ kind[p] = "modify")
  BY DEF Claim, Goto, Shapes, PerPrompt, Tasks, collections, bus, object, sync, locals, outcome
<1>a. Holds(p) /\ Still
  BY <1>1 DEF PromptInv, Holds, Moves
<1>3. HandleInv(p)'
  BY <1>a, <1>2, Zenon DEF Holds, LifeInv, HandleInv, Still, Running, Ending
<1>4. GateInv(p)'
  BY <1>a, <1>2, Zenon DEF Holds, GateInv, Still, Ending
<1>5. DismissInv(p)'
  BY <1>a, <1>2 DEF Holds, DismissInv, Still, Ending
<1>6. OpenerInv(p)'
  BY <1>a, <1>2, Zenon DEF Holds, LifeInv, OpenerInv, Still
<1> QED BY <1>1, <1>2, <1>3, <1>4, <1>5, <1>6, MoveKeeps, Zenon DEF Running

LEMMA DeriveStep ==
    ASSUME Shapes, PromptInv, NEW p \in Prompts, Derive(p) PROVE Shapes' /\ PromptInv'
<1>1. Moves(p)
  BY Zenon DEF Derive, Moves, Still, Goto, Shapes, Tasks, collections, bus, object, sync, locals, outcome, NextColl
<1>2. /\ task[p] = "derive" /\ ~aborted[p] /\ tries'[p] = tries[p] /\ gate'[p] = gate[p]
      /\ \/ task'[p] = "top" /\ record'[p] = record[p]
         \/ /\ task'[p] = "open" /\ todo'[p] = todo[p]
            /\ record'[p] = record[p] \cup {Head(todo[p])}
  BY Zenon DEF Derive, Goto, Shapes, PerPrompt, Tasks, collections, bus, object, sync, locals, outcome, NextColl
<1>a. Holds(p) /\ Still
  BY <1>1 DEF PromptInv, Holds, Moves
<1>3. HandleInv(p)'
  BY <1>a, <1>2, Zenon DEF Holds, LifeInv, HandleInv, Still, Running, Ending
<1>4. GateInv(p)'
  BY <1>a, <1>2, Zenon DEF Holds, GateInv, Still, Ending
<1>5. DismissInv(p)'
  BY <1>a, <1>2, Zenon DEF Holds, DismissInv, Still, Ending
<1>6. OpenerInv(p)'
  BY <1>a, <1>2, Zenon DEF Holds, LifeInv, OpenerInv, Still
<1> QED BY <1>1, <1>2, <1>3, <1>4, <1>5, <1>6, MoveKeeps, Zenon DEF Running

LEMMA DropStep ==
    ASSUME Shapes, PromptInv, NEW p \in Prompts, Drop(p) PROVE Shapes' /\ PromptInv'
<1>1. Moves(p)
  <2>1. tries' = tries \/ \E n \in Nat : tries' = [tries EXCEPT ![p] = n]
    <3>1. tries[p] + 1 \in Nat
      BY DEF Shapes
    <3> QED BY <3>1, Zenon DEF Drop
  <2> QED BY <2>1, Zenon DEF Drop, Moves, Still, Goto, Tasks, collections, bus, object, sync, outcome, NextColl
<1>2. /\ task[p] = "drop" /\ gate'[p] = gate[p]
      /\ record'[p] = record[p] \ {Head(todo[p])}
      /\ \/ task'[p] = "dialog" /\ todo'[p] = todo[p]
         \/ task'[p] = "top"
  BY ZenonT(30) DEF Drop, Goto, Shapes, PerPrompt, Tasks, collections, bus, object, sync, locals, outcome, NextColl
<1>a. Holds(p) /\ Still
  BY <1>1 DEF PromptInv, Holds, Moves
<1>3. HandleInv(p)'
  BY <1>a, <1>2, Zenon DEF Holds, LifeInv, HandleInv, Still, Running, Ending
<1>4. GateInv(p)'
  BY <1>a, <1>2, Zenon DEF Holds, GateInv, Still, Ending
<1>5. DismissInv(p)'
  BY <1>a, <1>2, Zenon DEF Holds, DismissInv, Still, Ending
<1>6. OpenerInv(p)'
  BY <1>a, <1>2, Zenon DEF Holds, LifeInv, OpenerInv, Still
<1> QED BY <1>1, <1>2, <1>3, <1>4, <1>5, <1>6, MoveKeeps, Zenon DEF Running

LEMMA EndStep ==
    ASSUME Shapes, PromptInv, NEW p \in Prompts, End(p) PROVE Shapes' /\ PromptInv'
<1>1. Moves(p)
  BY Zenon DEF End, Moves, Still, Goto, Shapes, Tasks, collections, bus, object, sync, locals, outcome
<1>2. /\ task[p] = "end" /\ tries'[p] = tries[p] /\ todo'[p] = todo[p]
      /\ gate'[p] = gate[p]
      /\ \/ task'[p] = "finish" /\ owned[p] /\ record'[p] = record[p]
         \/ task'[p] = "relock" /\ ~owned[p]
  BY DEF End, Goto, Shapes, PerPrompt, Tasks, collections, bus, object, sync, locals, outcome
<1>a. Holds(p) /\ Still
  BY <1>1 DEF PromptInv, Holds, Moves
<1>3. HandleInv(p)'
  BY <1>a, <1>2, Zenon DEF Holds, LifeInv, HandleInv, Still, Running, Ending
<1>4. GateInv(p)'
  BY <1>a, <1>2, Zenon DEF Holds, GateInv, Still, Ending
<1>5. DismissInv(p)'
  BY <1>a, <1>2, Zenon DEF Holds, DismissInv, Still, Ending
<1>6. OpenerInv(p)'
  BY <1>a, <1>2, Zenon DEF Holds, LifeInv, OpenerInv, Still
<1> QED BY <1>1, <1>2, <1>3, <1>4, <1>5, <1>6, MoveKeeps, Zenon DEF Running

LEMMA ActStep ==
    ASSUME Shapes, PromptInv, NEW p \in Prompts, Act(p) PROVE Shapes' /\ PromptInv'
<1>1. Moves(p)
  BY Zenon DEF Act, Moves, Still, Goto, Shapes, Tasks, collections, bus, object, sync, locals, outcome
<1>2. /\ task[p] = "act" /\ tries'[p] = tries[p] /\ todo'[p] = todo[p]
      /\ record'[p] = record[p] /\ gate'[p] = gate[p]
      /\ task'[p] \in {"settle", "finish"}
  BY DEF Act, Goto, Shapes, PerPrompt, Tasks, collections, bus, object, sync, locals, outcome
<1>a. Holds(p) /\ Still
  BY <1>1 DEF PromptInv, Holds, Moves
<1>3. HandleInv(p)'
  BY <1>a, <1>2, Zenon DEF Holds, LifeInv, HandleInv, Still, Running, Ending
<1>4. GateInv(p)'
  BY <1>a, <1>2, Zenon DEF Holds, GateInv, Still, Ending
<1>5. DismissInv(p)'
  BY <1>a, <1>2, Zenon DEF Holds, DismissInv, Still, Ending
<1>6. OpenerInv(p)'
  BY <1>a, <1>2, Zenon DEF Holds, LifeInv, OpenerInv, Still
<1> QED BY <1>1, <1>2, <1>3, <1>4, <1>5, <1>6, MoveKeeps, Zenon DEF Running

LEMMA SettleStep ==
    ASSUME Shapes, PromptInv, NEW p \in Prompts, Settle(p) PROVE Shapes' /\ PromptInv'
<1>1. Moves(p)
  BY Zenon DEF Settle, Moves, Still, Goto, Shapes, Tasks, collections, bus, object, sync, locals, outcome
<1>2. /\ task[p] = "settle" /\ tries'[p] = tries[p] /\ todo'[p] = todo[p]
      /\ record'[p] = record[p] /\ gate'[p] = gate[p]
      /\ task'[p] = "finish"
  BY Zenon DEF Settle, Goto, Shapes, PerPrompt, Tasks, collections, bus, object, sync, locals, outcome
<1>a. Holds(p) /\ Still
  BY <1>1 DEF PromptInv, Holds, Moves
<1>3. HandleInv(p)'
  BY <1>a, <1>2, Zenon DEF Holds, LifeInv, HandleInv, Still, Running, Ending
<1>4. GateInv(p)'
  BY <1>a, <1>2, Zenon DEF Holds, GateInv, Still, Ending
<1>5. DismissInv(p)'
  BY <1>a, <1>2, Zenon DEF Holds, DismissInv, Still, Ending
<1>6. OpenerInv(p)'
  BY <1>a, <1>2, Zenon DEF Holds, LifeInv, OpenerInv, Still
<1> QED BY <1>1, <1>2, <1>3, <1>4, <1>5, <1>6, MoveKeeps, Zenon DEF Running

LEMMA DieStep ==
    ASSUME Shapes, PromptInv, NEW p \in Prompts, Die(p) PROVE Shapes' /\ PromptInv'
<1>1. Moves(p)
  BY Zenon DEF Die, Moves, Still, Goto, Shapes, Tasks, collections, bus, object, sync, locals, outcome
<1>2. /\ Running(p) /\ aborted[p] /\ tries'[p] = tries[p] /\ todo'[p] = todo[p]
      /\ record'[p] = record[p] /\ gate'[p] = gate[p] /\ task'[p] = "dead"
  BY Zenon DEF Die, Goto, Shapes, PerPrompt, Tasks, collections, bus, object, sync, locals, outcome
<1>a. Holds(p) /\ Still
  BY <1>1 DEF PromptInv, Holds, Moves
<1>3. HandleInv(p)'
  BY <1>a, <1>2, Zenon DEF Holds, LifeInv, HandleInv, Still, Running, Ending
<1>4. GateInv(p)'
  BY <1>a, <1>2, Zenon DEF Holds, GateInv, Still, Ending
<1>5. DismissInv(p)'
  BY <1>a, <1>2, Zenon DEF Holds, DismissInv, Still, Ending
<1>6. OpenerInv(p)'
  BY <1>a, <1>2, Zenon DEF Holds, LifeInv, OpenerInv, Still
<1> QED BY <1>1, <1>2, <1>3, <1>4, <1>5, <1>6, MoveKeeps, Zenon DEF Running

LEMMA RegisterStep ==
    ASSUME Shapes, PromptInv, NEW p \in Prompts, Register(p) PROVE Shapes' /\ PromptInv'
<1>1. /\ UNCHANGED <<locked, pinned, opener, relock, kind, armed, call, owned, aborted, gate, cancelled,
                     abandoned, dis, completed, tries, todo, record, now>>
      /\ task' = [task EXCEPT ![p] = "top"] /\ handle' = [handle EXCEPT ![p] = TRUE]
      /\ commit' = [commit EXCEPT ![p] = TRUE] /\ task[p] = "spawning"
  BY Zenon DEF Register, collections, bus, sync, locals, outcome
<1>2. /\ task'[p] = "top" /\ task' \in [Prompts -> Tasks]
      /\ \A q \in Prompts : q # p => task'[q] = task[q]
  BY <1>1, Zenon DEF Shapes, Tasks
<1>3. /\ handle'[p] = TRUE /\ handle' \in [Prompts -> BOOLEAN]
      /\ \A q \in Prompts : q # p => handle'[q] = handle[q]
  BY <1>1, OneChanged DEF Shapes
<1>4. /\ commit'[p] = TRUE /\ commit' \in [Prompts -> BOOLEAN]
      /\ \A q \in Prompts : q # p => commit'[q] = commit[q]
  BY <1>1, OneChanged DEF Shapes
<1>5. Shapes' /\ \A q \in Prompts : q # p => Same(q)
  BY <1>1, <1>2, <1>3, <1>4, Zenon DEF Shapes, PerPrompt, Same
<1>6. LifeInv(p)' /\ HandleInv(p)'
  BY <1>1, <1>2, <1>3, <1>4, Zenon DEF PromptInv, LifeInv, HandleInv, Running, Ending
<1>7. GateInv(p)' /\ DismissInv(p)'
  BY <1>1, <1>2, Zenon DEF PromptInv, GateInv, DismissInv, Ending
<1>8. OpenerInv(p)'
  BY <1>1, <1>2, ZenonT(30) DEF PromptInv, OpenerInv
<1> QED BY <1>1, <1>5, <1>6, <1>7, <1>8, LocalStep, Zenon DEF Holds

(* finish, as the task or a Dismiss calls it: l is where the task is left. *)
LEMMA FinishKeeps ==
    ASSUME Shapes, PromptInv, NEW p \in Prompts, finish(p), task[p] # "none" \/ call[p] = "exported",
           UNCHANGED <<locked, pinned, opener, relock, aborted, gate, cancelled, tries, todo, now>>,
           \/ task' = task /\ dis[p] = "won" /\ dis' = [dis EXCEPT ![p] = "finished"]
           \/ task[p] = "finish" /\ task' = [task EXCEPT ![p] = "done"] /\ dis' = dis
    PROVE  Shapes' /\ PromptInv'
<1>1. /\ UNCHANGED <<kind, armed, call, abandoned>>
      /\ handle' = [handle EXCEPT ![p] = FALSE] /\ commit' = [commit EXCEPT ![p] = FALSE]
      /\ owned' = [owned EXCEPT ![p] = FALSE] /\ record' = [record EXCEPT ![p] = {}]
      /\ completed' = [completed EXCEPT ![p] = IF owned[p] THEN completed[p] + 1 ELSE completed[p]]
  BY Zenon DEF finish
<1>2. /\ handle'[p] = FALSE /\ handle' \in [Prompts -> BOOLEAN]
      /\ \A q \in Prompts : q # p => handle'[q] = handle[q]
  BY <1>1, OneChanged DEF Shapes
<1>3. /\ commit' \in [Prompts -> BOOLEAN]
      /\ \A q \in Prompts : q # p => commit'[q] = commit[q]
  BY <1>1, OneChanged DEF Shapes
<1>4. /\ owned'[p] = FALSE /\ owned' \in [Prompts -> BOOLEAN]
      /\ \A q \in Prompts : q # p => owned'[q] = owned[q]
  BY <1>1, OneChanged DEF Shapes
<1>5. PerPrompt(record') /\ \A q \in Prompts : q # p => record'[q] = record[q]
  <2>1. PerPrompt(record) /\ record' = [record EXCEPT ![p] = {}]
    BY <1>1, Zenon DEF Shapes
  <2> QED BY <2>1, Zenon DEF PerPrompt
<1>6. /\ completed'[p] = IF owned[p] THEN completed[p] + 1 ELSE completed[p]
      /\ completed' \in [Prompts -> Nat]
      /\ \A q \in Prompts : q # p => completed'[q] = completed[q]
  <2>1. completed[p] \in Nat /\ completed[p] + 1 \in Nat /\ completed \in [Prompts -> Nat]
    BY DEF Shapes
  <2> QED BY <1>1, <2>1, Zenon
<1>7. /\ task' \in [Prompts -> Tasks] /\ \A q \in Prompts : q # p => task'[q] = task[q]
      /\ task'[p] = task[p] \/ (task[p] = "finish" /\ task'[p] = "done")
  BY Zenon DEF Shapes, Tasks
<1>8. /\ dis' \in [Prompts -> {"none", "marked", "won", "finished", "late"}]
      /\ \A q \in Prompts : q # p => dis'[q] = dis[q]
      /\ dis'[p] = dis[p] \/ (dis[p] = "won" /\ dis'[p] = "finished")
  BY Zenon DEF Shapes
<1>9. Shapes' /\ \A q \in Prompts : q # p => Same(q)
  BY <1>1, <1>2, <1>3, <1>4, <1>5, <1>6, <1>7, <1>8, ZenonT(30) DEF Shapes, PerPrompt, Same
<1>10. LifeInv(p)'
  BY <1>1, <1>4, <1>6, <1>7 DEF PromptInv, LifeInv, Shapes
<1>11. HandleInv(p)'
  BY <1>1, <1>2, <1>7, Zenon DEF PromptInv, HandleInv
<1>12. GateInv(p)' /\ DismissInv(p)'
  BY <1>1, <1>7, <1>8, ZenonT(30) DEF PromptInv, GateInv, DismissInv, Ending
<1>13. OpenerInv(p)'
  BY <1>1, <1>2, <1>4, <1>7, SMTT(30) DEF PromptInv, OpenerInv
<1> QED BY <1>1, <1>9, <1>10, <1>11, <1>12, <1>13, LocalStep, Zenon DEF Holds

LEMMA FinishStep ==
    ASSUME Shapes, PromptInv, NEW p \in Prompts, Finish(p) \/ DismissFinish(p)
    PROVE  Shapes' /\ PromptInv'
<1>1. CASE Finish(p)
  BY <1>1, FinishKeeps, Zenon DEF Finish, Goto, collections, bus, sync, locals
<1>2. CASE DismissFinish(p)
  <2>1. dis[p] = "won" /\ call[p] = "exported"
    BY <1>2, Zenon DEF DismissFinish, PromptInv, LifeInv
  <2> QED BY <1>2, <2>1, FinishKeeps, Zenon DEF DismissFinish, collections, bus, locals
<1> QED BY <1>1, <1>2, Zenon

-----------------------------------------------------------------------------
(* The calls *)

LEMMA ResolveStep ==
    ASSUME Shapes, PromptInv, NEW p \in Prompts, Resolve(p) PROVE Shapes' /\ PromptInv'
<1>1. /\ UNCHANGED <<locked, pinned, opener, relock, kind, armed, owned, handle, commit, aborted, gate,
                     cancelled, abandoned, dis, completed, tries, record, now, task>>
      /\ call[p] = "none"
      /\ \E l \in {"resolving", "returned"} : call' = [call EXCEPT ![p] = l]
      /\ todo' = todo \/ \E s : todo' = [todo EXCEPT ![p] = s]
  BY Zenon DEF Resolve, collections, bus, sync, outcome
<1>2. /\ call'[p] # "exported"
      /\ call' \in [Prompts -> {"none", "resolving", "exported", "returned"}]
      /\ \A q \in Prompts : q # p => call'[q] = call[q]
  BY <1>1 DEF Shapes
<1>3. PerPrompt(todo') /\ \A q \in Prompts : q # p => todo'[q] = todo[q]
  <2>1. PerPrompt(todo)
    BY Zenon DEF Shapes
  <2> QED BY <1>1, <2>1, PerPromptExcept
<1>4. Shapes' /\ \A q \in Prompts : q # p => Same(q)
  BY <1>1, <1>2, <1>3, Zenon DEF Shapes, PerPrompt, Same
<1>5. LifeInv(p)' /\ HandleInv(p)' /\ task[p] = "none"
  BY <1>1, <1>2, Zenon DEF PromptInv, LifeInv, HandleInv, Running, Ending
<1>6. GateInv(p)' /\ DismissInv(p)'
  BY <1>1, Zenon DEF PromptInv, GateInv, DismissInv
<1>7. OpenerInv(p)'
  BY <1>1, <1>5, Zenon DEF PromptInv, OpenerInv
<1> QED BY <1>1, <1>4, <1>5, <1>6, <1>7, LocalStep, Zenon DEF Holds

LEMMA ExportStep ==
    ASSUME Shapes, PromptInv, NEW p \in Prompts, Export(p) PROVE Shapes' /\ PromptInv'
<1>1. /\ UNCHANGED <<locked, pinned, opener, relock, kind, armed, handle, commit, aborted, gate,
                     cancelled, abandoned, dis, completed, tries, todo, record, now, task>>
      /\ call[p] = "resolving"
      /\ \/ call' = [call EXCEPT ![p] = "exported"] /\ owned' = [owned EXCEPT ![p] = TRUE]
         \/ call' = [call EXCEPT ![p] = "returned"] /\ owned' = owned
  BY Zenon DEF Export, collections, bus, sync, locals, outcome
<1>2. /\ call' \in [Prompts -> {"none", "resolving", "exported", "returned"}]
      /\ \A q \in Prompts : q # p => call'[q] = call[q]
      /\ call'[p] = "exported" \/ (call'[p] = "returned" /\ owned'[p] = owned[p])
  BY <1>1, Zenon DEF Shapes
<1>3. owned' \in [Prompts -> BOOLEAN] /\ \A q \in Prompts : q # p => owned'[q] = owned[q]
  <2>1. owned \in [Prompts -> BOOLEAN] /\ TRUE \in BOOLEAN
    BY Zenon DEF Shapes
  <2>2. CASE owned' = [owned EXCEPT ![p] = TRUE]
    BY <2>1, <2>2, OneChanged, Zenon
  <2> QED BY <1>1, <2>1, <2>2, Zenon
<1>4. Shapes' /\ \A q \in Prompts : q # p => Same(q)
  BY <1>1, <1>2, <1>3, Zenon DEF Shapes, PerPrompt, Same
<1>5. task[p] = "none" /\ completed[p] = 0 /\ ~owned[p] /\ ~abandoned[p] /\ dis[p] = "none"
  BY <1>1, Zenon DEF PromptInv, LifeInv
<1>6. LifeInv(p)' /\ HandleInv(p)'
  BY <1>1, <1>2, <1>5, Zenon DEF PromptInv, LifeInv, HandleInv, Running, Ending
<1>7. GateInv(p)' /\ DismissInv(p)'
  BY <1>1, Zenon DEF PromptInv, GateInv, DismissInv
<1>8. OpenerInv(p)'
  BY <1>1, <1>5, Zenon DEF PromptInv, OpenerInv
<1> QED BY <1>1, <1>4, <1>6, <1>7, <1>8, LocalStep, Zenon DEF Holds

LEMMA PerformStep ==
    ASSUME Shapes, PromptInv, NEW p \in Prompts, Perform(p) PROVE Shapes' /\ PromptInv'
<1>1. /\ UNCHANGED <<locked, pinned, opener, relock, kind, call, owned, handle, commit, aborted,
                     gate, cancelled, abandoned, dis, completed, tries, todo, record, now>>
      /\ task' = [task EXCEPT ![p] = "spawning"] /\ call[p] = "exported" /\ armed[p]
      /\ armed' = [armed EXCEPT ![p] = FALSE]
  BY Zenon DEF Perform, check_owner, collections, bus, sync, locals, outcome
<1>2. task[p] = "none"
  BY <1>1, Zenon DEF PromptInv, LifeInv
<1>3. /\ task'[p] = "spawning" /\ task' \in [Prompts -> Tasks]
      /\ \A q \in Prompts : q # p => task'[q] = task[q]
  BY <1>1, Zenon DEF Shapes, Tasks
<1>9. /\ armed'[p] = FALSE /\ armed' \in [Prompts -> BOOLEAN]
      /\ \A q \in Prompts : q # p => armed'[q] = armed[q]
  <2>1. armed \in [Prompts -> BOOLEAN] /\ FALSE \in BOOLEAN
    BY Zenon DEF Shapes
  <2> QED BY <1>1, <2>1, OneChanged, Zenon
<1>4. Shapes' /\ \A q \in Prompts : q # p => Same(q)
  BY <1>1, <1>3, <1>9, Zenon DEF Shapes, PerPrompt, Same
<1>5. LifeInv(p)' /\ HandleInv(p)'
  BY <1>1, <1>2, <1>3, <1>9, Zenon DEF PromptInv, LifeInv, HandleInv, Running, Ending
<1>6. GateInv(p)' /\ DismissInv(p)'
  BY <1>1, <1>2, <1>3, Zenon DEF PromptInv, GateInv, DismissInv, Ending
<1>7. OpenerInv(p)'
  BY <1>1, <1>2, <1>3, Zenon DEF PromptInv, OpenerInv
<1> QED BY <1>1, <1>4, <1>5, <1>6, <1>7, LocalStep, Zenon DEF Holds

LEMMA DismissCallStep ==
    ASSUME Shapes, PromptInv, NEW p \in Prompts, Dismiss(p) PROVE Shapes' /\ PromptInv'
<1>1. /\ UNCHANGED <<locked, pinned, opener, relock, kind, call, owned, handle, commit, aborted,
                     gate, task, abandoned, completed, tries, todo, record, now>>
      /\ cancelled' = [cancelled EXCEPT ![p] = TRUE]
      /\ dis' = [dis EXCEPT ![p] = "marked"] /\ call[p] = "exported" /\ dis[p] = "none"
      /\ armed' = [armed EXCEPT ![p] = FALSE]
  BY Zenon DEF Dismiss, check_owner, collections, bus, locals, outcome
<1>2. /\ dis'[p] = "marked" /\ dis' \in [Prompts -> {"none", "marked", "won", "finished", "late"}]
      /\ \A q \in Prompts : q # p => dis'[q] = dis[q]
  BY <1>1, Zenon DEF Shapes
<1>3. /\ cancelled'[p] = TRUE /\ cancelled' \in [Prompts -> BOOLEAN]
      /\ \A q \in Prompts : q # p => cancelled'[q] = cancelled[q]
  <2>1. cancelled \in [Prompts -> BOOLEAN] /\ TRUE \in BOOLEAN
    BY Zenon DEF Shapes
  <2> QED BY <1>1, <2>1, OneChanged, Zenon
<1>9. /\ armed'[p] = FALSE /\ armed' \in [Prompts -> BOOLEAN]
      /\ \A q \in Prompts : q # p => armed'[q] = armed[q]
  <2>1. armed \in [Prompts -> BOOLEAN] /\ FALSE \in BOOLEAN
    BY DEF Shapes
  <2> QED BY <1>1, <2>1, OneChanged, Zenon
<1>4. Shapes' /\ \A q \in Prompts : q # p => Same(q)
  BY <1>1, <1>2, <1>3, <1>9, Zenon DEF Shapes, PerPrompt, Same
<1>5. LifeInv(p)' /\ HandleInv(p)'
  BY <1>1, <1>9, ZenonT(30) DEF PromptInv, LifeInv, HandleInv, Running, Ending
<1>6. GateInv(p)' /\ DismissInv(p)'
  BY <1>1, <1>2, <1>3, Zenon DEF PromptInv, GateInv, DismissInv
<1>7. OpenerInv(p)'
  BY <1>1, Zenon DEF PromptInv, OpenerInv
<1> QED BY <1>1, <1>4, <1>5, <1>6, <1>7, LocalStep, Zenon DEF Holds

LEMMA DismissClaimStep ==
    ASSUME Shapes, PromptInv, NEW p \in Prompts, DismissClaim(p) PROVE Shapes' /\ PromptInv'
<1>1. /\ UNCHANGED <<locked, pinned, opener, relock, kind, armed, call, owned, commit, cancelled,
                     task, abandoned, completed, tries, todo, record, now>>
      /\ dis[p] = "marked"
      /\ \/ /\ gate[p] /\ dis' = [dis EXCEPT ![p] = "late"]
            /\ UNCHANGED <<gate, handle, aborted>>
         \/ /\ ~gate[p] /\ dis' = [dis EXCEPT ![p] = "won"]
            /\ gate' = [gate EXCEPT ![p] = TRUE] /\ handle' = [handle EXCEPT ![p] = FALSE]
            /\ aborted' = [aborted EXCEPT ![p] = handle[p]]
  BY Zenon DEF DismissClaim, collections, bus, locals, outcome
<1>2. /\ dis' \in [Prompts -> {"none", "marked", "won", "finished", "late"}]
      /\ \A q \in Prompts : q # p => dis'[q] = dis[q]
      /\ (dis'[p] = "late" /\ gate[p]) \/ (dis'[p] = "won" /\ ~gate[p])
  <2>1. CASE gate[p] /\ dis' = [dis EXCEPT ![p] = "late"]
    BY <2>1, Zenon DEF Shapes
  <2>2. CASE ~gate[p] /\ dis' = [dis EXCEPT ![p] = "won"]
    BY <2>2, Zenon DEF Shapes
  <2> QED BY <1>1, <2>1, <2>2, Zenon
<1> DEFINE Flag(f, g) == g \in [Prompts -> BOOLEAN] /\ \A q \in Prompts : q # p => g[q] = f[q]
<1>3. gate \in [Prompts -> BOOLEAN] /\ handle \in [Prompts -> BOOLEAN]
      /\ aborted \in [Prompts -> BOOLEAN] /\ handle[p] \in BOOLEAN
      /\ TRUE \in BOOLEAN /\ FALSE \in BOOLEAN
  BY Zenon DEF Shapes
<1>4. CASE gate[p]
  <2>1. UNCHANGED <<gate, handle, aborted>> /\ dis'[p] = "late"
    BY <1>1, <1>2, <1>4, Zenon
  <2>2. Shapes' /\ \A q \in Prompts : q # p => Same(q)
    BY <1>1, <1>2, <2>1, Zenon DEF Shapes, PerPrompt, Same
  <2>3. LifeInv(p)' /\ HandleInv(p)'
    BY <1>1, <2>1, ZenonT(30) DEF PromptInv, LifeInv, HandleInv, Running, Ending
  <2>4. task[p] \notin {"owner?", "locked?"}
    BY <1>1, <1>4, ZenonT(30) DEF PromptInv, GateInv, OpenerInv, Shapes
  <2>5. GateInv(p)' /\ DismissInv(p)'
    BY <1>1, <2>1, <2>4, ZenonT(30) DEF PromptInv, GateInv, DismissInv
  <2>6. OpenerInv(p)'
    BY <1>1, <2>1, ZenonT(30) DEF PromptInv, OpenerInv
  <2> QED BY <1>1, <2>2, <2>3, <2>5, <2>6, LocalStep, Zenon DEF Holds
<1>5. CASE ~gate[p]
  <2>0. /\ gate' = [gate EXCEPT ![p] = TRUE] /\ handle' = [handle EXCEPT ![p] = FALSE]
        /\ aborted' = [aborted EXCEPT ![p] = handle[p]]
    BY <1>1, <1>5, Zenon
  <2>1. Flag(gate, gate') /\ gate'[p] = TRUE
    BY <1>3, <2>0, OneChanged, Zenon
  <2>7. Flag(handle, handle') /\ handle'[p] = FALSE
    BY <1>3, <2>0, OneChanged, Zenon
  <2>2. Flag(aborted, aborted') /\ aborted'[p] = handle[p] /\ dis'[p] = "won"
    BY <1>2, <1>3, <1>5, <2>0, OneChanged, Zenon
  <2>3. Shapes' /\ \A q \in Prompts : q # p => Same(q)
    BY <1>1, <1>2, <2>1, <2>7, <2>2, Zenon DEF Shapes, PerPrompt, Same
  <2>4. LifeInv(p)' /\ HandleInv(p)'
    BY <1>1, <1>5, <2>1, <2>7, <2>2, Zenon DEF PromptInv, LifeInv, HandleInv, GateInv, Running, Ending
  <2>5. GateInv(p)' /\ DismissInv(p)'
    <3>1. GateInv(p)'
      BY <1>1, <1>5, <2>1, <2>2, Zenon DEF PromptInv, GateInv
    <3>2. tries[p] \in Nat /\ task[p] \in Tasks /\ GateInv(p) /\ DismissInv(p) /\ OpenerInv(p)
      BY Zenon DEF Shapes, PromptInv
    <3>3. tries[p] = 0 \/ task[p] \in Ending \cup {"top"}
      BY <1>5, <3>2 DEF GateInv
    <3>4. DismissInv(p)'
      BY <1>1, <1>5, <2>1, <2>2, <3>2, <3>3, Zenon DEF GateInv, DismissInv, Ending, Tasks
    <3> QED BY <3>1, <3>4, Zenon
  <2>6. OpenerInv(p)'
    <3>1. ASSUME NEW c \in Colls, opener[c] = p
          PROVE  abandoned[p] => ~aborted'[p] \/ c \in relock
      <4>1. OpenerInv(p)
        BY Zenon DEF PromptInv
      <4>2. handle[p] => ~abandoned[p]
        BY <3>1, <4>1, Zenon DEF OpenerInv
      <4> QED BY <2>2, <4>2, Zenon
    <3>2. OpenerInv(p)
      BY Zenon DEF PromptInv
    <3> QED BY <1>1, <2>7, <3>1, <3>2, Zenon DEF OpenerInv
  <2> QED BY <1>1, <2>3, <2>4, <2>5, <2>6, LocalStep DEF Holds
<1> QED BY <1>4, <1>5, Zenon

-----------------------------------------------------------------------------
(* Steps that lock or unlock a collection *)

(* What a lock takes from a prompt, and from the watch, is what it locks. *)
LEMMA LockKeeps ==
    ASSUME Shapes, PromptInv, NEW cs, LockVaults(cs), relock \ cs \subseteq relock',
           UNCHANGED <<kind, armed, call, owned, handle, commit, aborted, gate, cancelled,
                       abandoned, dis, completed, tries, todo, record, task>>,
           PerPrompt(now'), \A q \in Prompts : now[q] \ cs \subseteq now'[q]
    PROVE  Shapes' /\ PromptInv'
<1>1. /\ locked' \in [Colls -> BOOLEAN] /\ pinned' \in [Colls -> BOOLEAN]
      /\ \A c \in Colls : locked'[c] => locked[c] \/ c \in cs
      /\ \A c \in Colls : pinned'[c] => pinned[c] /\ c \notin cs
  BY Zenon DEF LockVaults
<1>2. /\ opener' \in [Colls -> Prompts \cup {Nobody, Control}]
      /\ \A c \in Colls : opener'[c] = IF c \in cs THEN Nobody ELSE opener[c]
  BY Zenon DEF LockVaults, Shapes
<1>3. Shapes'
  BY <1>1, <1>2, Zenon DEF Shapes, PerPrompt
<1>4. ASSUME NEW q \in Prompts PROVE Holds(q)'
  <2>1. Holds(q)
    BY Zenon DEF PromptInv, Holds
  <2>2. LifeInv(q)' /\ HandleInv(q)'
    BY <2>1, Zenon DEF Holds, LifeInv, HandleInv, Running
  <2>3. GateInv(q)' /\ DismissInv(q)'
    BY <2>1, Zenon DEF Holds, GateInv, DismissInv
  <2>4. \A c \in Colls : opener'[c] = q =>
           /\ opener[c] = q /\ (c \in now[q] => c \in now'[q])
           /\ (c \in relock => c \in relock')
    BY <1>2, PromptsAssumption, Zenon
  <2>5. OpenerInv(q)'
    BY <2>1, <2>4, Zenon DEF Holds, OpenerInv
  <2> QED BY <2>2, <2>3, <2>5, Zenon DEF Holds
<1>5. \A c \in Colls : locked'[c] => opener'[c] = Nobody /\ ~pinned'[c]
  BY <1>1, <1>2, Zenon DEF PromptInv
<1> QED BY <1>3, <1>4, <1>5, Zenon DEF PromptInv, Holds

LEMMA LockSteps ==
    ASSUME Shapes, PromptInv, NEW c \in Colls, Lock(c) \/ idle_lock(c) \/ WatchRelock(c)
    PROVE  Shapes' /\ PromptInv'
<1>1. /\ LockVaults({c}) /\ relock \ {c} \subseteq relock'
      /\ UNCHANGED <<kind, armed, call, owned, handle, commit, aborted, gate, cancelled,
                     abandoned, dis, completed, tries, todo, record, task, now>>
  BY Zenon DEF Lock, idle_lock, WatchRelock, bus, object, sync, locals, outcome
<1>2. PerPrompt(now') /\ \A q \in Prompts : now[q] \ {c} \subseteq now'[q]
  BY <1>1, Zenon DEF Shapes, PerPrompt
<1> QED BY <1>1, <1>2, LockKeeps, Zenon

LEMMA RelockStep ==
    ASSUME Shapes, PromptInv, NEW p \in Prompts, Relock(p) PROVE Shapes' /\ PromptInv'
<1>1. CASE now[p] = {}
  <2>1. Moves(p)
    BY <1>1, Zenon DEF Relock, Moves, Still, Goto, Tasks, collections, bus, object, sync, outcome
  <2>2. /\ task[p] = "relock" /\ tries'[p] = tries[p] /\ todo'[p] = todo[p]
        /\ record'[p] = record[p] /\ gate'[p] = gate[p] /\ task'[p] = "finish"
    BY <1>1, Zenon DEF Relock, Goto, Shapes, Tasks, sync
  <2>a. Holds(p) /\ Still
    BY <2>1 DEF PromptInv, Holds, Moves
  <2>3. HandleInv(p)'
    BY <2>a, <2>2, Zenon DEF Holds, HandleInv, Still, Running, Ending
  <2>4. GateInv(p)'
    BY <2>a, <2>2, Zenon DEF Holds, GateInv, Still, Ending
  <2>5. DismissInv(p)'
    BY <2>a, <2>2, Zenon DEF Holds, DismissInv, Still, Ending
  <2>6. OpenerInv(p)'
    BY <1>1, <2>a, <2>2, Zenon DEF Holds, OpenerInv, Still
  <2> QED BY <2>1, <2>2, <2>3, <2>4, <2>5, <2>6, MoveKeeps, Zenon
<1>2. CASE now[p] # {}
  <2>1. PICK c \in now[p] : LockVaults({c}) /\ now' = [now EXCEPT ![p] = now[p] \ {c}] /\ task' = task
    BY <1>2, Zenon DEF Relock
  <2>2. UNCHANGED <<relock, kind, armed, call, owned, handle, commit, aborted, gate, cancelled,
                    abandoned, dis, completed, tries, todo, record>>
    BY Zenon DEF Relock, bus, object, sync, outcome
  <2>3. PerPrompt(now') /\ \A q \in Prompts : now[q] \ {c} \subseteq now'[q]
    <3>1. PerPrompt(now)
      BY Zenon DEF Shapes
    <3>2. PerPrompt(now') /\ now'[p] = now[p] \ {c} /\ \A q \in Prompts : q # p => now'[q] = now[q]
      <4> DEFINE x == now[p] \ {c}
      <4>1. now' = [now EXCEPT ![p] = x]
        BY <2>1, Zenon
      <4> HIDE DEF x
      <4>2. PerPrompt(now') /\ now'[p] = x /\ \A q \in Prompts : q # p => now'[q] = now[q]
        BY <3>1, <4>1, Zenon DEF PerPrompt
      <4> QED BY <4>2, Zenon DEF x
    <3> QED BY <3>2, Zenon
  <2> QED BY <2>1, <2>2, <2>3, LockKeeps, Zenon
<1> QED BY <1>1, <1>2, Zenon

LEMMA ControlUnlockStep ==
    ASSUME Shapes, PromptInv, NEW c \in Colls, NEW pin \in Pins, ControlUnlock(c, pin)
    PROVE  Shapes' /\ PromptInv'
<1>1. /\ UNCHANGED <<relock, kind, armed, call, owned, handle, commit, aborted, gate, cancelled,
                     abandoned, dis, completed, tries, todo, record, task, now>>
      /\ locked' = [locked EXCEPT ![c] = FALSE] /\ pinned' = [pinned EXCEPT ![c] = pin]
      /\ opener' = IF locked[c] THEN [opener EXCEPT ![c] = Control] ELSE opener
  BY Zenon DEF ControlUnlock, UnlockVault, bus, object, sync, locals, outcome
<1>2. locked \in [Colls -> BOOLEAN] /\ pinned \in [Colls -> BOOLEAN] /\ pin \in BOOLEAN
      /\ FALSE \in BOOLEAN /\ opener \in [Colls -> Prompts \cup {Nobody, Control}]
  BY PromptsAssumption, Zenon DEF Shapes
<1>3. locked' \in [Colls -> BOOLEAN] /\ locked'[c] = FALSE
      /\ \A d \in Colls : d # c => locked'[d] = locked[d]
  BY <1>1, <1>2, OneChanged, Zenon
<1>4. pinned' \in [Colls -> BOOLEAN] /\ \A d \in Colls : d # c => pinned'[d] = pinned[d]
  BY <1>1, <1>2, OneChanged, Zenon
<1>5. /\ opener' \in [Colls -> Prompts \cup {Nobody, Control}]
      /\ \A d \in Colls : d # c => opener'[d] = opener[d]
      /\ opener'[c] = opener[c] \/ opener'[c] = Control
  BY <1>1, <1>2, Zenon
<1>6. Shapes'
  BY <1>1, <1>3, <1>4, <1>5, Zenon DEF Shapes, PerPrompt
<1>7. ASSUME NEW q \in Prompts PROVE Holds(q)'
  <2>1. Holds(q)
    BY Zenon DEF PromptInv, Holds
  <2>2. LifeInv(q)' /\ HandleInv(q)'
    BY <1>1, <2>1, Zenon DEF Holds, LifeInv, HandleInv, Running
  <2>3. GateInv(q)' /\ DismissInv(q)'
    BY <1>1, <2>1, Zenon DEF Holds, GateInv, DismissInv
  <2>4. \A d \in Colls : opener'[d] = q => opener[d] = q
    BY <1>5, PromptsAssumption, Zenon
  <2>5. OpenerInv(q)'
    BY <1>1, <2>1, <2>4, Zenon DEF Holds, OpenerInv
  <2> QED BY <2>2, <2>3, <2>5, Zenon DEF Holds
<1>8. \A d \in Colls : locked'[d] => opener'[d] = Nobody /\ ~pinned'[d]
  BY <1>3, <1>4, <1>5, Zenon DEF PromptInv
<1> QED BY <1>6, <1>7, <1>8, Zenon DEF PromptInv, Holds

LEMMA OpenStep ==
    ASSUME Shapes, PromptInv, NEW p \in Prompts, Open(p) PROVE Shapes' /\ PromptInv'
<1> DEFINE c == Head(todo[p])
<1>0. task[p] = "open" /\ PerPrompt(todo) /\ PerPrompt(now) /\ Holds(p)
  BY Zenon DEF Open, Shapes, PromptInv, Holds
<1>1. CASE Goto(p, "drop") /\ UNCHANGED <<collections, todo, now, any>>
  <2>1. Moves(p)
    BY <1>1, Zenon DEF Open, Moves, Still, Goto, Tasks, collections, bus, object, sync, outcome
  <2>2. /\ tries'[p] = tries[p] /\ todo'[p] = todo[p]
        /\ record'[p] = record[p] /\ gate'[p] = gate[p] /\ task'[p] = "drop"
    BY <1>1, Zenon DEF Open, Goto, Shapes, Tasks, sync
  <2>a. Still
    BY <2>1, Zenon DEF Moves
  <2>3. HandleInv(p)'
    BY <1>0, <2>a, <2>2, Zenon DEF Holds, HandleInv, Still, Running, Ending
  <2>4. GateInv(p)'
    BY <1>0, <2>a, <2>2, Zenon DEF Holds, GateInv, Still, Ending
  <2>5. DismissInv(p)'
    BY <1>0, <2>a, <2>2, Zenon DEF Holds, DismissInv, Still, Ending
  <2>6. OpenerInv(p)'
    BY <1>0, <2>a, <2>2, Zenon DEF Holds, OpenerInv, Still
  <2> QED BY <1>0, <2>1, <2>2, <2>3, <2>4, <2>5, <2>6, MoveKeeps, Zenon
<1>2. CASE /\ UnlockVault(c, p) /\ now' = [now EXCEPT ![p] = @ \cup {c}] /\ NextColl(p)
           /\ UNCHANGED pinned
  <2>1. UNCHANGED <<relock, kind, armed, call, owned, handle, commit, aborted, gate, cancelled,
                    abandoned, dis, completed, tries, record, pinned>>
    BY <1>2, Zenon DEF Open, bus, object, sync, outcome
  <2>2. task' = [task EXCEPT ![p] = "top"] /\ task \in [Prompts -> Tasks] /\ "top" \in Tasks
    BY <1>2, Zenon DEF NextColl, Goto, Shapes, Tasks
  <2>3. task' \in [Prompts -> Tasks] /\ task'[p] = "top"
        /\ \A q \in Prompts : q # p => task'[q] = task[q]
    BY <2>2, OneChanged, Zenon
  <2>4. PerPrompt(todo') /\ \A q \in Prompts : q # p => todo'[q] = todo[q]
    BY <1>0, <1>2, Zenon DEF NextColl, PerPrompt
  <2>5. PerPrompt(now') /\ now'[p] = now[p] \cup {c} /\ \A q \in Prompts : q # p => now'[q] = now[q]
    <3> DEFINE x == now[p] \cup {c}
    <3>1. now' = [now EXCEPT ![p] = x]
      BY <1>0, <1>2, Zenon DEF PerPrompt
    <3> HIDE DEF x
    <3>2. PerPrompt(now') /\ now'[p] = x /\ \A q \in Prompts : q # p => now'[q] = now[q]
      BY <1>0, <3>1, Zenon DEF PerPrompt
    <3> QED BY <3>2, Zenon DEF x
  <2>6. locked' \in [Colls -> BOOLEAN] /\ \A d \in Colls : locked'[d] => locked[d] /\ d # c
    BY <1>2, Zenon DEF UnlockVault, Shapes
  <2>7. /\ opener' \in [Colls -> Prompts \cup {Nobody, Control}]
        /\ \A d \in Colls : opener'[d] = opener[d] \/ (opener'[d] = p /\ d = c)
    BY <1>2, Zenon DEF UnlockVault, Shapes
  <2>8. Shapes'
    BY <2>1, <2>3, <2>4, <2>5, <2>6, <2>7, Zenon DEF Shapes, PerPrompt
  <2>9. ASSUME NEW q \in Prompts, q # p PROVE Holds(q)'
    <3>1. Holds(q) /\ task'[q] = task[q] /\ todo'[q] = todo[q] /\ now'[q] = now[q]
      BY <2>3, <2>4, <2>5, <2>9, Zenon DEF PromptInv, Holds
    <3>2. LifeInv(q)' /\ HandleInv(q)'
      BY <2>1, <3>1, Zenon DEF Holds, LifeInv, HandleInv, Running
    <3>3. GateInv(q)' /\ DismissInv(q)'
      BY <2>1, <3>1, Zenon DEF Holds, GateInv, DismissInv
    <3>4. \A d \in Colls : opener'[d] = q => opener[d] = q
      BY <2>7, <2>9, Zenon
    <3>5. OpenerInv(q)'
      BY <2>1, <3>1, <3>4, Zenon DEF Holds, OpenerInv
    <3> QED BY <3>2, <3>3, <3>5, Zenon DEF Holds
  <2>10. Holds(p)'
    <3>1. LifeInv(p)'
      BY <1>0, <2>1, <2>3, Zenon DEF Holds, LifeInv
    <3>2. HandleInv(p)'
      BY <1>0, <2>1, <2>3, Zenon DEF Holds, HandleInv, Running, Ending
    <3>3. GateInv(p)'
      BY <1>0, <2>1, <2>3, Zenon DEF Holds, GateInv, Ending
    <3>4. DismissInv(p)'
      BY <1>0, <2>1, <2>3, Zenon DEF Holds, DismissInv, Ending
    <3>5. /\ ~aborted[p] /\ kind[p] = "unlock" /\ (handle[p] => ~abandoned[p])
          /\ (owned[p] => c \in record[p])
      BY <1>0, Zenon DEF Holds, HandleInv, OpenerInv, Ending
    <3>6. OpenerInv(p)'
      BY <1>0, <2>1, <2>3, <2>5, <2>7, <3>5, Zenon DEF Holds, OpenerInv
    <3> QED BY <3>1, <3>2, <3>3, <3>4, <3>6, Zenon DEF Holds
  <2>11. \A d \in Colls : locked'[d] => opener'[d] = Nobody /\ ~pinned'[d]
    BY <2>1, <2>6, <2>7, Zenon DEF PromptInv
  <2> QED BY <2>8, <2>9, <2>10, <2>11, Zenon DEF PromptInv, Holds
<1> QED BY <1>1, <1>2, Zenon DEF Open

(* The watch reclaims the prompts of a client: what a stopped task opened is *)
(* now the watch's to lock, and a task past its gate locks it itself.       *)
LEMMA ReclaimStep ==
    ASSUME Shapes, PromptInv, NEW k \in Clients, Reclaim(k) PROVE Shapes' /\ PromptInv'
<1> DEFINE gone == {p \in Prompts : caller[p] = k /\ owned[p]}
<1>1. /\ UNCHANGED <<locked, pinned, opener, kind, armed, call, gate, cancelled, dis, tries, todo,
                     now, completed, task>>
      /\ relock = {} /\ relock' = UNION {record[p] : p \in Stopped(k)}
  BY Zenon DEF Reclaim, collections, locals
<1>2. /\ owned' = [p \in Prompts |-> IF p \in gone THEN FALSE ELSE owned[p]]
      /\ commit' = [p \in Prompts |-> IF p \in gone THEN FALSE ELSE commit[p]]
      /\ handle' = [p \in Prompts |-> IF p \in gone THEN FALSE ELSE handle[p]]
      /\ aborted' = [p \in Prompts |-> aborted[p] \/ (p \in Stopped(k) /\ handle[p])]
      /\ record' = [p \in Prompts |-> IF p \in Stopped(k) THEN {} ELSE record[p]]
      /\ abandoned' = [p \in Prompts |-> abandoned[p] \/ (p \in gone /\ task[p] # "finish")]
  BY Zenon DEF Reclaim
<1>3. \A p \in Prompts : /\ p \in Stopped(k) <=> p \in gone /\ ~Committed(p)
                         /\ p \in gone => owned[p]
  BY Zenon DEF Stopped
<1> HIDE DEF gone
<1>4. Shapes'
  BY <1>1, <1>2, Zenon DEF Shapes, PerPrompt
<1>5. ASSUME NEW p \in Prompts PROVE Holds(p)'
  <2>1. Holds(p)
    BY Zenon DEF PromptInv, Holds
  <2>2. CASE p \notin gone
    <3>1. /\ owned'[p] = owned[p] /\ commit'[p] = commit[p] /\ handle'[p] = handle[p]
          /\ (aborted'[p] <=> aborted[p]) /\ record'[p] = record[p]
          /\ (abandoned'[p] <=> abandoned[p])
      BY <1>2, <1>3, <2>2, Zenon DEF Shapes
    <3>2. LifeInv(p)' /\ HandleInv(p)'
      BY <1>1, <2>1, <3>1, Zenon DEF Holds, LifeInv, HandleInv, Running
    <3>3. GateInv(p)' /\ DismissInv(p)'
      BY <1>1, <2>1, <3>1, Zenon DEF Holds, GateInv, DismissInv
    <3>4. OpenerInv(p)'
      BY <1>1, <2>1, <3>1, Zenon DEF Holds, OpenerInv
    <3> QED BY <3>2, <3>3, <3>4, Zenon DEF Holds
  <2>3. CASE p \in gone
    <3>1. /\ owned[p] /\ ~owned'[p] /\ ~handle'[p]
          /\ (aborted'[p] <=> aborted[p] \/ (~Committed(p) /\ handle[p]))
          /\ (abandoned'[p] <=> abandoned[p] \/ task[p] # "finish")
      BY <1>2, <1>3, <2>3, Zenon
    <3>2. LifeInv(p)'
      BY <1>1, <2>1, <3>1, Zenon DEF Holds, LifeInv
    <3>3. HandleInv(p)'
      BY <1>1, <2>1, <3>1, Zenon DEF Holds, HandleInv, GateInv, Running, Committed
    <3>4. GateInv(p)' /\ DismissInv(p)'
      BY <1>1, <2>1, <3>1, Zenon DEF Holds, GateInv, DismissInv
    <3>5. ASSUME NEW c \in Colls, opener[c] = p, abandoned'[p], c \notin relock'
          PROVE  ~aborted'[p] /\ task[p] \notin {"finish", "done", "dead"}
      <4>1. c \in record[p] /\ ~abandoned[p]
        BY <2>1, <3>1, <3>5, Zenon DEF Holds, OpenerInv, LifeInv
      <4>2. Committed(p)
        BY <1>1, <1>3, <2>3, <3>5, <4>1, Zenon
      <4> QED BY <2>1, <3>1, <3>5, <4>1, <4>2, Zenon DEF Committed, Holds, HandleInv, Running
    <3>6. OpenerInv(p)'
      BY <1>1, <2>1, <3>1, <3>5, Zenon DEF Holds, OpenerInv
    <3> QED BY <3>2, <3>3, <3>4, <3>6, Zenon DEF Holds
  <2> QED BY <2>2, <2>3, Zenon
<1>6. \A c \in Colls : locked'[c] => opener'[c] = Nobody /\ ~pinned'[c]
  BY <1>1, Zenon DEF PromptInv
<1> QED BY <1>4, <1>5, <1>6, Zenon DEF PromptInv, Holds

-----------------------------------------------------------------------------
(* The invariant *)

LEMMA InvInit == Init => Shapes /\ PromptInv
<1> SUFFICES ASSUME Init PROVE Shapes /\ PromptInv
  BY Zenon
<1>1. Shapes
  BY PromptsAssumption, Zenon DEF Init, Shapes, PerPrompt, Tasks
<1>2. ASSUME NEW p \in Prompts PROVE Holds(p)
  <2>1. LifeInv(p) /\ HandleInv(p)
    BY Zenon DEF Init, LifeInv, HandleInv
  <2>2. GateInv(p) /\ DismissInv(p)
    BY DEF Init, GateInv, DismissInv
  <2>3. OpenerInv(p)
    BY PromptsAssumption, Zenon DEF Init, OpenerInv
  <2> QED BY <2>1, <2>2, <2>3, Zenon DEF Holds
<1>3. \A c \in Colls : locked[c] => opener[c] = Nobody /\ ~pinned[c]
  BY Zenon DEF Init
<1> QED BY <1>1, <1>2, <1>3, Zenon DEF PromptInv, Holds

LEMMA InvStep == Shapes /\ PromptInv /\ [Next]_vars => Shapes' /\ PromptInv'
<1> SUFFICES ASSUME Shapes, PromptInv, [Next]_vars PROVE Shapes' /\ PromptInv'
  BY Zenon
<1>1. ASSUME NEW c \in Colls, Lock(c) \/ idle_lock(c) \/ WatchRelock(c) PROVE Shapes' /\ PromptInv'
  BY <1>1, LockSteps, Zenon
<1>2. ASSUME NEW c \in Colls, NEW pin \in Pins, ControlUnlock(c, pin) PROVE Shapes' /\ PromptInv'
  BY <1>2, ControlUnlockStep, Zenon
<1>3. ASSUME NEW p \in Prompts, Resolve(p) \/ Export(p) \/ Perform(p) \/ Dismiss(p)
      PROVE  Shapes' /\ PromptInv'
  BY <1>3, ResolveStep, ExportStep, PerformStep, DismissCallStep, Zenon
<1>4. ASSUME NEW p \in Prompts, DismissStep(p) PROVE Shapes' /\ PromptInv'
  BY <1>4, DismissClaimStep, FinishStep, Zenon DEF DismissStep
<1>5. ASSUME NEW p \in Prompts, TaskStep(p) PROVE Shapes' /\ PromptInv'
  <2>1. CASE Register(p) \/ Top(p) \/ CheckCancelled(p) \/ CheckOwner(p) \/ CheckLocked(p)
    BY <2>1, RegisterStep, TopStep, CheckCancelledStep, CheckOwnerStep, CheckLockedStep, Zenon
  <2>2. CASE Dialog(p) \/ CheckCancelledAgain(p) \/ Claim(p) \/ Derive(p) \/ Open(p) \/ Drop(p)
    BY <2>2, DialogStep, CheckCancelledAgainStep, ClaimStep, DeriveStep, OpenStep, DropStep, Zenon
  <2>3. CASE End(p) \/ Relock(p) \/ Act(p) \/ Settle(p) \/ Finish(p) \/ Die(p)
    BY <2>3, EndStep, RelockStep, ActStep, SettleStep, FinishStep, DieStep, Zenon
  <2> QED BY <1>5, <2>1, <2>2, <2>3, Zenon DEF TaskStep
<1>6. ASSUME NEW k \in Clients, Reclaim(k) PROVE Shapes' /\ PromptInv'
  BY <1>6, ReclaimStep, Zenon
<1>7. CASE UNCHANGED vars \/ \E k \in Clients : Disconnect(k)
  <2>1. UNCHANGED <<locked, pinned, opener, relock, kind, armed, call, owned, handle, commit,
                    aborted, gate, cancelled, abandoned, dis, completed, tries, todo, record, now,
                    task>>
    BY <1>7, Zenon DEF Disconnect, vars, collections, bus, object, sync, locals, outcome
  <2>2. Shapes'
    BY <2>1, Zenon DEF Shapes, PerPrompt
  <2>3. ASSUME NEW q \in Prompts PROVE Holds(q)'
    <3>1. Holds(q) /\ Same(q)
      BY <2>1, Zenon DEF PromptInv, Holds, Same
    <3> QED BY <2>1, <3>1, SameKeeps, Zenon
  <2>4. \A c \in Colls : locked'[c] => opener'[c] = Nobody /\ ~pinned'[c]
    BY <2>1, Zenon DEF PromptInv
  <2> QED BY <2>2, <2>3, <2>4, Zenon DEF PromptInv, Holds
<1> QED BY <1>1, <1>2, <1>3, <1>4, <1>5, <1>6, <1>7, Zenon DEF Next

(* The inductive invariant of prompt.rs's locking: who may hold the gate, the *)
(* handle and the record at each step of task, Dismiss and watch.            *)
THEOREM PromptInvariance == Spec => [](Shapes /\ PromptInv)
BY InvInit, InvStep, PTL DEF Spec

-----------------------------------------------------------------------------
(* What follows from it *)

(* The task's finish and the one Dismiss calls send one Completed between   *)
(* them.                                                                    *)
THEOREM CompletedOnceThm == Spec => []CompletedOnce
<1>1. Shapes /\ PromptInv => CompletedOnce
  BY SMTT(30) DEF PromptInv, LifeInv, CompletedOnce
<1> QED BY <1>1, PromptInvariance, PTL

(* What a prompt opened for a client that left is known to the task or to    *)
(* the watch until one of them has locked it again.                          *)
THEOREM AbandonedIsRelockedThm == Spec => []AbandonedIsRelocked
<1>1. Shapes /\ PromptInv => AbandonedIsRelocked
  BY Zenon DEF PromptInv, OpenerInv, AbandonedIsRelocked, Running
<1> QED BY <1>1, PromptInvariance, PTL

(* claim_unlock comes before unlock_with_key: an abort at any await finds   *)
(* the collection on record.                                                *)
THEOREM OpenIsRecordedThm == Spec => []OpenIsRecorded
<1>1. Shapes /\ PromptInv => OpenIsRecorded
  BY Zenon DEF PromptInv, OpenerInv, OpenIsRecorded
<1> QED BY <1>1, PromptInvariance, PTL

(* Vault::lock clears the pin on every path that locks. *)
THEOREM LockedIsUnpinnedThm == Spec => []LockedIsUnpinned
<1>1. Shapes /\ PromptInv => LockedIsUnpinned
  BY Zenon DEF PromptInv, LockedIsUnpinned
<1> QED BY <1>1, PromptInvariance, PTL

-----------------------------------------------------------------------------
(* Who changes what *)

(* Only the step after the derivation adds to a record; only a create or     *)
(* delete past its gate has an effect.                                       *)
Frame(q) ==
    /\ record'[q] \subseteq record[q] \/ task[q] = "derive"
    /\ effect'[q] = effect[q] \/ task[q] \in {"act", "settle"}

LEMMA FrameStep ==
    Shapes /\ PerPrompt(effect) /\ [Next]_vars =>
        PerPrompt(effect') /\ \A q \in Prompts : Frame(q)
<1> SUFFICES ASSUME Shapes, PerPrompt(effect), [Next]_vars
             PROVE  PerPrompt(effect') /\ \A q \in Prompts : Frame(q)
  BY Zenon
<1>0. PerPrompt(record)
  BY Zenon DEF Shapes
<1>1. CASE UNCHANGED <<record, effect>>
  BY <1>1, Zenon DEF Frame, PerPrompt
<1>2. ASSUME NEW p \in Prompts, NEW r, UNCHANGED effect, record' = [record EXCEPT ![p] = r],
             r \subseteq record[p] \/ task[p] = "derive"
      PROVE  PerPrompt(effect') /\ \A q \in Prompts : Frame(q)
  <2>1. record'[p] = r /\ \A q \in Prompts : q # p => record'[q] = record[q]
    BY <1>0, <1>2, Zenon DEF PerPrompt
  <2> QED BY <1>2, <2>1, Zenon DEF Frame, PerPrompt
<1>3. ASSUME NEW p \in Prompts, Act(p) \/ Settle(p)
      PROVE  PerPrompt(effect') /\ \A q \in Prompts : Frame(q)
  <2>1. /\ task[p] \in {"act", "settle"} /\ record' = record
        /\ effect' = effect \/ \E x : effect' = [effect EXCEPT ![p] = x]
    BY <1>3, Zenon DEF Act, Settle
  <2>2. PerPrompt(effect') /\ \A q \in Prompts : q # p => effect'[q] = effect[q]
    BY <2>1, Zenon DEF PerPrompt
  <2> QED BY <2>1, <2>2, Zenon DEF Frame
<1>4. ASSUME NEW p \in Prompts, Derive(p) \/ Drop(p) \/ End(p)
      PROVE  PerPrompt(effect') /\ \A q \in Prompts : Frame(q)
  <2>1. CASE UNCHANGED <<record, effect>>
    BY <1>1, <2>1, Zenon
  <2>2. CASE Derive(p) /\ record' = [record EXCEPT ![p] = @ \cup {Head(todo[p])}]
    <3> DEFINE r == record[p] \cup {Head(todo[p])}
    <3>1. record' = [record EXCEPT ![p] = r] /\ task[p] = "derive" /\ UNCHANGED effect
      BY <2>2, Zenon DEF Derive, outcome
    <3> QED BY <1>2, <3>1, Zenon
  <2>3. CASE Drop(p)
    <3> DEFINE r == record[p] \ {Head(todo[p])}
    <3>1. record' = [record EXCEPT ![p] = r] /\ r \subseteq record[p] /\ UNCHANGED effect
      BY <2>3, Zenon DEF Drop, outcome
    <3> QED BY <1>2, <3>1, Zenon
  <2>4. CASE End(p) /\ record' = [record EXCEPT ![p] = {}]
    <3>1. UNCHANGED effect
      BY <2>4, Zenon DEF End, outcome
    <3> DEFINE r == {}
    <3>2. record' = [record EXCEPT ![p] = r] /\ r \subseteq record[p]
      BY <2>4, Zenon
    <3> HIDE DEF r
    <3> QED BY <1>2, <3>1, <3>2, Zenon
  <2> QED BY <1>4, <2>1, <2>2, <2>3, <2>4, Zenon DEF Derive, End, outcome
<1>5. ASSUME NEW p \in Prompts, Finish(p) \/ DismissFinish(p)
      PROVE  PerPrompt(effect') /\ \A q \in Prompts : Frame(q)
  <2>1. record' = [record EXCEPT ![p] = {}] /\ UNCHANGED effect
    BY <1>5, Zenon DEF Finish, DismissFinish, finish
  <2> DEFINE r == {}
  <2>2. record' = [record EXCEPT ![p] = r] /\ r \subseteq record[p]
    BY <2>1, Zenon
  <2> HIDE DEF r
  <2> QED BY <1>2, <2>1, <2>2, Zenon
<1>6. ASSUME NEW p \in Prompts, TaskStep(p) \/ DismissStep(p)
      PROVE  PerPrompt(effect') /\ \A q \in Prompts : Frame(q)
  <2>1. CASE \/ Register(p) \/ Top(p) \/ CheckCancelled(p) \/ CheckOwner(p) \/ CheckLocked(p)
             \/ Dialog(p) \/ CheckCancelledAgain(p) \/ Claim(p) \/ Open(p) \/ Relock(p) \/ Die(p)
             \/ DismissClaim(p)
    BY <1>1, <2>1, Zenon DEF Register, Top, CheckCancelled, CheckOwner, CheckLocked, Dialog,
         CheckCancelledAgain, Claim, Open, Relock, Die, DismissClaim, outcome
  <2> QED BY <1>3, <1>4, <1>5, <1>6, <2>1, Zenon DEF TaskStep, DismissStep
<1>7. ASSUME NEW k \in Clients, Reclaim(k)
      PROVE  PerPrompt(effect') /\ \A q \in Prompts : Frame(q)
  <2>1. /\ UNCHANGED effect
        /\ record' = [p \in Prompts |-> IF p \in Stopped(k) THEN {} ELSE record[p]]
    BY <1>7, Zenon DEF Reclaim
  <2> QED BY <2>1, Zenon DEF Frame, PerPrompt
<1>8. CASE \/ \E c \in Colls : Lock(c) \/ idle_lock(c) \/ WatchRelock(c)
           \/ \E c \in Colls, pin \in Pins : ControlUnlock(c, pin)
           \/ \E p \in Prompts : Resolve(p) \/ Export(p) \/ Perform(p) \/ Dismiss(p)
           \/ \E k \in Clients : Disconnect(k)
           \/ UNCHANGED vars
  BY <1>1, <1>8, Zenon DEF Lock, idle_lock, WatchRelock, ControlUnlock, Resolve, Export, Perform, Dismiss,
       Disconnect, vars, outcome
<1> QED BY <1>6, <1>7, <1>8, Zenon DEF Next

(* A Dismiss that won the gate stops the prompt for good, and one that came *)
(* too late stops the collections the loop has not reached.                 *)
THEOREM DismissStopsThm == Spec => DismissStops
<1> DEFINE Stops == \A p \in Prompts :
          /\ dis[p] \in {"won", "finished"} =>
                effect'[p] = effect[p] /\ record'[p] \subseteq record[p]
          /\ dis[p] = "late" => ~(task[p] = "locked?" /\ task'[p] = "dialog")
<1>1. Shapes /\ PromptInv /\ PerPrompt(effect) /\ [Next]_vars => Stops
  <2> SUFFICES ASSUME Shapes, PromptInv, PerPrompt(effect), [Next]_vars, NEW p \in Prompts
               PROVE  /\ dis[p] \in {"won", "finished"} =>
                            effect'[p] = effect[p] /\ record'[p] \subseteq record[p]
                      /\ dis[p] = "late" => ~(task[p] = "locked?" /\ task'[p] = "dialog")
    BY Zenon
  <2>1. Frame(p)
    BY FrameStep, Zenon
  <2>2. /\ dis[p] \in {"won", "finished"} => task[p] \notin {"derive", "act", "settle"}
        /\ dis[p] = "late" => task[p] # "locked?"
    BY Zenon DEF PromptInv, DismissInv, Ending
  <2> QED BY <2>1, <2>2, Zenon DEF Frame
<1>2. Init => PerPrompt(effect)
  BY Zenon DEF Init, PerPrompt
<1>3. Shapes /\ PerPrompt(effect) /\ [Next]_vars => PerPrompt(effect)'
  BY FrameStep, Zenon DEF PerPrompt
<1>4. Spec => []PerPrompt(effect)
  BY <1>2, <1>3, PromptInvariance, PTL DEF Spec
<1>5. Spec => [][Stops]_vars
  BY <1>1, <1>4, PromptInvariance, PTL DEF Spec
<1> QED BY <1>5, Zenon DEF DismissStops

-----------------------------------------------------------------------------
(* Dialogs and owners *)

Reached == {"locked?", "dialog"}

(* A step of a registered task: it gets as far as its dialog with an owner, *)
(* or with the gate that the answer before claimed.                         *)
LEMMA TaskReaches ==
    ASSUME Shapes, PromptInv, NEW p \in Prompts, TaskStep(p), ~Register(p), ~Finish(p)
    PROVE  /\ UNCHANGED <<owned, handle, aborted, dis, kind>> /\ Running(p)
           /\ \A q \in Prompts : q # p => task'[q] = task[q] /\ gate'[q] = gate[q]
           /\ task'[p] \in Reached => \/ kind[p] = "modify" \/ owned[p] \/ gate'[p]
                                     \/ (task[p] \in Reached /\ gate'[p] = gate[p])
<1>0. task \in [Prompts -> Tasks] /\ gate \in [Prompts -> BOOLEAN] /\ kind[p] \in {"unlock", "modify"}
  BY Zenon DEF Shapes
<1> DEFINE Rest == UNCHANGED <<owned, handle, aborted, dis, kind>> /\ Running(p)
           Far == {"top", "end", "finish", "claim", "confirmed", "open", "drop", "relock",
                   "settle", "derive", "act", "cancelled?", "owner?", "dead"}
           Goal == /\ Rest
                   /\ \A q \in Prompts : q # p => task'[q] = task[q] /\ gate'[q] = gate[q]
                   /\ task'[p] \in Reached => \/ kind[p] = "modify" \/ owned[p] \/ gate'[p]
                                             \/ (task[p] \in Reached /\ gate'[p] = gate[p])
<1>a. ASSUME NEW l \in Far, Rest, task' = [task EXCEPT ![p] = l],
             \/ gate' = gate
             \/ gate' = [gate EXCEPT ![p] = TRUE]
             \/ gate' = [gate EXCEPT ![p] = FALSE]
      PROVE  Goal
  <2>1. task'[p] = l /\ \A q \in Prompts : q # p => task'[q] = task[q]
    BY <1>0, <1>a, Zenon
  <2>2. \A q \in Prompts : q # p => gate'[q] = gate[q]
    BY <1>0, <1>a, Zenon
  <2>3. l \notin Reached
    BY <1>a, Zenon DEF Reached
  <2> QED BY <1>a, <2>1, <2>2, <2>3, Zenon
<1>b. ASSUME Rest, gate' = gate, task' = [task EXCEPT ![p] = "locked?"] \/ task' = [task EXCEPT ![p] = "dialog"],
             kind[p] = "modify" \/ owned[p] \/ gate[p] \/ task[p] \in Reached
      PROVE  Goal
  <2>1. \A q \in Prompts : q # p => task'[q] = task[q]
    BY <1>0, <1>b, Zenon
  <2> QED BY <1>b, <2>1, Zenon
<1>1. CASE Top(p)
  <2>1. Rest
    BY <1>1, Zenon DEF Top, Running, object
  <2>2. /\ task' = [task EXCEPT ![p] = "end"] \/ task' = [task EXCEPT ![p] = "cancelled?"]
        /\ gate' = gate \/ gate' = [gate EXCEPT ![p] = FALSE]
    BY <1>1, Zenon DEF Top, Goto
  <2> QED BY <1>a, <2>1, <2>2, Zenon
<1>2. CASE CheckCancelled(p)
  <2>1. Rest /\ gate' = gate
    BY <1>2, Zenon DEF CheckCancelled, Running, object, sync
  <2>2. \/ \E l \in {"finish", "end", "owner?"} : task' = [task EXCEPT ![p] = l]
        \/ kind[p] = "modify" /\ task' = [task EXCEPT ![p] = "dialog"]
    BY <1>2, Zenon DEF CheckCancelled, Goto
  <2> QED BY <1>a, <1>b, <2>1, <2>2, Zenon
<1>3. CASE CheckOwner(p)
  <2>1. Rest /\ gate' = gate
    BY <1>3, Zenon DEF CheckOwner, Running, object, sync
  <2>2. \/ task' = [task EXCEPT ![p] = "end"]
        \/ owned[p] /\ task' = [task EXCEPT ![p] = "locked?"]
    BY <1>3, Zenon DEF CheckOwner, Goto
  <2> QED BY <1>a, <1>b, <2>1, <2>2, Zenon
<1>4. CASE CheckLocked(p)
  <2>1. Rest /\ gate' = gate /\ task[p] \in Reached
    BY <1>4, Zenon DEF CheckLocked, Running, object, sync, Reached
  <2>2. task' = [task EXCEPT ![p] = "top"] \/ task' = [task EXCEPT ![p] = "dialog"]
    BY <1>4, Zenon DEF CheckLocked, Goto, NextColl
  <2> QED BY <1>a, <1>b, <2>1, <2>2, Zenon
<1>5. CASE Dialog(p) \/ CheckCancelledAgain(p) \/ Derive(p)
  <2>1. Rest /\ gate' = gate
    BY <1>5, Zenon DEF Dialog, CheckCancelledAgain, Derive, Running, object, sync
  <2>2. \E l \in Far : task' = [task EXCEPT ![p] = l]
    BY <1>5, Zenon DEF Dialog, CheckCancelledAgain, Derive, Goto, NextColl
  <2> QED BY <1>a, <2>1, <2>2, Zenon
<1>6. CASE Open(p) \/ End(p) \/ Act(p) \/ Settle(p) \/ Die(p)
  <2>1. Rest /\ gate' = gate
    BY <1>6, Zenon DEF Open, End, Act, Settle, Die, Running, object, sync
  <2>2. \E l \in Far : task' = [task EXCEPT ![p] = l]
    BY <1>6, Zenon DEF Open, End, Act, Settle, Die, Goto, NextColl
  <2> QED BY <1>a, <2>1, <2>2, Zenon
<1>7. CASE Claim(p)
  <2>1. Rest
    BY <1>7, Zenon DEF Claim, Running, object
  <2>2. /\ \E l \in Far : task' = [task EXCEPT ![p] = l]
        /\ gate' = gate \/ gate' = [gate EXCEPT ![p] = TRUE]
    BY <1>7, Zenon DEF Claim, Goto
  <2> QED BY <1>a, <2>1, <2>2, Zenon
<1>8. CASE Drop(p)
  <2>1. Rest /\ gate' = gate
    BY <1>8, Zenon DEF Drop, Running, object, sync
  <2>2. gate[p]
    BY <1>8, Zenon DEF Drop, PromptInv, GateInv
  <2>3. task' = [task EXCEPT ![p] = "top"] \/ task' = [task EXCEPT ![p] = "dialog"]
    BY <1>8, Zenon DEF Drop, Goto, NextColl
  <2> QED BY <1>a, <1>b, <2>1, <2>2, <2>3, Zenon
<1>9. CASE Relock(p)
  <2>1. Rest /\ gate' = gate /\ task[p] = "relock"
    BY <1>9, Zenon DEF Relock, Running, object, sync
  <2>2. task' = task \/ task' = [task EXCEPT ![p] = "finish"]
    BY <1>9, Zenon DEF Relock, Goto
  <2>3. CASE task' = task
    BY <2>1, <2>3, Zenon DEF Reached
  <2> QED BY <1>a, <2>1, <2>2, <2>3, Zenon
<1> QED BY <1>1, <1>2, <1>3, <1>4, <1>5, <1>6, <1>7, <1>8, <1>9, Zenon DEF TaskStep

LEMMA WatchStep ==
    Shapes /\ PromptInv /\ (\A p \in Prompts : WatchInv(p)) /\ [Next]_vars =>
        \A p \in Prompts : WatchInv(p)'
<1> SUFFICES ASSUME Shapes, PromptInv, \A p \in Prompts : WatchInv(p), [Next]_vars,
                    NEW q \in Prompts
             PROVE  WatchInv(q)'
  BY Zenon
<1>0. WatchInv(q) /\ Holds(q)
  BY Zenon DEF PromptInv, Holds
<1>t. /\ task \in [Prompts -> Tasks] /\ dis \in [Prompts -> {"none", "marked", "won", "finished", "late"}]
      /\ owned \in [Prompts -> BOOLEAN] /\ handle \in [Prompts -> BOOLEAN]
      /\ gate \in [Prompts -> BOOLEAN] /\ aborted \in [Prompts -> BOOLEAN]
  BY Zenon DEF Shapes
<1>1. ASSUME /\ owned'[q] = owned[q] /\ handle'[q] = handle[q] /\ dis'[q] = dis[q]
             /\ gate'[q] = gate[q] /\ aborted'[q] = aborted[q] /\ task'[q] = task[q]
             /\ kind' = kind
      PROVE  WatchInv(q)'
  BY <1>0, <1>1, Zenon DEF WatchInv, Running
<1>2. ASSUME NEW p \in Prompts, Resolve(p) \/ Export(p) \/ Perform(p) \/ Dismiss(p)
      PROVE  WatchInv(q)'
  <2>1. UNCHANGED <<handle, gate, aborted, kind>>
    BY <1>2, Zenon DEF Resolve, Export, Perform, Dismiss, sync
  <2>2. CASE Resolve(p)
    BY <1>1, <2>2, Zenon DEF Resolve, sync
  <2>3. CASE Export(p)
    <3>1. p # q => owned'[q] = owned[q]
      BY <1>t, <2>3, Zenon DEF Export
    <3>2. UNCHANGED <<task, dis>> /\ call[p] = "resolving"
      BY <2>3, Zenon DEF Export, sync
    <3>3. CASE p = q
      <4>1. task'[q] = "none"
        BY <1>0, <3>2, <3>3, Zenon DEF Holds, LifeInv
      <4> QED BY <4>1, Zenon DEF WatchInv, Running
    <3> QED BY <1>1, <2>1, <3>1, <3>2, <3>3, Zenon
  <2>4. CASE Perform(p)
    <3>1. task'[p] = "spawning" /\ (p # q => task'[q] = task[q])
      BY <1>t, <2>4, Zenon DEF Perform
    <3>2. UNCHANGED <<owned, dis>>
      BY <2>4, Zenon DEF Perform, sync
    <3>3. CASE p = q
      BY <3>1, <3>3, Zenon DEF WatchInv, Running
    <3> QED BY <1>1, <2>1, <3>1, <3>2, <3>3, Zenon
  <2>5. CASE Dismiss(p)
    <3>1. UNCHANGED <<owned, task>>
      BY <2>5, Zenon DEF Dismiss
    <3>2. dis'[q] = dis[q] \/ dis[q] = "none"
      BY <1>t, <2>5, Zenon DEF Dismiss
    <3> QED BY <1>0, <2>1, <3>1, <3>2, Zenon DEF WatchInv, Running
  <2> QED BY <1>2, <2>2, <2>3, <2>4, <2>5, Zenon
<1>3. ASSUME NEW p \in Prompts, TaskStep(p), ~Register(p), ~Finish(p) PROVE WatchInv(q)'
  <2>1. /\ UNCHANGED <<owned, handle, aborted, dis, kind>> /\ Running(p)
        /\ q # p => task'[q] = task[q] /\ gate'[q] = gate[q]
        /\ task'[p] \in Reached => \/ kind[p] = "modify" \/ owned[p] \/ gate'[p]
                                  \/ (task[p] \in Reached /\ gate'[p] = gate[p])
    BY <1>3, TaskReaches, Zenon
  <2>2. CASE p = q
    BY <1>0, <2>1, <2>2, Zenon DEF WatchInv, Running, Reached
  <2> QED BY <1>1, <2>1, <2>2, Zenon
<1>4. ASSUME NEW p \in Prompts, Register(p) PROVE WatchInv(q)'
  <2>1. /\ UNCHANGED <<owned, aborted, dis, kind, gate>>
        /\ task'[p] = "top" /\ handle'[p] = TRUE
        /\ q # p => task'[q] = task[q] /\ handle'[q] = handle[q]
    BY <1>t, <1>4, Zenon DEF Register, sync
  <2>2. CASE p = q
    BY <2>1, <2>2, Zenon DEF WatchInv
  <2> QED BY <1>1, <2>1, <2>2, Zenon
<1>5. ASSUME NEW p \in Prompts, Finish(p) \/ DismissFinish(p) PROVE WatchInv(q)'
  <2>1. /\ UNCHANGED <<aborted, kind, gate>> /\ owned'[p] = FALSE
        /\ q # p => /\ task'[q] = task[q] /\ handle'[q] = handle[q]
                    /\ owned'[q] = owned[q] /\ dis'[q] = dis[q]
    BY <1>t, <1>5, ZenonT(30) DEF Finish, DismissFinish, finish, Goto, sync
  <2>2. CASE p = q
    <3>1. task'[q] = "done" \/ (dis[q] = "won" /\ task'[q] = task[q])
      BY <1>t, <1>5, <2>2, Zenon DEF Finish, DismissFinish, Goto
    <3>2. task'[q] \in Reached => gate[q]
      BY <1>0, <3>1, Zenon DEF Holds, DismissInv, Ending, Reached
    <3> QED BY <2>1, <2>2, <3>2, Zenon DEF WatchInv, Reached
  <2> QED BY <1>1, <2>1, <2>2, Zenon
<1>6. ASSUME NEW p \in Prompts, DismissClaim(p) PROVE WatchInv(q)'
  <2>1. UNCHANGED <<owned, kind, task>>
    BY <1>6, Zenon DEF DismissClaim
  <2>2. CASE p # q
    <3>1. /\ handle'[q] = handle[q] /\ dis'[q] = dis[q]
          /\ gate'[q] = gate[q] /\ aborted'[q] = aborted[q]
      BY <1>t, <1>6, <2>2, ZenonT(30) DEF DismissClaim
    <3> QED BY <1>1, <2>1, <3>1, Zenon
  <2>3. CASE p = q
    <3>1. dis[q] = "marked" /\ gate'[q] = TRUE /\ (dis'[q] = "won" \/ handle'[q] = handle[q])
      BY <1>t, <1>6, <2>3, ZenonT(30) DEF DismissClaim
    <3> QED BY <1>0, <2>1, <3>1, Zenon DEF WatchInv, Running
  <2> QED BY <2>2, <2>3, Zenon
<1>7. ASSUME NEW k \in Clients, Reclaim(k) PROVE WatchInv(q)'
  <2>1. /\ UNCHANGED <<kind, gate, dis, task>>
        /\ \/ caller[q] = k /\ owned[q] /\ owned'[q] = FALSE
           \/ ~(caller[q] = k /\ owned[q]) /\ owned'[q] = owned[q] /\ handle'[q] = handle[q]
        /\ aborted[q] => aborted'[q]
        /\ q \in Stopped(k) /\ handle[q] => aborted'[q]
    BY <1>7, Zenon DEF Reclaim
  <2>2. CASE caller[q] = k /\ owned[q] /\ owned'[q] = FALSE
    <3>1. ASSUME kind[q] = "unlock", task[q] \in Reached, ~gate[q] PROVE aborted'[q]
      <4>1. handle[q]
        BY <1>0, <2>2, <3>1, Zenon DEF WatchInv, Running, Holds, DismissInv, Ending, Reached
      <4>2. q \in Stopped(k)
        BY <2>2, <3>1, Zenon DEF Stopped, Committed
      <4> QED BY <2>1, <4>1, <4>2, Zenon
    <3> QED BY <2>1, <2>2, <3>1, Zenon DEF WatchInv, Reached
  <2> QED BY <1>0, <2>1, <2>2, Zenon DEF WatchInv, Running
<1>8. CASE \/ \E c \in Colls : Lock(c) \/ idle_lock(c) \/ WatchRelock(c)
           \/ \E c \in Colls, pin \in Pins : ControlUnlock(c, pin)
           \/ \E k \in Clients : Disconnect(k)
           \/ UNCHANGED vars
  <2>1. UNCHANGED <<owned, handle, dis, gate, aborted, task, kind>>
    BY <1>8, Zenon DEF Lock, idle_lock, WatchRelock, ControlUnlock, Disconnect, vars, object, sync
  <2> QED BY <1>1, <2>1, Zenon
<1> QED BY <1>2, <1>3, <1>4, <1>5, <1>6, <1>7, <1>8, Zenon DEF Next, DismissStep

(* The watch aborts "any prompt task (and its pinentry) still running": an  *)
(* unlock prompt puts no dialog on the screen for a client that is gone,    *)
(* unless its task has been told to stop.  A create or delete has no owner  *)
(* check of its own, and may.                                               *)
THEOREM DialogHasOwnerThm == Kinds = {"unlock"} => (Spec => []DialogHasOwner)
<1> SUFFICES ASSUME Kinds = {"unlock"} PROVE Spec => []DialogHasOwner
  BY Zenon
<1> DEFINE Watched == \A p \in Prompts : WatchInv(p)
           AllUnlock == kind \in [Prompts -> {"unlock"}]
<1>1. Init => Watched /\ AllUnlock
  BY Zenon DEF Init, WatchInv, Running
<1>2. Shapes /\ PromptInv /\ Watched /\ [Next]_vars => Watched'
  BY WatchStep, Zenon
<1>3. AllUnlock /\ [Next]_vars => AllUnlock'
  <2> SUFFICES ASSUME [Next]_vars PROVE kind' = kind
    BY Zenon
  <2>1. ASSUME NEW p \in Prompts, TaskStep(p) PROVE kind' = kind
    BY <2>1, Zenon DEF TaskStep, Register, Top, CheckCancelled, CheckOwner, CheckLocked, Dialog,
         CheckCancelledAgain, Claim, Derive, Open, Drop, End, Relock, Act, Settle, Finish, Die,
         finish, object
  <2>2. ASSUME NEW p \in Prompts,
               \/ DismissStep(p) \/ Resolve(p) \/ Export(p) \/ Perform(p) \/ Dismiss(p)
        PROVE  kind' = kind
    BY <2>2, Zenon DEF DismissStep, DismissClaim, DismissFinish, finish, Resolve, Export,
         Perform, Dismiss
  <2>3. CASE \/ \E c \in Colls : Lock(c) \/ idle_lock(c) \/ WatchRelock(c)
             \/ \E c \in Colls, pin \in Pins : ControlUnlock(c, pin)
             \/ \E k \in Clients : Disconnect(k) \/ Reclaim(k)
             \/ UNCHANGED vars
    BY <2>3, Zenon DEF Lock, idle_lock, WatchRelock, ControlUnlock, Disconnect, Reclaim, vars, object
  <2> QED BY <2>1, <2>2, <2>3, Zenon DEF Next
<1>4. Watched /\ AllUnlock => DialogHasOwner
  BY Zenon DEF DialogHasOwner, WatchInv
<1> HIDE DEF Watched, AllUnlock
<1> QED BY <1>1, <1>2, <1>3, <1>4, PromptInvariance, PTL DEF Spec

-----------------------------------------------------------------------------
(* The quota *)

OwnedBy(k) == {p \in Prompts : caller[p] = k /\ owned[p]}

QuotaInv == \A k \in Clients : IsFiniteSet(OwnedBy(k)) /\ Cardinality(OwnedBy(k)) <= MaxPrompts

(* Every other step leaves an owner with the prompts it had, or fewer. *)
LEMMA OwnersShrink ==
    ASSUME Shapes, [Next]_vars, ~\E p \in Prompts : Export(p)
    PROVE  caller' = caller /\ \A q \in Prompts : owned'[q] => owned[q]
<1>1. CASE UNCHANGED <<caller, owned>>
  BY <1>1, Zenon
<1>2. ASSUME NEW p \in Prompts, Finish(p) \/ DismissFinish(p)
      PROVE  caller' = caller /\ \A q \in Prompts : owned'[q] => owned[q]
  <2>1. caller' = caller /\ owned' = [owned EXCEPT ![p] = FALSE]
    BY <1>2, Zenon DEF Finish, DismissFinish, finish
  <2> QED BY <2>1, Zenon DEF Shapes
<1>3. ASSUME NEW k \in Clients, Reclaim(k)
      PROVE  caller' = caller /\ \A q \in Prompts : owned'[q] => owned[q]
  <2> DEFINE gone == {p \in Prompts : caller[p] = k /\ owned[p]}
  <2>1. caller' = caller /\ owned' = [p \in Prompts |-> IF p \in gone THEN FALSE ELSE owned[p]]
    BY <1>3, Zenon DEF Reclaim
  <2> HIDE DEF gone
  <2> QED BY <2>1, Zenon
<1>4. ASSUME NEW p \in Prompts, TaskStep(p) \/ DismissStep(p)
      PROVE  caller' = caller /\ \A q \in Prompts : owned'[q] => owned[q]
  <2>1. CASE \/ Register(p) \/ Top(p) \/ CheckCancelled(p) \/ CheckOwner(p) \/ CheckLocked(p)
             \/ Dialog(p) \/ CheckCancelledAgain(p) \/ Claim(p) \/ DismissClaim(p)
    BY <1>1, <2>1, Zenon DEF Register, Top, CheckCancelled, CheckOwner, CheckLocked, Dialog,
         CheckCancelledAgain, Claim, DismissClaim, object
  <2>2. CASE \/ Derive(p) \/ Open(p) \/ Drop(p) \/ End(p) \/ Relock(p) \/ Act(p) \/ Settle(p)
             \/ Die(p)
    BY <1>1, <2>2, Zenon DEF Derive, Open, Drop, End, Relock, Act, Settle, Die, object
  <2> QED BY <1>2, <1>4, <2>1, <2>2, Zenon DEF TaskStep, DismissStep
<1>5. CASE \/ \E c \in Colls : Lock(c) \/ idle_lock(c) \/ WatchRelock(c)
           \/ \E c \in Colls, pin \in Pins : ControlUnlock(c, pin)
           \/ \E p \in Prompts : Resolve(p) \/ Perform(p) \/ Dismiss(p)
           \/ \E k \in Clients : Disconnect(k)
           \/ UNCHANGED vars
  BY <1>1, <1>5, Zenon DEF Lock, idle_lock, WatchRelock, ControlUnlock, Resolve, Perform, Dismiss,
       Disconnect, vars, object
<1> QED BY <1>3, <1>4, <1>5, Zenon DEF Next

LEMMA QuotaStep == Shapes /\ QuotaInv /\ [Next]_vars => QuotaInv'
<1> SUFFICES ASSUME Shapes, QuotaInv, [Next]_vars, NEW k \in Clients
             PROVE  IsFiniteSet(OwnedBy(k)') /\ Cardinality(OwnedBy(k)') <= MaxPrompts
  BY Zenon DEF QuotaInv
<1>1. IsFiniteSet(OwnedBy(k)) /\ Cardinality(OwnedBy(k)) <= MaxPrompts
  BY Zenon DEF QuotaInv
<1>2. Cardinality(OwnedBy(k)) \in Nat
  BY <1>1, FS_CardinalityType, Zenon
<1>3. ASSUME OwnedBy(k)' \subseteq OwnedBy(k)
      PROVE  IsFiniteSet(OwnedBy(k)') /\ Cardinality(OwnedBy(k)') <= MaxPrompts
  <2>1. IsFiniteSet(OwnedBy(k)') /\ Cardinality(OwnedBy(k)') <= Cardinality(OwnedBy(k))
    BY <1>1, <1>3, FS_Subset, Zenon
  <2>2. Cardinality(OwnedBy(k)') \in Nat
    BY <2>1, FS_CardinalityType, Zenon
  <2> QED BY <1>1, <1>2, <2>1, <2>2, PromptsAssumption
<1>4. CASE ~\E p \in Prompts : Export(p)
  <2>1. OwnedBy(k)' \subseteq OwnedBy(k)
    BY <1>4, OwnersShrink, Zenon DEF OwnedBy
  <2> QED BY <1>3, <2>1, Zenon
<1>5. ASSUME NEW p \in Prompts, Export(p)
      PROVE  IsFiniteSet(OwnedBy(k)') /\ Cardinality(OwnedBy(k)') <= MaxPrompts
  <2>1. CASE owned' = owned
    <3>1. OwnedBy(k)' \subseteq OwnedBy(k)
      BY <1>5, <2>1, Zenon DEF OwnedBy, Export
    <3> QED BY <1>3, <3>1, Zenon
  <2>2. CASE check_prompt_quota(caller[p]) /\ owned' = [owned EXCEPT ![p] = TRUE]
    <3>1. caller' = caller /\ \A q \in Prompts : owned'[q] => q = p \/ owned[q]
      BY <1>5, <2>2, Zenon DEF Export, Shapes
    <3>2. CASE caller[p] # k
      <4>1. OwnedBy(k)' \subseteq OwnedBy(k)
        BY <3>1, <3>2, Zenon DEF OwnedBy
      <4> QED BY <1>3, <4>1
    <3>3. CASE caller[p] = k
      <4>1. OwnedBy(k)' \subseteq OwnedBy(k) \cup {p}
        BY <3>1, Zenon DEF OwnedBy
      <4>2. Cardinality(OwnedBy(k)) < MaxPrompts
        BY <2>2, <3>3, Zenon DEF check_prompt_quota, OwnedBy
      <4>3. /\ IsFiniteSet(OwnedBy(k) \cup {p})
            /\ \/ Cardinality(OwnedBy(k) \cup {p}) = Cardinality(OwnedBy(k))
               \/ Cardinality(OwnedBy(k) \cup {p}) = Cardinality(OwnedBy(k)) + 1
        BY <1>1, FS_AddElement, Zenon
      <4>4. /\ IsFiniteSet(OwnedBy(k)')
            /\ Cardinality(OwnedBy(k)') <= Cardinality(OwnedBy(k) \cup {p})
        BY <4>1, <4>3, FS_Subset, Zenon
      <4>5. Cardinality(OwnedBy(k)') \in Nat
        BY <4>4, FS_CardinalityType, Zenon
      <4> QED BY <1>2, <4>2, <4>3, <4>4, <4>5, PromptsAssumption
    <3> QED BY <3>2, <3>3, Zenon
  <2> QED BY <1>5, <2>1, <2>2, Zenon DEF Export
<1> QED BY <1>4, <1>5, Zenon

(* check_prompt_quota and the owner entry are under one acquisition of the   *)
(* state lock: however the calls interleave, no owner has more prompts than  *)
(* MAX_PROMPTS_PER_OWNER.                                                    *)
THEOREM QuotaHoldsThm == Spec => []QuotaHolds
<1>1. Init => QuotaInv
  <2> SUFFICES ASSUME Init, NEW k \in Clients
               PROVE  IsFiniteSet(OwnedBy(k)) /\ Cardinality(OwnedBy(k)) <= MaxPrompts
    BY Zenon DEF QuotaInv
  <2>1. OwnedBy(k) = {}
    BY Zenon DEF Init, OwnedBy
  <2>2. IsFiniteSet({}) /\ Cardinality({}) = 0
    BY FS_EmptySet, Zenon
  <2> QED BY <2>1, <2>2, PromptsAssumption
<1>2. QuotaInv => QuotaHolds
  BY Zenon DEF QuotaInv, QuotaHolds, OwnedBy
<1> QED BY <1>1, <1>2, QuotaStep, PromptInvariance, PTL DEF Spec

=============================================================================
