---------------------------- MODULE InjectionProofs ----------------------------
(***************************************************************************)
(* The types of Injection, and its four invariants, for any number of jobs *)
(* with any steps, any pool, aborts, copies and failures.                  *)
(* At the end, the gate that every job opens, for any threads and guards.  *)
(*                                                                         *)
(* OutputsStayWhole rests on the mutex: whoever is between Lock and Unlock *)
(* holds it, so what a job adds to the window while it is inside follows   *)
(* its own output, or that of a lookup.  AbortBoundsOutput rests on the    *)
(* labels: an output after the abort leaves the job where the next thing   *)
(* it does is the check of the generation, and none of those that follow   *)
(* outputs anything.  PastesOwnPayload rests on what a job about to paste  *)
(* finds: nobody with the mutex writes between its write and its paste.    *)
(* ClipboardLostOnlyIf rests on what the holder knows of the clipboard: it *)
(* is excused, or it is the holder's own content and its original is kept  *)
(* until it is back.                                                       *)
(***************************************************************************)
EXTENDS Injection, InjectionGate, FiniteSetTheorems, TLAPS

(* Between Lock and Unlock *)
Inside == {"type", "erase", "check", "do", "save", "put", "verify", "rewrite", "paste",
           "restore", "putback", "unlock"}

(* Where a lookup can be: it has one text, and ends with its paste. *)
LookupLabels == {"new", "do", "save", "put", "verify", "paste", "done"}

Control ==
    /\ scenario \in Scenarios
    /\ queue \in Seq(Jobs)
    /\ pc \in [Jobs -> Labels]
    /\ holder \in Jobs \cup {None}
    /\ step \in [Jobs -> Nat \ {0}]
    /\ blocks \in Seq(Jobs)

Numbers ==
    /\ generation \in 1..MaxAborts + 1
    /\ captured \in [Jobs -> Nat]
    /\ payload \in [Jobs -> Nat]
    /\ copies \in 0..MaxCopies /\ faults \in 0..MaxFaults
    /\ late \in [Jobs -> Nat]
    /\ wrote \in [Jobs -> 0..MaxCopies]
    /\ faulty \subseteq Jobs /\ hit \subseteq Jobs

Clipboards ==
    /\ saved \in [Jobs -> Clips \cup {None}]
    /\ clipboard \in Clips
    /\ \A j \in Jobs : pc[j] = "putback" => saved[j] # None

-----------------------------------------------------------------------------
LEMMA PlanTyped ==
    ASSUME ScenarioAssumption, scenario \in Scenarios
    PROVE  /\ \A j \in Jobs : /\ Kind(j) \in {"expand", "undo", "stream", "lookup", "absent"}
                              /\ Steps(j) \in Seq(StepKinds)
                              /\ Kind(j) = "lookup" => Steps(j) = <<"text">>
                              /\ Kind(j) # "expand" =>
                                     \A i \in 1..Len(Steps(j)) : Steps(j)[i] = "text"
           /\ MaxAborts \in Nat /\ MaxCopies \in Nat /\ MaxFaults \in Nat
  BY DEF ScenarioAssumption, PlanType, Kind, Steps, Plan, MaxAborts, MaxCopies, MaxFaults

(* The clipboard takes the user's copies, the contents of steps and their  *)
(* texts, and nothing else.                                                *)
LEMMA ContentTyped ==
    ASSUME NEW j \in Jobs, NEW i \in Nat PROVE Content(j, i) \in Clips
  BY DEF Content, Clips

LEMMA TextTyped == ASSUME NEW c \in Clips PROVE TextOf(c) \in Clips
  BY DEF TextOf, Clips

LEMMA CopyTyped == ASSUME NEW n \in 0..MaxCopies PROVE UserCopy(n) \in Clips
  BY DEF Clips

(* A step of job j's, once it has the mutex or needs none: it stays inside *)
(* or is done, and it outputs nothing or emits.  What it emits when it is  *)
(* aborted is its last: it is at the check after it, or past it.           *)
Past == {"check", "restore", "putback", "unlock", "done"}

Moves(j, l) ==
    /\ pc[j] \in Inside
    /\ pc' = [pc EXCEPT ![j] = l]
    /\ holder' = IF pc[j] = "unlock" THEN None ELSE holder
    /\ pc[j] = "unlock" => l = "done"
    /\ step' = step \/ step' = [step EXCEPT ![j] = @ + 1]

Outputs(j, l) ==
    \/ /\ UNCHANGED <<blocks, late>>
       /\ pc[j] \in Past /\ Aborted(j) => l \in Past
    \/ /\ Emit(j)
       /\ pc[j] \notin Past
       /\ l \in Past \/ late' = late

LEMMA WorkMoves ==
    ASSUME Control, NEW j \in Jobs, Work(j)
    PROVE  \/ Lock(j)
           \/ /\ \E l \in Inside \cup {"done"} : Moves(j, l) /\ Outputs(j, l)
              /\ UNCHANGED <<scenario, queue, generation, captured>>
  <1>. DEFINE Goal == /\ \E l \in Inside \cup {"done"} : Moves(j, l) /\ Outputs(j, l)
                      /\ UNCHANGED <<queue, generation, captured>>
  <1>. USE DEF Moves, Outputs, Inside, Past
  <1>1. ASSUME TypeAtOnce(j) PROVE Goal
    BY <1>1 DEF TypeAtOnce, Goto
  <1>2. ASSUME EraseTrigger(j) PROVE Goal
    BY <1>2 DEF EraseTrigger, Goto
  <1>3. ASSUME CheckAbort(j) PROVE Goal
    BY <1>3 DEF CheckAbort, Goto, history
  <1>4. ASSUME BeginText(j) PROVE Goal
    BY <1>4 DEF BeginText, Goto, history
  <1>5. ASSUME RunScript(j) PROVE Goal
    BY <1>5 DEF RunScript, Goto, NextStep, history
  <1>6. ASSUME PressKey(j) PROVE Goal
    BY <1>6 DEF PressKey, Goto, NextStep
  <1>7. ASSUME ClickEndlessly(j) PROVE Goal
    <2>1. CASE Aborted(j)
      BY <1>7, <2>1 DEF ClickEndlessly, Goto, NextStep
    <2>2. CASE ~Aborted(j)
      <3>1. pc' = [pc EXCEPT ![j] = "do"] /\ late' = late
        BY <1>7, <2>2 DEF ClickEndlessly, Emit, Control
      <3>. QED BY <1>7, <2>2, <3>1 DEF ClickEndlessly
    <2>. QED BY <2>1, <2>2
  <1>8. ASSUME PutImage(j) PROVE Goal
    BY <1>8 DEF PutImage, Goto, NextStep
  <1>9. ASSUME ReadOriginal(j) PROVE Goal
    BY <1>9 DEF ReadOriginal, Goto, history
  <1>10. ASSUME PutFirst(j) PROVE Goal
    BY <1>10 DEF PutFirst, FirstSegmentFails, Goto, NextStep
  <1>11. ASSUME Verify(j) PROVE Goal
    BY <1>11 DEF Verify, FirstSegmentFails, Goto, NextStep
  <1>12. ASSUME PutAgain(j) PROVE Goal
    BY <1>12 DEF PutAgain, Goto, NextStep
  <1>13. ASSUME Paste(j) PROVE Goal
    BY <1>13 DEF Paste, Goto, NextStep
  <1>14. ASSUME CheckRestore(j) PROVE Goal
    BY <1>14 DEF CheckRestore, Goto, history
  <1>15. ASSUME PutBack(j) PROVE Goal
    BY <1>15 DEF PutBack, Goto
  <1>16. ASSUME Unlock(j) PROVE Goal
    BY <1>16 DEF Unlock, Goto, history
  <1>. QED
    BY <1>1, <1>2, <1>3, <1>4, <1>5, <1>6, <1>7, <1>8, <1>9, <1>10, <1>11, <1>12, <1>13, <1>14,
       <1>15, <1>16 DEF Work

-----------------------------------------------------------------------------
LEMMA ControlStep ==
    ASSUME NoneAssumption, Control, [Next]_vars PROVE Control'
  <1>. USE DEF Control
  <1>1. ASSUME Receive PROVE Control'
    <2>1. Head(queue) \in Jobs /\ Tail(queue) \in Seq(Jobs)
      BY <1>1 DEF Receive
    <2>. QED BY <1>1, <2>1 DEF Receive, Goto, Labels, history
  <1>2. ASSUME NEW j \in Jobs, Work(j) PROVE Control'
    <2>1. CASE Lock(j)
      BY <1>2, <2>1 DEF Work, Lock, Goto, Labels, history
    <2>2. ASSUME NEW l \in Inside \cup {"done"}, Moves(j, l), Outputs(j, l),
                 UNCHANGED <<scenario, queue, generation, captured>>
          PROVE  Control'
      <3>1. blocks' \in Seq(Jobs)
        <4>1. Append(blocks, j) \in Seq(Jobs)
          OBVIOUS
        <4>2. blocks' = blocks \/ blocks' = Append(blocks, j)
          BY <2>2, Zenon DEF Outputs, Emit
        <4>. QED BY <4>1, <4>2
      <3>2. pc' \in [Jobs -> Labels] /\ step' \in [Jobs -> Nat \ {0}]
        BY <2>2 DEF Moves, Inside, Labels
      <3>. QED BY <2>2, <3>1, <3>2 DEF Moves
    <2>. QED BY <1>2, <2>1, <2>2, WorkMoves
  <1>3. ASSUME NEW j \in Jobs, Submit(j), UNCHANGED scenario PROVE Control'
    <2>1. queue' \in Seq(Jobs)
      <3>1. Append(queue, j) \in Seq(Jobs)
        OBVIOUS
      <3>2. queue' = queue \/ queue' = Append(queue, j)
        BY <1>3, Zenon DEF Submit
      <3>. QED BY <3>1, <3>2
    <2>. QED BY <1>3, <2>1 DEF Submit, Goto, Labels
  <1>4. ASSUME Copy \/ AbortInjection, UNCHANGED scenario PROVE Control'
    BY <1>4 DEF Copy, AbortInjection, jobVars, history
  <1>5. ASSUME UNCHANGED vars PROVE Control'
    BY <1>5 DEF vars
  <1>. QED BY <1>1, <1>2, <1>3, <1>4, <1>5 DEF Next, AllDone

LEMMA NumbersStep ==
    ASSUME ScenarioAssumption, Control, Numbers, [Next]_vars PROVE Numbers'
  <1>. USE DEF Numbers
  <1>0. MaxAborts \in Nat /\ MaxCopies \in Nat /\ MaxFaults \in Nat
    BY PlanTyped DEF Control
  <1>1. ASSUME Receive PROVE Numbers'
    BY <1>1 DEF Receive, history, MaxAborts, MaxCopies, MaxFaults
  <1>2. ASSUME NEW j \in Jobs, Work(j) PROVE Numbers'
    <2>1. scenario' = scenario
      BY <1>2 DEF Work
    <2>2. MaxAborts' = MaxAborts /\ MaxCopies' = MaxCopies /\ MaxFaults' = MaxFaults
      BY <2>1 DEF MaxAborts, MaxCopies, MaxFaults
    <2>3. /\ generation' = generation /\ copies' = copies /\ hit' = hit
          /\ captured' = captured \/ \E n \in Nat : captured' = [captured EXCEPT ![j] = n]
      BY <1>2 DEF Work, Lock, TypeAtOnce, EraseTrigger, CheckAbort, BeginText, RunScript, PressKey,
             ClickEndlessly, PutImage, ReadOriginal, PutFirst, Verify, PutAgain, Paste, CheckRestore,
             PutBack, Unlock, history
    <2>4. /\ payload' = payload \/ \E n \in Nat : payload' = [payload EXCEPT ![j] = n]
          /\ wrote' = wrote \/ wrote' = [wrote EXCEPT ![j] = copies]
      BY <1>2 DEF Work, Lock, TypeAtOnce, EraseTrigger, CheckAbort, BeginText, RunScript, PressKey,
             ClickEndlessly, PutImage, ReadOriginal, PutFirst, Verify, PutAgain, Paste, CheckRestore,
             PutBack, Unlock, history, Control
    <2>5. /\ faults' = faults \/ (faults < MaxFaults /\ faults' = faults + 1)
          /\ faulty' \subseteq faulty \cup {j}
      BY <1>2 DEF Work, Lock, TypeAtOnce, EraseTrigger, CheckAbort, BeginText, RunScript, PressKey,
             ClickEndlessly, PutImage, ReadOriginal, PutFirst, Verify, PutAgain, Paste, CheckRestore,
             PutBack, Unlock, history
    <2>6. late' = late \/ late' = [late EXCEPT ![j] = @ + 1]
      <3>1. CASE Lock(j)
        BY <3>1 DEF Lock, history
      <3>. QED BY <1>2, <3>1, WorkMoves DEF Outputs, Emit
    <2>7. late' \in [Jobs -> Nat] /\ payload' \in [Jobs -> Nat] /\ captured' \in [Jobs -> Nat]
      <3>1. late' \in [Jobs -> Nat]
        <4>1. late \in [Jobs -> Nat]
          OBVIOUS
        <4>. HIDE DEF Numbers
        <4>. QED BY <2>6, <4>1
      <3>2. payload' \in [Jobs -> Nat]
        BY <2>4
      <3>3. captured' \in [Jobs -> Nat]
        BY <2>3
      <3>. QED BY <3>1, <3>2, <3>3
    <2>8. faults' \in 0..MaxFaults'
      BY <1>0, <2>2, <2>5
    <2>9. wrote' \in [Jobs -> 0..MaxCopies']
      BY <2>2, <2>4
    <2>. QED BY <2>2, <2>3, <2>5, <2>7, <2>8, <2>9
  <1>3. ASSUME NEW j \in Jobs, Submit(j), UNCHANGED scenario PROVE Numbers'
    BY <1>3 DEF Submit, MaxAborts, MaxCopies, MaxFaults
  <1>4. ASSUME Copy, UNCHANGED scenario PROVE Numbers'
    <2>1. MaxAborts' = MaxAborts /\ MaxCopies' = MaxCopies /\ MaxFaults' = MaxFaults
      BY <1>4 DEF MaxAborts, MaxCopies, MaxFaults
    <2>. QED BY <1>0, <1>4, <2>1 DEF Copy, jobVars, history
  <1>5. ASSUME AbortInjection, UNCHANGED scenario PROVE Numbers'
    <2>1. MaxAborts' = MaxAborts /\ MaxCopies' = MaxCopies /\ MaxFaults' = MaxFaults
      BY <1>5 DEF MaxAborts, MaxCopies, MaxFaults
    <2>2. generation' \in 1..MaxAborts + 1
      BY <1>0, <1>5 DEF AbortInjection
    <2>. QED BY <1>5, <2>1, <2>2 DEF AbortInjection, jobVars
  <1>6. ASSUME UNCHANGED vars PROVE Numbers'
    BY <1>6 DEF vars, MaxAborts, MaxCopies, MaxFaults
  <1>. QED BY <1>1, <1>2, <1>3, <1>4, <1>5, <1>6 DEF Next, AllDone

(* What a job does to the clipboards: the original it keeps is of the      *)
(* clipboard, and it puts back what it kept.                               *)
LEMMA WorkSaves ==
    ASSUME Control, Clipboards, NEW j \in Jobs, Work(j)
    PROVE  /\ \E c \in Clips \cup {None} : saved' = [saved EXCEPT ![j] = c]
           /\ clipboard' \in Clips
           /\ pc'[j] = "putback" => saved'[j] # None
           /\ scenario' = scenario
  <1>. DEFINE Goal == /\ \E c \in Clips \cup {None} : saved' = [saved EXCEPT ![j] = c]
                      /\ clipboard' \in Clips
                      /\ pc'[j] = "putback" => saved'[j] # None
  <1>. USE DEF Control, Clipboards
  <1>1. TextOf(clipboard) \in Clips /\ Content(j, step[j]) \in Clips
    BY TextTyped, ContentTyped
  <1>2. saved = [saved EXCEPT ![j] = saved[j]] /\ saved[j] \in Clips \cup {None}
    OBVIOUS
  <1>3. ASSUME Lock(j) \/ TypeAtOnce(j) \/ EraseTrigger(j) \/ CheckAbort(j) PROVE Goal
    <2>1. saved' = saved /\ clipboard' = clipboard
      BY <1>3 DEF Lock, TypeAtOnce, EraseTrigger, CheckAbort
    <2>2. pc'[j] # "putback"
      BY <1>3 DEF Lock, TypeAtOnce, EraseTrigger, CheckAbort, Goto
    <2>. QED BY <1>2, <2>1, <2>2
  <1>4. ASSUME BeginText(j) \/ RunScript(j) \/ PressKey(j) \/ ClickEndlessly(j) PROVE Goal
    <2>1. saved' = saved /\ clipboard' = clipboard
      BY <1>4 DEF BeginText, RunScript, PressKey, ClickEndlessly
    <2>2. pc'[j] # "putback"
      BY <1>4 DEF BeginText, RunScript, PressKey, ClickEndlessly, Goto, NextStep
    <2>. QED BY <1>2, <2>1, <2>2
  <1>5. ASSUME PutImage(j) PROVE Goal
    <2>1. pc'[j] # "putback"
      BY <1>5 DEF PutImage, Goto, NextStep
    <2>2. clipboard' \in Clips
      BY <1>1, <1>5 DEF PutImage
    <2>3. \E c \in Clips \cup {None} : saved' = [saved EXCEPT ![j] = c]
      BY <1>1, <1>2, <1>5 DEF PutImage
    <2>. QED BY <2>1, <2>2, <2>3
  <1>6. ASSUME ReadOriginal(j) PROVE Goal
    BY <1>1, <1>6 DEF ReadOriginal, Goto
  <1>7. ASSUME PutFirst(j) \/ Verify(j) PROVE Goal
    <2>1. pc'[j] # "putback"
      BY <1>7 DEF PutFirst, Verify, FirstSegmentFails, Goto, NextStep
    <2>2. clipboard' \in Clips
      BY <1>1, <1>7 DEF PutFirst, Verify
    <2>3. saved' = saved \/ saved' = [saved EXCEPT ![j] = None]
      BY <1>7 DEF PutFirst, Verify, FirstSegmentFails
    <2>. QED BY <1>2, <2>1, <2>2, <2>3
  <1>8. ASSUME PutAgain(j) \/ Paste(j) PROVE Goal
    <2>1. pc'[j] # "putback"
      BY <1>8 DEF PutAgain, Paste, Goto, NextStep
    <2>2. clipboard' \in Clips /\ saved' = saved
      BY <1>1, <1>8 DEF PutAgain, Paste
    <2>. QED BY <1>2, <2>1, <2>2
  <1>9. ASSUME CheckRestore(j) PROVE Goal
    BY <1>2, <1>9 DEF CheckRestore, Goto
  <1>10. ASSUME PutBack(j) \/ Unlock(j) PROVE Goal
    <2>1. pc'[j] # "putback" /\ saved' = saved
      BY <1>10 DEF PutBack, Unlock, Goto
    <2>2. clipboard' = clipboard \/ (pc[j] = "putback" /\ clipboard' = saved[j])
      BY <1>10 DEF PutBack, Unlock
    <2>. QED BY <1>2, <2>1, <2>2
  <1>. QED BY <1>3, <1>4, <1>5, <1>6, <1>7, <1>8, <1>9, <1>10 DEF Work

LEMMA ClipboardsStep ==
    ASSUME ScenarioAssumption, Control, Numbers, Clipboards, [Next]_vars PROVE Clipboards'
  <1>. USE DEF Clipboards
  <1>1. ASSUME Receive PROVE Clipboards'
    <2>1. Clips' = Clips
      BY <1>1 DEF Receive, Clips, MaxCopies
    <2>2. saved' = saved /\ clipboard' = clipboard
          /\ \A j \in Jobs : pc'[j] = "putback" => pc[j] = "putback"
      BY <1>1 DEF Receive, Goto, Control
    <2>. QED BY <2>1, <2>2
  <1>2. ASSUME NEW j \in Jobs, Work(j) PROVE Clipboards'
    <2>1. PICK c \in Clips \cup {None} : saved' = [saved EXCEPT ![j] = c]
      BY <1>2, WorkSaves
    <2>2. Clips' = Clips /\ clipboard' \in Clips /\ (pc'[j] = "putback" => saved'[j] # None)
      BY <1>2, WorkSaves DEF Clips, MaxCopies
    <2>3. \A k \in Jobs \ {j} : pc'[k] = pc[k]
      <3>1. Lock(j) \/ \E l : Moves(j, l)
        BY <1>2, WorkMoves
      <3>. QED BY <3>1 DEF Lock, Goto, Moves, Control
    <2>. QED BY <2>1, <2>2, <2>3
  <1>3. ASSUME NEW j \in Jobs, Submit(j), UNCHANGED scenario PROVE Clipboards'
    <2>1. Clips' = Clips
      BY <1>3 DEF Clips, MaxCopies
    <2>2. saved' = saved /\ clipboard' = clipboard
          /\ \A k \in Jobs : pc'[k] = "putback" => pc[k] = "putback"
      BY <1>3 DEF Submit, Goto, Control
    <2>. QED BY <2>1, <2>2
  <1>4. ASSUME Copy \/ AbortInjection, UNCHANGED scenario PROVE Clipboards'
    <2>1. Clips' = Clips
      BY <1>4 DEF Clips, MaxCopies
    <2>2. saved' = saved /\ pc' = pc
      BY <1>4 DEF Copy, AbortInjection, jobVars
    <2>3. \/ clipboard' = clipboard
          \/ clipboard' = UserCopy(copies + 1) /\ copies + 1 \in 0..MaxCopies
      <3>1. CASE AbortInjection
        BY <3>1 DEF AbortInjection
      <3>2. CASE Copy
        <4>1. MaxCopies \in Nat
          BY PlanTyped, ScenarioAssumption DEF Control
        <4>2. copies \in 0..MaxCopies /\ copies < MaxCopies /\ clipboard' = UserCopy(copies + 1)
          BY <3>2 DEF Copy, Numbers
        <4>. HIDE DEF Copy
        <4>. QED BY <4>1, <4>2
      <3>. QED BY <1>4, <3>1, <3>2
    <2>. QED BY <2>1, <2>2, <2>3, CopyTyped
  <1>5. ASSUME UNCHANGED vars PROVE Clipboards'
    BY <1>5 DEF vars, Clips, MaxCopies
  <1>. QED BY <1>1, <1>2, <1>3, <1>4, <1>5 DEF Next, AllDone

IInv == Control /\ Numbers /\ Clipboards

LEMMA TypedInit == Init => IInv
  <1>. SUFFICES ASSUME Init PROVE IInv
    OBVIOUS
  <1>1. MaxAborts \in Nat /\ MaxCopies \in Nat /\ MaxFaults \in Nat
    BY PlanTyped, ScenarioAssumption DEF Init
  <1>2. Control
    BY DEF Init, Control, Labels
  <1>3. Numbers
    BY <1>1 DEF Init, Numbers
  <1>4. Clipboards
    BY <1>1, CopyTyped DEF Init, Clipboards
  <1>. QED BY <1>2, <1>3, <1>4 DEF IInv

LEMMA TypedStep == IInv /\ [Next]_vars => IInv'
  BY ControlStep, NumbersStep, ClipboardsStep, ScenarioAssumption, NoneAssumption DEF IInv

(* The state stays in its types; the restore never puts back a clipboard   *)
(* it has not kept.                                                        *)
THEOREM InjectionTyped == Spec => []TypeOK
  <1>1. IInv => TypeOK
    BY DEF IInv, Control, Numbers, Clipboards, TypeOK
  <1>. QED BY TypedInit, TypedStep, <1>1, PTL DEF Spec

-----------------------------------------------------------------------------
(* Who may output: the holder of the mutex, or a lookup, whose output is   *)
(* the last thing it does.                                                 *)
Mutex == \A j \in Jobs : Kind(j) # "lookup" /\ pc[j] \in Inside => holder = j

Lookups ==
    \A j \in Jobs : Kind(j) = "lookup" =>
        /\ pc[j] \in LookupLabels /\ step[j] = 1
        /\ pc[j] \in {"new", "do"} => saved[j] = None

(* A job in the window's output is inside or done, and while it is inside  *)
(* only a lookup comes after its output.                                   *)
Written ==
    \A i \in DOMAIN blocks :
        \/ pc[blocks[i]] = "done"
        \/ /\ Kind(blocks[i]) # "lookup" /\ pc[blocks[i]] \in Inside
           /\ \A m \in DOMAIN blocks :
                  m > i => blocks[m] = blocks[i] \/ Kind(blocks[m]) = "lookup"

(* The pool's channel holds submitted jobs, each once. *)
Queued ==
    /\ \A i \in DOMAIN queue : pc[queue[i]] = "queued"
    /\ \A i, k \in DOMAIN queue : queue[i] = queue[k] => i = k

WInv == Queued /\ Mutex /\ Lookups /\ Written /\ OutputsStayWhole

LEMMA LookupWorks ==
    ASSUME ScenarioAssumption, Control, Clipboards, Lookups, NEW j \in Jobs, Work(j),
           Kind(j) = "lookup"
    PROVE  /\ pc'[j] \in LookupLabels \ {"new", "do"} /\ step'[j] = 1
           /\ UNCHANGED <<blocks, late>> \/ (Emit(j) /\ pc'[j] = "done")
           /\ ~Lock(j) /\ pc[j] # "unlock"
  <1>1. /\ pc[j] \in LookupLabels /\ step[j] = 1 /\ StepKind(j) = "text"
        /\ pc[j] = "do" => saved[j] = None
    <2>1. Steps(j) = <<"text">>
      BY PlanTyped DEF Control
    <2>. QED BY <2>1 DEF Lookups, StepKind
  <1>. USE <1>1 DEF Control, LookupLabels
  <1>2. BeginText(j) \/ ReadOriginal(j) \/ PutFirst(j) \/ Verify(j) \/ Paste(j)
    BY DEF Work, Lock, TypeAtOnce, EraseTrigger, CheckAbort, RunScript, PressKey, ClickEndlessly,
           PutImage, PutAgain, CheckRestore, PutBack, Unlock
  <1>3. ~Lock(j) /\ pc[j] # "unlock"
    BY DEF Lock
  <1>4. CASE BeginText(j) \/ ReadOriginal(j)
    BY <1>3, <1>4 DEF BeginText, ReadOriginal, Goto, history
  <1>5. CASE PutFirst(j) \/ Verify(j)
    <2>1. \/ pc'[j] \in {"verify", "paste"} /\ UNCHANGED <<step, blocks, late>>
          \/ FirstSegmentFails(j)
      BY <1>5 DEF PutFirst, Verify, Goto
    <2>. QED BY <1>3, <2>1 DEF FirstSegmentFails, Goto
  <1>6. CASE Paste(j)
    BY <1>3, <1>6 DEF Paste, Goto
  <1>. QED BY <1>2, <1>4, <1>5, <1>6

(* An output that follows the job's own, with lookups in between, keeps    *)
(* the outputs whole.                                                      *)
LEMMA AppendWhole ==
    ASSUME Control, OutputsStayWhole, scenario' = scenario,
           NEW j \in Jobs, blocks' = Append(blocks, j),
           \A i, m \in DOMAIN blocks :
               blocks[i] = j /\ m > i => blocks[m] = j \/ Kind(blocks[m]) = "lookup"
    PROVE  OutputsStayWhole'
  <1>. DEFINE n == Len(blocks)
  <1>1. /\ n \in Nat /\ DOMAIN blocks = 1..n /\ DOMAIN blocks' = 1..(n + 1)
        /\ blocks'[n + 1] = j /\ \A i \in 1..n : blocks'[i] = blocks[i]
    BY DEF Control
  <1>. SUFFICES ASSUME NEW i \in 1..(n + 1), NEW k \in 1..(n + 1), NEW between \in i..k,
                       blocks'[i] = blocks'[k]
                PROVE  blocks'[between] = blocks'[i] \/ Kind(blocks'[between]) = "lookup"
    BY <1>1 DEF OutputsStayWhole, Kind, Plan
  <1>2. CASE k \in 1..n
    BY <1>1, <1>2 DEF OutputsStayWhole
  <1>3. CASE k = n + 1 /\ between = n + 1
    BY <1>1, <1>3
  <1>4. CASE k = n + 1 /\ between \in 1..n
    <2>1. i \in 1..n /\ blocks[i] = j /\ (between = i \/ between > i)
      BY <1>1, <1>4
    <2>. QED BY <1>1, <1>4, <2>1
  <1>. QED BY <1>1, <1>2, <1>3, <1>4

(* Nothing of the window changes, and no job in it changes its place. *)
LEMMA SameWritten ==
    ASSUME Control, Written, OutputsStayWhole, UNCHANGED <<scenario, blocks>>,
           \A i \in DOMAIN blocks : pc'[blocks[i]] = pc[blocks[i]]
    PROVE  Written' /\ OutputsStayWhole'
  BY DEF Written, OutputsStayWhole, Kind, Plan

(* A step of a job with the mutex *)
LEMMA HolderStep ==
    ASSUME Control, WInv, NEW j \in Jobs, Kind(j) # "lookup", UNCHANGED <<scenario, queue>>,
           NEW l \in Inside \cup {"done"}, Moves(j, l), Outputs(j, l)
    PROVE  Mutex' /\ Written' /\ OutputsStayWhole'
  <1>. USE DEF Kind, Plan
  <1>1. holder = j /\ pc[j] \in Inside /\ pc' = [pc EXCEPT ![j] = l] /\ pc[j] # "done"
    BY DEF WInv, Mutex, Moves, Inside
  <1>2. \A k \in Jobs \ {j} : pc'[k] = pc[k] /\ (Kind(k) # "lookup" => pc[k] \notin Inside)
    BY <1>1 DEF WInv, Mutex, Control
  <1>3. Mutex'
    BY <1>1, <1>2 DEF Mutex, Moves, Inside, Control
  <1>4. \A i \in DOMAIN blocks : blocks[i] # j => pc[blocks[i]] = "done"
    <2>1. \A i \in DOMAIN blocks : blocks[i] \in Jobs
      BY DEF Control
    <2>. QED BY <1>2, <2>1 DEF WInv, Written
  <1>5. \A i, m \in DOMAIN blocks :
            blocks[i] = j /\ m > i => blocks[m] = j \/ Kind(blocks[m]) = "lookup"
    BY <1>1 DEF WInv, Written
  <1>6. CASE blocks' = blocks
    <2>1. Written'
      BY <1>1, <1>4, <1>5, <1>6 DEF Written, Control
    <2>. QED BY <1>3, <1>6, <2>1 DEF WInv, OutputsStayWhole
  <1>7. CASE blocks' = Append(blocks, j)
    <2>1. OutputsStayWhole'
      BY <1>5, <1>7, AppendWhole DEF WInv
    <2>2. Written'
      <3>. DEFINE n == Len(blocks)
      <3>1. /\ n \in Nat /\ DOMAIN blocks = 1..n /\ DOMAIN blocks' = 1..(n + 1)
            /\ blocks'[n + 1] = j /\ \A i \in 1..n : blocks'[i] = blocks[i]
        BY <1>7 DEF Control
      <3>. SUFFICES ASSUME NEW i \in 1..(n + 1)
                    PROVE  \/ pc'[blocks'[i]] = "done"
                           \/ /\ Kind(blocks'[i]) # "lookup" /\ pc'[blocks'[i]] \in Inside
                              /\ \A m \in 1..(n + 1) :
                                   m > i => blocks'[m] = blocks'[i] \/ Kind(blocks'[m]) = "lookup"
        BY <3>1 DEF Written
      <3>0. pc'[j] \in Inside \cup {"done"}
        BY <1>1 DEF Control
      <3>2. CASE i = n + 1
        <4>1. \A m \in 1..(n + 1) : ~(m > i)
          BY <3>1, <3>2
        <4>. QED BY <3>0, <3>1, <3>2, <4>1
      <3>3. CASE i \in 1..n /\ blocks[i] # j
        <4>1. blocks[i] \in Jobs
          BY <3>3 DEF Control
        <4>2. pc'[blocks[i]] = pc[blocks[i]] /\ pc[blocks[i]] = "done"
          BY <1>2, <1>4, <3>1, <3>3, <4>1
        <4>. QED BY <3>1, <3>3, <4>2
      <3>4. CASE i \in 1..n /\ blocks[i] = j
        <4>1. \A m \in 1..(n + 1) : m > i => blocks'[m] = j \/ Kind(blocks'[m]) = "lookup"
          BY <1>5, <3>1, <3>4
        <4>. QED BY <3>0, <3>1, <3>4, <4>1
      <3>. QED BY <3>1, <3>2, <3>3, <3>4
    <2>. QED BY <1>3, <2>1, <2>2
  <1>8. blocks' = blocks \/ blocks' = Append(blocks, j)
    BY Zenon DEF Outputs, Emit
  <1>. QED BY <1>6, <1>7, <1>8

(* A step of a lookup *)
LEMMA LookupStep ==
    ASSUME Control, WInv, NEW j \in Jobs, Kind(j) = "lookup", UNCHANGED <<scenario, queue>>,
           NEW l \in Inside \cup {"done"}, Moves(j, l), pc[j] # "unlock",
           UNCHANGED <<blocks, late>> \/ (Emit(j) /\ pc'[j] = "done")
    PROVE  Mutex' /\ Written' /\ OutputsStayWhole'
  <1>. USE DEF Kind, Plan
  <1>1. /\ holder' = holder /\ pc[j] \in Inside /\ pc[j] # "done"
        /\ pc' = [pc EXCEPT ![j] = l]
    BY DEF Moves, Inside
  <1>2. Mutex'
    BY <1>1 DEF WInv, Mutex, Control
  <1>3. \A i \in DOMAIN blocks : blocks[i] # j /\ pc'[blocks[i]] = pc[blocks[i]]
    <2>1. \A i \in DOMAIN blocks : blocks[i] \in Jobs
      BY DEF Control
    <2>2. \A i \in DOMAIN blocks : blocks[i] # j
      BY <1>1 DEF WInv, Written
    <2>. QED BY <1>1, <2>1, <2>2 DEF Control
  <1>4. CASE blocks' = blocks
    BY <1>2, <1>3, <1>4, SameWritten DEF WInv
  <1>5. CASE blocks' = Append(blocks, j) /\ pc'[j] = "done"
    <2>1. OutputsStayWhole'
      BY <1>3, <1>5, AppendWhole DEF WInv
    <2>2. Written'
      <3>. DEFINE n == Len(blocks)
      <3>1. /\ n \in Nat /\ DOMAIN blocks = 1..n /\ DOMAIN blocks' = 1..(n + 1)
            /\ blocks'[n + 1] = j /\ \A i \in 1..n : blocks'[i] = blocks[i]
        BY <1>5 DEF Control
      <3>. SUFFICES ASSUME NEW i \in 1..(n + 1)
                    PROVE  \/ pc'[blocks'[i]] = "done"
                           \/ /\ Kind(blocks'[i]) # "lookup" /\ pc'[blocks'[i]] \in Inside
                              /\ \A m \in 1..(n + 1) :
                                   m > i => blocks'[m] = blocks'[i] \/ Kind(blocks'[m]) = "lookup"
        BY <3>1 DEF Written
      <3>2. CASE i = n + 1
        BY <1>5, <3>1, <3>2
      <3>3. CASE i \in 1..n
        <4>1. \/ pc[blocks[i]] = "done"
              \/ /\ Kind(blocks[i]) # "lookup" /\ pc[blocks[i]] \in Inside
                 /\ \A m \in 1..n : m > i => blocks[m] = blocks[i] \/ Kind(blocks[m]) = "lookup"
          BY <3>1, <3>3 DEF WInv, Written
        <4>. QED BY <1>3, <3>1, <3>3, <4>1
      <3>. QED BY <3>1, <3>2, <3>3
    <2>. QED BY <1>2, <2>1, <2>2
  <1>6. blocks' = blocks \/ (blocks' = Append(blocks, j) /\ pc'[j] = "done")
    BY Zenon DEF Emit
  <1>. QED BY <1>4, <1>5, <1>6

LEMMA LockStep ==
    ASSUME NoneAssumption, Control, WInv, NEW j \in Jobs, Lock(j), scenario' = scenario
    PROVE  Mutex' /\ Written' /\ OutputsStayWhole'
  <1>1. /\ pc[j] = "lock" /\ holder = None /\ holder' = j /\ blocks' = blocks
        /\ \A k \in Jobs \ {j} : pc'[k] = pc[k]
    BY DEF Lock, Goto, history, Control
  <1>2. Mutex'
    BY <1>1, NoneAssumption DEF WInv, Mutex, Kind, Plan
  <1>3. \A i \in DOMAIN blocks : pc'[blocks[i]] = pc[blocks[i]]
    <2>1. \A i \in DOMAIN blocks : blocks[i] \in Jobs
      BY DEF Control
    <2>2. \A i \in DOMAIN blocks : blocks[i] # j
      BY <1>1 DEF WInv, Written, Inside
    <2>. QED BY <1>1, <2>1, <2>2
  <1>. QED BY <1>1, <1>2, <1>3, SameWritten DEF WInv

(* Jobs that wait and those that are done: a step that only moves such a   *)
(* job, to where it is not inside unless it is a lookup *)
LEMMA WaitingStep ==
    ASSUME Control, WInv, UNCHANGED <<scenario, holder, blocks>>,
           NEW j \in Jobs, pc[j] \in {"new", "queued"},
           \A k \in Jobs \ {j} : pc'[k] = pc[k],
           pc'[j] \in Inside => Kind(j) = "lookup"
    PROVE  Mutex' /\ Written' /\ OutputsStayWhole'
  <1>1. Mutex'
    BY DEF WInv, Mutex, Kind, Plan
  <1>2. \A i \in DOMAIN blocks : pc'[blocks[i]] = pc[blocks[i]]
    <2>1. \A i \in DOMAIN blocks : blocks[i] \in Jobs
      BY DEF Control
    <2>2. \A i \in DOMAIN blocks : blocks[i] # j
      BY DEF WInv, Written, Inside
    <2>. QED BY <2>1, <2>2
  <1>. QED BY <1>1, <1>2, SameWritten DEF WInv

LEMMA QueuedStep ==
    ASSUME Control, WInv, [Next]_vars PROVE Queued'
  <1>. USE DEF Queued
  <1>0. Queued /\ \A i \in DOMAIN queue : queue[i] \in Jobs
    BY DEF WInv, Control
  <1>1. ASSUME Receive PROVE Queued'
    <2>. DEFINE n == Len(queue)
    <2>1. /\ n \in Nat \ {0} /\ DOMAIN queue = 1..n /\ DOMAIN queue' = 1..(n - 1)
          /\ \A i \in 1..(n - 1) : queue'[i] = queue[i + 1]
          /\ Head(queue) = queue[1]
      BY <1>1 DEF Receive, Control
    <2>2. pc' = [pc EXCEPT ![queue[1]] = "lock"]
      BY <1>1, <2>1 DEF Receive, Goto
    <2>3. \A i \in 1..(n - 1) : i + 1 \in 1..n /\ i + 1 # 1
      BY <2>1
    <2>4. \A i \in 1..(n - 1) : queue'[i] \in Jobs /\ pc[queue'[i]] = "queued" /\ queue'[i] # queue[1]
      BY <1>0, <2>1, <2>3
    <2>5. \A i \in 1..(n - 1) : pc'[queue'[i]] = "queued"
      BY <2>2, <2>4 DEF Control
    <2>6. \A i, k \in 1..(n - 1) : queue'[i] = queue'[k] => i = k
      <3>1. \A i, k \in 1..(n - 1) : queue'[i] = queue'[k] => i + 1 = k + 1
        BY <1>0, <2>1, <2>3
      <3>. QED BY <2>1, <3>1
    <2>. QED BY <2>1, <2>5, <2>6
  <1>2. ASSUME NEW j \in Jobs, Work(j) PROVE Queued'
    <2>1. /\ queue' = queue /\ pc[j] # "queued"
          /\ \A k \in Jobs \ {j} : pc'[k] = pc[k]
      <3>1. CASE Lock(j)
        BY <3>1 DEF Lock, Goto, Control
      <3>. QED BY ZenonT(60), <1>2, <3>1, WorkMoves DEF Moves, Inside, Control
    <2>. QED BY <1>0, <2>1
  <1>3. ASSUME NEW j \in Jobs, Submit(j) PROVE Queued'
    <2>1. pc[j] = "new" /\ \A k \in Jobs \ {j} : pc'[k] = pc[k]
      BY <1>3 DEF Submit, Goto, Control
    <2>2. \A i \in DOMAIN queue : queue[i] # j
      BY <1>0, <2>1
    <2>3. CASE queue' = queue
      BY <1>0, <2>1, <2>2, <2>3
    <2>4. CASE queue' = Append(queue, j) /\ pc' = [pc EXCEPT ![j] = "queued"]
      <3>. DEFINE n == Len(queue)
      <3>1. /\ n \in Nat /\ DOMAIN queue = 1..n /\ DOMAIN queue' = 1..(n + 1)
            /\ queue'[n + 1] = j /\ \A i \in 1..n : queue'[i] = queue[i]
        BY <2>4 DEF Control
      <3>2. \A i \in 1..(n + 1) : i \in 1..n \/ i = n + 1
        BY <3>1
      <3>3. pc'[j] = "queued" /\ \A i \in 1..n : pc'[queue[i]] = "queued"
        BY <1>0, <2>1, <2>2, <2>4, <3>1 DEF Control
      <3>. QED BY <1>0, <2>2, <3>1, <3>2, <3>3
    <2>5. queue' = queue \/ (queue' = Append(queue, j) /\ pc' = [pc EXCEPT ![j] = "queued"])
      BY <1>3, Zenon DEF Submit, Goto
    <2>. QED BY <2>3, <2>4, <2>5
  <1>4. ASSUME Copy \/ AbortInjection \/ UNCHANGED vars PROVE Queued'
    BY <1>0, <1>4 DEF Copy, AbortInjection, vars, jobVars
  <1>. QED BY <1>1, <1>2, <1>3, <1>4 DEF Next, AllDone

LEMMA LookupsStep ==
    ASSUME ScenarioAssumption, Control, Clipboards, WInv, [Next]_vars PROVE Lookups'
  <1>. USE DEF LookupLabels
  <1>. SUFFICES ASSUME NEW j \in Jobs, Kind(j)' = "lookup"
                PROVE  /\ pc'[j] \in LookupLabels /\ step'[j] = 1
                       /\ pc'[j] \in {"new", "do"} => saved'[j] = None
    BY DEF Lookups
  <1>1. scenario' = scenario /\ Kind(j) = "lookup"
    BY DEF Kind, Plan, Next, Receive, Work, AllDone, vars
  <1>2. /\ pc[j] \in LookupLabels /\ step[j] = 1
        /\ pc[j] \in {"new", "do"} => saved[j] = None
    BY <1>1 DEF WInv, Lookups
  <1>3. ASSUME Receive PROVE pc'[j] = pc[j] /\ UNCHANGED <<step, saved>>
    <2>1. Head(queue) # j
      <3>1. queue # <<>> /\ Head(queue) = queue[1] /\ 1 \in DOMAIN queue
        BY <1>3 DEF Receive, Control
      <3>. QED BY <1>2, <3>1 DEF WInv, Queued
    <2>2. pc' = [pc EXCEPT ![Head(queue)] = "lock"] /\ UNCHANGED <<step, saved>>
      BY <1>3 DEF Receive, Goto
    <2>. QED BY <2>1, <2>2 DEF Control
  <1>4. ASSUME Work(j)
        PROVE  pc'[j] \in LookupLabels \ {"new", "do"} /\ step'[j] = 1
    BY <1>1, <1>4, LookupWorks DEF WInv
  <1>5. ASSUME NEW k \in Jobs \ {j}, Work(k)
        PROVE  pc'[j] = pc[j] /\ step'[j] = step[j] /\ saved'[j] = saved[j]
    <2>1. saved'[j] = saved[j]
      BY <1>5, WorkSaves DEF Clipboards
    <2>2. CASE Lock(k)
      BY <2>1, <2>2 DEF Lock, Goto, Control
    <2>3. ASSUME NEW l, Moves(k, l) PROVE pc'[j] = pc[j] /\ step'[j] = step[j]
      BY <2>3 DEF Moves, Control
    <2>. QED BY <1>5, <2>1, <2>2, <2>3, WorkMoves
  <1>6. ASSUME NEW k \in Jobs, Submit(k)
        PROVE  /\ pc'[j] = pc[j] \/ (pc[j] = "new" /\ pc'[j] = "do")
               /\ UNCHANGED <<step, saved>>
    BY <1>1, <1>6 DEF Submit, Goto, Pooled, Control
  <1>7. ASSUME Copy \/ AbortInjection \/ UNCHANGED vars PROVE UNCHANGED <<pc, step, saved>>
    BY <1>7 DEF Copy, AbortInjection, vars, jobVars
  <1>8. \/ Receive \/ Work(j) \/ \E k \in Jobs \ {j} : Work(k)
        \/ \E k \in Jobs : Submit(k)
        \/ Copy \/ AbortInjection \/ UNCHANGED vars
    BY DEF Next, AllDone
  <1>. QED BY <1>2, <1>3, <1>4, <1>5, <1>6, <1>7, <1>8

LEMMA WholeStep ==
    ASSUME Control, Clipboards, WInv, [Next]_vars PROVE WInv'
  <1>. SUFFICES Mutex' /\ Written' /\ OutputsStayWhole'
    BY QueuedStep, LookupsStep, ScenarioAssumption DEF WInv
  <1>. DEFINE Goal == Mutex' /\ Written' /\ OutputsStayWhole'
  <1>1. ASSUME Receive PROVE Goal
    <2>1. queue # <<>> /\ Head(queue) = queue[1] /\ 1 \in DOMAIN queue /\ Head(queue) \in Jobs
      BY <1>1 DEF Receive, Control
    <2>2. /\ pc' = [pc EXCEPT ![Head(queue)] = "lock"]
          /\ UNCHANGED <<scenario, holder, blocks>>
      BY <1>1 DEF Receive, Goto, history
    <2>3. pc[Head(queue)] = "queued"
      BY <2>1 DEF WInv, Queued
    <2>4. pc'[Head(queue)] \notin Inside /\ \A k \in Jobs \ {Head(queue)} : pc'[k] = pc[k]
      BY <2>1, <2>2 DEF Control, Inside
    <2>. QED BY <2>1, <2>2, <2>3, <2>4, WaitingStep
  <1>2. ASSUME NEW j \in Jobs, Work(j) PROVE Goal
    <2>1. scenario' = scenario
      BY <1>2 DEF Work
    <2>2. CASE Lock(j)
      BY <2>1, <2>2, LockStep, NoneAssumption
    <2>3. ASSUME NEW l \in Inside \cup {"done"}, Moves(j, l), Outputs(j, l), queue' = queue
          PROVE  Goal
      <3>1. CASE Kind(j) = "lookup"
        BY <1>2, <2>1, <2>3, <3>1, LookupWorks, LookupStep, ScenarioAssumption DEF WInv
      <3>2. CASE Kind(j) # "lookup"
        BY <2>1, <2>3, <3>2, HolderStep
      <3>. QED BY <3>1, <3>2
    <2>. QED BY <1>2, <2>2, <2>3, WorkMoves
  <1>3. ASSUME NEW j \in Jobs, Submit(j), UNCHANGED scenario PROVE Goal
    <2>1. /\ pc[j] = "new" /\ \A k \in Jobs \ {j} : pc'[k] = pc[k]
          /\ pc'[j] \in Inside => Kind(j) = "lookup"
          /\ UNCHANGED <<holder, blocks>>
      BY <1>3 DEF Submit, Goto, Inside, Control
    <2>. QED BY <1>3, <2>1, WaitingStep
  <1>4. ASSUME UNCHANGED <<scenario, pc, holder, blocks>> PROVE Goal
    <2>1. Mutex'
      BY <1>4 DEF WInv, Mutex, Kind, Plan
    <2>. QED BY <1>4, <2>1, SameWritten DEF WInv
  <1>. QED
    BY <1>1, <1>2, <1>3, <1>4 DEF Next, AllDone, Copy, AbortInjection, jobVars, history, vars

LEMMA WholeInit == Init => WInv
  BY DEF Init, WInv, Queued, Mutex, Lookups, LookupLabels, Inside, Written, OutputsStayWhole

(* No output of another job that takes the mutex comes between two of a    *)
(* job's, for any number of jobs, workers and aborts.                      *)
THEOREM OutputsNeverMix == Spec => []OutputsStayWhole
  <1>1. IInv /\ WInv /\ [Next]_vars => WInv'
    BY WholeStep DEF IInv
  <1>2. WInv => OutputsStayWhole
    BY DEF WInv
  <1>. QED BY TypedInit, TypedStep, WholeInit, <1>1, <1>2, PTL DEF Spec

-----------------------------------------------------------------------------
(* A job that has output after its abort is at the loop's check or past    *)
(* it, and stays aborted: its generation is behind for good.               *)
Spent ==
    \A j \in Jobs :
        /\ captured[j] <= generation
        /\ \/ late[j] = 0
           \/ late[j] = 1 /\ Aborted(j) /\ pc[j] \in Past

LEMMA SpentStep == ASSUME IInv, WInv, Spent, [Next]_vars PROVE Spent'
  <1>. USE DEF IInv, Control, Numbers
  <1>0. generation \in Nat
    BY PlanTyped, ScenarioAssumption
  <1>1. ASSUME NEW k \in Jobs, pc[k] \notin Past, \A j \in Jobs \ {k} : pc'[j] = pc[j],
               UNCHANGED <<generation, captured, late>>
        PROVE  Spent'
    BY <1>1 DEF Spent, Aborted
  <1>2. ASSUME Receive PROVE Spent'
    <2>1. queue # <<>> /\ Head(queue) = queue[1] /\ 1 \in DOMAIN queue /\ Head(queue) \in Jobs
      BY <1>2 DEF Receive
    <2>2. pc' = [pc EXCEPT ![Head(queue)] = "lock"] /\ UNCHANGED <<generation, captured, late>>
      BY <1>2 DEF Receive, Goto, history
    <2>3. pc[Head(queue)] \notin Past
      BY <2>1 DEF WInv, Queued, Past
    <2>. QED BY <1>1, <2>1, <2>2, <2>3
  <1>3. ASSUME NEW j \in Jobs, Lock(j) PROVE Spent'
    <2>1. /\ pc[j] = "lock" /\ generation' = generation /\ late' = late
          /\ \E n \in {0, generation} : captured' = [captured EXCEPT ![j] = n]
          /\ \A k \in Jobs \ {j} : pc'[k] = pc[k]
      BY <1>3 DEF Lock, Goto, history
    <2>2. late[j] = 0
      BY <2>1 DEF Spent, Past
    <2>3. PICK n \in {0, generation} : captured' = [captured EXCEPT ![j] = n]
      BY <2>1
    <2>4. captured'[j] <= generation' /\ late'[j] = 0
      BY <1>0, <2>1, <2>2, <2>3
    <2>5. ASSUME NEW k \in Jobs \ {j}
          PROVE  captured'[k] = captured[k] /\ late'[k] = late[k] /\ pc'[k] = pc[k]
      BY <2>1, <2>3, <2>5
    <2>. QED BY ZenonT(60), <2>1, <2>4, <2>5 DEF Spent, Aborted
  <1>4. ASSUME NEW j \in Jobs, NEW l \in Inside \cup {"done"}, Moves(j, l), Outputs(j, l),
               UNCHANGED <<generation, captured>>
        PROVE  Spent'
    <2>1. pc'[j] = l /\ \A k \in Jobs \ {j} : pc'[k] = pc[k]
      BY <1>4 DEF Moves
    <2>2. \A k \in Jobs : Aborted(k)' = Aborted(k)
      BY <1>4 DEF Aborted
    <2>3. CASE late' = late /\ (pc[j] \in Past /\ Aborted(j) => l \in Past)
      BY <1>4, <2>1, <2>2, <2>3 DEF Spent
    <2>4. CASE Emit(j) /\ pc[j] \notin Past /\ (l \in Past \/ late' = late)
      <3>1. late[j] = 0
        BY <2>4 DEF Spent
      <3>2. late' = late \/ (Aborted(j) /\ l \in Past /\ late' = [late EXCEPT ![j] = 1])
        BY <2>4, <3>1 DEF Emit
      <3>. QED BY <1>4, <2>1, <2>2, <3>1, <3>2 DEF Spent
    <2>. QED BY <1>4, <2>3, <2>4 DEF Outputs
  <1>5. ASSUME NEW j \in Jobs, Submit(j) PROVE Spent'
    <2>1. /\ pc[j] = "new" /\ \A k \in Jobs \ {j} : pc'[k] = pc[k]
          /\ UNCHANGED <<generation, captured, late>>
      BY <1>5 DEF Submit, Goto
    <2>. QED BY <1>1, <2>1 DEF Past
  <1>6. ASSUME AbortInjection PROVE Spent'
    <2>1. generation' = generation + 1 /\ UNCHANGED <<pc, captured, late>>
      BY <1>6 DEF AbortInjection, jobVars
    <2>. QED BY <1>0, <2>1 DEF Spent, Aborted
  <1>7. ASSUME UNCHANGED <<pc, generation, captured, late>> PROVE Spent'
    BY <1>7 DEF Spent, Aborted
  <1>8. ASSUME NEW j \in Jobs, Work(j) PROVE Spent'
    BY <1>3, <1>4, <1>8, WorkMoves
  <1>. QED
    BY <1>2, <1>5, <1>6, <1>7, <1>8 DEF Next, AllDone, Copy, jobVars, history, vars

(* After the abort a job outputs at most once more, whatever step the      *)
(* abort met: the steps that do not look at the generation lead to the     *)
(* check that does.                                                        *)
THEOREM AbortIsObeyed == Spec => []AbortBoundsOutput
  <1>1. Init => Spent
    BY DEF Init, Spent
  <1>2. IInv /\ WInv /\ [Next]_vars => WInv'
    BY WholeStep DEF IInv
  <1>3. IInv /\ WInv /\ Spent /\ [Next]_vars => Spent'
    BY SpentStep
  <1>4. Spent => AbortBoundsOutput
    BY DEF Spent, AbortBoundsOutput
  <1>. QED BY TypedInit, TypedStep, WholeInit, <1>1, <1>2, <1>3, <1>4, PTL DEF Spec

-----------------------------------------------------------------------------
(* What a job that is about to paste finds on the clipboard: its own, a    *)
(* copy of the user's that is newer than its write, or a lookup's text.    *)
Delivers(j, i, c, n) ==
    c = Content(j, i) \/ (IsUsers(c) /\ c[2] > n) \/ FromLookup(c)

Fresh ==
    /\ \A j \in Jobs : wrote[j] <= copies
    /\ \A j \in Jobs : Kind(j) # "lookup" /\ pc[j] = "paste" =>
           Delivers(j, step[j], clipboard, wrote[j])
    /\ PastesOwnPayload

(* What the work of a job does to the clipboard, and how it comes to paste *)
LEMMA WorkPastes ==
    ASSUME Control, WInv, NEW j \in Jobs, Work(j), Kind(j) # "lookup"
    PROVE  /\ \A k \in Jobs \ {j} : Kind(k) # "lookup" => pc[k] # "paste"
           /\ pc'[j] = "paste" => clipboard' = Content(j, step'[j])
           /\ \/ pasted' = pasted
              \/ /\ pc[j] = "paste"
                 /\ pasted' = pasted \cup {<<j, step[j], clipboard, wrote[j]>>}
  <1>. USE DEF Control
  <1>1. \A k \in Jobs \ {j} : Kind(k) # "lookup" => pc[k] # "paste"
    <2>1. holder = None \/ holder = j
      <3>1. CASE Lock(j)
        BY <3>1 DEF Lock
      <3>2. CASE pc[j] \in Inside
        BY <3>2 DEF WInv, Mutex
      <3>. QED BY <3>1, <3>2, WorkMoves DEF Moves
    <2>. QED BY <2>1, NoneAssumption DEF WInv, Mutex, Inside
  <1>2. ASSUME Verify(j) \/ PutFirst(j) PROVE pc'[j] = "paste" => clipboard' = Content(j, step'[j])
    <2>1. FirstSegmentFails(j) => pc'[j] # "paste"
      BY DEF FirstSegmentFails, Goto, NextStep
    <2>. QED BY <1>2, <2>1 DEF Verify, PutFirst, Goto
  <1>3. ASSUME PutImage(j) \/ PutAgain(j)
        PROVE  pc'[j] = "paste" => clipboard' = Content(j, step'[j])
    BY <1>3 DEF PutImage, PutAgain, Goto, NextStep
  <1>4. ASSUME \/ Lock(j) \/ TypeAtOnce(j) \/ EraseTrigger(j) \/ CheckAbort(j) \/ BeginText(j)
               \/ RunScript(j) \/ PressKey(j) \/ ClickEndlessly(j) \/ ReadOriginal(j) \/ Paste(j)
               \/ CheckRestore(j) \/ PutBack(j) \/ Unlock(j)
        PROVE  pc'[j] # "paste"
    BY <1>4 DEF Lock, TypeAtOnce, EraseTrigger, CheckAbort, BeginText, RunScript, PressKey,
           ClickEndlessly, ReadOriginal, Paste, CheckRestore, PutBack, Unlock, Goto, NextStep
  <1>5. \/ pasted' = pasted
        \/ pc[j] = "paste" /\ pasted' = pasted \cup {<<j, step[j], clipboard, wrote[j]>>}
    BY DEF Work, Lock, TypeAtOnce, EraseTrigger, CheckAbort, BeginText, RunScript, PressKey,
           ClickEndlessly, PutImage, ReadOriginal, PutFirst, Verify, PutAgain, Paste, CheckRestore,
           PutBack, Unlock, history
  <1>. QED BY <1>1, <1>2, <1>3, <1>4, <1>5 DEF Work

LEMMA LookupPastes ==
    ASSUME ScenarioAssumption, Control, Numbers, Clipboards, WInv, NEW j \in Jobs, Work(j),
           Kind(j) = "lookup"
    PROVE  /\ clipboard' = clipboard \/ FromLookup(clipboard')
           /\ \A k \in Jobs \ {j} : pc'[k] = pc[k] /\ step'[k] = step[k] /\ wrote'[k] = wrote[k]
           /\ \/ pasted' = pasted
              \/ pasted' = pasted \cup {<<j, step[j], clipboard, wrote[j]>>}
  <1>. USE DEF Control
  <1>1. /\ pc[j] \in LookupLabels /\ step[j] = 1 /\ StepKind(j) = "text"
        /\ pc[j] = "do" => saved[j] = None
    BY PlanTyped DEF WInv, Lookups, StepKind
  <1>2. Content(j, step[j]) = <<"text", j, step[j]>>
    BY <1>1 DEF Content, StepKind
  <1>3. BeginText(j) \/ ReadOriginal(j) \/ PutFirst(j) \/ Verify(j) \/ Paste(j)
    BY <1>1 DEF Work, Lock, TypeAtOnce, EraseTrigger, CheckAbort, RunScript, PressKey,
           ClickEndlessly, PutImage, PutAgain, CheckRestore, PutBack, Unlock, LookupLabels
  <1>4. clipboard' = clipboard \/ clipboard' = Content(j, step[j])
    BY <1>3 DEF BeginText, ReadOriginal, PutFirst, Verify, Paste
  <1>5. clipboard' = clipboard \/ FromLookup(clipboard')
    <2>1. scenario' = scenario
      BY DEF Work
    <2>2. CASE clipboard' = <<"text", j, step[j]>>
      <3>1. clipboard'[1] = "text" /\ clipboard'[2] = j
        BY <2>2
      <3>. QED BY <2>1, <3>1 DEF FromLookup, Kind, Plan
    <2>. QED BY <1>2, <1>4, <2>2
  <1>6. \A k \in Jobs \ {j} : pc'[k] = pc[k] /\ step'[k] = step[k]
    <2>1. ASSUME NEW l, Moves(j, l)
          PROVE  \A k \in Jobs \ {j} : pc'[k] = pc[k] /\ step'[k] = step[k]
      BY <2>1 DEF Moves
    <2>. QED BY <2>1, WorkMoves, LookupWorks DEF WInv
  <1>7. wrote' = wrote \/ wrote' = [wrote EXCEPT ![j] = copies]
    BY <1>3 DEF BeginText, ReadOriginal, PutFirst, Verify, Paste, history
  <1>8. \/ pasted' = pasted
        \/ pasted' = pasted \cup {<<j, step[j], clipboard, wrote[j]>>}
    BY <1>3 DEF BeginText, ReadOriginal, PutFirst, Verify, Paste, history
  <1>9. \A k \in Jobs \ {j} : wrote'[k] = wrote[k]
    BY <1>7 DEF Numbers
  <1>. QED BY <1>5, <1>6, <1>8, <1>9

(* One more paste, its own or a lookup's *)
LEMMA PasteJoins ==
    ASSUME PastesOwnPayload, scenario' = scenario, NEW j \in Jobs, NEW i, NEW c, NEW n,
           Kind(j) = "lookup" \/ Delivers(j, i, c, n),
           pasted' = pasted \/ pasted' = pasted \cup {<<j, i, c, n>>}
    PROVE  PastesOwnPayload'
  <1>. DEFINE Own(p) == \/ p[3] = Content(p[1], p[2])
                        \/ IsUsers(p[3]) /\ p[3][2] > p[4]
                        \/ Kind(p[1]) = "lookup" \/ FromLookup(p[3])
  <1>1. \A p \in pasted : Own(p)
    BY DEF PastesOwnPayload
  <1>2. Own(<<j, i, c, n>>)
    <2>. DEFINE p == <<j, i, c, n>>
    <2>1. p[1] = j /\ p[2] = i /\ p[3] = c /\ p[4] = n
      OBVIOUS
    <2>. HIDE DEF p
    <2>. QED BY <2>1 DEF Delivers
  <1>3. \A p \in pasted' : Own(p)
    <2>. HIDE DEF Own
    <2>. QED BY <1>1, <1>2
  <1>. QED BY <1>3 DEF PastesOwnPayload, Content, Steps, Kind, FromLookup, IsUsers, Plan

LEMMA FreshStep == ASSUME IInv, WInv, Fresh, [Next]_vars PROVE Fresh'
  <1>. USE DEF IInv, Control, Numbers
  <1>0. MaxCopies \in Nat /\ copies \in Nat /\ \A j \in Jobs : wrote[j] \in Nat
    <2>1. MaxCopies \in Nat
      BY PlanTyped, ScenarioAssumption
    <2>. QED BY <2>1
  <1>1. ASSUME UNCHANGED <<scenario, step, clipboard, copies, wrote, pasted>>,
               \A j \in Jobs : pc'[j] = "paste" => pc[j] = "paste"
        PROVE  Fresh'
    BY <1>1 DEF Fresh, Delivers, PastesOwnPayload, Content, Steps, Kind, FromLookup, IsUsers, Plan
  <1>2. ASSUME Receive PROVE Fresh'
    BY <1>1, <1>2 DEF Receive, Goto, history
  <1>3. ASSUME NEW j \in Jobs, Submit(j), scenario' = scenario PROVE Fresh'
    BY <1>1, <1>3 DEF Submit, Goto
  <1>4. ASSUME AbortInjection, scenario' = scenario PROVE Fresh'
    BY <1>1, <1>4 DEF AbortInjection, jobVars
  <1>5. ASSUME Copy, scenario' = scenario PROVE Fresh'
    <2>1. /\ copies' = copies + 1 /\ clipboard' = <<"user", copies + 1>>
          /\ UNCHANGED <<pc, step, wrote, pasted>>
      BY <1>5 DEF Copy, UserCopy, jobVars, history
    <2>2. ASSUME NEW j \in Jobs PROVE wrote'[j] <= copies' /\ copies + 1 > wrote[j]
      <3>1. wrote[j] \in Nat /\ wrote[j] <= copies /\ wrote'[j] = wrote[j]
        BY <1>0, <2>1 DEF Fresh
      <3>. QED BY <1>0, <2>1, <3>1
    <2>3. IsUsers(clipboard') /\ clipboard'[2] = copies + 1
      BY <2>1 DEF IsUsers
    <2>4. PastesOwnPayload'
      BY <1>5, <2>1 DEF Fresh, PastesOwnPayload, Content, Steps, Kind, FromLookup, IsUsers, Plan
    <2>5. \A j \in Jobs : Delivers(j, step[j], clipboard, wrote[j])'
      BY <2>1, <2>2, <2>3 DEF Delivers, IsUsers
    <2>. QED BY <2>2, <2>4, <2>5 DEF Fresh
  <1>6. ASSUME NEW j \in Jobs, Work(j) PROVE Fresh'
    <2>1. scenario' = scenario
      BY <1>6 DEF Work
    <2>2. /\ copies' = copies
          /\ wrote' = wrote \/ wrote' = [wrote EXCEPT ![j] = copies]
      BY <1>6 DEF Work, Lock, TypeAtOnce, EraseTrigger, CheckAbort, BeginText, RunScript, PressKey,
             ClickEndlessly, PutImage, ReadOriginal, PutFirst, Verify, PutAgain, Paste, CheckRestore,
             PutBack, Unlock, history
    <2>3. \A k \in Jobs : wrote'[k] <= copies'
      <3>1. \A k \in Jobs : wrote[k] <= copies
        BY DEF Fresh
      <3>2. \A k \in Jobs : wrote'[k] = wrote[k] \/ wrote'[k] = copies
        BY <2>2
      <3>3. copies \in Nat /\ copies' = copies
        BY <1>0, <2>2
      <3>4. SUFFICES ASSUME NEW k \in Jobs PROVE wrote'[k] <= copies
        BY <3>3
      <3>5. CASE wrote'[k] = copies
        BY <3>3, <3>5
      <3>. QED BY <3>1, <3>2, <3>5
    <2>4. CASE Kind(j) = "lookup"
      <3>1. PastesOwnPayload'
        <4>1. pasted' = pasted \/ pasted' = pasted \cup {<<j, step[j], clipboard, wrote[j]>>}
          BY <1>6, <2>4, LookupPastes, ScenarioAssumption
        <4>2. PastesOwnPayload
          BY DEF Fresh
        <4>. QED BY <2>1, <2>4, <4>1, <4>2, PasteJoins
      <3>2. ASSUME NEW k \in Jobs, Kind(k) # "lookup", pc'[k] = "paste"
            PROVE  Delivers(k, step[k], clipboard, wrote[k])'
        <4>1. /\ pc[k] = "paste" /\ step'[k] = step[k] /\ wrote'[k] = wrote[k]
              /\ clipboard' = clipboard \/ FromLookup(clipboard')
          BY <1>6, <2>4, <3>2, LookupPastes, ScenarioAssumption
        <4>2. Delivers(k, step[k], clipboard, wrote[k])
          BY <3>2, <4>1 DEF Fresh
        <4>3. CASE FromLookup(clipboard')
          BY <2>1, <4>3 DEF Delivers, FromLookup, Kind, Plan
        <4>4. CASE clipboard' = clipboard
          BY <2>1, <4>1, <4>2, <4>4 DEF Delivers, FromLookup, Kind, Plan, Content, Steps
        <4>. QED BY <4>1, <4>3, <4>4
      <3>. QED BY <2>1, <2>3, <3>1, <3>2 DEF Fresh, Kind, Plan
    <2>5. CASE Kind(j) # "lookup"
      <3>1. /\ \A k \in Jobs \ {j} : Kind(k) # "lookup" => pc[k] # "paste"
            /\ pc'[j] = "paste" => clipboard' = Content(j, step'[j])
            /\ \/ pasted' = pasted
               \/ /\ pc[j] = "paste"
                  /\ pasted' = pasted \cup {<<j, step[j], clipboard, wrote[j]>>}
        BY <1>6, <2>5, WorkPastes
      <3>2. PastesOwnPayload'
        <4>1. CASE pasted' = pasted
          BY <2>1, <4>1 DEF Fresh, PastesOwnPayload, Content, Steps, Kind, FromLookup, IsUsers, Plan
        <4>2. CASE pc[j] = "paste" /\ pasted' = pasted \cup {<<j, step[j], clipboard, wrote[j]>>}
          BY <2>1, <2>5, <4>2, PasteJoins DEF Fresh
        <4>. QED BY <3>1, <4>1, <4>2
      <3>3. \A k \in Jobs \ {j} : pc'[k] = pc[k]
        BY <1>6, WorkMoves DEF Lock, Goto, Moves
      <3>4. pc'[j] = "paste" => Delivers(j, step[j], clipboard, wrote[j])'
        BY <2>1, <3>1 DEF Delivers, Content, Steps, Plan
      <3>. QED BY <2>1, <2>3, <3>1, <3>2, <3>3, <3>4 DEF Fresh, Kind, Plan
    <2>. QED BY <2>4, <2>5
  <1>7. ASSUME UNCHANGED vars PROVE Fresh'
    BY <1>1, <1>7 DEF vars
  <1>. QED BY <1>2, <1>3, <1>4, <1>5, <1>6, <1>7 DEF Next, AllDone

(* A paste delivers the step's own payload, unless the user copied after   *)
(* it was written or a lookup wrote in between.                            *)
THEOREM PastesAreOwn == Spec => []PastesOwnPayload
  <1>1. Init => Fresh
    BY DEF Init, Fresh, PastesOwnPayload
  <1>2. IInv /\ WInv /\ [Next]_vars => WInv'
    BY WholeStep DEF IInv
  <1>3. IInv /\ WInv /\ Fresh /\ [Next]_vars => Fresh'
    BY FreshStep
  <1>4. Fresh => PastesOwnPayload
    BY DEF Fresh
  <1>. QED BY TypedInit, TypedStep, WholeInit, <1>1, <1>2, <1>3, <1>4, PTL DEF Spec

-----------------------------------------------------------------------------
(* Whose text or image may stay on the clipboard, or be kept as the        *)
(* original: the user's copies, and what the jobs that lose clipboards     *)
(* left there, an image as the empty text.                                 *)
Losers == {j \in Jobs : LosesClipboard(j)}

Excused(c, losers) ==
    ~IsUsers(c) => IF c = Empty THEN losers # {} ELSE c[2] \in losers

(* Any other content is the holder's own: the text it waits to read back,  *)
(* the payload its restore will know again, or whatever it overwrites or   *)
(* puts the original over next.                                            *)
OwnContent(j) == clipboard[1] \in {"text", "image"} /\ clipboard[2] = j

Known(j) == payload[j] = 0 \/ clipboard = Content(j, payload[j])

Holds(j) ==
    /\ OwnContent(j) /\ saved[j] # None
    /\ \/ pc[j] = "verify" /\ clipboard = Content(j, step[j])
       \/ pc[j] \in {"check", "do", "paste", "restore"} /\ Known(j)
       \/ pc[j] \in {"rewrite", "putback"}

(* What the labels say of a job's own state: when it has a generation, a   *)
(* step, a payload and an original.                                        *)
Settled(j) ==
    /\ pc[j] \in {"new", "queued", "lock"} => captured[j] = 0
    /\ Aborted(j) => j \in hit \/ pc[j] = "done"
    /\ Kind(j) # "expand" => payload[j] = 0
    /\ pc[j] \in {"do", "save", "put", "verify", "rewrite", "paste"} => step[j] <= Len(Steps(j))
    /\ payload[j] <= Len(Steps(j))
    /\ pc[j] \in {"save", "put", "verify", "rewrite"} => payload[j] \in {0, step[j]}
    /\ pc[j] \in {"put", "verify", "rewrite", "paste"} => saved[j] # None

Kept ==
    /\ \A j \in Jobs : Kind(j) # "lookup" => Settled(j)
    /\ \A j \in Jobs : Kind(j) # "lookup" /\ saved[j] # None => Excused(saved[j], Losers)
    /\ holder = None => Excused(clipboard, Losers)
    /\ \A j \in Jobs : holder = j =>
           Kind(j) # "lookup" /\ (Excused(clipboard, Losers) \/ Holds(j))

(* The losers only grow, and what is excused stays so. *)
LEMMA LosersGrow ==
    ASSUME scenario' = scenario, hit \subseteq hit', faulty \subseteq faulty'
    PROVE  Losers \subseteq Losers'
  BY DEF Losers, LosesClipboard, Kind, Steps, Plan

LEMMA ExcusedGrows ==
    ASSUME NEW c, NEW L, NEW M, L \subseteq M, Excused(c, L) PROVE Excused(c, M)
  BY DEF Excused

(* The content of a job that loses clipboards is excused. *)
LEMMA LoserExcused ==
    ASSUME NEW c, NEW L, c[1] \in {"text", "image"}, c[2] \in L PROVE Excused(c, L)
  <1>1. c # Empty
    BY DEF Empty
  <1>. QED BY <1>1 DEF Excused

(* So is the empty text, in place of an excused image. *)
LEMMA TextExcused ==
    ASSUME NEW c \in Clips, NEW L, Excused(c, L) PROVE Excused(TextOf(c), L)
  <1>1. CASE c[1] # "image"
    BY <1>1 DEF TextOf
  <1>2. CASE c[1] = "image"
    <2>1. c # Empty /\ ~IsUsers(c)
      BY <1>2 DEF Empty, IsUsers
    <2>. QED BY <1>2, <2>1 DEF Excused, TextOf
  <1>. QED BY <1>1, <1>2

(* What the work of a job leaves alone. *)
LEMMA WorkFrame ==
    ASSUME Control, Numbers, Clipboards, NEW j \in Jobs, Work(j)
    PROVE  /\ scenario' = scenario /\ hit' = hit /\ generation' = generation
           /\ faulty \subseteq faulty'
           /\ \A k \in Jobs \ {j} :
                 /\ pc'[k] = pc[k] /\ captured'[k] = captured[k] /\ step'[k] = step[k]
                 /\ saved'[k] = saved[k] /\ payload'[k] = payload[k]
  <1>1. /\ scenario' = scenario /\ hit' = hit /\ generation' = generation
        /\ faulty \subseteq faulty'
        /\ captured' = captured \/ \E n : captured' = [captured EXCEPT ![j] = n]
    BY DEF Work, Lock, TypeAtOnce, EraseTrigger, CheckAbort, BeginText, RunScript, PressKey,
           ClickEndlessly, PutImage, ReadOriginal, PutFirst, Verify, PutAgain, Paste, CheckRestore,
           PutBack, Unlock, history
  <1>2. payload' = payload \/ \E n : payload' = [payload EXCEPT ![j] = n]
    BY DEF Work, Lock, TypeAtOnce, EraseTrigger, CheckAbort, BeginText, RunScript, PressKey,
           ClickEndlessly, PutImage, ReadOriginal, PutFirst, Verify, PutAgain, Paste, CheckRestore,
           PutBack, Unlock, history
  <1>3. \E c : saved' = [saved EXCEPT ![j] = c]
    BY WorkSaves
  <1>4. \A k \in Jobs \ {j} : pc'[k] = pc[k] /\ step'[k] = step[k]
    <2>1. CASE Lock(j)
      BY <2>1 DEF Lock, Goto, Control
    <2>2. ASSUME NEW l, Moves(j, l) PROVE \A k \in Jobs \ {j} : pc'[k] = pc[k] /\ step'[k] = step[k]
      BY <2>2 DEF Moves, Control
    <2>. QED BY <2>1, <2>2, WorkMoves
  <1>5. \A k \in Jobs \ {j} :
            captured'[k] = captured[k] /\ saved'[k] = saved[k] /\ payload'[k] = payload[k]
    BY <1>1, <1>2, <1>3 DEF Numbers, Clipboards
  <1>. QED BY <1>1, <1>4, <1>5

LEMMA ClipNotNone ==
    ASSUME ScenarioAssumption, Control, NEW c \in Clips PROVE c # None
  <1>1. 0..MaxCopies \subseteq Nat
    BY PlanTyped DEF Control
  <1>2. CASE c \in {UserCopy(n) : n \in 0..MaxCopies}
    BY <1>1, <1>2, NoneAssumption DEF UserCopy
  <1>3. CASE c \in {Empty} \cup ({"text", "image"} \X Jobs \X Nat)
    BY <1>3, NoneAssumption DEF Empty
  <1>. QED BY <1>2, <1>3 DEF Clips

(* A step of a job that took the mutex: its own state stays settled. *)
LEMMA SettledStep ==
    ASSUME ScenarioAssumption, Control, Numbers, Clipboards, NEW j \in Jobs, Kind(j) # "lookup",
           Settled(j), Work(j)
    PROVE  Settled(j)'
  <1>. USE DEF Control, Numbers, Clipboards
  <1>0. /\ scenario' = scenario /\ hit' = hit /\ generation' = generation
        /\ Kind(j)' = Kind(j) /\ Steps(j)' = Steps(j)
        /\ Steps(j) \in Seq(StepKinds) /\ Len(Steps(j)) \in Nat
        /\ Kind(j) # "expand" => \A i \in 1..Len(Steps(j)) : Steps(j)[i] = "text"
    <2>1. scenario' = scenario /\ hit' = hit /\ generation' = generation
      BY WorkFrame
    <2>2. /\ Steps(j) \in Seq(StepKinds)
          /\ Kind(j) # "expand" => \A i \in 1..Len(Steps(j)) : Steps(j)[i] = "text"
      <3>. HIDE DEF Numbers, Clipboards
      <3>. QED BY PlanTyped
    <2>3. Len(Steps(j)) \in Nat
      BY <2>2
    <2>. QED BY <2>1, <2>2, <2>3 DEF Kind, Steps, Plan
  <1>1. ASSUME Lock(j) PROVE Settled(j)'
    <2>1. captured'[j] \in {0, generation} /\ pc'[j] \in {"check", "type", "erase"}
          /\ UNCHANGED <<step, saved, payload>>
      BY <1>1 DEF Lock, Goto
    <2>2. ~Aborted(j)'
      BY <1>0, <2>1 DEF Aborted
    <2>. QED BY <1>0, <2>1, <2>2 DEF Settled
  <1>2. ASSUME captured' = captured, pc[j] \in Inside,
               Kind(j) # "expand" => payload'[j] = 0,
               pc'[j] \in Labels \ {"new", "queued", "lock"},
               pc'[j] \in {"do", "save", "put", "verify", "rewrite", "paste"}
                   => step'[j] <= Len(Steps(j)),
               payload'[j] <= Len(Steps(j)),
               pc'[j] \in {"save", "put", "verify", "rewrite"} => payload'[j] \in {0, step'[j]},
               pc'[j] \in {"put", "verify", "rewrite", "paste"} => saved'[j] # None
        PROVE  Settled(j)'
    <2>1. Aborted(j)' => j \in hit'
      BY <1>0, <1>2 DEF Settled, Aborted, Inside
    <2>. QED BY <1>0, <1>2, <2>1 DEF Settled
  <1>. USE DEF Labels, Inside
  <1>3. ASSUME TypeAtOnce(j) \/ EraseTrigger(j) PROVE Settled(j)'
    <2>1. UNCHANGED <<captured, step, saved, payload>> /\ pc[j] \in {"type", "erase"}
          /\ pc'[j] \in {"unlock", "check"}
      BY <1>3 DEF TypeAtOnce, EraseTrigger, Goto
    <2>. QED BY <1>2, <2>1 DEF Settled
  <1>4. ASSUME CheckAbort(j) PROVE Settled(j)'
    <2>1. UNCHANGED <<captured, step, saved, payload>> /\ pc[j] = "check"
          /\ pc'[j] \in {"restore", "do"} /\ (pc'[j] = "do" => step[j] <= Len(Steps(j)))
      BY <1>0, <1>4 DEF CheckAbort, Goto
    <2>. QED BY <1>2, <2>1 DEF Settled
  <1>5. ASSUME BeginText(j) PROVE Settled(j)'
    <2>1. /\ UNCHANGED <<captured, step, saved>> /\ pc[j] = "do"
          /\ pc'[j] = IF saved[j] = None THEN "save" ELSE "rewrite"
          /\ payload'[j] = IF Kind(j) = "expand" THEN step[j] ELSE payload[j]
      <3>1. /\ UNCHANGED <<captured, step, saved>> /\ pc[j] = "do"
            /\ pc' = [pc EXCEPT ![j] = IF saved[j] = None THEN "save" ELSE "rewrite"]
            /\ Kind(j) = "expand" => payload' = [payload EXCEPT ![j] = step[j]]
            /\ Kind(j) # "expand" => payload' = payload
        BY <1>5, Zenon DEF BeginText, Goto, history
      <3>2. pc'[j] = IF saved[j] = None THEN "save" ELSE "rewrite"
        BY <3>1
      <3>3. payload'[j] = IF Kind(j) = "expand" THEN step[j] ELSE payload[j]
        BY <3>1
      <3>. QED BY <3>1, <3>2, <3>3
    <2>2. payload'[j] <= Len(Steps(j)) /\ (Kind(j) # "expand" => payload'[j] = 0)
          /\ payload'[j] \in {0, step[j]}
      BY <1>0, <2>1 DEF Settled
    <2>3. step[j] <= Len(Steps(j)) /\ step' = step
      BY <2>1 DEF Settled
    <2>4. /\ pc'[j] \in {"save", "rewrite"}
          /\ pc'[j] = "rewrite" => saved'[j] # None
      BY <2>1
    <2>. QED BY <1>2, <2>1, <2>2, <2>3, <2>4
  <1>6. ASSUME RunScript(j) PROVE Settled(j)'
    <2>1. /\ pc[j] = "do" /\ StepKind(j) = "script" /\ UNCHANGED <<captured, saved>>
          /\ \/ /\ payload'[j] = step[j] /\ step' = step
                /\ pc'[j] = IF saved[j] = None THEN "save" ELSE "rewrite"
             \/ payload' = payload /\ pc'[j] = "check"
      BY <1>6 DEF RunScript, Goto, NextStep
    <2>2. Kind(j) = "expand"
      BY <1>0, <2>1 DEF StepKind, Settled
    <2>. QED BY <1>2, <2>1, <2>2 DEF Settled
  <1>7. ASSUME PressKey(j) \/ ClickEndlessly(j) PROVE Settled(j)'
    <2>1. pc[j] = "do" /\ UNCHANGED <<captured, saved, payload>>
          /\ (pc'[j] = "check" \/ (pc'[j] = "do" /\ step' = step))
      BY <1>7 DEF PressKey, ClickEndlessly, Goto, NextStep
    <2>. QED BY <1>2, <2>1 DEF Settled
  <1>8. ASSUME PutImage(j) PROVE Settled(j)'
    <2>1. pc[j] = "do" /\ captured' = captured /\ payload'[j] = 0
          /\ (pc'[j] = "check" \/ (pc'[j] = "paste" /\ step' = step))
          /\ saved'[j] = IF saved[j] = None THEN TextOf(clipboard) ELSE saved[j]
      BY <1>8 DEF PutImage, Goto, NextStep
    <2>2. TextOf(clipboard) # None
      BY ClipNotNone, TextTyped
    <2>3. step[j] <= Len(Steps(j)) /\ Len(Steps(j)) \in Nat
      BY <1>0, <2>1 DEF Settled
    <2>4. payload'[j] <= Len(Steps(j)) /\ saved'[j] # None
      BY <2>1, <2>2, <2>3
    <2>. QED BY <1>2, <2>1, <2>3, <2>4
  <1>9. ASSUME ReadOriginal(j) PROVE Settled(j)'
    <2>1. pc[j] = "save" /\ UNCHANGED <<captured, step, payload>> /\ pc'[j] = "put"
          /\ saved'[j] = TextOf(clipboard)
      BY <1>9 DEF ReadOriginal, Goto
    <2>2. TextOf(clipboard) # None
      BY ClipNotNone, TextTyped
    <2>. QED BY <1>2, <2>1, <2>2 DEF Settled
  <1>10. ASSUME PutFirst(j) \/ Verify(j) PROVE Settled(j)'
    <2>1. pc[j] \in {"put", "verify"} /\ UNCHANGED <<captured, payload>>
          /\ \/ pc'[j] \in {"verify", "paste"} /\ UNCHANGED <<step, saved>>
             \/ pc'[j] \in {"done", "restore", "check"}
      BY <1>10 DEF PutFirst, Verify, FirstSegmentFails, Goto, NextStep
    <2>. QED BY <1>2, <2>1 DEF Settled
  <1>11. ASSUME PutAgain(j) \/ Paste(j) PROVE Settled(j)'
    <2>1. pc[j] \in {"rewrite", "paste"} /\ UNCHANGED <<captured, payload, saved>>
          /\ \/ pc[j] = "rewrite" /\ pc'[j] = "paste" /\ step' = step
             \/ pc'[j] \in {"done", "check"}
      BY <1>11 DEF PutAgain, Paste, Goto, NextStep
    <2>. QED BY <1>2, <2>1 DEF Settled
  <1>12. ASSUME CheckRestore(j) \/ PutBack(j) \/ Unlock(j) PROVE Settled(j)'
    <2>1. pc[j] \in {"restore", "putback", "unlock"} /\ UNCHANGED <<captured, step, payload, saved>>
          /\ pc'[j] \in {"putback", "unlock", "done"}
      BY <1>12 DEF CheckRestore, PutBack, Unlock, Goto
    <2>. QED BY <1>2, <2>1 DEF Settled
  <1>. QED
    BY <1>1, <1>3, <1>4, <1>5, <1>6, <1>7, <1>8, <1>9, <1>10, <1>11, <1>12 DEF Work

(* What its step leaves on the clipboard, and what it keeps, is excused or *)
(* its own.                                                                *)
LEMMA KeptByOwner ==
    ASSUME ScenarioAssumption, Control, Numbers, Clipboards, NEW j \in Jobs, Kind(j) # "lookup",
           Settled(j), saved[j] # None => Excused(saved[j], Losers),
           Excused(clipboard, Losers) \/ Holds(j), Work(j)
    PROVE  /\ Excused(clipboard', Losers') \/ Holds(j)'
           /\ saved'[j] # None => Excused(saved'[j], Losers')
  <1>. USE DEF Control, Numbers, Clipboards
  <1>. DEFINE Fine == Excused(clipboard', Losers')
              Stays == saved'[j] # None => Excused(saved'[j], Losers')
  <1>0. /\ scenario' = scenario /\ hit' = hit /\ generation' = generation
        /\ faulty \subseteq faulty' /\ Losers \subseteq Losers'
        /\ Steps(j)' = Steps(j) /\ Kind(j)' = Kind(j) /\ Steps(j) \in Seq(StepKinds)
    <2>1. /\ scenario' = scenario /\ hit' = hit /\ generation' = generation
          /\ faulty \subseteq faulty'
      BY WorkFrame
    <2>2. Steps(j) \in Seq(StepKinds)
      BY PlanTyped
    <2>. QED BY <2>1, <2>2, LosersGrow DEF Kind, Steps, Plan
  <1>1. ASSUME NEW c, Excused(c, Losers) PROVE Excused(c, Losers')
    BY <1>0, <1>1, ExcusedGrows
  <1>2. saved'[j] = saved[j] \/ saved'[j] = None => Stays
    BY <1>1
  <1>3. clipboard' = clipboard /\ Excused(clipboard, Losers) => Fine
    BY <1>1
  <1>4. clipboard \in Clips /\ (Excused(clipboard, Losers) => Excused(TextOf(clipboard), Losers'))
    BY <1>1, TextExcused
  <1>5. ASSUME OwnContent(j), j \in Losers' PROVE Excused(clipboard, Losers')
    BY <1>5, LoserExcused DEF OwnContent
  <1>6. /\ j \in hit' \cup faulty' => j \in Losers'
        /\ \A i \in 1..Len(Steps(j)) : Steps(j)[i] = "html" => j \in Losers'
    <2>1. j \in hit' \cup faulty' => j \in Losers'
      BY DEF Losers, LosesClipboard
    <2>2. ASSUME NEW i \in 1..Len(Steps(j)), Steps(j)[i] = "html" PROVE j \in Losers'
      <3>1. "html" \in {Steps(j)[m] : m \in 1..Len(Steps(j))}'
        BY <1>0, <2>2
      <3>. QED BY <3>1 DEF Losers, LosesClipboard
    <2>. QED BY <2>1, <2>2
  <1>7. \A i \in Nat : /\ Content(j, i)' = Content(j, i)
                       /\ Content(j, i)[1] \in {"text", "image"} /\ Content(j, i)[2] = j
    BY <1>0 DEF Content
  <1>. HIDE DEF Fine, Stays
  <1>8. ASSUME Lock(j) \/ TypeAtOnce(j) \/ EraseTrigger(j) PROVE Fine /\ Stays
    <2>1. pc[j] \in {"lock", "type", "erase"} /\ UNCHANGED <<clipboard, saved>>
      BY <1>8 DEF Lock, TypeAtOnce, EraseTrigger
    <2>. QED BY <1>2, <1>3, <2>1 DEF Holds
  <1>9. ASSUME CheckAbort(j) \/ PressKey(j) \/ ClickEndlessly(j) \/ Paste(j)
        PROVE  (Fine \/ Holds(j)') /\ Stays
    <2>1. /\ pc[j] \in {"check", "do", "paste"} /\ pc'[j] \in {"check", "do", "restore", "done"}
          /\ (pc'[j] = "done" => Kind(j) = "lookup")
          /\ UNCHANGED <<clipboard, saved, payload>>
      BY <1>9 DEF CheckAbort, PressKey, ClickEndlessly, Paste, Goto, NextStep
    <2>2. Holds(j) => Holds(j)'
      BY <1>7, <2>1 DEF Holds, OwnContent, Known
    <2>. QED BY <1>2, <1>3, <2>1, <2>2
  <1>10. ASSUME BeginText(j) \/ RunScript(j) PROVE (Fine \/ Holds(j)') /\ Stays
    <2>1. /\ pc[j] = "do" /\ UNCHANGED <<clipboard, saved>>
          /\ \/ pc'[j] = IF saved[j] = None THEN "save" ELSE "rewrite"
             \/ pc'[j] = "check" /\ payload' = payload
      BY <1>10 DEF BeginText, RunScript, Goto, NextStep
    <2>2. Holds(j) => Holds(j)'
      BY <1>7, <2>1 DEF Holds, OwnContent, Known
    <2>. QED BY <1>2, <1>3, <2>1, <2>2
  <1>11. ASSUME PutImage(j) PROVE (Fine \/ Holds(j)') /\ Stays
    <2>1. /\ pc[j] = "do" /\ payload'[j] = 0
          /\ saved'[j] = IF saved[j] = None THEN TextOf(clipboard) ELSE saved[j]
          /\ \/ clipboard' = Content(j, step[j]) /\ pc'[j] = "paste"
             \/ clipboard' = clipboard /\ pc'[j] = "check"
      <3>1. /\ pc[j] = "do" /\ payload'[j] = 0
            /\ saved'[j] = IF saved[j] = None THEN TextOf(clipboard) ELSE saved[j]
        BY <1>11 DEF PutImage
      <3>2. \/ clipboard' = Content(j, step[j]) /\ pc'[j] = "paste"
            \/ clipboard' = clipboard /\ pc'[j] = "check"
        <4>1. \/ clipboard' = Content(j, step[j]) /\ Goto(j, "paste")
              \/ clipboard' = clipboard /\ Goto(j, "check")
          BY <1>11 DEF PutImage, NextStep
        <4>. QED BY <4>1 DEF Goto
      <3>. QED BY <3>1, <3>2
    <2>2. saved'[j] # None
      <3>1. TextOf(clipboard) # None
        <4>1. TextOf(clipboard) \in Clips
          BY <1>4, TextTyped
        <4>. QED BY <4>1, ClipNotNone
      <3>. QED BY <2>1, <3>1
    <2>3. Stays
      <3>1. CASE saved[j] = None
        BY <1>4, <2>1, <3>1 DEF Holds, Stays
      <3>2. CASE saved[j] # None
        BY <1>2, <2>1, <3>2
      <3>. QED BY <3>1, <3>2
    <2>4. CASE clipboard' = Content(j, step[j]) /\ pc'[j] = "paste"
      BY <1>7, <2>1, <2>2, <2>3, <2>4 DEF Holds, OwnContent, Known
    <2>5. CASE clipboard' = clipboard /\ pc'[j] = "check"
      <3>1. Holds(j) => Holds(j)'
        BY <2>1, <2>2, <2>5 DEF Holds, OwnContent, Known
      <3>. QED BY <1>3, <2>3, <2>5, <3>1
    <2>. QED BY <2>1, <2>4, <2>5
  <1>12. ASSUME ReadOriginal(j) PROVE Fine /\ Stays
    <2>1. pc[j] = "save" /\ clipboard' = clipboard /\ saved'[j] = TextOf(clipboard)
      BY <1>12 DEF ReadOriginal
    <2>. QED BY <1>3, <1>4, <2>1 DEF Holds, Stays
  <1>13. ASSUME PutFirst(j) PROVE (Fine \/ Holds(j)') /\ Stays
    <2>1. /\ pc[j] = "put"
          /\ \/ clipboard' = Content(j, step[j]) /\ pc'[j] = "verify" /\ UNCHANGED <<step, saved>>
             \/ clipboard' = clipboard /\ saved'[j] = None
      BY <1>13 DEF PutFirst, FirstSegmentFails, Goto
    <2>2. saved[j] # None
      BY <2>1 DEF Settled
    <2>3. CASE clipboard' = Content(j, step[j]) /\ pc'[j] = "verify" /\ UNCHANGED <<step, saved>>
      BY <1>2, <1>7, <2>2, <2>3 DEF Holds, OwnContent
    <2>. QED BY <1>2, <1>3, <2>1, <2>3 DEF Holds
  <1>14. ASSUME Verify(j) PROVE (Fine \/ Holds(j)') /\ Stays
    <2>1. /\ pc[j] = "verify" /\ clipboard' = clipboard /\ payload' = payload
          /\ \/ clipboard = Content(j, step[j]) /\ pc'[j] = "paste" /\ UNCHANGED <<step, saved>>
             \/ (Aborted(j) \/ clipboard # Content(j, step[j])) /\ saved'[j] = None
      BY <1>14 DEF Verify, PollAborted, FirstSegmentFails, Goto
    <2>2. payload[j] \in {0, step[j]} /\ saved[j] # None /\ (Aborted(j) => j \in hit)
      BY <2>1 DEF Settled
    <2>3. CASE clipboard = Content(j, step[j]) /\ pc'[j] = "paste" /\ UNCHANGED <<step, saved>>
      <3>1. Known(j)' /\ OwnContent(j)'
        BY <1>7, <2>1, <2>2, <2>3 DEF OwnContent, Known
      <3>. QED BY <1>2, <2>1, <2>2, <2>3, <3>1 DEF Holds
    <2>4. CASE (Aborted(j) \/ clipboard # Content(j, step[j])) /\ saved'[j] = None
      <3>1. Holds(j) => OwnContent(j) /\ j \in Losers'
        BY <1>0, <1>6, <2>1, <2>2, <2>4 DEF Holds
      <3>. QED BY <1>2, <1>3, <1>5, <2>1, <2>4, <3>1 DEF Fine
    <2>. QED BY <2>1, <2>3, <2>4
  <1>15. ASSUME PutAgain(j) PROVE (Fine \/ Holds(j)') /\ Stays
    <2>1. /\ pc[j] = "rewrite" /\ UNCHANGED <<saved, payload>>
          /\ \/ clipboard' = Content(j, step[j]) /\ pc'[j] = "paste" /\ step' = step
             \/ clipboard' = clipboard /\ j \in faulty'
      BY <1>15 DEF PutAgain, Goto
    <2>2. payload[j] \in {0, step[j]} /\ saved[j] # None
      BY <2>1 DEF Settled
    <2>3. CASE clipboard' = Content(j, step[j]) /\ pc'[j] = "paste" /\ step' = step
      <3>1. Known(j)' /\ OwnContent(j)'
        BY <1>7, <2>1, <2>2, <2>3 DEF OwnContent, Known
      <3>. QED BY <1>2, <2>1, <2>2, <2>3, <3>1 DEF Holds
    <2>4. CASE clipboard' = clipboard /\ j \in faulty'
      BY <1>2, <1>3, <1>5, <1>6, <2>1, <2>4 DEF Holds, Fine
    <2>. QED BY <2>1, <2>3, <2>4
  <1>16. ASSUME CheckRestore(j) PROVE (Fine \/ Holds(j)') /\ Stays
    <2>1. /\ pc[j] = "restore" /\ UNCHANGED <<clipboard, saved, payload>>
          /\ pc'[j] = IF saved[j] = None \/ TakenForFreshCopy(j) THEN "unlock" ELSE "putback"
      BY <1>16 DEF CheckRestore, Goto
    <2>2. CASE saved[j] # None /\ TakenForFreshCopy(j)
      <3>1. payload[j] \in 1..Len(Steps(j))
        BY <2>2 DEF TakenForFreshCopy, Settled
      <3>2. Holds(j) => OwnContent(j) /\ j \in Losers'
        BY <1>6, <2>1, <2>2, <3>1 DEF Holds, Known, TakenForFreshCopy
      <3>. QED BY <1>2, <1>3, <1>5, <2>1, <3>2 DEF Fine
    <2>3. CASE ~TakenForFreshCopy(j) \/ saved[j] = None
      BY <1>2, <1>3, <2>1, <2>3 DEF Holds, OwnContent
    <2>. QED BY <2>2, <2>3
  <1>17. ASSUME PutBack(j) PROVE Fine /\ Stays
    <2>1. /\ pc[j] = "putback" /\ saved' = saved
          /\ \/ clipboard' = saved[j]
             \/ clipboard' = clipboard /\ (Aborted(j) \/ j \in faulty')
      BY <1>17 DEF PutBack
    <2>2. saved[j] # None /\ (Aborted(j) => j \in hit)
      BY <2>1 DEF Settled
    <2>3. CASE clipboard' = saved[j]
      BY <1>1, <1>2, <2>1, <2>2, <2>3 DEF Fine
    <2>4. CASE clipboard' = clipboard /\ (Aborted(j) \/ j \in faulty')
      BY <1>0, <1>2, <1>3, <1>5, <1>6, <2>1, <2>2, <2>4 DEF Holds, Fine
    <2>. QED BY <2>1, <2>3, <2>4
  <1>18. ASSUME Unlock(j) PROVE Fine /\ Stays
    <2>1. pc[j] = "unlock" /\ UNCHANGED <<clipboard, saved>>
      BY <1>18 DEF Unlock
    <2>. QED BY <1>2, <1>3, <2>1 DEF Holds
  <1>. QED
    BY <1>8, <1>9, <1>10, <1>11, <1>12, <1>13, <1>14, <1>15, <1>16, <1>17, <1>18
       DEF Work, Fine, Stays

(* A job that someone else's step leaves alone. *)
LEMMA SettledFrame ==
    ASSUME NEW j \in Jobs, Settled(j), scenario' = scenario, hit \subseteq hit',
           generation' = generation, pc'[j] = pc[j], captured'[j] = captured[j],
           step'[j] = step[j], saved'[j] = saved[j], payload'[j] = payload[j]
    PROVE  Settled(j)'
  BY DEF Settled, Aborted, Kind, Steps, Plan

LEMMA HoldsFrame ==
    ASSUME NEW j \in Jobs, Holds(j), scenario' = scenario, clipboard' = clipboard, pc'[j] = pc[j],
           step'[j] = step[j], saved'[j] = saved[j], payload'[j] = payload[j]
    PROVE  Holds(j)'
  BY DEF Holds, OwnContent, Known, Content, Steps, Plan

(* A step that leaves the clipboards and the holder alone. *)
LEMMA KeptFrame ==
    ASSUME Kept, UNCHANGED <<scenario, holder, saved, step, payload, clipboard, faulty>>,
           hit \subseteq hit', \A j \in Jobs : Kind(j) # "lookup" => Settled(j)',
           \A j \in Jobs : holder = j => pc'[j] = pc[j]
    PROVE  Kept'
  <1>1. \A j \in Jobs : Kind(j)' = Kind(j)
    BY DEF Kind, Plan
  <1>2. ASSUME NEW c, Excused(c, Losers) PROVE Excused(c, Losers')
    BY <1>2, LosersGrow, ExcusedGrows
  <1>3. \A j \in Jobs : Kind(j)' # "lookup" => Settled(j)'
    BY <1>1
  <1>4. \A j \in Jobs : Kind(j)' # "lookup" /\ saved'[j] # None => Excused(saved'[j], Losers')
    BY <1>1, <1>2 DEF Kept
  <1>5. holder' = None => Excused(clipboard', Losers')
    BY <1>2 DEF Kept
  <1>6. ASSUME NEW j \in Jobs, holder' = j
        PROVE  Kind(j)' # "lookup" /\ (Excused(clipboard', Losers') \/ Holds(j)')
    <2>1. Kind(j) # "lookup" /\ (Excused(clipboard, Losers) \/ Holds(j)) /\ pc'[j] = pc[j]
      BY <1>6 DEF Kept
    <2>. QED BY <1>1, <1>2, <2>1, HoldsFrame
  <1>. QED BY <1>3, <1>4, <1>5, <1>6 DEF Kept

(* A step after which the clipboard is excused: the user's copy, or a      *)
(* lookup's text.                                                          *)
LEMMA KeptExcused ==
    ASSUME Kept, UNCHANGED <<scenario, holder, saved, step, payload, clipboard, faulty>>,
           hit \subseteq hit', \A j \in Jobs : Kind(j) # "lookup" => Settled(j)',
           Excused(clipboard, Losers)
    PROVE  Kept'
  <1>1. \A j \in Jobs : Kind(j)' = Kind(j)
    BY DEF Kind, Plan
  <1>2. ASSUME NEW c, Excused(c, Losers) PROVE Excused(c, Losers')
    BY <1>2, LosersGrow, ExcusedGrows
  <1>3. \A j \in Jobs : Kind(j)' # "lookup" => Settled(j)'
    BY <1>1
  <1>4. \A j \in Jobs : Kind(j)' # "lookup" /\ saved'[j] # None => Excused(saved'[j], Losers')
    BY <1>1, <1>2 DEF Kept
  <1>5. Excused(clipboard', Losers') /\ \A j \in Jobs : holder' = j => Kind(j)' # "lookup"
    BY <1>1, <1>2 DEF Kept
  <1>. QED BY <1>3, <1>4, <1>5 DEF Kept

LEMMA KeptOverwritten ==
    ASSUME Control, Kept, UNCHANGED <<scenario, holder, generation, hit>>, faulty \subseteq faulty',
           \A j \in Jobs : Kind(j) # "lookup" =>
               /\ pc'[j] = pc[j] /\ captured'[j] = captured[j] /\ step'[j] = step[j]
               /\ saved'[j] = saved[j] /\ payload'[j] = payload[j],
           clipboard' = clipboard \/ Excused(clipboard', Losers')
    PROVE  Kept'
  <1>1. \A j \in Jobs : Kind(j)' = Kind(j)
    BY DEF Kind, Plan
  <1>2. ASSUME NEW c, Excused(c, Losers) PROVE Excused(c, Losers')
    BY <1>2, LosersGrow, ExcusedGrows
  <1>3. \A j \in Jobs : Kind(j)' # "lookup" => Settled(j)'
    BY <1>1, SettledFrame DEF Kept
  <1>4. \A j \in Jobs : Kind(j)' # "lookup" /\ saved'[j] # None => Excused(saved'[j], Losers')
    BY <1>1, <1>2 DEF Kept
  <1>5. holder' = None => Excused(clipboard', Losers')
    BY <1>2 DEF Kept
  <1>6. ASSUME NEW j \in Jobs, holder' = j
        PROVE  Kind(j)' # "lookup" /\ (Excused(clipboard', Losers') \/ Holds(j)')
    <2>1. Kind(j) # "lookup" /\ (Excused(clipboard, Losers) \/ Holds(j))
      BY <1>6 DEF Kept
    <2>. QED BY <1>1, <1>2, <2>1, HoldsFrame
  <1>. QED BY <1>3, <1>4, <1>5, <1>6 DEF Kept

LEMMA KeptStep == ASSUME IInv, WInv, Kept, [Next]_vars PROVE Kept'
  <1>. USE ScenarioAssumption DEF IInv
  <1>1. ASSUME Receive PROVE Kept'
    <2>1. queue # <<>> /\ Head(queue) = queue[1] /\ 1 \in DOMAIN queue /\ Head(queue) \in Jobs
      BY <1>1 DEF Receive, Control
    <2>2. /\ pc' = [pc EXCEPT ![Head(queue)] = "lock"]
          /\ UNCHANGED <<scenario, holder, generation, captured, step, saved, payload, clipboard,
                         faulty, hit>>
      BY <1>1 DEF Receive, Goto, history
    <2>3. pc[Head(queue)] = "queued"
      BY <2>1 DEF WInv, Queued
    <2>4. ASSUME NEW j \in Jobs, Kind(j) # "lookup" PROVE Settled(j)'
      <3>1. Settled(j)
        BY <2>4 DEF Kept
      <3>2. CASE pc'[j] = pc[j]
        BY <2>2, <3>1, <3>2, SettledFrame
      <3>3. CASE pc[j] = "queued" /\ pc'[j] = "lock"
        BY <2>2, <3>1, <3>3 DEF Settled, Aborted, Kind, Steps, Plan
      <3>. QED BY <2>2, <2>3, <3>2, <3>3 DEF Control
    <2>5. ASSUME NEW j \in Jobs, holder = j PROVE pc'[j] = pc[j] \/ Excused(clipboard, Losers)
      BY <2>2, <2>3, <2>5 DEF Kept, Holds, Control
    <2>6. CASE \A j \in Jobs : holder = j => pc'[j] = pc[j]
      BY <2>2, <2>4, <2>6, KeptFrame
    <2>7. CASE Excused(clipboard, Losers)
      BY <2>2, <2>4, <2>7, KeptExcused
    <2>. QED BY <2>5, <2>6, <2>7
  <1>2. ASSUME NEW j \in Jobs, Submit(j), scenario' = scenario PROVE Kept'
    <2>1. /\ pc[j] = "new" /\ pc'[j] \in {"queued", "do", "lock"}
          /\ Kind(j) # "lookup" => pc'[j] # "do"
          /\ \A k \in Jobs \ {j} : pc'[k] = pc[k]
          /\ UNCHANGED <<scenario, holder, generation, captured, step, saved, payload, clipboard,
                         faulty, hit>>
      BY <1>2 DEF Submit, Goto, Control
    <2>2. ASSUME NEW k \in Jobs, Kind(k) # "lookup" PROVE Settled(k)'
      <3>1. Settled(k)
        BY <2>2 DEF Kept
      <3>2. CASE pc'[k] = pc[k]
        BY <2>1, <3>1, <3>2, SettledFrame
      <3>3. CASE k = j
        BY <2>1, <2>2, <3>1, <3>3 DEF Settled, Aborted, Kind, Steps, Plan
      <3>. QED BY <2>1, <3>2, <3>3
    <2>3. ASSUME NEW k \in Jobs, holder = k PROVE pc'[k] = pc[k] \/ Excused(clipboard, Losers)
      BY <2>1, <2>3 DEF Kept, Holds
    <2>4. CASE \A k \in Jobs : holder = k => pc'[k] = pc[k]
      BY <2>1, <2>2, <2>4, KeptFrame
    <2>5. CASE Excused(clipboard, Losers)
      BY <2>1, <2>2, <2>5, KeptExcused
    <2>. QED BY <2>3, <2>4, <2>5
  <1>3. ASSUME Copy, scenario' = scenario PROVE Kept'
    <2>1. UNCHANGED <<holder, generation, jobVars, history>> /\ clipboard' = UserCopy(copies + 1)
      BY <1>3 DEF Copy
    <2>2. Excused(clipboard', Losers')
      BY <2>1 DEF Excused, IsUsers, UserCopy
    <2>. QED BY <1>3, <2>1, <2>2, KeptOverwritten DEF jobVars, history
  <1>4. ASSUME AbortInjection, scenario' = scenario PROVE Kept'
    <2>1. /\ generation' = generation + 1
          /\ hit' = hit \cup {j \in Jobs : Running(j) /\ captured[j] # 0}
          /\ UNCHANGED <<holder, pc, captured, step, saved, payload, clipboard, faulty>>
      BY <1>4 DEF AbortInjection, jobVars
    <2>2. ASSUME NEW j \in Jobs, Kind(j) # "lookup" PROVE Settled(j)'
      <3>1. Settled(j)
        BY <2>2 DEF Kept
      <3>2. Aborted(j)' => j \in hit' \/ pc'[j] = "done"
        BY <2>1, <3>1 DEF Settled, Aborted, Running
      <3>. QED BY <1>4, <2>1, <3>1, <3>2 DEF Settled, Kind, Steps, Plan
    <2>. QED BY <1>4, <2>1, <2>2, KeptFrame
  <1>5. ASSUME NEW j \in Jobs, Work(j), Kind(j) = "lookup" PROVE Kept'
    <2>1. /\ UNCHANGED <<scenario, generation, hit>> /\ faulty \subseteq faulty'
          /\ \A k \in Jobs \ {j} :
                /\ pc'[k] = pc[k] /\ captured'[k] = captured[k] /\ step'[k] = step[k]
                /\ saved'[k] = saved[k] /\ payload'[k] = payload[k]
      BY <1>5, WorkFrame
    <2>2. clipboard' = clipboard \/ FromLookup(clipboard')
      BY <1>5, LookupPastes
    <2>3. holder' = holder
      BY <1>5, LookupWorks, WorkMoves DEF Moves, WInv
    <2>4. FromLookup(clipboard') => Excused(clipboard', Losers')
      <3>1. clipboard' \in Clips
        BY <1>5, WorkSaves
      <3>2. FromLookup(clipboard') => clipboard'[2] \in Jobs
        BY <3>1 DEF Clips, FromLookup, UserCopy, Empty
      <3>3. FromLookup(clipboard') => clipboard'[2] \in Losers'
        BY <2>1, <3>2 DEF FromLookup, Losers, LosesClipboard, Kind, Plan
      <3>. QED BY <3>3, LoserExcused DEF FromLookup
    <2>. QED BY <1>5, <2>1, <2>2, <2>3, <2>4, KeptOverwritten
  <1>6. ASSUME NEW j \in Jobs, Work(j), Kind(j) # "lookup" PROVE Kept'
    <2>1. /\ UNCHANGED <<scenario, generation, hit>> /\ faulty \subseteq faulty'
          /\ \A k \in Jobs \ {j} :
                /\ pc'[k] = pc[k] /\ captured'[k] = captured[k] /\ step'[k] = step[k]
                /\ saved'[k] = saved[k] /\ payload'[k] = payload[k]
          /\ \A k \in Jobs : Kind(k)' = Kind(k)
      BY <1>6, WorkFrame DEF Kind, Plan
    <2>2. holder \in {None, j} /\ (holder = None => Lock(j)) /\ holder' \in {None, j}
          /\ (holder' = None => pc'[j] = "done")
      <3>1. CASE Lock(j)
        BY <3>1, NoneAssumption DEF Lock
      <3>2. ASSUME NEW l, Moves(j, l) PROVE holder = j /\ holder' \in {None, j}
                                            /\ (holder' = None => pc'[j] = "done")
        <4>1. holder = j
          BY <1>6, <3>2 DEF Moves, WInv, Mutex
        <4>2. holder' = IF pc[j] = "unlock" THEN None ELSE holder
          BY <3>2 DEF Moves
        <4>3. pc[j] = "unlock" => pc'[j] = "done"
          BY <3>2 DEF Moves, Control
        <4>. QED BY <4>1, <4>2, <4>3, NoneAssumption
      <3>. QED BY <1>6, <3>1, <3>2, WorkMoves, NoneAssumption
    <2>3. Settled(j) /\ (saved[j] # None => Excused(saved[j], Losers))
          /\ (Excused(clipboard, Losers) \/ Holds(j))
      BY <1>6, <2>2 DEF Kept
    <2>4. /\ Excused(clipboard', Losers') \/ Holds(j)'
          /\ saved'[j] # None => Excused(saved'[j], Losers')
          /\ Settled(j)'
      BY <1>6, <2>3, KeptByOwner, SettledStep
    <2>5. ASSUME NEW c, Excused(c, Losers) PROVE Excused(c, Losers')
      BY <2>1, <2>5, LosersGrow, ExcusedGrows
    <2>6. ASSUME NEW k \in Jobs, Kind(k)' # "lookup"
          PROVE  Settled(k)' /\ (saved'[k] # None => Excused(saved'[k], Losers'))
      <3>1. CASE k = j
        BY <2>4, <3>1
      <3>2. CASE k # j
        <4>1. Settled(k) /\ (saved[k] # None => Excused(saved[k], Losers))
          BY <2>1, <2>6 DEF Kept
        <4>. QED BY <2>1, <2>5, <3>2, <4>1, SettledFrame
      <3>. QED BY <3>1, <3>2
    <2>7. holder' = None => Excused(clipboard', Losers')
      BY <2>2, <2>4 DEF Holds
    <2>. QED BY <1>6, <2>1, <2>2, <2>4, <2>6, <2>7, NoneAssumption DEF Kept
  <1>7. ASSUME UNCHANGED vars PROVE Kept'
    <2>1. \A j \in Jobs : Kind(j) # "lookup" => Settled(j)'
      BY <1>7, SettledFrame DEF Kept, vars
    <2>. QED BY <1>7, <2>1, KeptFrame DEF vars
  <1>. QED BY <1>1, <1>2, <1>3, <1>4, <1>5, <1>6, <1>7 DEF Next, AllDone, Work

(* Between injections the clipboard is the user's, unless a job lost it:   *)
(* one that was aborted or met a failed write, whose html was taken for a  *)
(* fresh copy, or a lookup, which never restores.                          *)
THEOREM ClipboardComesBack == Spec => []ClipboardLostOnlyIf
  <1>1. Init => Kept
    <2>. SUFFICES ASSUME Init PROVE Kept
      OBVIOUS
    <2>1. Excused(clipboard, Losers)
      BY DEF Init, Excused, IsUsers, UserCopy
    <2>2. \A j \in Jobs : Kind(j) # "lookup" => Settled(j)
      <3>1. \A j \in Jobs : Len(Steps(j)) \in Nat
        BY PlanTyped, ScenarioAssumption DEF Init
      <3>. QED BY <3>1 DEF Init, Settled, Aborted
    <2>. QED BY <2>1, <2>2, NoneAssumption DEF Init, Kept
  <1>2. IInv /\ WInv /\ [Next]_vars => WInv'
    BY WholeStep DEF IInv
  <1>3. IInv /\ WInv /\ Kept /\ [Next]_vars => Kept'
    BY KeptStep
  <1>4. IInv /\ Kept => ClipboardLostOnlyIf
    <2>. SUFFICES ASSUME Kept, holder = None, ~IsUsers(clipboard)
                  PROVE  IF clipboard = Empty THEN \E j \in Jobs : LosesClipboard(j)
                                              ELSE LosesClipboard(clipboard[2])
      BY DEF ClipboardLostOnlyIf
    <2>1. Excused(clipboard, Losers)
      BY DEF Kept
    <2>. QED BY <2>1 DEF Excused, Losers
  <1>. QED BY TypedInit, TypedStep, WholeInit, <1>1, <1>2, <1>3, <1>4, PTL DEF Spec

-----------------------------------------------------------------------------
(* The gate: each step adds one guard to the counted ones or takes one away. *)
GateInv == GateTypeOK /\ DepthsCountGuards

LEMMA GuardsFinite == IsFiniteSet(Guards)
  BY GuardsAssumption, FS_Union DEF Guards

(* The two counted sets are finite, so their cardinalities are naturals. *)
LEMMA CountedFinite ==
  /\ IsFiniteSet(Scoped) /\ Cardinality(Scoped) \in Nat
  /\ IsFiniteSet(Visible) /\ Cardinality(Visible) \in Nat
<1>1. Scoped \in SUBSET Guards /\ Visible \in SUBSET Guards
  BY DEF Scoped, Visible
<1> QED  BY <1>1, GuardsFinite, FS_Subset, FS_CardinalityType

(* Adding an element that was not there adds one to the count; removing    *)
(* one that was there takes one away, and there was one to take.           *)
LEMMA CountUp ==
  ASSUME NEW S, NEW x, IsFiniteSet(S), x \notin S
  PROVE  Cardinality(S \cup {x}) = Cardinality(S) + 1
  BY FS_AddElement

LEMMA CountDown ==
  ASSUME NEW S, NEW x, IsFiniteSet(S), x \in S
  PROVE  /\ Cardinality(S \ {x}) = Cardinality(S) - 1
         /\ Cardinality(S \ {x}) \in Nat
  BY FS_RemoveElement, FS_CardinalityType

LEMMA GateStarts == GateInit => GateInv
<1> SUFFICES ASSUME GateInit PROVE GateInv
  OBVIOUS
<1>1. Scoped = {} /\ Visible = {}
  BY DEF GateInit, Scoped, Visible, InScope, InVisibility
<1>2. DepthsCountGuards
  BY <1>1, FS_EmptySet DEF GateInit, DepthsCountGuards
<1>3. GateTypeOK
  BY DEF GateInit, GateTypeOK, Phases, Guards
<1> QED  BY <1>2, <1>3 DEF GateInv

LEMMA GateStep == GateInv /\ [GateNext]_gateVars => GateInv'
<1> SUFFICES ASSUME GateInv, [GateNext]_gateVars PROVE GateInv'
  OBVIOUS
<1> USE GuardsAssumption
<1>t. GateTypeOK /\ scopeDepth = Cardinality(Scoped) /\ visibilityDepth = Cardinality(Visible)
  BY DEF GateInv, DepthsCountGuards
<1>1. ASSUME NEW g \in Guards, NEW t \in Threads, BeginScope(t, g) PROVE GateInv'
  <2>1. Scoped' = Scoped \cup {g} /\ g \notin Scoped /\ Visible' = Visible
    BY <1>1, <1>t DEF BeginScope, Scoped, Visible, InScope, InVisibility, GateTypeOK
  <2>2. DepthsCountGuards'
    BY <1>1, <1>t, <2>1, CountedFinite, CountUp DEF BeginScope, DepthsCountGuards
  <2>3. GateTypeOK'
    BY <1>1, <1>t DEF BeginScope, StartCall, GateTypeOK, Phases, Guards
  <2> QED  BY <2>2, <2>3 DEF GateInv
<1>2. ASSUME NEW g \in Guards, NEW t \in Threads, BeginVisibility(t, g) PROVE GateInv'
  <2>1. Visible' = Visible \cup {g} /\ g \notin Visible /\ Scoped' = Scoped
    BY <1>2, <1>t DEF BeginVisibility, Scoped, Visible, InScope, InVisibility, GateTypeOK
  <2>2. DepthsCountGuards'
    BY <1>2, <1>t, <2>1, CountedFinite, CountUp DEF BeginVisibility, DepthsCountGuards
  <2>3. GateTypeOK'
    BY <1>2, <1>t DEF BeginVisibility, StartCall, GateTypeOK, Phases, Guards
  <2> QED  BY <2>2, <2>3 DEF GateInv
<1>3. ASSUME NEW g \in Guards, CountVisible(g) PROVE GateInv'
  <2>1. Visible' = Visible \cup {g} /\ g \notin Visible /\ Scoped' = Scoped
    BY <1>3, <1>t DEF CountVisible, Scoped, Visible, InScope, InVisibility, GateTypeOK
  <2>2. DepthsCountGuards'
    BY <1>3, <1>t, <2>1, CountedFinite, CountUp DEF CountVisible, DepthsCountGuards
  <2>3. GateTypeOK'
    BY <1>3, <1>t DEF CountVisible, GateTypeOK, Phases, Guards
  <2> QED  BY <2>2, <2>3 DEF GateInv
<1>4. ASSUME NEW g \in Guards, RaiseFlag(g) PROVE GateInv'
  <2>1. Visible' = Visible /\ Scoped' = Scoped
    BY <1>4, <1>t DEF RaiseFlag, Scoped, Visible, InScope, InVisibility, GateTypeOK
  <2>2. GateTypeOK'
    BY <1>4, <1>t DEF RaiseFlag, GateTypeOK, Phases, Guards
  <2> QED  BY <1>4, <1>t, <2>1, <2>2 DEF RaiseFlag, GateInv, DepthsCountGuards
<1>5. ASSUME NEW g \in Guards, EndScope(g) PROVE GateInv'
  <2>1. Scoped' = Scoped \ {g} /\ g \in Scoped /\ Visible' = Visible
    BY <1>5, <1>t DEF EndScope, Scoped, Visible, InScope, InVisibility, GateTypeOK
  <2>2. scopeDepth' = Cardinality(Scoped') /\ scopeDepth' \in Nat
    BY <1>5, <1>t, <2>1, CountedFinite, CountDown DEF EndScope
  <2>3. DepthsCountGuards'
    BY <1>5, <1>t, <2>1, <2>2 DEF EndScope, DepthsCountGuards
  <2>4. GateTypeOK'
    BY <1>5, <1>t, <2>2 DEF EndScope, StartCall, GateTypeOK, Phases, Guards
  <2> QED  BY <2>3, <2>4 DEF GateInv
<1>6. ASSUME NEW g \in Guards, UncountVisible(g) PROVE GateInv'
  <2>1. Visible' = Visible \ {g} /\ g \in Visible /\ Scoped' = Scoped
    BY <1>6, <1>t DEF UncountVisible, Scoped, Visible, InScope, InVisibility, GateTypeOK
  <2>2. visibilityDepth' = Cardinality(Visible') /\ visibilityDepth' \in Nat
    BY <1>6, <1>t, <2>1, CountedFinite, CountDown DEF UncountVisible
  <2>3. DepthsCountGuards'
    BY <1>6, <1>t, <2>1, <2>2 DEF UncountVisible, DepthsCountGuards
  <2>4. remaining' \in [Guards -> Nat]
    BY <1>6, <1>t, <2>2 DEF UncountVisible, GateTypeOK
  <2>5. GateTypeOK'
    BY <1>6, <1>t, <2>2, <2>4 DEF UncountVisible, StartCall, GateTypeOK, Phases, Guards
  <2> QED  BY <2>3, <2>5 DEF GateInv
<1>7. ASSUME NEW g \in Guards, SettleFlag(g) PROVE GateInv'
  <2>1. Visible' = Visible /\ Scoped' = Scoped
    BY <1>7, <1>t DEF SettleFlag, Scoped, Visible, InScope, InVisibility, GateTypeOK
  <2>2. GateTypeOK'
    BY <1>7, <1>t DEF SettleFlag, GateTypeOK, Phases, Guards
  <2> QED  BY <1>7, <1>t, <2>1, <2>2 DEF SettleFlag, GateInv, DepthsCountGuards
<1>8. ASSUME NEW g \in Guards, NEW t \in Threads, HandOver(g, t) PROVE GateInv'
  <2>1. Visible' = Visible /\ Scoped' = Scoped
    BY <1>8 DEF HandOver, Scoped, Visible, InScope, InVisibility
  <2>2. GateTypeOK'
    BY <1>8, <1>t DEF HandOver, GateTypeOK
  <2> QED  BY <1>8, <1>t, <2>1, <2>2 DEF HandOver, GateInv, DepthsCountGuards
<1>9. CASE UNCHANGED gateVars
  BY <1>9, <1>t DEF gateVars, GateInv, GateTypeOK, DepthsCountGuards, Scoped, Visible,
                    InScope, InVisibility
<1> QED
  BY <1>1, <1>2, <1>3, <1>4, <1>5, <1>6, <1>7, <1>8, <1>9 DEF GateNext, Begin, Proceed

(* The gate's counters are always exact, and never underflow.              *)
THEOREM GateCounts == GateSpec => [](GateTypeOK /\ DepthsCountGuards)
<1>1. GateInv => GateTypeOK /\ DepthsCountGuards
  BY DEF GateInv
<1> QED  BY <1>1, GateStarts, GateStep, PTL DEF GateSpec

-----------------------------------------------------------------------------
(* Until two calls overlap, one guard at most is in the middle of a call:   *)
(* between a fetch and the store that follows it the depth does not move.  *)
OneCallAtATime == \A g, h \in Guards : MidCall(g) /\ MidCall(h) => g = h

FlagFollowsDepth ==
    /\ (\A g \in Guards : phase[g] \notin {"seen", "unseen"})
           => (isInjecting <=> visibilityDepth > 0)
    /\ \A g \in Guards : phase[g] = "unseen" => remaining[g] = visibilityDepth

ApartInv == ~overlapped => OneCallAtATime /\ FlagFollowsDepth

(* The visibility depth is positive exactly when some guard is counted.   *)
LEMMA VisibleMeansDepth ==
  ASSUME GateInv
  PROVE  visibilityDepth > 0 <=> \E g \in Guards : InVisibility(g)
<1>1. visibilityDepth = 0 <=> Visible = {}
  BY CountedFinite, FS_EmptySet DEF GateInv, DepthsCountGuards
<1> QED  BY <1>1 DEF GateInv, GateTypeOK, Visible

LEMMA ApartStep == GateInv /\ ApartInv /\ [GateNext]_gateVars => ApartInv'
<1> SUFFICES ASSUME GateInv, ApartInv, [GateNext]_gateVars PROVE ApartInv'
  OBVIOUS
<1>t. GateTypeOK'
  BY GateStep DEF GateInv
<1> USE GuardsAssumption
<1>1. ASSUME NEW g \in Guards, NEW t \in Threads, BeginScope(t, g) PROVE ApartInv'
  BY <1>t, <1>1 DEF GateInv, BeginScope, ApartInv, OneCallAtATime, FlagFollowsDepth, MidCall, StartCall, Quiet, GateTypeOK
<1>2. ASSUME NEW g \in Guards, NEW t \in Threads, BeginVisibility(t, g) PROVE ApartInv'
  BY <1>t, <1>2 DEF GateInv, BeginVisibility, ApartInv, OneCallAtATime, FlagFollowsDepth, MidCall, StartCall, Quiet, GateTypeOK
<1>3. ASSUME NEW g \in Guards, CountVisible(g) PROVE ApartInv'
  BY <1>t, <1>3 DEF GateInv, CountVisible, ApartInv, OneCallAtATime, FlagFollowsDepth, MidCall, StartCall, Quiet, GateTypeOK
<1>4. ASSUME NEW g \in Guards, RaiseFlag(g) PROVE ApartInv'
  <2>1. visibilityDepth > 0
    BY <1>4, VisibleMeansDepth DEF RaiseFlag, InVisibility, GateInv
  <2> QED
    BY <2>1, <1>t, <1>4 DEF GateInv, RaiseFlag, ApartInv, OneCallAtATime, FlagFollowsDepth, MidCall, StartCall, Quiet, GateTypeOK
<1>5. ASSUME NEW g \in Guards, EndScope(g) PROVE ApartInv'
  BY <1>t, <1>5 DEF GateInv, EndScope, ApartInv, OneCallAtATime, FlagFollowsDepth, MidCall, StartCall, Quiet, GateTypeOK
<1>6. ASSUME NEW g \in Guards, UncountVisible(g) PROVE ApartInv'
  BY <1>t, <1>6 DEF GateInv, UncountVisible, ApartInv, OneCallAtATime, FlagFollowsDepth, MidCall, StartCall, Quiet, GateTypeOK
<1>7. ASSUME NEW g \in Guards, SettleFlag(g) PROVE ApartInv'
  BY <1>t, <1>7 DEF GateInv, SettleFlag, ApartInv, OneCallAtATime, FlagFollowsDepth, MidCall, StartCall, Quiet, GateTypeOK
<1>8. ASSUME NEW g \in Guards, NEW t \in Threads, HandOver(g, t) PROVE ApartInv'
  BY <1>t, <1>8 DEF GateInv, HandOver, ApartInv, OneCallAtATime, FlagFollowsDepth, MidCall, StartCall, Quiet, GateTypeOK
<1>9. CASE UNCHANGED gateVars
  BY <1>t, <1>9 DEF GateInv, gateVars, ApartInv, OneCallAtATime, FlagFollowsDepth, MidCall, GateTypeOK
<1> QED
  BY <1>1, <1>2, <1>3, <1>4, <1>5, <1>6, <1>7, <1>8, <1>9 DEF GateNext, Begin, Proceed

(* As long as the gate calls of different threads have not overlapped, the *)
(* hook sees IS_INJECTING exactly while some guard is alive.               *)
THEOREM SuppressionApart == GateSpec => []SuppressionUnlessOverlapped
<1>1. GateInit => ApartInv
  <2> SUFFICES ASSUME GateInit PROVE ApartInv
    OBVIOUS
  <2> QED  BY DEF GateInit, ApartInv, OneCallAtATime, FlagFollowsDepth, MidCall
<1>2. GateInv /\ ApartInv => SuppressionUnlessOverlapped
  <2> SUFFICES ASSUME GateInv, ApartInv, ~overlapped, Quiet
               PROVE  isInjecting <=> \E g \in Guards : phase[g] = "live"
    BY DEF SuppressionUnlessOverlapped
  <2>1. isInjecting <=> visibilityDepth > 0
    BY DEF ApartInv, FlagFollowsDepth, Quiet, MidCall
  <2>2. visibilityDepth > 0 <=> \E g \in Guards : InVisibility(g)
    BY VisibleMeansDepth
  <2>3. \A g \in Guards : InVisibility(g) <=> phase[g] = "live"
    BY DEF Quiet, MidCall, InVisibility
  <2> QED  BY <2>1, <2>2, <2>3
<1> QED  BY <1>1, <1>2, GateStarts, GateStep, ApartStep, PTL DEF GateSpec

(* One thread's calls never overlap: when all guards are begun and dropped  *)
(* by one thread, suppression is exact without any proviso.                *)
THEOREM OneThreadNeverOverlaps ==
  ASSUME \A t, u \in Threads : t = u
  PROVE  GateSpec => []~overlapped
<1> DEFINE Owned == \A g \in Guards : phase[g] # "absent" => owner[g] \in Threads
           Inv == ~overlapped /\ Owned
<1>1. GateInit => Inv
  BY DEF GateInit
<1>2. GateInv /\ Inv /\ [GateNext]_gateVars => Inv'
  <2> SUFFICES ASSUME GateInv, Inv, [GateNext]_gateVars PROVE Inv'
    OBVIOUS
  <2>t. GateTypeOK
    BY DEF GateInv
  <2>q. ASSUME NEW t \in Threads, Free(t) PROVE Quiet
    BY <2>q DEF Free, Quiet, MidCall
  <2>1. ASSUME NEW g \in Guards, NEW t \in Threads, BeginScope(t, g) \/ BeginVisibility(t, g)
        PROVE  Inv'
    <3>1. Quiet
      BY <2>1, <2>q DEF BeginScope, BeginVisibility
    <3> QED  BY <2>1, <2>t, <3>1 DEF BeginScope, BeginVisibility, StartCall, GateTypeOK
  <2>2. ASSUME NEW g \in Guards, EndScope(g) PROVE Inv'
    <3>1. Quiet
      BY <2>2, <2>q DEF EndScope
    <3> QED  BY <2>2, <2>t, <3>1 DEF EndScope, StartCall, GateTypeOK
  <2>3. ASSUME NEW g \in Guards, UncountVisible(g) PROVE Inv'
    <3>1. phase[g] = "live" => Quiet
      BY <2>3, <2>q DEF UncountVisible
    <3> QED  BY <2>3, <2>t, <3>1 DEF UncountVisible, StartCall, GateTypeOK
  <2>4. ASSUME NEW g \in Guards, CountVisible(g) \/ RaiseFlag(g) \/ SettleFlag(g)
        PROVE  Inv'
    BY <2>4, <2>t DEF CountVisible, RaiseFlag, SettleFlag, GateTypeOK
  <2>5. ASSUME NEW g \in Guards, NEW t \in Threads, HandOver(g, t) PROVE Inv'
    BY <2>5, <2>t DEF HandOver, GateTypeOK
  <2>6. CASE UNCHANGED gateVars
    BY <2>6 DEF gateVars
  <2> QED  BY <2>1, <2>2, <2>3, <2>4, <2>5, <2>6 DEF GateNext, Begin, Proceed
<1> QED  BY <1>1, <1>2, GateStarts, GateStep, PTL DEF GateSpec
=============================================================================
