------------------------------- MODULE Injection -------------------------------
(***************************************************************************)
(* The injector (daemon/src/injector/inject.rs and clipboard.rs): jobs that *)
(* share one keyboard, one clipboard and one mutex while the user types,    *)
(* copies and aborts.                                                       *)
(*                                                                         *)
(* A job is an expansion, an undo, a streamed AI answer                    *)
(* (StreamingTextSession) or a dictionary follow-up.  Expansions and undos *)
(* are closures sent to the pool of PoolSize workers; the others run on    *)
(* runtime threads.  The clipboard and the focused window are external.    *)
(***************************************************************************)
EXTENDS Naturals, Sequences, FiniteSets

CONSTANTS Jobs,
          Scenarios,       \* the instances to run, see ScenarioType
          None

StepKinds == {"text", "html", "image", "key", "delay", "script", "endless"}

PlanType == [kind  : {"expand", "undo", "stream", "lookup", "absent"},
             fast  : BOOLEAN,   \* short plain text: typed, not pasted
             erase : BOOLEAN,   \* delete_count > 0
             steps : Seq(StepKinds)]   \* of a stream: texts (push_text); of a lookup: one

ScenarioType ==
    [plan      : [Jobs -> PlanType],  \* what each job does; some may be absent
     pool      : Nat \ {0},           \* workers of init_injection_pool (2 in the code)
     fallback  : BOOLEAN,   \* Linux: type a segment whose clipboard cycle failed
     maxAborts : Nat,       \* bound: key presses during an injection
     maxCopies : Nat,       \* bound: copies made by the user
     maxFaults : Nat]       \* bound: clipboard writes that fail

ASSUME ScenarioAssumption ==
    \A s \in Scenarios :
        /\ DOMAIN s = {"plan", "pool", "fallback", "maxAborts", "maxCopies", "maxFaults"}
        /\ s.plan \in [Jobs -> PlanType]
        /\ \A j \in Jobs : s.plan[j].kind = "lookup" => s.plan[j].steps = <<"text">>
        /\ \A j \in Jobs : s.plan[j].kind # "expand" =>
               \A i \in 1..Len(s.plan[j].steps) : s.plan[j].steps[i] = "text"
        /\ s.pool \in Nat \ {0} /\ s.fallback \in BOOLEAN
        /\ s.maxAborts \in Nat /\ s.maxCopies \in Nat /\ s.maxFaults \in Nat
(* None is no job, and no content of a clipboard (Clips). *)
ASSUME NoneAssumption ==
    None \notin Jobs \cup ({"user"} \X Nat) \cup {<<"empty">>}
                     \cup ({"text", "image"} \X Jobs \X Nat)

VARIABLES scenario,    \* the instance at hand, fixed at the start
          queue,       \* the pool's channel
          pc,          \* where each job is
          holder,      \* who holds inject_mutex
          generation,  \* INJECTION_GENERATION
          captured,    \* captured_gen of each job, 0 while it has none
          step,        \* index of the step each job is at
          saved,       \* original_clipboard of each job, None while untouched
          payload,     \* step of last_clipboard_payload, 0 when there is none
          clipboard,   \* the system clipboard (external)
          copies,      \* copies the user has made
          faults,      \* clipboard writes that failed
          blocks,      \* jobs in the order of their output in the window (external)
          pasted,      \* the pastes: job, step, what was pasted, copies at the write
          late,        \* outputs of each job after its abort
          wrote,       \* copies when the job last wrote the clipboard
          faulty,      \* jobs whose later write or whose restore failed
          hit          \* jobs that were aborted while they ran

jobVars == <<pc, captured, step, saved, payload>>
history == <<blocks, pasted, late, wrote, faulty, hit>>
vars == <<scenario, queue, pc, holder, generation, captured, step, saved, payload,
          clipboard, copies, faults, blocks, pasted, late, wrote, faulty, hit>>

-----------------------------------------------------------------------------
Plan           == scenario.plan
TypingFallback == scenario.fallback
MaxAborts      == scenario.maxAborts
MaxCopies      == scenario.maxCopies
MaxFaults      == scenario.maxFaults

Kind(j)  == Plan[j].kind
Steps(j) == Plan[j].steps
Pooled(j) == Kind(j) \in {"expand", "undo"}
StepKind(j) == Steps(j)[step[j]]

(* What the clipboard may hold: a copy of the user's, the text or image of *)
(* a step, or the empty text that get_text returns for an image.           *)
UserCopy(n) == <<"user", n>>
Content(j, i) == <<IF Steps(j)[i] = "image" THEN "image" ELSE "text", j, i>>
Empty == <<"empty">>
IsUsers(c) == c[1] = "user"
TextOf(c) == IF c[1] = "image" THEN Empty ELSE c

(* is_aborted(captured_gen), and what a clipboard cycle is given: scripts   *)
(* and lookups pass generation 0, which is never aborted.                  *)
Aborted(j) == captured[j] # 0 /\ captured[j] # generation
PollAborted(j) == Aborted(j) /\ StepKind(j) # "script"

Running(j) == pc[j] \notin {"new", "queued", "done"}

(* IS_INJECTING as the hook sees it: some running job holds a guard.       *)
Injecting == \E j \in Jobs : Running(j)

Init ==
    /\ scenario \in Scenarios
    /\ queue = <<>>
    /\ pc = [j \in Jobs |-> IF Kind(j) = "absent" THEN "done" ELSE "new"]
    /\ holder = None
    /\ generation = 1
    /\ captured = [j \in Jobs |-> 0]
    /\ step = [j \in Jobs |-> 1]
    /\ saved = [j \in Jobs |-> None]
    /\ payload = [j \in Jobs |-> 0]
    /\ clipboard = UserCopy(0)
    /\ copies = 0
    /\ faults = 0
    /\ blocks = <<>>
    /\ pasted = {}
    /\ late = [j \in Jobs |-> 0]
    /\ wrote = [j \in Jobs |-> 0]
    /\ faulty = {}
    /\ hit = {}

Goto(j, label) == pc' = [pc EXCEPT ![j] = label]

NextStep(j) == Goto(j, "check") /\ step' = [step EXCEPT ![j] = @ + 1]

(* Output that reaches the focused window. *)
Emit(j) ==
    /\ blocks' = IF blocks # <<>> /\ blocks[Len(blocks)] = j THEN blocks
                                                             ELSE Append(blocks, j)
    /\ late' = IF Aborted(j) THEN [late EXCEPT ![j] = @ + 1] ELSE late

-----------------------------------------------------------------------------
(* The dispatch side *)

(* spawn_guarded_injection_thread: the task is sent to the pool.  A stream *)
(* or a lookup starts on a runtime thread under a guard already begun.     *)
Submit(j) ==
    /\ pc[j] = "new"
    /\ IF Pooled(j) THEN /\ Goto(j, "queued")
                         /\ queue' = Append(queue, j)
                    ELSE /\ Goto(j, IF Kind(j) = "lookup" THEN "do" ELSE "lock")
                         /\ UNCHANGED queue
    /\ UNCHANGED <<holder, generation, captured, step, saved, payload, clipboard,
                   copies, faults, blocks, pasted, late, wrote, faulty, hit>>

(* A pool worker receives the oldest task and begins its guard. *)
Receive ==
    /\ UNCHANGED scenario
    /\ queue # <<>>
    /\ Cardinality({j \in Jobs : Pooled(j) /\ Running(j)}) < scenario.pool
    /\ Goto(Head(queue), "lock")
    /\ queue' = Tail(queue)
    /\ UNCHANGED <<holder, generation, captured, step, saved, payload, clipboard,
                   copies, faults, history>>

(* Mutant: the mutex is not waited for. *)
LockAnyway(j) ==
    /\ pc[j] = "lock"
    /\ holder' = j
    /\ captured' = [captured EXCEPT ![j] = IF Kind(j) = "undo" THEN 0 ELSE generation]
    /\ Goto(j, CASE Kind(j) = "stream" -> "check"
                 [] Kind(j) = "undo" \/ Plan[j].fast -> "type"
                 [] OTHER -> "erase")
    /\ UNCHANGED <<queue, generation, step, saved, payload, clipboard, copies,
                   faults, history>>

(* inject_mutex().lock(), then captured_gen = capture_generation(); an     *)
(* undo captures none.                                                     *)
Lock(j) ==
    /\ pc[j] = "lock"
    /\ holder = None
    /\ holder' = j
    /\ captured' = [captured EXCEPT ![j] = IF Kind(j) = "undo" THEN 0 ELSE generation]
    /\ Goto(j, CASE Kind(j) = "stream" -> "check"
                 [] Kind(j) = "undo" \/ Plan[j].fast -> "type"
                 [] OTHER -> "erase")
    /\ UNCHANGED <<queue, generation, step, saved, payload, clipboard, copies,
                   faults, history>>

(* inject_atomic_undo, or the fast path's inject_atomic_text_expansion.    *)
TypeAtOnce(j) ==
    /\ pc[j] = "type"
    /\ Emit(j)
    /\ Goto(j, "unlock")
    /\ UNCHANGED <<queue, holder, generation, captured, step, saved, payload,
                   clipboard, copies, faults, pasted, wrote, faulty, hit>>

(* erase_trigger, with no abort check *)
EraseTrigger(j) ==
    /\ pc[j] = "erase"
    /\ IF Plan[j].erase THEN Emit(j) ELSE UNCHANGED <<blocks, late>>
    /\ Goto(j, "check")
    /\ UNCHANGED <<queue, holder, generation, captured, step, saved, payload,
                   clipboard, copies, faults, pasted, wrote, faulty, hit>>

-----------------------------------------------------------------------------
(* The step loop of inject_expansion_inner and push_text *)

(* Mutant: the loop does not look at the generation. *)
CheckNoAbort(j) ==
    /\ pc[j] = "check"
    /\ Goto(j, IF step[j] > Len(Steps(j)) THEN "restore" ELSE "do")
    /\ UNCHANGED <<queue, holder, generation, captured, step, saved, payload,
                   clipboard, copies, faults, history>>

(* The loop's abort check: on to the step, or out of the loop. *)
CheckAbort(j) ==
    /\ pc[j] = "check"
    /\ Goto(j, IF step[j] > Len(Steps(j)) \/ Aborted(j) THEN "restore" ELSE "do")
    /\ UNCHANGED <<queue, holder, generation, captured, step, saved, payload,
                   clipboard, copies, faults, history>>

(* A text step records its payload and starts a clipboard cycle: the first *)
(* one saves the clipboard, a later one only writes.                       *)
BeginText(j) ==
    /\ pc[j] = "do"
    /\ StepKind(j) \in {"text", "html"}
    /\ payload' = IF Kind(j) = "expand" THEN [payload EXCEPT ![j] = step[j]] ELSE payload
    /\ Goto(j, IF saved[j] = None THEN "save" ELSE "rewrite")
    /\ UNCHANGED <<queue, holder, generation, captured, step, saved, clipboard,
                   copies, faults, history>>

(* run_script_sync: the output is pasted like a text; a failed script or   *)
(* an empty output is skipped.                                             *)
RunScript(j) ==
    /\ pc[j] = "do"
    /\ StepKind(j) = "script"
    /\ \/ /\ payload' = [payload EXCEPT ![j] = step[j]]
          /\ Goto(j, IF saved[j] = None THEN "save" ELSE "rewrite")
          /\ UNCHANGED step
       \/ NextStep(j) /\ UNCHANGED payload
    /\ UNCHANGED <<queue, holder, generation, captured, saved, clipboard,
                   copies, faults, history>>

(* Key and mouse steps go to the window; a delay outputs nothing and stops *)
(* waiting when aborted.                                                   *)
PressKey(j) ==
    /\ pc[j] = "do"
    /\ StepKind(j) \in {"key", "delay"}
    /\ IF StepKind(j) = "key" THEN Emit(j) ELSE UNCHANGED <<blocks, late>>
    /\ NextStep(j)
    /\ UNCHANGED <<queue, holder, generation, captured, saved, payload, clipboard,
                   copies, faults, pasted, wrote, faulty, hit>>

(* Mutant: the click loop does not look at the generation. *)
ClickForever(j) ==
    /\ pc[j] = "do"
    /\ StepKind(j) = "endless"
    /\ IF Aborted(j) THEN UNCHANGED <<blocks, late>> ELSE Emit(j)
    /\ UNCHANGED <<pc, step>>
    /\ UNCHANGED <<queue, holder, generation, captured, saved, payload, clipboard,
                   copies, faults, pasted, wrote, faulty, hit>>

(* inject_mouse_click_loop with count 0: clicks until aborted. *)
ClickEndlessly(j) ==
    /\ pc[j] = "do"
    /\ StepKind(j) = "endless"
    /\ IF Aborted(j) THEN NextStep(j) /\ UNCHANGED <<blocks, late>>
                     ELSE Emit(j) /\ UNCHANGED <<pc, step>>
    /\ UNCHANGED <<queue, holder, generation, captured, saved, payload, clipboard,
                   copies, faults, pasted, wrote, faulty, hit>>

(* inject_image_segment_with_gen: keeps the clipboard's text and puts the  *)
(* image there; the payload is forgotten.                                  *)
PutImage(j) ==
    /\ pc[j] = "do"
    /\ StepKind(j) = "image"
    /\ payload' = [payload EXCEPT ![j] = 0]
    /\ saved' = [saved EXCEPT ![j] = IF @ = None THEN TextOf(clipboard) ELSE @]
    /\ \/ /\ clipboard' = Content(j, step[j])
          /\ wrote' = [wrote EXCEPT ![j] = copies]
          /\ Goto(j, "paste")
          /\ UNCHANGED <<step, faults>>
       \/ /\ faults < MaxFaults
          /\ faults' = faults + 1
          /\ NextStep(j)
          /\ UNCHANGED <<clipboard, wrote>>
    /\ UNCHANGED <<queue, holder, generation, captured, copies, blocks, pasted,
                   late, faulty, hit>>

-----------------------------------------------------------------------------
(* The clipboard cycle *)

(* prepare_clipboard_for_expansion: get_text.  The value reaches the job's *)
(* original_clipboard only when the whole cycle succeeds.                  *)
ReadOriginal(j) ==
    /\ pc[j] = "save"
    /\ saved' = [saved EXCEPT ![j] = TextOf(clipboard)]
    /\ Goto(j, "put")
    /\ UNCHANGED <<queue, holder, generation, captured, step, payload, clipboard,
                   copies, faults, history>>

(* The first segment's cycle failed: the value read is dropped.  Linux     *)
(* types the text instead; elsewhere an expansion leaves its loop at a     *)
(* failed text step, while a script step or a stream goes on.              *)
GoesOn(j) == TypingFallback \/ Kind(j) = "stream" \/ StepKind(j) = "script"

FirstSegmentFails(j) ==
    /\ saved' = [saved EXCEPT ![j] = None]
    /\ IF TypingFallback THEN Emit(j) ELSE UNCHANGED <<blocks, late>>
    /\ \/ /\ Kind(j) = "lookup"
          /\ Goto(j, "done") /\ UNCHANGED step
       \/ /\ Kind(j) # "lookup" /\ ~GoesOn(j)
          /\ Goto(j, "restore") /\ UNCHANGED step
       \/ /\ Kind(j) # "lookup" /\ GoesOn(j)
          /\ NextStep(j)

(* prepare_clipboard_for_expansion: set_text or set_html *)
PutFirst(j) ==
    /\ pc[j] = "put"
    /\ \/ /\ clipboard' = Content(j, step[j])
          /\ wrote' = [wrote EXCEPT ![j] = copies]
          /\ Goto(j, "verify")
          /\ UNCHANGED <<step, saved, faults, blocks, late>>
       \/ /\ faults < MaxFaults
          /\ faults' = faults + 1
          /\ FirstSegmentFails(j)
          /\ UNCHANGED <<clipboard, wrote>>
    /\ UNCHANGED <<queue, holder, generation, captured, payload, copies, pasted,
                   faulty, hit>>

(* Mutant: the poll has no last attempt. *)
VerifyForever(j) ==
    /\ pc[j] = "verify"
    /\ IF PollAborted(j) THEN FirstSegmentFails(j)
       ELSE /\ clipboard = Content(j, step[j]) => Goto(j, "paste")
            /\ clipboard # Content(j, step[j]) => UNCHANGED pc
            /\ UNCHANGED <<step, saved, blocks, late>>
    /\ UNCHANGED <<queue, holder, generation, captured, payload, clipboard, copies,
                   faults, pasted, wrote, faulty, hit>>

(* poll_clipboard_progressive: the abort is looked at before each read. *)
Verify(j) ==
    /\ pc[j] = "verify"
    /\ IF ~PollAborted(j) /\ clipboard = Content(j, step[j])
       THEN Goto(j, "paste") /\ UNCHANGED <<step, saved, blocks, late>>
       ELSE FirstSegmentFails(j)
    /\ UNCHANGED <<queue, holder, generation, captured, payload, clipboard, copies,
                   faults, pasted, wrote, faulty, hit>>

(* Mutant: the paste follows even when the text could not be written. *)
PutAgainPasteAnyway(j) ==
    /\ pc[j] = "rewrite"
    /\ wrote' = [wrote EXCEPT ![j] = copies]
    /\ Goto(j, "paste")
    /\ \/ clipboard' = Content(j, step[j]) /\ UNCHANGED faults
       \/ faults < MaxFaults /\ faults' = faults + 1 /\ UNCHANGED clipboard
    /\ UNCHANGED <<queue, holder, generation, captured, step, saved, payload, copies,
                   blocks, pasted, late, faulty, hit>>

(* A later segment: set_text, whose error skips the paste; the verify that *)
(* follows is not acted upon.                                              *)
PutAgain(j) ==
    /\ pc[j] = "rewrite"
    /\ \/ /\ clipboard' = Content(j, step[j])
          /\ wrote' = [wrote EXCEPT ![j] = copies]
          /\ Goto(j, "paste")
          /\ UNCHANGED <<step, faults, faulty>>
       \/ /\ faults < MaxFaults
          /\ faults' = faults + 1
          /\ faulty' = faulty \cup {j}
          /\ NextStep(j)
          /\ UNCHANGED <<clipboard, wrote>>
    /\ UNCHANGED <<queue, holder, generation, captured, saved, payload, copies,
                   blocks, pasted, late, hit>>

(* simulate_paste, and the wait until the window has read the clipboard.   *)
(* A lookup ends here: its clipboard is not restored.                      *)
Paste(j) ==
    /\ pc[j] = "paste"
    /\ Emit(j)
    /\ pasted' = pasted \cup {<<j, step[j], clipboard, wrote[j]>>}
    /\ IF Kind(j) = "lookup" THEN Goto(j, "done") /\ UNCHANGED step ELSE NextStep(j)
    /\ UNCHANGED <<queue, holder, generation, captured, saved, payload, clipboard,
                   copies, faults, wrote, faulty, hit>>

-----------------------------------------------------------------------------
(* restore_clipboard_guarded and the end of a job *)

(* The clipboard differs from the payload: taken for a copy of the user's. *)
(* An html payload is compared with the plain text that was put.           *)
TakenForFreshCopy(j) ==
    /\ payload[j] # 0
    /\ TextOf(clipboard) # Empty
    /\ \/ Steps(j)[payload[j]] = "html"
       \/ clipboard # Content(j, payload[j])

(* Mutant: a stream never restores. *)
CheckRestoreExpansions(j) ==
    /\ pc[j] = "restore"
    /\ Goto(j, IF saved[j] = None \/ Kind(j) = "stream" \/ TakenForFreshCopy(j)
               THEN "unlock" ELSE "putback")
    /\ UNCHANGED <<queue, holder, generation, captured, step, saved, payload,
                   clipboard, copies, faults, history>>

CheckRestore(j) ==
    /\ pc[j] = "restore"
    /\ Goto(j, IF saved[j] = None \/ TakenForFreshCopy(j) THEN "unlock" ELSE "putback")
    /\ UNCHANGED <<queue, holder, generation, captured, step, saved, payload,
                   clipboard, copies, faults, history>>

(* set_text(original) inside a poll that gives up first when aborted. *)
PutBack(j) ==
    /\ pc[j] = "putback"
    /\ Goto(j, "unlock")
    /\ \/ ~Aborted(j) /\ clipboard' = saved[j] /\ UNCHANGED <<faults, faulty>>
       \/ Aborted(j) /\ UNCHANGED <<clipboard, faults, faulty>>
       \/ /\ ~Aborted(j) /\ faults < MaxFaults
          /\ faults' = faults + 1
          /\ faulty' = faulty \cup {j}
          /\ UNCHANGED clipboard
    /\ UNCHANGED <<queue, holder, generation, captured, step, saved, payload,
                   copies, blocks, pasted, late, wrote, hit>>

(* The job's guards are dropped. *)
Unlock(j) ==
    /\ pc[j] = "unlock"
    /\ holder' = None
    /\ Goto(j, "done")
    /\ UNCHANGED <<queue, generation, captured, step, saved, payload, clipboard,
                   copies, faults, history>>

-----------------------------------------------------------------------------
(* The user: a copy in another application, and a key pressed while the    *)
(* flag is up, which the hook turns into abort_injection.                  *)
Copy ==
    /\ copies < MaxCopies
    /\ copies' = copies + 1
    /\ clipboard' = UserCopy(copies + 1)
    /\ UNCHANGED <<queue, holder, generation, jobVars, faults, history>>

AbortInjection ==
    /\ Injecting
    /\ generation <= MaxAborts
    /\ generation' = generation + 1
    /\ hit' = hit \cup {j \in Jobs : Running(j) /\ captured[j] # 0}
    /\ UNCHANGED <<queue, holder, jobVars, clipboard, copies, faults, blocks, pasted,
                   late, wrote, faulty>>

Work(j) ==
    /\ UNCHANGED scenario
    /\ \/ Lock(j) \/ TypeAtOnce(j) \/ EraseTrigger(j) \/ CheckAbort(j)
       \/ BeginText(j) \/ RunScript(j) \/ PressKey(j) \/ ClickEndlessly(j)
       \/ PutImage(j) \/ ReadOriginal(j) \/ PutFirst(j) \/ Verify(j)
       \/ PutAgain(j) \/ Paste(j) \/ CheckRestore(j) \/ PutBack(j) \/ Unlock(j)

AllDone == (\A j \in Jobs : pc[j] = "done") /\ UNCHANGED vars

Next ==
    \/ Receive
    \/ \E j \in Jobs : Work(j)
    \/ UNCHANGED scenario /\ \E j \in Jobs : Submit(j)
    \/ UNCHANGED scenario /\ (Copy \/ AbortInjection)
    \/ AllDone

(* Every thread that can take a step takes it.  Weak fairness is enough    *)
(* for lock(): the jobs are finitely many, so a waiting job is in the end  *)
(* the only one.  Nothing is assumed of the user.                          *)
Fairness == WF_vars(Receive) /\ \A j \in Jobs : WF_vars(Work(j))

Spec == Init /\ [][Next]_vars
FairSpec == Spec /\ Fairness

-----------------------------------------------------------------------------
Clips == {UserCopy(n) : n \in 0..MaxCopies} \cup {Empty}
           \cup ({"text", "image"} \X Jobs \X Nat)

Labels == {"new", "queued", "lock", "type", "erase", "check", "do", "save", "put",
           "verify", "rewrite", "paste", "restore", "putback", "unlock", "done"}

TypeOK ==
    /\ scenario \in Scenarios
    /\ queue \in Seq(Jobs)
    /\ pc \in [Jobs -> Labels]
    /\ holder \in Jobs \cup {None}
    /\ generation \in 1..MaxAborts + 1
    /\ captured \in [Jobs -> Nat]
    /\ step \in [Jobs -> Nat \ {0}]
    /\ saved \in [Jobs -> Clips \cup {None}]
    /\ payload \in [Jobs -> Nat]
    /\ clipboard \in Clips
    /\ copies \in 0..MaxCopies
    /\ faults \in 0..MaxFaults
    /\ blocks \in Seq(Jobs)
    /\ late \in [Jobs -> Nat]
    /\ wrote \in [Jobs -> 0..MaxCopies]
    /\ faulty \subseteq Jobs /\ hit \subseteq Jobs

(* The output of a job that took inject_mutex is one contiguous block in   *)
(* the window, whichever worker or runtime thread runs it: nothing of      *)
(* another job comes between two of its outputs, except the paste of a     *)
(* dictionary follow-up, which takes no mutex (injector/tests.rs "no       *)
(* interleaved critical sections").                                        *)
OutputsStayWhole ==
    \A i, k \in DOMAIN blocks : \A between \in i..k :
        blocks[i] = blocks[k] =>
            blocks[between] = blocks[i] \/ Kind(blocks[between]) = "lookup"

(* A paste delivers the step's own payload; only a copy the user made      *)
(* after the payload was written can take its place, or the text of a      *)
(* follow-up that writes without the mutex: never a stale clipboard and    *)
(* never the text of another job that took the mutex.                      *)
FromLookup(c) == c[1] = "text" /\ Kind(c[2]) = "lookup"

PastesOwnPayload ==
    \A p \in pasted :
        \/ p[3] = Content(p[1], p[2])
        \/ IsUsers(p[3]) /\ p[3][2] > p[4]
        \/ Kind(p[1]) = "lookup" \/ FromLookup(p[3])

(* An abort is obeyed soon: after it the job outputs at most once more,    *)
(* whatever step it had reached, including the steps that ignore the       *)
(* generation (the erase, the fast path, a script's paste).                *)
AbortBoundsOutput == \A j \in Jobs : late[j] <= 1

(* Between injections the clipboard is the user's, except after a job that *)
(* was aborted, whose html text or later write the guarded restore took    *)
(* for a fresh copy, whose restore failed, or that never restores: these   *)
(* are all the ways in which the user's clipboard is lost.                 *)
LosesClipboard(j) ==
    \/ j \in hit \cup faulty
    \/ Kind(j) = "lookup"
    \/ "html" \in {Steps(j)[i] : i \in 1..Len(Steps(j))}

ClipboardLostOnlyIf ==
    holder = None /\ ~IsUsers(clipboard) =>
        IF clipboard = Empty THEN \E j \in Jobs : LosesClipboard(j)
                             ELSE LosesClipboard(clipboard[2])

(* An aborted job gives the keyboard back: it releases inject_mutex, even  *)
(* out of a script, a delay or an endless click.                           *)
AbortFreesKeyboard ==
    \A j \in Jobs : holder = j /\ Aborted(j) ~> holder # j

(* Every job sent to the pool ends, unless an endless click holds the      *)
(* keyboard; no two waits of the jobs are for each other.                  *)
ClicksEndlessly(j) == pc[j] = "do" /\ StepKind(j) = "endless"

JobsFinish ==
    \A j \in Jobs : pc[j] = "queued" ~> (pc[j] = "done" \/ \E k \in Jobs : ClicksEndlessly(k))
=============================================================================
