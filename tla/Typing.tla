--------------------------------- MODULE Typing ---------------------------------
(***************************************************************************)
(* The text expander (core/src/engine/evaluator.rs, expansion.rs,          *)
(* state.rs; daemon/src/hook/listener/mod.rs, dispatch.rs): keys that the  *)
(* hook sees go to the window and to a buffer, a match in the buffer       *)
(* becomes a job that erases the trigger and inserts its expansion, and    *)
(* for five seconds Backspace takes it back and an arrow changes its case. *)
(*                                                                         *)
(* The hook is one thread, whose callback is one step; the platform        *)
(* delivers a key it lets pass before anything injected later.  The jobs   *)
(* run on the two pool workers.  The window is the text before the caret   *)
(* of the focused application (external).  This is the listener of Windows *)
(* and macOS with the popup closed; AI prompts and hotkeys are left out.   *)
(***************************************************************************)
EXTENDS Naturals, Sequences, FiniteSets

CONSTANTS Characters, \* whatever can stand before the caret
          Letters,    \* alphanumeric characters
          Keywords,   \* catalog triggers
          Phrases,    \* what the inline fallbacks recognise: words, one blank apart
          Expansion,  \* of each trigger: its text, how it is injected, if it can be undone
          Recased,    \* of each expansion text: its other rendering
          Limit,      \* bounds: characters typed, backspaces, other events
          Others,     \* bound: the kinds of other events
          MaxText,    \* bound: length of the window
          MaxJobs,    \* bound: jobs sent to the pool
          None

Kinds == {"type", "delete", "other"}
OtherKinds == {"miss", "word", "shortcut", "move", "hold", "recase", "fault"}
Blanks == {" ", "\n"}
Triggers == Keywords \cup Phrases
Workers == 2   \* init_injection_pool

ASSUME LimitAssumption ==
    /\ Limit \in [Kinds -> Nat] /\ Others \subseteq OtherKinds
    /\ MaxText \in Nat /\ MaxJobs \in Nat
ASSUME CharsAssumption ==
    Letters \cap Blanks = {} /\ Letters \cup Blanks \subseteq Characters
ASSUME TextsAssumption ==
    /\ Triggers \subseteq Seq(Characters)
    /\ Expansion \in [Triggers -> [text : Seq(Characters), fast : BOOLEAN,
                                  undoable : BOOLEAN]]
    /\ \A t \in Triggers : Recased[Expansion[t].text] \in Seq(Characters)

VARIABLES window,   \* the text before the caret (external)
          buffer,   \* FastBuffer
          instant,  \* instant_expand
          undo,     \* UndoState with its CaseCycleSession, or None
          jobs,     \* the tasks sent to the pool, oldest first
          drift,    \* history: why the buffer may differ from the window
          used      \* how much of Limit is spent

vars == <<window, buffer, instant, undo, jobs, drift, used>>

-----------------------------------------------------------------------------
LastN(s, n)  == IF n >= Len(s) THEN s ELSE SubSeq(s, Len(s) - n + 1, Len(s))
DropLast(s, n) == IF n >= Len(s) THEN <<>> ELSE SubSeq(s, 1, Len(s) - n)
EndsIn(s, t) == Len(t) <= Len(s) /\ LastN(s, Len(t)) = t

(* pop_word, and the window's own word deletion: all but the first n       *)
(* characters go, the blanks at the end and what is of one class before    *)
(* them.                                                                   *)
Alike(c, d) == c \notin Blanks /\ d \notin Blanks /\ (c \in Letters <=> d \in Letters)
WordFollows(s, n) ==
    \E m \in n..Len(s) :
        /\ \A i \in m+1..Len(s) : s[i] \in Blanks
        /\ IF m = 0 THEN n = 0
           ELSE /\ \A i \in n+1..m : Alike(s[i], s[m])
                /\ n < m /\ (n > 0 => ~Alike(s[n], s[m]))

AsBlank(c) == IF c \in Blanks THEN " " ELSE c

(* extract_suffix_candidates: the last n characters, every blank read as a *)
(* space, are the keyword, and no letter stands before them.               *)
KeywordEnds(n, s, word) ==
    /\ n = Len(word)
    /\ n <= Len(s)
    /\ \A i \in 1..n : AsBlank(LastN(s, n)[i]) = word[i]
    /\ n < Len(s) => s[Len(s) - n] \notin Letters

(* check_all_inline_fallbacks: split_whitespace, then the last words joined *)
(* by single spaces; a run of blanks counts as one and those at the end as *)
(* none.                                                                   *)
PhraseEnds(n, s, phrase) ==
    LET t == LastN(s, n)
        kept == {i \in 1..n : t[i] \in Blanks => i < n /\ t[i+1] \notin Blanks}
    IN  /\ n \in 1..Len(s)
        /\ t[1] \notin Blanks
        /\ n < Len(s) => s[Len(s) - n] \in Blanks
        /\ Cardinality(kept) = Len(phrase)
        /\ \A i \in kept :
              AsBlank(t[i]) = phrase[Cardinality({k \in kept : k <= i})]

(* A match: the text in the buffer that stands for the trigger, and the    *)
(* delete_count, which is the length of the trigger.                       *)
Found(n, s, trigger) == [span |-> LastN(s, n), trigger |-> trigger]

(* evaluate_buffer_for_expansion_lazy: catalog triggers, the longest       *)
(* first, and, unless expansion is instant, the inline fallbacks.          *)
Matches(s) ==
    LET words   == {m \in (1..Len(s)) \X Keywords : KeywordEnds(m[1], s, m[2])}
        phrases == {m \in (1..Len(s)) \X Phrases : PhraseEnds(m[1], s, m[2])}
        found   == IF words # {} \/ instant THEN words ELSE phrases
    IN  {Found(m[1], s, m[2]) : m \in {f \in found : \A g \in found : g[1] <= f[1]}}

-----------------------------------------------------------------------------
(* The jobs *)

Job(kind, of, span, erase, text, trigger, blame) ==
    [kind |-> kind, of |-> of, pc |-> "queued", span |-> span, erase |-> erase,
     text |-> text, trigger |-> trigger, aborted |-> FALSE, made |-> FALSE,
     right |-> TRUE, blame |-> blame]

Fast(j) == jobs[j].kind = "undo" \/ Expansion[jobs[j].trigger].fast
Holding(j) == jobs[j].pc \in {"locked", "erased", "pasting"}

(* abort_injection, by any key pressed while the flag is up: it reaches    *)
(* the job that has captured its generation.                               *)
Pressed(js) ==
    [j \in DOMAIN js |->
        IF js[j].pc \in {"locked", "erased", "pasting"}
        THEN [js[j] EXCEPT !.aborted = TRUE] ELSE js[j]]

(* Text that changes under a job that has still to erase or to insert. *)
Unsettled(js) == {j \in DOMAIN js : js[j].pc \in {"queued", "begun", "locked", "pasting"}}

Blame(js, S, cause) ==
    [j \in DOMAIN js |->
        IF j \in S THEN [js[j] EXCEPT !.blame = @ \cup {cause}] ELSE js[j]]

Disturbed == Blame(Pressed(jobs), Unsettled(jobs), "ahead")

(* UndoState::is_active, CaseCycleSession::is_ready *)
UndoActive == undo # None /\ undo.fresh
CaseReady  == undo # None /\ (undo.engaged \/ undo.caseFresh)

Spend(k) == used[k] < Limit[k] /\ used' = [used EXCEPT ![k] = @ + 1]
Happens(k) == k \in Others /\ Spend("other")

(* What the buffer may miss of the window, once there is something in it. *)
Drifts(newBuffer, causes) ==
    drift' = IF newBuffer = <<>> THEN {}
             ELSE drift \cup causes
                        \cup (IF Unsettled(jobs) = {} THEN {} ELSE {"ahead"})

Init ==
    /\ window = <<>> /\ buffer = <<>>
    /\ instant \in BOOLEAN
    /\ undo = None
    /\ jobs = <<>>
    /\ drift = {}
    /\ used = [k \in Kinds |-> 0]

-----------------------------------------------------------------------------
(* The hook.  Every press aborts, and all but a backspace and a held       *)
(* modifier close the undo window.                                         *)

(* A match sends a job, blamed for what the buffer had drifted by, for     *)
(* older jobs that have still to change the text (a trigger of one letter  *)
(* matches before any drift is noted), and for blanks that do not count.   *)
Expand(m, js) ==
    /\ Len(js) < MaxJobs
    /\ jobs' = Append(js, Job("expand", Len(js) + 1, m.span, Len(m.trigger),
                              Expansion[m.trigger].text, m.trigger,
                              drift \cup (IF Unsettled(js) = {} THEN {} ELSE {"ahead"})
                                    \cup (IF Len(m.span) = Len(m.trigger) THEN {}
                                          ELSE {"blanks"})))

(* A character: EngineEvent::Char, and at once an expansion if instant.    *)
TypeChar(c) ==
    /\ Spend("type")
    /\ Len(window) < MaxText
    /\ window' = Append(window, c)
    /\ undo' = None
    /\ LET next  == Append(buffer, c)
           found == IF instant THEN Matches(next) ELSE {}
       IN  \/ /\ found = {}
              /\ buffer' = next
              /\ jobs' = Disturbed
              /\ Drifts(next, {})
           \/ \E m \in found :
              /\ buffer' = <<>>
              /\ Expand(m, Disturbed)
              /\ Drifts(<<>>, {})
    /\ UNCHANGED instant

(* with_evaluator_lock gave up after 1.5 ms: a character, a backspace or a  *)
(* navigation key reaches the window and not the engine.                   *)
KeyMissed ==
    /\ Happens("miss")
    /\ \/ /\ Len(window) < MaxText
          /\ \E c \in Letters \cup Blanks : window' = Append(window, c)
       \/ ~UndoActive /\ window' = DropLast(window, 1)
       \/ \E n \in 0..Len(window) : window' = SubSeq(window, 1, n)
    /\ undo' = None
    /\ jobs' = Disturbed
    /\ Drifts(buffer, {"missed"})
    /\ UNCHANGED <<buffer, instant>>

(* Mutant: a matched Return leaves the buffer as it is. *)
PressReturnKeepsBuffer ==
    /\ undo' = None
    /\ \/ /\ Matches(buffer) = {}
          /\ Spend("type")
          /\ Len(window) < MaxText
          /\ window' = Append(window, "\n")
          /\ buffer' = Append(buffer, "\n")
          /\ jobs' = Disturbed
          /\ Drifts(buffer', {})
       \/ \E m \in Matches(buffer) :
          /\ Expand(m, Pressed(jobs))
          /\ UNCHANGED <<window, buffer, drift, used>>
    /\ UNCHANGED instant

(* Return: EngineEvent::ActionKey.  A match swallows it. *)
PressReturn ==
    /\ undo' = None
    /\ \/ /\ Matches(buffer) = {}
          /\ Spend("type")
          /\ Len(window) < MaxText
          /\ window' = Append(window, "\n")
          /\ buffer' = Append(buffer, "\n")
          /\ jobs' = Disturbed
          /\ Drifts(buffer', {})
       \/ \E m \in Matches(buffer) :
          /\ buffer' = <<>>
          /\ Expand(m, Pressed(jobs))
          /\ Drifts(<<>>, {})
          /\ UNCHANGED <<window, used>>
    /\ UNCHANGED instant

(* Backspace with no active undo state: it deletes in both. *)
Backspace ==
    /\ Spend("delete")
    /\ ~UndoActive
    /\ undo' = None
    /\ window' = DropLast(window, 1)
    /\ buffer' = DropLast(buffer, 1)
    /\ jobs' = Disturbed
    /\ Drifts(buffer', {})
    /\ UNCHANGED instant

(* Backspace in the undo window: swallowed, and the expansion is replaced  *)
(* by its trigger.                                                         *)
BackspaceUndo ==
    /\ UndoActive
    /\ Len(jobs) < MaxJobs
    /\ Spend("delete")
    /\ undo' = None
    /\ jobs' = Append(Pressed(jobs),
                      Job("undo", undo.of, undo.current, undo.length, undo.trigger,
                          undo.trigger, undo.blame))
    /\ UNCHANGED <<window, buffer, instant, drift>>

(* Control with Backspace, and every other shortcut: it passes, and the    *)
(* buffer is not told.  A shortcut may paste, cut or undo.                 *)
DeleteWord ==
    /\ Happens("word")
    /\ \E n \in 0..Len(window) :
          WordFollows(window, n) /\ window' = SubSeq(window, 1, n)
    /\ undo' = None
    /\ jobs' = Disturbed
    /\ Drifts(buffer, {"word"})
    /\ UNCHANGED <<buffer, instant>>

Shortcut ==
    /\ Happens("shortcut")
    /\ undo' = None
    /\ \/ \E c \in Letters : Len(window) < MaxText /\ window' = Append(window, c)
       \/ window' = DropLast(window, 1)
    /\ jobs' = Disturbed
    /\ Drifts(buffer, {"shortcut"})
    /\ UNCHANGED <<buffer, instant>>

(* A navigation key, Tab, Escape or a click: EngineEvent::Interrupt.       *)
MoveCaret ==
    /\ Happens("move")
    /\ undo' = None
    /\ \E n \in 0..Len(window) : window' = SubSeq(window, 1, n)
    /\ buffer' = <<>>
    /\ jobs' = Disturbed
    /\ Drifts(<<>>, {})
    /\ UNCHANGED instant

(* A modifier held down alone: it aborts, and the undo window stays open.  *)
HoldModifier ==
    /\ Happens("hold")
    /\ jobs' = Pressed(jobs)
    /\ UNCHANGED <<window, buffer, instant, undo, drift>>

(* Mutant: the undo length does not follow the case. *)
CycleCaseOldLength ==
    /\ CaseReady
    /\ Len(jobs) < MaxJobs
    /\ Happens("recase")
    /\ LET text == IF undo.current = undo.original THEN Recased[undo.original]
                                                   ELSE undo.original
       IN  /\ undo' = [undo EXCEPT !.engaged = TRUE]
           /\ jobs' = Append(Pressed(jobs),
                             Job("recase", undo.of, undo.current, Len(undo.current),
                                 text, undo.trigger, undo.blame))
    /\ UNCHANGED <<window, buffer, instant, drift>>

(* advance_case_variant: an arrow in the case window is swallowed and the  *)
(* text replaced by its other rendering; the undo length follows.          *)
CycleCase ==
    /\ CaseReady
    /\ Len(jobs) < MaxJobs
    /\ Happens("recase")
    /\ LET text == IF undo.current = undo.original THEN Recased[undo.original]
                                                   ELSE undo.original
       IN  /\ undo' = [undo EXCEPT !.engaged = TRUE, !.current = text,
                                   !.length = Len(text)]
           /\ jobs' = Append(Pressed(jobs),
                             Job("recase", undo.of, undo.current, Len(undo.current),
                                 text, undo.trigger, undo.blame))
    /\ UNCHANGED <<window, buffer, instant, drift>>

(* Five seconds, UNDO_WINDOW and CASE_CYCLE_WINDOW: both are opened by the *)
(* same registration, and only the first may be opened again.              *)
UndoExpires ==
    /\ UndoActive
    /\ undo' = [undo EXCEPT !.fresh = FALSE, !.caseFresh = FALSE]
    /\ UNCHANGED <<window, buffer, instant, jobs, drift, used>>

CaseExpires ==
    /\ undo # None /\ undo.caseFresh
    /\ undo' = [undo EXCEPT !.caseFresh = FALSE]
    /\ UNCHANGED <<window, buffer, instant, jobs, drift, used>>

-----------------------------------------------------------------------------
(* The pool workers *)

Step(j, label) == jobs' = [jobs EXCEPT ![j].pc = label]

(* set_undo_state, register_case_cycle *)
Registered(j) ==
    IF ~Expansion[jobs[j].trigger].undoable THEN None
    ELSE [trigger |-> jobs[j].trigger, of |-> j, length |-> Len(jobs[j].text),
          fresh |-> TRUE, original |-> jobs[j].text, current |-> jobs[j].text,
          caseFresh |-> TRUE, engaged |-> FALSE,
          blame |-> jobs[j].blame \cap {"ahead", "overtaken"}]

Take(j) ==
    /\ jobs[j].pc = "queued"
    /\ \A k \in 1..j-1 : jobs[k].pc # "queued"
    /\ Cardinality({k \in DOMAIN jobs : jobs[k].pc \notin {"queued", "done"}}) < Workers
    /\ Step(j, "begun")
    /\ UNCHANGED <<window, buffer, instant, drift, used>>

(* A worker takes the oldest task and begins its guard; an expansion first *)
(* registers its undo state and its case cycle (dispatch_expansion_with).  *)
Begin(j) ==
    /\ Take(j)
    /\ undo' = IF jobs[j].kind = "expand" THEN Registered(j) ELSE undo

Tainted(cause) == IF undo = None THEN None ELSE [undo EXCEPT !.blame = @ \cup {cause}]

(* inject_mutex, for which two workers compete: a job may overtake an      *)
(* older one, whose output it and the jobs after it take to be there.      *)
Lock(j) ==
    /\ jobs[j].pc = "begun"
    /\ \A k \in DOMAIN jobs : ~Holding(k)
    /\ LET passed == {k \in 1..j-1 : jobs[k].pc = "begun"}
           since  == {k \in DOMAIN jobs : \E p \in passed : p <= k}
       IN  /\ jobs' = Blame([jobs EXCEPT ![j].pc = "locked"], since, "overtaken")
           /\ undo' = IF passed = {} THEN undo ELSE Tainted("overtaken")
    /\ UNCHANGED <<window, buffer, instant, drift, used>>

Erased(j) == LastN(window, jobs[j].erase)
After(j) == IF jobs[j].kind = "expand" THEN "ending" ELSE "done"

(* The short text of the fast path, and every undo: erased and typed in    *)
(* one batch, whatever was aborted.                                        *)
Replace(j) ==
    /\ jobs[j].pc = "locked" /\ Fast(j)
    /\ window' = DropLast(window, jobs[j].erase) \o jobs[j].text
    /\ jobs' = [jobs EXCEPT ![j].pc = After(j), ![j].made = TRUE,
                            ![j].right = (Erased(j) = jobs[j].span)]
    /\ UNCHANGED <<buffer, instant, undo, drift, used>>

(* erase_trigger *)
Erase(j) ==
    /\ jobs[j].pc = "locked" /\ ~Fast(j)
    /\ window' = DropLast(window, jobs[j].erase)
    /\ jobs' = [jobs EXCEPT ![j].pc = "erased", ![j].right = (Erased(j) = jobs[j].span)]
    /\ UNCHANGED <<buffer, instant, undo, drift, used>>

(* Mutant: the step loop does not look at the generation. *)
CheckNoAbort(j) ==
    /\ jobs[j].pc = "erased"
    /\ Step(j, "pasting")
    /\ UNCHANGED <<window, buffer, instant, undo, drift, used>>

(* The clipboard cycle of the text step: past its last look at the         *)
(* generation the text will be pasted.                                     *)
CheckAbort(j) ==
    /\ jobs[j].pc = "erased" /\ ~jobs[j].aborted
    /\ Step(j, "pasting")
    /\ UNCHANGED <<window, buffer, instant, undo, drift, used>>

(* Aborted or failed: the trigger is gone and no text comes; the undo      *)
(* state stays as Begin registered it.                                     *)
CutShort(j) ==
    /\ jobs[j].pc = "erased"
    /\ IF jobs[j].aborted THEN UNCHANGED used ELSE Happens("fault")
    /\ jobs' = Blame([jobs EXCEPT ![j].pc = After(j)],
                     {k \in DOMAIN jobs : k # j /\ jobs[k].of = jobs[j].of}, "cut")
    /\ undo' = IF undo # None /\ undo.of = jobs[j].of THEN Tainted("cut") ELSE undo
    /\ UNCHANGED <<window, buffer, instant, drift>>

Paste(j) ==
    /\ jobs[j].pc = "pasting"
    /\ window' = window \o jobs[j].text
    /\ jobs' = [jobs EXCEPT ![j].pc = After(j), ![j].made = TRUE]
    /\ UNCHANGED <<buffer, instant, undo, drift, used>>

(* refresh_undo_state, once the mutex is released: the window opens again  *)
(* for the state of this trigger, with the length that was injected.       *)
Refresh(j) ==
    /\ jobs[j].pc = "ending"
    /\ Step(j, "done")
    /\ undo' = IF /\ jobs[j].made /\ Expansion[jobs[j].trigger].undoable
                  /\ undo # None /\ undo.trigger = jobs[j].trigger
               THEN [undo EXCEPT !.length = Len(jobs[j].text), !.fresh = TRUE,
                                 !.blame = IF Len(jobs[j].text) = Len(undo.current)
                                           THEN @ ELSE @ \cup {"resized"}]
               ELSE undo
    /\ UNCHANGED <<window, buffer, instant, drift, used>>

-----------------------------------------------------------------------------
Hook ==
    \/ \E c \in Letters \cup {" "} : TypeChar(c)
    \/ KeyMissed
    \/ PressReturn
    \/ Backspace \/ BackspaceUndo
    \/ DeleteWord \/ Shortcut
    \/ MoveCaret \/ CycleCase
    \/ HoldModifier

Work(j) ==
    \/ Begin(j) \/ Lock(j) \/ Replace(j) \/ Erase(j)
    \/ CheckAbort(j) \/ CutShort(j) \/ Paste(j) \/ Refresh(j)

Next ==
    \/ Hook
    \/ \E j \in DOMAIN jobs : Work(j)
    \/ UndoExpires \/ CaseExpires

Spec == Init /\ [][Next]_vars

-----------------------------------------------------------------------------
Causes == {"ahead", "missed", "word", "shortcut", "blanks", "overtaken", "cut", "resized"}

TypeOK ==
    /\ buffer \in Seq(Letters \cup Blanks)
    /\ instant \in BOOLEAN
    /\ drift \subseteq Causes
    /\ undo # None =>
          /\ undo.of \in DOMAIN jobs
          /\ jobs[undo.of].kind = "expand" /\ jobs[undo.of].pc # "queued"
          /\ undo.trigger = jobs[undo.of].trigger
    /\ \A j \in DOMAIN jobs :
          /\ jobs[j].kind \in {"expand", "undo", "recase"}
          /\ jobs[j].of \in 1..j
          /\ jobs[j].blame \subseteq Causes
    /\ used \in [Kinds -> Nat]

(* The buffer is what stands before the caret: unless the engine missed a  *)
(* key, the user edited with a shortcut, or typed under a job that was     *)
(* still to erase or insert.  Whatever went wrong is forgotten as soon as  *)
(* the buffer is emptied, by a match, by a click or a navigation key.      *)
BufferIsSuffix == drift = {} => EndsIn(window, buffer)

(* "Send delete_count backspaces to erase the trigger" (evaluator.rs): an  *)
(* expansion erases the text that matched and nothing else, unless the     *)
(* buffer had drifted, the phrase had other blanks than its joined form,   *)
(* or the text changed before a worker came to it.                         *)
ErasesOwnTrigger ==
    \A j \in DOMAIN jobs :
        jobs[j].kind = "expand" /\ jobs[j].blame = {} => jobs[j].right

(* An undo, or a change of case, erases what the expansion put there and   *)
(* nothing of the user's (backspace-undo.mdx: "erases the expanded text"), *)
(* unless the expansion was cut short, the jobs overtook each other, the   *)
(* user typed ahead, or a late refresh set the length back.                *)
ErasesOwnOutput ==
    \A j \in DOMAIN jobs :
        jobs[j].kind \in {"undo", "recase"} /\ jobs[j].blame = {} => jobs[j].right
=============================================================================
