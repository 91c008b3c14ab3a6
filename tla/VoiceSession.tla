----------------------------- MODULE VoiceSession -----------------------------
(***************************************************************************)
(* Dictation sessions (daemon/src/voice/session.rs): one mode, one         *)
(* microphone and one active request, shared by the threads that the       *)
(* keyboard hook spawns for each key event, by the rescue waiters of the   *)
(* mash gate and by the sweep that runs every five seconds.                *)
(*                                                                         *)
(* A thread's step is what it does under one lock, or one access of an     *)
(* atomic; stores that no other step tells apart are one step.  The audio  *)
(* buffer, the worker process, the model's hold ladder and the cues are    *)
(* left out.                                                               *)
(***************************************************************************)
EXTENDS Naturals

CONSTANTS Threads,  \* the threads that may run at once
          Limit     \* bounds: how often the user and the world act, by kind

Kinds == {"press", "toggle", "escape", "lose", "pause", "fault"}

ASSUME LimitAssumption == Limit \in [Kinds -> Nat]

VARIABLES mode,             \* VoiceMode
          mic,              \* the capture stream is open and running
          lost,             \* device_disconnected
          pending,          \* pending_press
          activeReq,        \* active_req, 0 for None
          streams,          \* requests with a StreamEntry: their forwarder runs
          nextReq,          \* req_counter
          startedAt,        \* ptt_started_at: none, or its age
          processingSince,  \* processing_since: none, or its age
          justStopped,      \* last_stop is inside the mash window
          paused,           \* the daemon is paused
          held,             \* the push-to-talk key, physically
          pttDown,          \* PTT_KEY_DOWN
          hfDown,           \* HANDSFREE_KEY_DOWN
          pc, kind, req,    \* of each thread: its step, what it is, its request
          used,             \* how much of Limit is spent
          blame             \* what has gone wrong so far, see below

keyVars  == <<held, pttDown, hfDown>>
micVars  == <<mic, lost>>
reqVars  == <<activeReq, streams, nextReq>>
timeVars == <<startedAt, processingSince, justStopped>>
threadVars == <<pc, kind, req>>
vars == <<mode, mic, lost, pending, activeReq, streams, nextReq, startedAt,
          processingSince, justStopped, paused, held, pttDown, hfDown, pc, kind,
          req, used, blame>>

Recording == mode \in {"PushToTalk", "HandsFree"}

Init ==
    /\ mode = "Idle"
    /\ mic = FALSE /\ lost = FALSE
    /\ pending = FALSE
    /\ activeReq = 0 /\ streams = {} /\ nextReq = 1
    /\ startedAt = "none" /\ processingSince = "none" /\ justStopped = FALSE
    /\ paused = FALSE
    /\ held = FALSE /\ pttDown = FALSE /\ hfDown = FALSE
    /\ pc = [t \in Threads |-> "free"]
    /\ kind = [t \in Threads |-> "none"]
    /\ req = [t \in Threads |-> 0]
    /\ used = [k \in Kinds |-> 0]
    /\ blame = {}

Spend(k) == used[k] < Limit[k] /\ used' = [used EXCEPT ![k] = @ + 1]

Spawn(t, k, label) ==
    /\ pc[t] = "free"
    /\ pc' = [pc EXCEPT ![t] = label]
    /\ kind' = [kind EXCEPT ![t] = k]
    /\ UNCHANGED req

Go(t, label) == pc' = [pc EXCEPT ![t] = label] /\ UNCHANGED <<kind, req>>

Finish(t) ==
    /\ pc' = [pc EXCEPT ![t] = "free"]
    /\ kind' = [kind EXCEPT ![t] = "none"]
    /\ req' = [req EXCEPT ![t] = 0]

Quits(t) == kind[t] \in {"cancel", "reset"}

(* The threads that took a recording out of its mode and have not yet      *)
(* returned it to Idle; and those whose worker call never returns.         *)
Finalizing == {"stamp", "close", "take", "remove", "decode", "idle"}
Owners == {t \in Threads : pc[t] \in Finalizing /\ ~Quits(t)}
Wedged == {t \in Threads : pc[t] = "wedged"}

-----------------------------------------------------------------------------
(* The keyboard hook: each event spawns a thread *)

PressPtt(t) ==
    /\ ~held /\ ~pttDown /\ ~paused
    /\ Spend("press")
    /\ held' = TRUE /\ pttDown' = TRUE
    /\ Spawn(t, "ptt", "start")
    /\ UNCHANGED <<mode, micVars, pending, reqVars, timeVars, paused, hfDown, blame>>

(* A press that starts nothing: paused, over a fullscreen application,     *)
(* during an injection, or because the flag never came down.               *)
IgnoredPress ==
    /\ ~held
    /\ Spend("press")
    /\ held' = TRUE
    /\ UNCHANGED <<mode, micVars, pending, reqVars, timeVars, paused, pttDown,
                   hfDown, threadVars, blame>>

ReleasePtt(t) ==
    /\ held /\ pttDown
    /\ held' = FALSE /\ pttDown' = FALSE
    /\ Spawn(t, "stop", "stop")
    /\ UNCHANGED <<mode, micVars, pending, reqVars, timeVars, paused, hfDown, used,
                   blame>>

(* A release that stops nothing: its press was not taken, or the event     *)
(* never reaches the hook.                                                 *)
IgnoredRelease ==
    /\ held
    /\ held' = FALSE
    /\ IF pttDown THEN Spend("lose") ELSE UNCHANGED used
    /\ UNCHANGED <<mode, micVars, pending, reqVars, timeVars, paused, pttDown,
                   hfDown, threadVars, blame>>

PressHandsFree(t) ==
    /\ ~hfDown /\ ~paused
    /\ Spend("toggle")
    /\ hfDown' = TRUE
    /\ Spawn(t, "hf", "toggle")
    /\ UNCHANGED <<mode, micVars, pending, reqVars, timeVars, paused, held, pttDown,
                   blame>>

ReleaseHandsFree ==
    /\ hfDown
    /\ hfDown' = FALSE
    /\ UNCHANGED <<mode, micVars, pending, reqVars, timeVars, paused, held, pttDown,
                   threadVars, used, blame>>

PressEscape(t) ==
    /\ mode # "Idle" /\ ~paused
    /\ Spend("escape")
    /\ Spawn(t, "escape", "escape")
    /\ UNCHANGED <<mode, micVars, pending, reqVars, timeVars, paused, keyVars, blame>>

(* The pause switch, and a capture stream that reports an error            *)
(* (handle_stream_error).                                                  *)
TogglePause ==
    /\ Spend("pause")
    /\ paused' = ~paused
    /\ UNCHANGED <<mode, micVars, pending, reqVars, timeVars, keyVars, threadVars,
                   blame>>

DeviceFails ==
    /\ mic
    /\ Spend("fault")
    /\ mic' = FALSE /\ lost' = TRUE
    /\ UNCHANGED <<mode, pending, reqVars, timeVars, paused, keyVars, threadVars,
                   blame>>

-----------------------------------------------------------------------------
(* Starting: start_ptt, spawn_mash_rescue, start_ptt_now and               *)
(* start_handsfree_now.  A fullscreen application (voice_suppressed) may   *)
(* turn a start away at any check.                                         *)

Park(t) == pending' = TRUE /\ Finish(t)

StartPtt(t) ==
    /\ pc[t] = "start"
    /\ \/ Finish(t) /\ UNCHANGED pending
       \/ ~paused /\ mode # "Idle" /\ Park(t)
       \/ ~paused /\ mode = "Idle" /\ Go(t, "gate") /\ UNCHANGED pending
    /\ UNCHANGED <<mode, micVars, reqVars, timeVars, paused, keyVars, used, blame>>

(* in_mash_window: the engine start is deferred to a rescue waiter. *)
MashGate(t) ==
    /\ pc[t] = "gate"
    /\ Go(t, IF justStopped THEN "rescue" ELSE "check")
    /\ UNCHANGED <<mode, micVars, pending, reqVars, timeVars, paused, keyVars, used,
                   blame>>

Rescue(t) ==
    /\ pc[t] = "rescue"
    /\ IF /\ IF kind[t] = "hf" THEN hfDown ELSE pttDown
          /\ ~paused
          /\ mode = "Idle"
       THEN Go(t, "check") ELSE Finish(t)
    /\ UNCHANGED <<mode, micVars, pending, reqVars, timeVars, paused, keyVars, used,
                   blame>>

CheckIdle(t) ==
    /\ pc[t] = "check"
    /\ \/ Finish(t) /\ UNCHANGED pending
       \/ mode # "Idle" /\ Park(t)
       \/ mode = "Idle" /\ Go(t, "open") /\ UNCHANGED pending
    /\ UNCHANGED <<mode, micVars, reqVars, timeVars, paused, keyVars, used, blame>>

(* capture.start: a tripped disconnect flag is cleared by the forced close *)
(* that precedes the open; the open may fail.                              *)
OpenFails == ~mic /\ Spend("fault") /\ lost' = FALSE /\ UNCHANGED mic
Opens == mic' = TRUE /\ lost' = FALSE /\ UNCHANGED used

OpenMic(t) ==
    /\ pc[t] = "open"
    /\ pending' = (pending /\ kind[t] = "hf")
    /\ \/ Opens /\ Go(t, "commit")
       \/ OpenFails /\ Finish(t)
    /\ UNCHANGED <<mode, reqVars, timeVars, paused, keyVars, blame>>

(* The mode is taken if it is still Idle.  A starter that lost the race    *)
(* parks its press and leaves the microphone as it opened it.              *)
Commit(t) ==
    /\ pc[t] = "commit"
    /\ \/ /\ mode # "Idle"
          /\ Park(t)
          /\ blame' = blame \cup {"starters"}
          /\ UNCHANGED <<mode, startedAt>>
       \/ /\ mode = "Idle"
          /\ mode' = IF kind[t] = "hf" THEN "HandsFree" ELSE "PushToTalk"
          /\ startedAt' = IF kind[t] = "hf" THEN startedAt ELSE "fresh"
          /\ Go(t, "register")
          /\ UNCHANGED <<pending, blame>>
    /\ UNCHANGED <<micVars, reqVars, processingSince, justStopped, paused, keyVars,
                   used>>

(* begin_request, and the insertion by spawn_chunk_forwarder, whose thread *)
(* may fail to spawn.                                                      *)
Register(t) ==
    /\ pc[t] = "register"
    /\ activeReq' = nextReq
    /\ nextReq' = nextReq + 1
    /\ pc' = [pc EXCEPT ![t] = "forward"]
    /\ req' = [req EXCEPT ![t] = nextReq]
    /\ UNCHANGED <<mode, micVars, pending, streams, timeVars, paused, keyVars, kind,
                   used, blame>>

Forward(t) ==
    /\ pc[t] = "forward"
    /\ \/ streams' = streams \cup {req[t]} /\ UNCHANGED used
       \/ Spend("fault") /\ UNCHANGED streams
    /\ Finish(t)
    /\ UNCHANGED <<mode, micVars, pending, activeReq, nextReq, timeVars, paused,
                   keyVars, blame>>

-----------------------------------------------------------------------------
(* Stopping: the first of stop_ptt, toggle_handsfree and on_escape_pressed *)
(* to find the recording mode turns it into Processing and owns the rest.  *)

(* Mutant: the mode is not looked at. *)
StopPttBlindly(t) ==
    /\ pc[t] = "stop"
    /\ mode' = "Processing" /\ Go(t, "stamp")
    /\ UNCHANGED <<micVars, pending, reqVars, timeVars, paused, keyVars, used, blame>>

StopPtt(t) ==
    /\ pc[t] = "stop"
    /\ IF mode = "PushToTalk" THEN mode' = "Processing" /\ Go(t, "stamp")
                              ELSE Finish(t) /\ UNCHANGED mode
    /\ UNCHANGED <<micVars, pending, reqVars, timeVars, paused, keyVars, used, blame>>

(* Pausing or, for a start, a fullscreen application silences the toggle. *)
ToggleHandsFree(t) ==
    /\ pc[t] = "toggle"
    /\ \/ (paused \/ mode # "HandsFree") /\ Finish(t) /\ UNCHANGED mode
       \/ ~paused /\ mode = "Idle" /\ Go(t, "gate") /\ UNCHANGED mode
       \/ /\ ~paused /\ mode = "HandsFree"
          /\ mode' = "Processing"
          /\ Go(t, "stamp")
    /\ UNCHANGED <<micVars, pending, reqVars, timeVars, paused, keyVars, used, blame>>

(* on_escape_pressed: a Processing session is cancelled, a recording one   *)
(* is claimed under the lock.                                              *)
EscapePressed(t) ==
    /\ pc[t] = "escape"
    /\ Go(t, IF mode = "Processing" THEN "void" ELSE "claim")
    /\ UNCHANGED <<mode, micVars, pending, reqVars, timeVars, paused, keyVars, used,
                   blame>>

EscapeClaim(t) ==
    /\ pc[t] = "claim"
    /\ IF Recording THEN mode' = "Processing" /\ Go(t, "stamp")
                    ELSE Finish(t) /\ UNCHANGED mode
    /\ UNCHANGED <<micVars, pending, reqVars, timeVars, paused, keyVars, used, blame>>

(* The stamps of the stopped session; an escape drops the parked press. *)
Stamp(t) ==
    /\ pc[t] = "stamp"
    /\ startedAt' = "none" /\ processingSince' = "fresh"
    /\ pending' = (pending /\ kind[t] # "escape")
    /\ Go(t, "close")
    /\ UNCHANGED <<mode, micVars, reqVars, justStopped, paused, keyVars, used, blame>>

(* Mutant: the microphone stays parked. *)
CloseMicNot(t) ==
    /\ pc[t] = "close"
    /\ Go(t, "take")
    /\ UNCHANGED <<mode, micVars, pending, reqVars, timeVars, paused, keyVars, used,
                   blame>>

(* stop_capture: the disconnect flag is left as it is. *)
CloseMic(t) ==
    /\ pc[t] = "close"
    /\ mic' = FALSE
    /\ Go(t, "take")
    /\ UNCHANGED <<mode, lost, pending, reqVars, timeVars, paused, keyVars, used,
                   blame>>

(* finalize_request, cancel and reset_stranded_processing: active_req is   *)
(* taken, then its stream entry removed; without either there is nothing   *)
(* to transcribe or to discard.                                            *)
TakeRequest(t) ==
    /\ pc[t] = "take"
    /\ activeReq' = 0
    /\ IF activeReq = 0
       THEN IF Quits(t) THEN Finish(t) ELSE Go(t, "idle")
       ELSE /\ pc' = [pc EXCEPT ![t] = "remove"]
            /\ req' = [req EXCEPT ![t] = activeReq]
            /\ UNCHANGED kind
    /\ blame' = IF activeReq = 0 THEN blame \cup {"early"} ELSE blame
    /\ UNCHANGED <<mode, micVars, pending, streams, nextReq, timeVars, paused,
                   keyVars, used>>

(* Mutant: the stream entry is left behind. *)
RemoveStreamNot(t) ==
    /\ pc[t] = "remove"
    /\ IF Quits(t) THEN Finish(t) ELSE Go(t, "decode")
    /\ UNCHANGED <<mode, micVars, pending, reqVars, timeVars, paused, keyVars, used,
                   blame>>

RemoveStream(t) ==
    /\ pc[t] = "remove"
    /\ streams' = streams \ {req[t]}
    /\ IF Quits(t) THEN Finish(t)
                   ELSE Go(t, IF req[t] \in streams THEN "decode" ELSE "idle")
    /\ blame' = IF req[t] \in streams THEN blame ELSE blame \cup {"early"}
    /\ UNCHANGED <<mode, micVars, pending, activeReq, nextReq, timeVars, paused,
                   keyVars, used>>

(* The join, the tail, the transcription and the injection: they succeed,  *)
(* fail or are skipped alike, or the worker call never returns.            *)
Decode(t) ==
    /\ pc[t] = "decode"
    /\ \/ Go(t, "idle") /\ UNCHANGED used
       \/ Go(t, "wedged") /\ Spend("fault")
    /\ UNCHANGED <<mode, micVars, pending, reqVars, timeVars, paused, keyVars, blame>>

(* The owner returns the mode to Idle, whatever it is by now. *)
SetIdle(t) ==
    /\ pc[t] = "idle"
    /\ mode' = "Idle"
    /\ Go(t, "unstamp")
    /\ UNCHANGED <<micVars, pending, reqVars, timeVars, paused, keyVars, used, blame>>

(* The stamps are cleared and note_session_end arms the mash gate. *)
Unstamp(t) ==
    /\ pc[t] = "unstamp"
    /\ processingSince' = "none" /\ startedAt' = "none"
    /\ justStopped' = TRUE
    /\ IF kind[t] = "escape" THEN Finish(t) ELSE Go(t, "autostart")
    /\ UNCHANGED <<mode, micVars, pending, reqVars, paused, keyVars, used, blame>>

(* Mutant: the handler returns without maybe_autostart. *)
AutostartSkipped(t) ==
    /\ pc[t] = "autostart"
    /\ Finish(t)
    /\ UNCHANGED <<mode, micVars, pending, reqVars, timeVars, paused, keyVars, used,
                   blame>>

(* maybe_autostart: a parked press whose key is held is started. *)
Autostart(t) ==
    /\ pc[t] = "autostart"
    /\ pending' = FALSE
    /\ IF pending /\ pttDown /\ ~paused
       THEN /\ pc' = [pc EXCEPT ![t] = "check"]
            /\ kind' = [kind EXCEPT ![t] = "ptt"]
            /\ req' = [req EXCEPT ![t] = 0]
       ELSE Finish(t)
    /\ UNCHANGED <<mode, micVars, reqVars, timeVars, paused, keyVars, used, blame>>

-----------------------------------------------------------------------------
(* cancel (from an escape) and reset_stranded_processing (from the sweep) *)

DropPending(t) ==
    /\ pc[t] = "void"
    /\ pending' = FALSE
    /\ pc' = [pc EXCEPT ![t] = "drop"]
    /\ kind' = [kind EXCEPT ![t] = IF kind[t] = "sweep" THEN "reset" ELSE "cancel"]
    /\ UNCHANGED <<mode, micVars, reqVars, timeVars, paused, keyVars, req, used, blame>>

(* Idle at once, although the owner of a Processing session may be alive.  *)
(* Only a live session arms the mash gate.                                 *)
DropSession(t) ==
    /\ pc[t] = "drop"
    /\ mode' = "Idle"
    /\ justStopped' = (justStopped \/ mode # "Idle" \/ activeReq # 0 \/ kind[t] = "reset")
    /\ Go(t, "forget")
    /\ blame' = IF Owners # {} \/ mode # "Processing" THEN blame \cup {"overruled"}
                                                      ELSE blame
    /\ UNCHANGED <<micVars, pending, reqVars, startedAt, processingSince, paused,
                   keyVars, used>>

Forget(t) ==
    /\ pc[t] = "forget"
    /\ processingSince' = "none"
    /\ startedAt' = IF kind[t] = "cancel" THEN "none" ELSE startedAt
    /\ Go(t, "close")
    /\ UNCHANGED <<mode, micVars, pending, reqVars, justStopped, paused, keyVars, used,
                   blame>>

-----------------------------------------------------------------------------
(* The sweep: clean_expired_transcriber of an active session *)

StartSweep(t) ==
    /\ mode # "Idle"
    /\ \A u \in Threads : kind[u] \notin {"sweep", "reset"}
    /\ Spawn(t, "sweep", "sweep")
    /\ UNCHANGED <<mode, micVars, pending, reqVars, timeVars, paused, keyVars, used,
                   blame>>

Sweep(t) ==
    /\ pc[t] = "sweep"
    /\ Go(t, IF Recording THEN "reopen" ELSE "stranded")
    /\ UNCHANGED <<mode, micVars, pending, reqVars, timeVars, paused, keyVars, used,
                   blame>>

(* recover_live_capture_device: after a disconnection, or when the live    *)
(* device is no longer the one to record from, the stream is closed by     *)
(* force and opened again.                                                 *)
ReopenMic(t) ==
    /\ pc[t] = "reopen"
    /\ \/ ~lost /\ Go(t, "stranded") /\ UNCHANGED micVars
       \/ /\ lost \/ mic
          /\ mic' = FALSE /\ lost' = FALSE
          /\ Go(t, "restart")
    /\ UNCHANGED <<mode, pending, reqVars, timeVars, paused, keyVars, used, blame>>

RestartMic(t) ==
    /\ pc[t] = "restart"
    /\ Go(t, "stranded")
    /\ \/ OpenFails /\ UNCHANGED blame
       \/ /\ Opens
          /\ blame' = IF Recording THEN blame ELSE blame \cup {"reopened"}
    /\ UNCHANGED <<mode, pending, reqVars, timeVars, paused, keyVars>>

(* Mutant: only a recording is looked at. *)
RecoverRecordingOnly(t) ==
    /\ pc[t] = "stranded"
    /\ IF mode = "PushToTalk" /\ ~pttDown /\ startedAt = "old" THEN Go(t, "stop")
                                                             ELSE Finish(t)
    /\ UNCHANGED <<mode, micVars, pending, reqVars, timeVars, paused, keyVars, used,
                   blame>>

(* Mutant: only a Processing state is looked at. *)
RecoverProcessingOnly(t) ==
    /\ pc[t] = "stranded"
    /\ IF mode = "Processing" /\ processingSince = "old" THEN Go(t, "void")
                                                         ELSE Finish(t)
    /\ UNCHANGED <<mode, micVars, pending, reqVars, timeVars, paused, keyVars, used,
                   blame>>

(* recover_stranded_session *)
RecoverStranded(t) ==
    /\ pc[t] = "stranded"
    /\ CASE mode = "PushToTalk" /\ ~pttDown /\ startedAt = "old" -> Go(t, "stop")
         [] mode = "Processing" /\ processingSince = "old" -> Go(t, "void")
         [] OTHER -> Finish(t)
    /\ UNCHANGED <<mode, micVars, pending, reqVars, timeVars, paused, keyVars, used,
                   blame>>

-----------------------------------------------------------------------------
(* Time.  The mash window closes at any moment; ten seconds of recording   *)
(* pass only while no handler is at work, and the ninety of a Processing   *)
(* state only while no handler is even decoding (its limit is sixty).      *)

AtRest(t, labels) == pc[t] \in labels \cup {"free", "wedged"} \/ kind[t] = "sweep"

MashWindowCloses ==
    /\ justStopped
    /\ justStopped' = FALSE
    /\ UNCHANGED <<mode, micVars, pending, reqVars, startedAt, processingSince, paused,
                   keyVars, threadVars, used, blame>>

RecordingAges ==
    /\ startedAt = "fresh"
    /\ \A t \in Threads : AtRest(t, {"decode"})
    /\ startedAt' = "old"
    /\ UNCHANGED <<mode, micVars, pending, reqVars, processingSince, justStopped, paused,
                   keyVars, threadVars, used, blame>>

ProcessingAges ==
    /\ processingSince = "fresh"
    /\ \A t \in Threads : AtRest(t, {})
    /\ processingSince' = "old"
    /\ UNCHANGED <<mode, micVars, pending, reqVars, startedAt, justStopped, paused,
                   keyVars, threadVars, used, blame>>

-----------------------------------------------------------------------------
Hook(t) == PressPtt(t) \/ ReleasePtt(t) \/ PressHandsFree(t) \/ PressEscape(t)

User == IgnoredPress \/ IgnoredRelease \/ ReleaseHandsFree \/ TogglePause

Work(t) ==
    \/ StartPtt(t) \/ MashGate(t) \/ Rescue(t) \/ CheckIdle(t) \/ OpenMic(t)
    \/ Commit(t) \/ Register(t) \/ Forward(t)
    \/ StopPtt(t) \/ ToggleHandsFree(t) \/ EscapePressed(t) \/ EscapeClaim(t)
    \/ Stamp(t) \/ CloseMic(t) \/ TakeRequest(t) \/ RemoveStream(t) \/ Decode(t)
    \/ SetIdle(t) \/ Unstamp(t) \/ Autostart(t)
    \/ DropPending(t) \/ DropSession(t) \/ Forget(t)
    \/ Sweep(t) \/ ReopenMic(t) \/ RestartMic(t) \/ RecoverStranded(t)

Time == MashWindowCloses \/ RecordingAges \/ ProcessingAges

Next ==
    \/ \E t \in Threads : Hook(t) \/ StartSweep(t) \/ Work(t)
    \/ User \/ DeviceFails \/ Time

(* A thread that can take a step takes it, the sweep comes back and time   *)
(* passes.  Nothing is assumed of the user or of the devices.              *)
Fairness ==
    /\ \A t \in Threads : WF_vars(Work(t))
    /\ WF_vars(\E t \in Threads : StartSweep(t))
    /\ WF_vars(MashWindowCloses) /\ WF_vars(RecordingAges) /\ WF_vars(ProcessingAges)

Spec == Init /\ [][Next]_vars
FairSpec == Spec /\ Fairness

-----------------------------------------------------------------------------
Ages == {"none", "fresh", "old"}
Labels == {"free", "start", "gate", "rescue", "check", "open", "commit", "register",
           "forward", "stop", "toggle", "escape", "claim", "autostart", "unstamp",
           "void", "drop", "forget", "sweep", "reopen", "restart", "stranded",
           "wedged"}
              \cup Finalizing

TypeOK ==
    /\ mode \in {"Idle", "PushToTalk", "HandsFree", "Processing"}
    /\ mic \in BOOLEAN /\ lost \in BOOLEAN /\ ~(mic /\ lost)
    /\ pending \in BOOLEAN
    /\ nextReq \in Nat \ {0}
    /\ activeReq \in 0..nextReq - 1 /\ streams \subseteq 0..nextReq - 1
    /\ startedAt \in Ages /\ processingSince \in Ages /\ justStopped \in BOOLEAN
    /\ paused \in BOOLEAN
    /\ held \in BOOLEAN /\ pttDown \in BOOLEAN /\ hfDown \in BOOLEAN
    /\ pc \in [Threads -> Labels]
    /\ kind \in [Threads -> {"none", "ptt", "hf", "stop", "escape", "cancel", "sweep",
                             "reset"}]
    /\ req \in [Threads -> 0..nextReq - 1]
    /\ used \in [Kinds -> Nat]
    /\ blame \subseteq {"starters", "early", "overruled", "reopened"}

Quiet == \A t \in Threads : pc[t] = "free"

(* Whatever the handlers race for, a recording is taken over by one thread *)
(* only, which alone returns the mode from Processing: unless a cancel or  *)
(* a reset overruled it, there is at most one owner, the mode is           *)
(* Processing for as long as it works, and Processing without an owner is  *)
(* that of a thread whose worker call never returned (stop_ptt,            *)
(* toggle_handsfree, on_escape_pressed and the sweep).                     *)
OneOwner ==
    "overruled" \notin blame =>
        /\ \A t, u \in Owners : t = u
        /\ Owners # {} => mode = "Processing"
        /\ mode = "Processing" => Owners \cup Wedged # {}

(* The ways in which the microphone can stay open without a session: a     *)
(* starter that lost the race after it opened, an owner that was           *)
(* overruled, or a sweep that reopened after the stop.                     *)
MicParkedOnlyIf ==
    Quiet /\ mode = "Idle" /\ mic => blame \cap {"starters", "overruled", "reopened"} # {}

(* Between two events the state is one that a session or its absence       *)
(* explains: the microphone is open (or lost) and the request registered   *)
(* for the recording, no forwarder streams for any other request, and      *)
(* Processing has ended.  Nothing of a session outlives it, unless one of  *)
(* the races that blame lists has happened.                                *)
Consistent ==
    Quiet /\ blame = {} =>
        /\ mode # "Processing" /\ processingSince = "none"
        /\ mic => Recording
        /\ (activeReq # 0) <=> Recording
        /\ streams \subseteq {activeReq}

(* "a press landing during decode cannot start, so it is parked here and   *)
(* honored the moment the session returns to Idle with the key still held" *)
(* (pending_press, session.rs): on every path out of a session but that of *)
(* Escape, which returns without maybe_autostart.                          *)
ParkedPressHonoredUnlessEscape ==
    Quiet /\ mode = "Idle" /\ pending /\ held /\ pttDown => used["escape"] > 0

(* A recording whose key is up, as the hook saw it, is stopped: by its     *)
(* release or, when the release came before the start, by the sweep.       *)
StrandedRecordingStops ==
    (mode = "PushToTalk" /\ ~pttDown) ~> (mode # "PushToTalk" \/ pttDown)

(* "Bounds a wedged worker so one dead transcription cannot silence voice" *)
(* (processing_since, session.rs): Processing ends, by its owner or by the *)
(* sweep, unless the sweep itself waits for a worker call that never       *)
(* returns, which is the one way in which the bound fails.                 *)
SweepWedged == \E t \in Wedged : kind[t] = "sweep"

ProcessingEndsOrSweepWedged ==
    mode = "Processing" ~> (mode # "Processing" \/ SweepWedged)
=============================================================================
