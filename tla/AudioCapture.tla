----------------------------- MODULE AudioCapture -----------------------------
(***************************************************************************)
(* The microphone (voice/capture.rs), store by store.                      *)
(*                                                                         *)
(* AudioCapture keeps the stream, the identity of the device it was opened *)
(* on, and two flags, each under a lock of its own or none, so that an     *)
(* open, a stop, a forced close and the error callback of the stream       *)
(* interleave.  They are called by the handlers of the session             *)
(* (voice/session.rs), by its periodic sweep, which replaces a stream that *)
(* failed or that is on the wrong device, and by a change of the settings  *)
(* (services/server.rs, tray/settings.rs, voice/device_monitor.rs).        *)
(* VoiceSession has the session in full and the microphone as one value;   *)
(* here it is the other way round.                                         *)
(***************************************************************************)
EXTENDS Naturals

CONSTANTS Handlers,    \* threads of the session's handlers
          Sweep,       \* the sweep task
          Settings,    \* whoever applies a setting
          Devices,     \* microphones
          Absent,      \* there is none
          None,        \* no stream, no identity, no thread
          MaxInputs    \* bound: presses, settings applied, devices that come or go,
                       \* streams and opens that fail

Threads == Handlers \cup {Sweep, Settings}
Streams == [on : Devices, ok : BOOLEAN]   \* the device it is on, whether it works

ASSUME CaptureAssumption ==
    /\ Sweep # Settings /\ {Sweep, Settings} \cap Handlers = {}
    /\ None \notin Threads \cup Devices \cup {Absent} \cup Streams /\ Absent \notin Devices
    /\ MaxInputs \in Nat

VARIABLES
    mode,         \* of the session: idle, recording, processing
    request,      \* active_req: the session that records has begun its request
    pc,           \* where each thread is
    then,         \* where it goes when what it does to the microphone is done
    lock,         \* who holds the lock of _stream across steps, or None
    stream,       \* _stream, or None
    live,         \* the identity taken when it was opened, or None
    running,      \* is_running
    disconnected, \* device_disconnected
    callback,     \* the error callback is between its two stores
    device,       \* the device that a fresh open would take
    buffer,       \* there is audio in the frame buffer
    inputs,       \* counts towards the bound
    sole,         \* history: whose operation nothing has overlapped so far, or None
    blame         \* history: what happened since a close that nothing overlapped

session == <<mode, request>>
fields == <<stream, live, running, disconnected>>
outside == <<callback, device>>
history == <<sole, blame>>
vars == <<session, pc, then, lock, fields, outside, buffer, inputs, history>>

Causes == {"starters",  \* two starts at a time
           "overruled", \* a start while a session is still being ended or cancelled
           "clash",     \* two operations on the microphone at a time
           "late",      \* a reopening that began, or went on, after the recording's end
           "unheard",   \* a failure that an open overwrote
           "moved",     \* the device changed during an open
           "gaveUp",    \* a reopening that failed
           "dropped"}   \* a restart that found the stream failed, and only closed it

Init ==
    /\ mode = "idle"
    /\ request = FALSE
    /\ pc = [t \in Threads |-> "free"]
    /\ then = [t \in Threads |-> "free"]
    /\ lock = None
    /\ stream = None
    /\ live = None
    /\ running = FALSE
    /\ disconnected = FALSE
    /\ callback = FALSE
    /\ device \in Devices
    /\ buffer = FALSE
    /\ inputs = 0
    /\ sole = None
    /\ blame = {}

Go(t, step) == pc' = [pc EXCEPT ![t] = step]

Others(t) == Threads \ {t}

Starting == {t \in Threads : then[t] = "commit"}
Ending == {t \in Threads : then[t] \in {"take", "cancelled"}}
Looking == {"seeFlag", "seeLive"}
Aside == {"free", "clear", "commit", "begin", "take", "drain", "done", "cancel", "wipe", "void"}
Operating == {t \in Threads : pc[t] \notin Aside \cup Looking}

(* Thread t goes on to an operation on the microphone. *)
Enters(t, step) ==
    /\ Go(t, step)
    /\ sole' = IF Operating = {} THEN t ELSE None
    /\ blame' = blame \cup (IF Operating # {} THEN {"clash"} ELSE {})
                      \cup (IF step \in {"recover", "restart"} /\ mode # "recording"
                            THEN {"late"} ELSE {})

(* What a close that nothing overlapped leaves: nothing.  A press that     *)
(* closes a failed device is a start still, and a reopening is late if it  *)
(* was, or if its recording is over by now.                                *)
Left(t) ==
    IF sole = t /\ then[t] # "commit" /\ \A u \in Others(t) : pc[u] \in {"free"} \cup Looking
    THEN IF then[t] # "start" THEN {}
         ELSE IF mode = "recording" THEN blame \cap {"late"} ELSE {"late"}
    ELSE blame

Input == inputs < MaxInputs /\ inputs' = inputs + 1

-----------------------------------------------------------------------------
(* The outside world *)

(* Mutant: a failure stops the capture and raises no flag. *)
StreamFailsQuietly ==
    /\ stream # None /\ stream.ok
    /\ Input
    /\ stream' = [stream EXCEPT !.ok = FALSE]
    /\ callback' = TRUE
    /\ UNCHANGED <<session, pc, then, lock, live, running, disconnected, device, buffer, history>>

(* handle_stream_error: two stores, in the stream's own thread *)
StreamFails ==
    /\ stream # None /\ stream.ok
    /\ Input
    /\ stream' = [stream EXCEPT !.ok = FALSE]
    /\ disconnected' = TRUE
    /\ callback' = TRUE
    /\ UNCHANGED <<session, pc, then, lock, live, running, device, buffer, history>>

CallbackEnds ==
    /\ callback
    /\ running' = FALSE
    /\ callback' = FALSE
    /\ UNCHANGED <<session, pc, then, lock, stream, live, disconnected, device, buffer, inputs, history>>

(* A device comes or goes, or the default changes *)
DeviceMoves ==
    /\ Input
    /\ device' \in (Devices \cup {Absent}) \ {device}
    /\ blame' = blame \cup (IF \E t \in Threads : pc[t] = "identify" THEN {"moved"} ELSE {})
    /\ UNCHANGED <<session, pc, then, lock, fields, callback, buffer, sole>>

(* The audio callback: push_samples *)
Hear ==
    /\ mode = "recording" /\ stream # None /\ stream.ok
    /\ ~buffer
    /\ buffer' = TRUE
    /\ UNCHANGED <<session, pc, then, lock, fields, outside, inputs, history>>

-----------------------------------------------------------------------------
(* The session *)

(* start_ptt_now, start_handsfree_now: the first look at the mode *)
Press(t) ==
    /\ t \in Handlers /\ pc[t] = "free"
    /\ mode = "idle"
    /\ Input
    /\ Go(t, "clear")
    /\ then' = [then EXCEPT ![t] = "commit"]
    /\ blame' = blame \cup (IF Starting # {} THEN {"starters"} ELSE {})
                      \cup (IF Ending # {} THEN {"overruled"} ELSE {})
    /\ UNCHANGED <<session, lock, fields, outside, buffer, sole>>

ClearBuffer(t) ==
    /\ pc[t] = "clear"
    /\ buffer' = FALSE
    /\ Enters(t, "start")
    /\ UNCHANGED <<session, then, lock, fields, outside, inputs>>

(* The second look; the loser leaves the microphone as it is. *)
Commit(t) ==
    /\ pc[t] = "commit"
    /\ then' = [then EXCEPT ![t] = "free"]
    /\ \/ mode = "idle" /\ mode' = "recording" /\ Go(t, "begin")
       \/ mode # "idle" /\ Go(t, "free") /\ UNCHANGED mode
    /\ UNCHANGED <<request, lock, fields, outside, buffer, inputs, history>>

(* begin_request *)
Begin(t) ==
    /\ pc[t] = "begin"
    /\ request' = TRUE
    /\ Go(t, "free")
    /\ UNCHANGED <<mode, then, lock, fields, outside, buffer, inputs, history>>

(* stop_ptt, toggle_handsfree, on_escape_pressed *)
Release(t) ==
    /\ t \in Handlers /\ pc[t] = "free"
    /\ mode = "recording"
    /\ mode' = "processing"
    /\ then' = [then EXCEPT ![t] = "take"]
    /\ Enters(t, "stop")
    /\ UNCHANGED <<request, lock, fields, outside, buffer, inputs>>

(* finalize_request: without a request there is nothing to drain *)
Take(t) ==
    /\ pc[t] = "take"
    /\ request' = FALSE
    /\ Go(t, IF request THEN "drain" ELSE "done")
    /\ UNCHANGED <<mode, then, lock, fields, outside, buffer, inputs, history>>

(* The audio of the recording, whoever's it is by now *)
Drain(t) ==
    /\ pc[t] = "drain"
    /\ buffer' = FALSE
    /\ Go(t, "done")
    /\ UNCHANGED <<session, then, lock, fields, outside, inputs, history>>

Done(t) ==
    /\ pc[t] = "done"
    /\ mode' = "idle"
    /\ Go(t, "free")
    /\ then' = [then EXCEPT ![t] = "free"]
    /\ UNCHANGED <<request, lock, fields, outside, buffer, inputs, history>>

(* on_escape_pressed and the sweep: a session that processes is cancelled *)
Escape(t) ==
    /\ t \in Handlers /\ pc[t] = "free"
    /\ mode = "processing"
    /\ Input
    /\ Go(t, "cancel")
    /\ then' = [then EXCEPT ![t] = "cancelled"]
    /\ UNCHANGED <<session, lock, fields, outside, buffer, history>>

(* cancel, reset_stranded_processing: Idle at once, whatever it is by now, *)
(* then the microphone, the buffer and the request                         *)
Cancel(t) ==
    /\ pc[t] = "cancel"
    /\ mode' = "idle"
    /\ Enters(t, "stop")
    /\ UNCHANGED <<request, then, lock, fields, outside, buffer, inputs>>

Wipe(t) ==
    /\ pc[t] = "wipe"
    /\ buffer' = FALSE
    /\ Go(t, "void")
    /\ UNCHANGED <<session, then, lock, fields, outside, inputs, history>>

Void(t) ==
    /\ pc[t] = "void"
    /\ request' = FALSE
    /\ Go(t, "free")
    /\ then' = [then EXCEPT ![t] = "free"]
    /\ UNCHANGED <<mode, lock, fields, outside, buffer, inputs, history>>

-----------------------------------------------------------------------------
(* AudioCapture::start *)

StartSeesRunning(t) ==
    /\ pc[t] = "start"
    /\ Go(t, IF running THEN then[t] ELSE "flag")
    /\ UNCHANGED <<session, then, lock, fields, outside, buffer, inputs, history>>

(* A failed device is closed first *)
StartSeesFlag(t) ==
    /\ pc[t] = "flag"
    /\ Go(t, IF disconnected THEN "close" ELSE "lock")
    /\ UNCHANGED <<session, then, lock, fields, outside, buffer, inputs, history>>

(* Mutant: a stream is opened on an empty buffer. *)
LockStreamClears(t) ==
    /\ pc[t] = "lock"
    /\ lock = None /\ ~callback
    /\ lock' = t
    /\ stream' = None
    /\ buffer' = FALSE
    /\ Go(t, "open")
    /\ UNCHANGED <<session, then, live, running, disconnected, outside, inputs, history>>

(* open_new_stream: the lock, which it keeps, and a leftover is dropped.   *)
(* Dropping a stream waits for its callback.                               *)
LockStream(t) ==
    /\ pc[t] = "lock"
    /\ lock = None /\ ~callback
    /\ lock' = t
    /\ stream' = None
    /\ Go(t, "open")
    /\ UNCHANGED <<session, then, live, running, disconnected, outside, buffer, inputs, history>>

(* No device, or one that cannot be opened: a press ends, a reopening is   *)
(* given up.                                                               *)
OpenFails(t) ==
    /\ pc[t] = "open"
    /\ IF device = Absent THEN UNCHANGED inputs ELSE Input
    /\ lock' = None
    /\ Go(t, "free")
    /\ then' = [then EXCEPT ![t] = "free"]
    /\ blame' = IF then[t] = "commit" THEN blame ELSE blame \cup {"gaveUp"}
    /\ UNCHANGED <<session, fields, outside, buffer, sole>>

(* resolve_input_device, build_input_stream, play: from here it can fail *)
Play(t) ==
    /\ pc[t] = "open"
    /\ device # Absent
    /\ stream' = [on |-> device, ok |-> TRUE]
    /\ Go(t, "identify")
    /\ UNCHANGED <<session, then, lock, live, running, disconnected, outside, buffer, inputs, history>>

(* current_mic_identity: of what a fresh open would take now *)
Identify(t) ==
    /\ pc[t] = "identify"
    /\ live' = device
    /\ Go(t, "run")
    /\ UNCHANGED <<session, then, lock, stream, running, disconnected, outside, buffer, inputs, history>>

SetRunning(t) ==
    /\ pc[t] = "run"
    /\ running' = TRUE
    /\ Go(t, "settle")
    /\ UNCHANGED <<session, then, lock, stream, live, disconnected, outside, buffer, inputs, history>>

ClearFlag(t) ==
    /\ pc[t] = "settle"
    /\ disconnected' = FALSE
    /\ lock' = None
    /\ Go(t, then[t])
    /\ blame' = blame \cup (IF stream # None /\ ~stream.ok THEN {"unheard"} ELSE {})
    /\ UNCHANGED <<session, then, stream, live, running, outside, buffer, inputs, sole>>

-----------------------------------------------------------------------------
(* force_close, try_recover_device and restart *)

CloseStream(t) ==
    /\ pc[t] = "close"
    /\ lock = None /\ ~callback
    /\ stream' = None
    /\ Go(t, "closeLive")
    /\ UNCHANGED <<session, then, lock, live, running, disconnected, outside, buffer, inputs, history>>

CloseLive(t) ==
    /\ pc[t] = "closeLive"
    /\ live' = None
    /\ Go(t, "closeRunning")
    /\ UNCHANGED <<session, then, lock, stream, running, disconnected, outside, buffer, inputs, history>>

CloseRunning(t) ==
    /\ pc[t] = "closeRunning"
    /\ running' = FALSE
    /\ Go(t, "closeFlag")
    /\ UNCHANGED <<session, then, lock, stream, live, disconnected, outside, buffer, inputs, history>>

(* A press goes on to open; a reopening to start, if it ran before *)
CloseFlag(t) ==
    /\ pc[t] = "closeFlag"
    /\ disconnected' = FALSE
    /\ Go(t, IF then[t] = "commit" THEN "lock" ELSE then[t])
    /\ then' = [then EXCEPT ![t] = IF @ = "commit" THEN @ ELSE "free"]
    /\ blame' = Left(t) \cup (IF then[t] = "free" THEN {"dropped"} ELSE {})
    /\ UNCHANGED <<session, lock, stream, live, running, outside, buffer, inputs, sole>>

(* try_recover_device: the flag, once more *)
Recover(t) ==
    /\ pc[t] = "recover"
    /\ \/ disconnected /\ then' = [then EXCEPT ![t] = "start"] /\ Go(t, "close")
       \/ ~disconnected /\ Go(t, "free") /\ UNCHANGED then
    /\ UNCHANGED <<session, lock, fields, outside, buffer, inputs, history>>

(* restart: what runs is closed and opened again *)
Restart(t) ==
    /\ pc[t] = "restart"
    /\ then' = [then EXCEPT ![t] = IF running THEN "start" ELSE "free"]
    /\ Go(t, "close")
    /\ UNCHANGED <<session, lock, fields, outside, buffer, inputs, history>>

-----------------------------------------------------------------------------
(* AudioCapture::stop *)

(* Mutant: the microphone stays on for the next press. *)
StopParks(t) ==
    /\ pc[t] = "stop"
    /\ Go(t, IF then[t] = "cancelled" THEN "wipe" ELSE "take")
    /\ UNCHANGED <<session, then, lock, fields, outside, buffer, inputs, history>>

StopRunning(t) ==
    /\ pc[t] = "stop"
    /\ running' = FALSE
    /\ Go(t, "stopLive")
    /\ UNCHANGED <<session, then, lock, stream, live, disconnected, outside, buffer, inputs, history>>

(* Mutant: the identity of the last device is left behind. *)
StopKeepsLive(t) ==
    /\ pc[t] = "stopLive"
    /\ Go(t, "stopStream")
    /\ UNCHANGED <<session, then, lock, fields, outside, buffer, inputs, history>>

StopLive(t) ==
    /\ pc[t] = "stopLive"
    /\ live' = None
    /\ Go(t, "stopStream")
    /\ UNCHANGED <<session, then, lock, stream, running, disconnected, outside, buffer, inputs, history>>

StopStream(t) ==
    /\ pc[t] = "stopStream"
    /\ lock = None /\ ~callback
    /\ stream' = None
    /\ Go(t, IF then[t] = "cancelled" THEN "wipe" ELSE "take")
    /\ blame' = IF mode = "recording" THEN blame ELSE Left(t)
    /\ UNCHANGED <<session, then, lock, live, running, disconnected, outside, buffer, inputs, sole>>

-----------------------------------------------------------------------------
(* The sweep and the settings *)

(* recover_live_capture_device: a recording's device *)
SweepLooks ==
    /\ pc[Sweep] = "free"
    /\ mode = "recording"
    /\ Go(Sweep, "seeFlag")
    /\ UNCHANGED <<session, then, lock, fields, outside, buffer, inputs, history>>

(* Mutant: only a device that moved is replaced. *)
SeeFlagSkips ==
    /\ pc[Sweep] = "seeFlag"
    /\ Go(Sweep, "seeLive")
    /\ UNCHANGED <<session, then, lock, fields, outside, buffer, inputs, history>>

SeeFlag ==
    /\ pc[Sweep] = "seeFlag"
    /\ \/ disconnected /\ Enters(Sweep, "recover")
       \/ ~disconnected /\ Go(Sweep, "seeLive") /\ UNCHANGED history
    /\ UNCHANGED <<session, then, lock, fields, outside, buffer, inputs>>

(* live_device_stale *)
Stale == live # None /\ live # device

SeeLive ==
    /\ pc[Sweep] = "seeLive"
    /\ \/ Stale /\ Enters(Sweep, "restart")
       \/ ~Stale /\ Go(Sweep, "free") /\ UNCHANGED history
    /\ UNCHANGED <<session, then, lock, fields, outside, buffer, inputs>>

(* reload, set_voice_input_device, persist_fallback_for_value *)
Reload ==
    /\ pc[Settings] = "free"
    /\ running
    /\ Input
    /\ Enters(Settings, "restart")
    /\ UNCHANGED <<session, then, lock, fields, outside, buffer>>

-----------------------------------------------------------------------------
Start(t) ==
    \/ StartSeesRunning(t) \/ StartSeesFlag(t)
    \/ LockStream(t) \/ OpenFails(t) \/ Play(t) \/ Identify(t) \/ SetRunning(t) \/ ClearFlag(t)

ForceClose(t) == CloseStream(t) \/ CloseLive(t) \/ CloseRunning(t) \/ CloseFlag(t)

Stop(t) == StopRunning(t) \/ StopLive(t) \/ StopStream(t)

Work(t) ==
    \/ ClearBuffer(t) \/ Commit(t) \/ Begin(t) \/ Take(t) \/ Drain(t) \/ Done(t)
    \/ Cancel(t) \/ Wipe(t) \/ Void(t)
    \/ Start(t) \/ ForceClose(t) \/ Recover(t) \/ Restart(t) \/ Stop(t)

SweepStep == SweepLooks \/ SeeFlag \/ SeeLive

Next ==
    \/ StreamFails \/ CallbackEnds \/ DeviceMoves \/ Hear
    \/ \E t \in Handlers : Press(t) \/ Release(t) \/ Escape(t)
    \/ \E t \in Threads : Work(t)
    \/ SweepStep
    \/ Reload

(* Every thread goes on, and the sweep comes again and again; the user,    *)
(* the devices and the settings owe nothing.                               *)
Fairness ==
    /\ WF_vars(CallbackEnds)
    /\ \A t \in Threads : WF_vars(Work(t))
    /\ WF_vars(SweepStep)

Spec == Init /\ [][Next]_vars
FairSpec == Spec /\ Fairness

-----------------------------------------------------------------------------
Steps == Aside \cup Looking \cup
    {"start", "flag", "lock", "open", "identify", "run", "settle", "stop", "stopLive",
     "stopStream", "close", "closeLive", "closeRunning", "closeFlag", "recover", "restart"}

(* The types, and the stream's lock is held by the thread that opens. *)
TypeOK ==
    /\ mode \in {"idle", "recording", "processing"}
    /\ pc \in [Threads -> Steps]
    /\ then \in [Threads -> {"free", "commit", "take", "cancelled", "start"}]
    /\ \A t \in Threads : lock = t <=> pc[t] \in {"open", "identify", "run", "settle"}
    /\ stream = None \/ stream \in Streams
    /\ live \in Devices \cup {None, Absent}
    /\ {request, running, disconnected, callback, buffer} \subseteq BOOLEAN
    /\ device \in Devices \cup {Absent}
    /\ sole \in Threads \cup {None} /\ blame \subseteq Causes

Quiet == (\A t \in Threads : pc[t] \in {"free"} \cup Looking) /\ ~callback

Works == stream # None /\ stream.ok /\ running

(* Between operations the four fields tell the same story: what stream     *)
(* there is, on which device, and whether it works -- unless two           *)
(* operations overlapped since the last close (stop and open_new_stream,   *)
(* each under several locks).                                              *)
FieldsAgree ==
    Quiet /\ "clash" \notin blame =>
        /\ "unheard" \notin blame => (stream = None <=> live = None)
        /\ running => stream # None
        /\ (stream # None /\ stream.ok) => running
        /\ (stream # None /\ "moved" \notin blame) => live = stream.on

(* A recording that hears nothing is known to the sweep: a stream that     *)
(* failed has its flag up.  Not so when the open overwrote the flag, when  *)
(* a reopening failed or a restart found the stream just failed, both of   *)
(* which clear the flag (session.rs and device_monitor.rs trust the sweep  *)
(* to try again), or when a start or stop of another session interfered.   *)
DeadAirNoticed ==
    Quiet /\ mode = "recording" /\ ~Works =>
        disconnected \/ blame \cap {"unheard", "gaveUp", "dropped", "starters", "overruled", "clash"} # {}

(* "The system mic indicator is on only while genuinely recording" (stop,  *)
(* capture.rs), unless a start lost its race, the thread of a session that *)
(* was cancelled returned the mode to Idle, or a reopening came late.      *)
ClosedWhenIdle ==
    Quiet /\ mode = "idle" /\ stream # None =>
        blame \cap {"starters", "overruled", "clash", "late"} # {}

(* A recording loses no audio before its end: "the frame buffer outlives   *)
(* the stream" (session.rs); only another start, or the end of a session   *)
(* that was cancelled and is still under way, clears it.                   *)
AudioKept ==
    [][mode = "recording" /\ buffer /\ ~buffer' =>
          blame \cap {"starters", "overruled"} # {}]_vars

(* A device that fails or moves is replaced: the recording hears again, or *)
(* ends, unless the reopening failed or one of the other causes holds.     *)
RecordingRecovers ==
    (mode = "recording" /\ ~Works) ~> (Works \/ mode # "recording" \/ blame # {})
===============================================================================
