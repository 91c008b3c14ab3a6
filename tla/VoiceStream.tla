------------------------------ MODULE VoiceStream ------------------------------
(***************************************************************************)
(* Streaming a recording to the voice worker.                              *)
(*                                                                         *)
(* While a session records, a forwarder thread (voice/session.rs) polls    *)
(* the capture buffer and appends what is new to the worker; the stop path *)
(* joins it, appends the tail and asks for the transcript.  All of them    *)
(* share one WorkerClient (voice/worker_client.rs), whose mutex is held    *)
(* for a whole round trip, and which keeps, rebinds, drops or respawns the *)
(* worker process (voice/worker.rs) at the other end of a pipe.  The       *)
(* worker may be slow, crash, be switched to another model or be killed    *)
(* for the sake of another session.                                        *)
(***************************************************************************)
EXTENDS Naturals, FiniteSets, SequencesExt

CONSTANTS Sessions,    \* recordings, by their request id
          Models,      \* the models that can be configured
          None,        \* no model, no session, no outcome
          Failed,      \* outcome: an error
          Skipped,     \* outcome: too short or too quiet, nothing is decoded
          MaxSamples,  \* bound: samples of each recording
          MaxFaults    \* bound: round trips the worker is too slow for, crashes
                       \* and changes of the model together

ASSUME StreamAssumption ==
    /\ Models # {}
    /\ None \notin Sessions \cup Models
    /\ {"fresh", "stale"} \cap Sessions = {}
    /\ None # Failed /\ None # Skipped /\ Failed # Skipped
    /\ MaxSamples \in [Sessions -> Nat]
    /\ MaxFaults \in Nat

Samples == UNION {{s} \X (1..MaxSamples[s]) : s \in Sessions}

(* A call on the client: who makes it, on whose behalf, the operation (that *)
(* of the frame once it is out), its body                                   *)
CallType == [by      : {"forwarder", "stop", "discard", "unload", "settings"},
             session : Sessions \cup {None},
             op      : {"ensure", "ping", "hello", "append", "transcribe", "unload", "shutdown"},
             body    : Seq(Samples)]

(* None, Failed and Skipped are no text, and None is no call. *)
ASSUME NoneAssumption ==
    /\ {None, Failed, Skipped} \cap Seq(Samples) = {}
    /\ None \notin CallType

VARIABLES
    setting,    \* model_name
    switching,  \* set_model_name has changed it and not yet shut the worker down
    recording,  \* the session that owns the microphone, or None
    target,     \* each session's snapshot of the model
    buffer,     \* the capture buffer
    captured,   \* history: how many samples each session recorded
    forwarder,  \* each chunk forwarder: where it is, the length and chunk it took
    alive, sent,\* StreamProgress
    stop,       \* each stop path: where it is, and the drained audio
    discard,    \* each discard thread
    client,     \* the call that holds the client's mutex, or None
    link,       \* Inner: whether there is a stream, and for which model
    requests, replies, \* the pipe
    worker,     \* the worker: whether it lives, its model, its audio buffers
    outcome,    \* what became of each session
    faults,     \* counts towards MaxFaults
    lost,       \* history: sessions whose streamed audio died with a worker
    raced       \* history: sessions of which a chunk was taken while it grew

audioVars == <<recording, target, buffer, captured>>
streamVars == <<forwarder, alive, sent, stop, discard, outcome>>
pipeVars == <<link, requests, replies, worker, lost>>
vars == <<setting, switching, audioVars, streamVars, client, pipeVars, faults, raced>>

Forwarding(at) == [at |-> at, len |-> 0, chunk |-> <<>>]
Stopping(at) == [at |-> at, audio |-> <<>>]
NoAudio == [s \in Sessions |-> <<>>]
Dead == [alive |-> FALSE, model |-> None, audio |-> NoAudio]
Down == [up |-> FALSE, model |-> None]

Init ==
    /\ setting = CHOOSE m \in Models : TRUE
    /\ switching = FALSE
    /\ recording = None
    /\ target = [s \in Sessions |-> None]
    /\ buffer = <<>>
    /\ captured = [s \in Sessions |-> 0]
    /\ forwarder = [s \in Sessions |-> Forwarding("none")]
    /\ alive = [s \in Sessions |-> FALSE]
    /\ sent = [s \in Sessions |-> 0]
    /\ stop = [s \in Sessions |-> Stopping("none")]
    /\ discard = [s \in Sessions |-> "none"]
    /\ client = None
    /\ link = Down
    /\ requests = <<>>
    /\ replies = <<>>
    /\ worker = Dead
    /\ outcome = [s \in Sessions |-> None]
    /\ faults = 0
    /\ lost = {}
    /\ raced = {}

Fault ==
    /\ faults < MaxFaults
    /\ faults' = faults + 1

(* What session s recorded *)
Recorded(s) == [i \in 1..captured[s] |-> <<s, i>>]

-----------------------------------------------------------------------------
(* The worker process comes and goes *)

(* The sessions that lose audio when the worker goes: a session that has   *)
(* its outcome does not need it any more.                                  *)
Losing == {s \in Sessions : worker.audio[s] # <<>> /\ outcome[s] = None}

(* Mutant: the child is left running. *)
DropSpares ==
    /\ link' = Down
    /\ requests' = <<>>
    /\ replies' = <<>>
    /\ UNCHANGED <<worker, lost>>

(* drop_locked: the stream is closed and the child killed *)
Drop ==
    /\ link' = Down
    /\ worker' = Dead
    /\ requests' = <<>>
    /\ replies' = <<>>
    /\ lost' = lost \cup Losing

(* spawn_and_connect, with the handshake that names the model; whatever    *)
(* worker there was has been dropped                                       *)
Spawn(model) ==
    /\ link' = [up |-> TRUE, model |-> model]
    /\ worker' = [alive |-> TRUE, model |-> model, audio |-> NoAudio]
    /\ requests' = <<>>
    /\ replies' = <<>>
    /\ lost' = lost \cup Losing

(* warm_up: a worker without a model, spawned at startup *)
WarmUp ==
    /\ client = None
    /\ ~link.up
    /\ \A s \in Sessions : target[s] = None
    /\ Spawn(None)
    /\ UNCHANGED <<setting, switching, audioVars, streamVars, client, faults, raced>>

WorkerCrashes ==
    /\ worker.alive
    /\ Fault
    /\ worker' = Dead
    /\ requests' = <<>>
    /\ lost' = lost \cup Losing
    /\ UNCHANGED <<setting, switching, audioVars, streamVars, client, link, replies, raced>>

-----------------------------------------------------------------------------
(* What the callers do with the result of a call *)

(* A call returned: the forwarder goes on or ends, the stop path goes on   *)
(* or reports the error, the discard thread ends.                          *)
Returns(c, ok, text) ==
    LET s == c.session
    IN  CASE c.by = "forwarder" ->
               /\ forwarder' = [forwarder EXCEPT ![s] = Forwarding(IF ok THEN "top" ELSE "done")]
               /\ sent' = IF ok /\ c.op = "append"
                          THEN [sent EXCEPT ![s] = forwarder[s].len] ELSE sent
               /\ UNCHANGED <<alive, stop, discard, outcome>>
          [] c.by = "stop" ->
               /\ stop' = [stop EXCEPT ![s] =
                              IF ~ok \/ c.op = "transcribe" THEN Stopping("done")
                              ELSE IF c.op = "ensure" /\ sent[s] < Len(@.audio)
                                   THEN [@ EXCEPT !.at = "tail"]
                              ELSE Stopping("transcribe")]
               /\ outcome' = [outcome EXCEPT ![s] = IF ~ok THEN Failed
                                                    ELSE IF c.op = "transcribe" THEN text ELSE @]
               /\ UNCHANGED <<forwarder, alive, sent, discard>>
          [] c.by = "discard" ->
               /\ discard' = [discard EXCEPT ![s] = "done"]
               /\ UNCHANGED <<forwarder, alive, sent, stop, outcome>>
          [] OTHER -> UNCHANGED streamVars

(* spawn_and_connect may fail; the call of ensure_worker fails with it *)
Respawn(c) ==
    \/ /\ Spawn(target[c.session])
       /\ Returns(c, TRUE, None)
    \/ /\ Drop
       /\ Returns(c, FALSE, None)

-----------------------------------------------------------------------------
(* Round trips *)

(* What a thread calls next: who, on whose behalf, the operation, its body *)
Call(by, s, op, body) == [by |-> by, session |-> s, op |-> op, body |-> body]

Calls ==
    {Call("forwarder", s, "ensure", <<>>) : s \in {r \in Sessions : forwarder[r].at = "ensure"}}
    \cup {Call("forwarder", s, "append", forwarder[s].chunk) :
             s \in {r \in Sessions : forwarder[r].at = "send"}}
    \cup {Call("stop", s, "ensure", <<>>) : s \in {r \in Sessions : stop[r].at = "ensure"}}
    \cup {Call("stop", s, "append", SubSeq(stop[s].audio, sent[s] + 1, Len(stop[s].audio))) :
             s \in {r \in Sessions : stop[r].at = "tail"}}
    \cup {Call("stop", s, "transcribe", <<>>) :
             s \in {r \in Sessions : stop[r].at = "transcribe"}}
    \cup {Call("discard", s, "transcribe", <<>>) :
             s \in {r \in Sessions : discard[r] = "want"}}

(* append and transcribe carry the session's id, the others a fresh one,   *)
(* which turns "stale" when the client stops waiting for its answer.       *)
IdOf(c) == IF c.op \in {"append", "transcribe"} THEN c.session ELSE "fresh"

(* The frame goes out, to nobody if the worker is gone; the mutex stays    *)
(* held.                                                                   *)
Send(c, op, body) ==
    /\ client' = [c EXCEPT !.op = op]
    /\ requests' = IF worker.alive
                   THEN Append(requests, [op |-> op, id |-> IdOf(c), body |-> body])
                   ELSE requests
    /\ UNCHANGED <<streamVars, link, replies, worker, lost>>

(* ensure_worker: ping the worker that has the model, bind it to one that  *)
(* has none, else drop what is there and spawn                             *)
EnsureWorker(c) ==
    LET model == target[c.session]
    IN  CASE link.up /\ link.model = model -> Send(c, "ping", <<>>)
          [] link.up /\ link.model = None  -> Send(c, "hello", model)
          [] OTHER                         -> Respawn(c) /\ UNCHANGED client

(* append, transcribe *)
OnStream(c) ==
    IF link.up THEN Send(c, c.op, c.body)
    ELSE /\ Returns(c, FALSE, None)
         /\ UNCHANGED <<client, pipeVars>>

Begin(c) ==
    /\ client = None
    /\ c \in Calls
    /\ IF c.op = "ensure" THEN EnsureWorker(c) ELSE OnStream(c)
    /\ UNCHANGED <<setting, switching, audioVars, faults, raced>>

(* unload_model, by a pause or by the sweep once nothing records *)
BeginUnload ==
    /\ client = None
    /\ link.up
    /\ Send(Call("unload", None, "unload", <<>>), "unload", <<>>)
    /\ UNCHANGED <<setting, switching, audioVars, faults, raced>>

(* set_model_name: the setting, then shutdown *)
SwitchModel ==
    /\ ~switching
    /\ Fault
    /\ setting' \in Models \ {setting}
    /\ switching' = TRUE
    /\ UNCHANGED <<audioVars, streamVars, client, pipeVars, raced>>

BeginShutdown ==
    /\ switching
    /\ client = None
    /\ switching' = FALSE
    /\ IF link.up THEN Send(Call("settings", None, "shutdown", <<>>), "shutdown", <<>>)
       ELSE UNCHANGED <<streamVars, client, pipeVars>>
    /\ UNCHANGED <<setting, audioVars, faults, raced>>

(* Mutant: the reply that comes next is taken for the answer. *)
AnyReply(r) == TRUE

(* transact skips a reply to another request *)
Answers(r) == r.id = IdOf(client)

(* A ping or an unload that times out keeps the worker: it is busy *)
KeepsOnTimeout(c) == c.op \in {"ping", "unload"}

SkipStale ==
    /\ client # None
    /\ replies # <<>> /\ ~Answers(Head(replies))
    /\ replies' = Tail(replies)
    /\ UNCHANGED <<setting, switching, audioVars, streamVars, client, link, requests, worker, lost,
                   faults, raced>>

(* The answer: a worker that said hello has the model *)
Answer ==
    /\ client # None
    /\ replies # <<>> /\ Answers(Head(replies))
    /\ replies' = Tail(replies)
    /\ link' = IF client.op = "hello" THEN [link EXCEPT !.model = target[client.session]] ELSE link
    /\ Returns([client EXCEPT !.op = IF @ \in {"ping", "hello"} THEN "ensure" ELSE @], TRUE,
               Head(replies).text)
    /\ client' = None
    /\ UNCHANGED <<setting, switching, audioVars, requests, worker, lost, faults, raced>>

(* Nothing comes: an ensure respawns, an append or a transcribe drops the  *)
(* worker and fails, an unload lets it be, a shutdown drops it             *)
GiveUp ==
    CASE client.op \in {"ping", "hello"} -> Respawn([client EXCEPT !.op = "ensure"])
      [] client.op = "unload" -> UNCHANGED <<streamVars, pipeVars>>
      [] OTHER -> Drop /\ Returns(client, FALSE, None)

(* The pipe is closed: the worker has exited and all it said is read *)
Closed ==
    /\ client # None
    /\ ~worker.alive /\ replies = <<>>
    /\ GiveUp
    /\ client' = None
    /\ UNCHANGED <<setting, switching, audioVars, faults, raced>>

Stale(frames) == [i \in DOMAIN frames |->
                     IF frames[i].id = "fresh" THEN [frames[i] EXCEPT !.id = "stale"]
                     ELSE frames[i]]

(* The request is neither in the pipe nor answered: it is never going to be *)
Unanswerable ==
    /\ worker.alive
    /\ \A f \in Range(requests) \cup Range(replies) : f.id # IdOf(client)

(* Mutant: a round trip has no budget of its own. *)
OnlyTooSlow == Fault

(* The budget of the round trip ends; it must when no answer can come *)
BudgetEnds ==
    IF Unanswerable THEN UNCHANGED faults
    ELSE Fault

TimesOut ==
    /\ client # None
    /\ BudgetEnds
    /\ IF KeepsOnTimeout(client)
       THEN /\ requests' = Stale(requests)
            /\ replies' = Stale(replies)
            /\ Returns([client EXCEPT !.op = IF @ = "ping" THEN "ensure" ELSE @],
                       client.op # "append", None)
            /\ UNCHANGED <<link, worker, lost>>
       ELSE GiveUp
    /\ client' = None
    /\ UNCHANGED <<setting, switching, audioVars, raced>>

-----------------------------------------------------------------------------
(* The worker *)

(* handle_frame; a shutdown is not answered: the worker exits *)
Handled(r) ==
    CASE r.op = "hello"  -> [worker EXCEPT !.model = r.body]
      [] r.op = "append" -> [worker EXCEPT !.audio[r.id] = @ \o r.body]
      [] r.op = "transcribe" -> [worker EXCEPT !.audio[r.id] = <<>>]
      [] r.op = "shutdown" -> Dead
      [] OTHER -> worker

Reply(r) == [id |-> r.id, text |-> IF r.op = "transcribe" THEN worker.audio[r.id] ELSE None]

(* read_frame: a read takes some or all of what the pipe holds; what it    *)
(* took after the first frame goes with the local buffer.                  *)
WorkerServes ==
    /\ worker.alive
    /\ requests # <<>>
    /\ LET r == Head(requests)
       IN  /\ \E n \in 1..Len(requests) :
                  requests' = IF r.op = "shutdown" THEN <<>>
                              ELSE SubSeq(requests, n + 1, Len(requests))
           /\ worker' = Handled(r)
           /\ replies' = IF r.op = "shutdown" THEN replies ELSE Append(replies, Reply(r))
           /\ lost' = IF r.op = "shutdown" THEN lost \cup Losing ELSE lost
    /\ UNCHANGED <<setting, switching, audioVars, streamVars, client, link, faults, raced>>

(* A read that ended inside the next frame leaves the rest of it for the   *)
(* next read, which rejects it; the worker exits.                          *)
WorkerMisreads ==
    /\ worker.alive
    /\ Len(requests) > 1
    /\ Head(requests).op # "shutdown"
    /\ requests' = <<>>
    /\ worker' = Dead
    /\ replies' = Append(replies, Reply(Head(requests)))
    /\ lost' = lost \cup Losing
    /\ UNCHANGED <<setting, switching, audioVars, streamVars, client, link, faults, raced>>

-----------------------------------------------------------------------------
(* A recording *)

Ended(s) == outcome[s] # None

(* Mutant: a press is taken while the last recording is being processed. *)
StartEarly(s) ==
    /\ recording = None
    /\ target[s] = None
    /\ recording' = s
    /\ target' = [target EXCEPT ![s] = setting]
    /\ buffer' = <<>>
    /\ forwarder' = [forwarder EXCEPT ![s].at = "ensure"]
    /\ alive' = [alive EXCEPT ![s] = TRUE]
    /\ UNCHANGED <<setting, switching, captured, sent, stop, discard, outcome, client, pipeVars,
                   faults, raced>>

(* A press, in Idle: the microphone opens on an empty buffer, the          *)
(* forwarder starts.  A cancel is back in Idle before it has joined.       *)
Start(s) ==
    /\ recording = None
    /\ target[s] = None
    /\ \A r \in Sessions : target[r] # None => (Ended(r) \/ discard[r] # "none")
    /\ recording' = s
    /\ target' = [target EXCEPT ![s] = setting]
    /\ buffer' = <<>>
    /\ forwarder' = [forwarder EXCEPT ![s].at = "ensure"]
    /\ alive' = [alive EXCEPT ![s] = TRUE]
    /\ UNCHANGED <<setting, switching, captured, sent, stop, discard, outcome, client, pipeVars,
                   faults, raced>>

(* The audio callback *)
Capture(s) ==
    /\ recording = s
    /\ captured[s] < MaxSamples[s]
    /\ captured' = [captured EXCEPT ![s] = @ + 1]
    /\ buffer' = Append(buffer, <<s, captured[s] + 1>>)
    /\ UNCHANGED <<setting, switching, recording, target, streamVars, client, pipeVars, faults,
                   raced>>

(* The forwarder: is the request alive, is there more than was sent? *)
Poll(s) ==
    /\ forwarder[s].at = "top"
    /\ IF alive[s]
       THEN /\ Len(buffer) > sent[s]
            /\ forwarder' = [forwarder EXCEPT ![s].at = "peek", ![s].len = Len(buffer)]
       ELSE forwarder' = [forwarder EXCEPT ![s] = Forwarding("done")]
    /\ UNCHANGED <<setting, switching, audioVars, alive, sent, stop, discard, outcome, client,
                   pipeVars, faults, raced>>

(* peek_tail(len - sent): the last samples of what the buffer holds now *)
Peek(s) ==
    /\ forwarder[s].at = "peek"
    /\ LET n == forwarder[s].len - sent[s]
           first == IF Len(buffer) > n THEN Len(buffer) - n + 1 ELSE 1
       IN  forwarder' = [forwarder EXCEPT ![s].at = "send",
                                          ![s].chunk = SubSeq(buffer, first, Len(buffer))]
    /\ raced' = IF Len(buffer) # forwarder[s].len THEN raced \cup {s} ELSE raced
    /\ UNCHANGED <<setting, switching, audioVars, alive, sent, stop, discard, outcome, client,
                   pipeVars, faults>>

(* A tap: less than MIN_SAMPLES_COUNT was recorded; nobody joins *)
StopTap(s) ==
    /\ recording = s
    /\ buffer = <<>>
    /\ recording' = None
    /\ alive' = [alive EXCEPT ![s] = FALSE]
    /\ outcome' = [outcome EXCEPT ![s] = Skipped]
    /\ UNCHANGED <<setting, switching, target, buffer, captured, forwarder, sent, stop, discard,
                   client, pipeVars, faults, raced>>

(* The microphone closes and the forwarder is told to end ... *)
Stop(s) ==
    /\ recording = s
    /\ buffer # <<>>
    /\ recording' = None
    /\ alive' = [alive EXCEPT ![s] = FALSE]
    /\ stop' = [stop EXCEPT ![s].at = "join"]
    /\ UNCHANGED <<setting, switching, target, buffer, captured, forwarder, sent, discard, outcome,
                   client, pipeVars, faults, raced>>

(* ... it has, and the buffer is drained; quiet audio is not decoded *)
Drain(s) ==
    /\ stop[s].at = "join"
    /\ forwarder[s].at = "done"
    /\ buffer' = <<>>
    /\ \/ /\ stop' = [stop EXCEPT ![s] = [at |-> "ensure", audio |-> buffer]]
          /\ UNCHANGED outcome
       \/ /\ stop' = [stop EXCEPT ![s].at = "done"]
          /\ outcome' = [outcome EXCEPT ![s] = Skipped]
    /\ UNCHANGED <<setting, switching, recording, target, captured, forwarder, alive, sent, discard,
                   client, pipeVars, faults, raced>>

(* Escape: the microphone closes, the audio is dropped, and once the       *)
(* forwarder is joined a thread has the worker forget what it was sent.    *)
Cancel(s) ==
    /\ recording = s
    /\ recording' = None
    /\ buffer' = <<>>
    /\ alive' = [alive EXCEPT ![s] = FALSE]
    /\ discard' = [discard EXCEPT ![s] = "join"]
    /\ UNCHANGED <<setting, switching, target, captured, forwarder, sent, stop, outcome, client,
                   pipeVars, faults, raced>>

(* Mutant: nobody tells the worker. *)
DiscardNothing(s) ==
    /\ discard[s] = "join"
    /\ forwarder[s].at = "done"
    /\ discard' = [discard EXCEPT ![s] = "done"]
    /\ outcome' = [outcome EXCEPT ![s] = Failed]
    /\ UNCHANGED <<setting, switching, audioVars, forwarder, alive, sent, stop, client, pipeVars,
                   faults, raced>>

Discard(s) ==
    /\ discard[s] = "join"
    /\ forwarder[s].at = "done"
    /\ discard' = [discard EXCEPT ![s] = "want"]
    /\ outcome' = [outcome EXCEPT ![s] = Failed]
    /\ UNCHANGED <<setting, switching, audioVars, forwarder, alive, sent, stop, client, pipeVars,
                   faults, raced>>

-----------------------------------------------------------------------------
ClientStep ==
    \/ \E c \in Calls : Begin(c)
    \/ SkipStale \/ Answer \/ Closed \/ TimesOut

SessionStep(s) == Poll(s) \/ Peek(s) \/ Drain(s) \/ Discard(s)

Next ==
    \/ WarmUp \/ WorkerCrashes \/ WorkerServes \/ WorkerMisreads
    \/ ClientStep
    \/ BeginUnload \/ SwitchModel \/ BeginShutdown
    \/ \E s \in Sessions :
           \/ Start(s) \/ Capture(s)
           \/ StopTap(s) \/ Stop(s) \/ Cancel(s)
           \/ SessionStep(s)

(* Threads go on, the mutex is granted to every call in the end, and the   *)
(* worker serves while it lives; the user, the settings, an unload and a   *)
(* crash owe nothing.                                                      *)
Fairness ==
    /\ WF_vars(WorkerServes \/ WorkerMisreads)
    /\ WF_vars(SkipStale \/ Answer \/ Closed)
    /\ WF_vars(client # None /\ Unanswerable /\ TimesOut)
    /\ WF_vars(BeginShutdown)
    /\ \A s \in Sessions :
           /\ WF_vars(SessionStep(s))
           /\ SF_vars(\E c \in Calls : c.session = s /\ Begin(c))

Spec == Init /\ [][Next]_vars
FairSpec == Spec /\ Fairness

-----------------------------------------------------------------------------
TypeOK ==
    /\ setting \in Models /\ switching \in BOOLEAN
    /\ recording \in Sessions \cup {None}
    /\ target \in [Sessions -> Models \cup {None}]
    /\ Range(buffer) \subseteq Samples
    /\ \A s \in Sessions :
           /\ forwarder[s].at \in {"none", "ensure", "top", "peek", "send", "done"}
           /\ stop[s].at \in {"none", "join", "ensure", "tail", "transcribe", "done"}
           /\ discard[s] \in {"none", "join", "want", "done"}
           /\ sent[s] <= captured[s] /\ captured[s] <= MaxSamples[s]
           /\ Range(worker.audio[s]) \subseteq Samples
    /\ link \in [up : BOOLEAN, model : Models \cup {None}]
    /\ lost \subseteq Sessions /\ raced \subseteq Sessions
    /\ (~link.up => ~worker.alive /\ requests = <<>> /\ replies = <<>>)

(* What transcript a session gets is of its whole recording, each sample   *)
(* once and in order: the forwarder's chunks and the tail fit together     *)
(* (session.rs), a stale reply is never taken for an acknowledgement       *)
(* (worker_client.rs), and audio is acknowledged only once stored          *)
(* (worker.rs) -- unless a chunk was taken while the buffer grew, or the   *)
(* worker that had the first chunks died, was shut down or was killed on a *)
(* timeout.                                                                *)
TranscriptWholeOnlyIf ==
    \A s \in Sessions :
        outcome[s] \notin {None, Failed, Skipped} =>
            \/ outcome[s] = Recorded(s)
            \/ s \in raced
            \/ s \in lost /\ faults > 0

(* The comment over the forwarder in session.rs: joining it before reading *)
(* its progress sends the tail exactly once, never duplicated or dropped.  *)
SentExactlyOnce ==
    \A s \in Sessions :
        outcome[s] \notin {None, Failed, Skipped} => outcome[s] = Recorded(s)

(* The worker keeps audio of a session that is over only if its recording  *)
(* was skipped as a tap or as quiet: a transcript takes the audio out, a   *)
(* cancel has it taken out, and an error drops the worker.                 *)
LeftoverOnlyIfSkipped ==
    \A s \in Sessions :
        (worker.audio[s] # <<>> /\ Ended(s) /\ discard[s] # "want" /\ client = None)
            => outcome[s] = Skipped

(* Every stop path comes to an end: a transcript, an error or nothing,     *)
(* even when the worker is slow, dies, or loses a request it read along    *)
(* with another (transact's budget, worker_client.rs).                     *)
StopsReturn == <>[](\A s \in Sessions : stop[s].at \in {"none", "done"})

-----------------------------------------------------------------------------
(* How far a recording is, as Dictation sees it *)
Phase(s) ==
    IF Ended(s) THEN "ended"
    ELSE IF target[s] = None THEN "new"
    ELSE IF recording = s THEN "recording"
    ELSE IF discard[s] # "none" THEN "cancelled" ELSE "stopped"

Promise == INSTANCE Dictation WITH
    phase <- [s \in Sessions |-> Phase(s)],
    said <- captured,
    result <- outcome,
    harmed <- lost \cup raced

(* Streaming keeps what dictation promises: one recording at a time, each  *)
(* ending once, in the text of all that was said unless it came to harm,   *)
(* and in no text when it was cancelled (session.rs, worker_client.rs).    *)
KeepsPromise == Promise!Spec
==============================================================================
