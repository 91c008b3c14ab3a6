-------------------------- MODULE AudioCaptureProofs --------------------------
(***************************************************************************)
(* For any threads, devices and inputs: the stream's lock is held by the   *)
(* thread that opens it; a recording loses no audio before its end but to  *)
(* another start or to a session that was cancelled; between operations    *)
(* the fields agree, dead air is known to the sweep, and an idle session   *)
(* has no open microphone, each but for the causes that were noted.        *)
(***************************************************************************)
EXTENDS AudioCapture, TLAPS

Opening == {"start", "flag", "lock", "open", "identify", "run", "settle"}
Closing == {"close", "closeLive", "closeRunning", "closeFlag"}
Idling  == {"free", "begin", "recover", "restart"} \cup Looking

(* What a thread will do next is what its place is part of. *)
Placed(t) ==
    /\ pc[t] \in {"clear", "commit"} => then[t] = "commit"
    /\ pc[t] \in Idling => then[t] = "free"
    /\ pc[t] \in Opening => then[t] \in {"commit", "free"}
    /\ pc[t] \in Closing => then[t] \in {"commit", "free", "start"}
    /\ pc[t] \in Steps \ ({"clear", "commit"} \cup Idling \cup Opening \cup Closing)
          => then[t] \in {"take", "cancelled"}

Where == \A t \in Threads : Placed(t)

PlaceInv == TypeOK /\ Where

Excused == "starters" \in blame \/ "overruled" \in blame

(* Two starts at a time, a start beside the end of a session, a session    *)
(* beside either: each has been noted, and is until all have gone.         *)
KeptInv ==
    /\ \A t, u \in Starting : t # u => "starters" \in blame
    /\ Starting # {} /\ Ending # {} => Excused
    /\ Starting # {} /\ mode # "idle" => Excused
    /\ Ending # {} /\ mode = "recording" => Excused

LEMMA CaptureInit == Init => PlaceInv /\ KeptInv
<1> SUFFICES ASSUME Init PROVE PlaceInv /\ KeptInv
  OBVIOUS
<1>1. TypeOK
  BY CaptureAssumption DEF Init, TypeOK, Threads, Steps, Aside, Looking, Causes
<1>2. Where
  BY DEF Init, Where, Placed, Idling, Opening, Closing, Looking, Steps, Aside
<1>3. Starting = {} /\ Ending = {}
  BY DEF Init, Starting, Ending
<1> QED  BY <1>1, <1>2, <1>3 DEF PlaceInv, KeptInv

(* The devices and the audio callback leave the threads where they are. *)
LEMMA OutsideTyped ==
  ASSUME PlaceInv,
         StreamFails \/ CallbackEnds \/ DeviceMoves \/ Hear
  PROVE  PlaceInv'
<1> USE CaptureAssumption DEF PlaceInv, Where, Placed, Opening, Closing, Idling, TypeOK, Streams,
          Threads, Steps, Aside, Looking, Causes
<1>1. ASSUME StreamFails PROVE PlaceInv'
  <2>1. TypeOK'
    BY <1>1 DEF StreamFails, Input, session, fields, outside, history
  <2>2. Where'
    BY <1>1 DEF StreamFails, Input
  <2> QED  BY <2>1, <2>2
<1>2. ASSUME CallbackEnds PROVE PlaceInv'
  <2>1. TypeOK'
    BY <1>2 DEF CallbackEnds, session, fields, outside, history
  <2>2. Where'
    BY <1>2 DEF CallbackEnds
  <2> QED  BY <2>1, <2>2
<1>3. ASSUME DeviceMoves PROVE PlaceInv'
  <2>1. TypeOK'
    BY <1>3 DEF DeviceMoves, Input, session, fields, outside, history
  <2>2. Where'
    BY <1>3 DEF DeviceMoves, Input
  <2> QED  BY <2>1, <2>2
<1>4. ASSUME Hear PROVE PlaceInv'
  <2>1. TypeOK'
    BY <1>4 DEF Hear, session, fields, outside, history
  <2>2. Where'
    BY <1>4 DEF Hear
  <2> QED  BY <2>1, <2>2
<1> QED  BY <1>1, <1>2, <1>3, <1>4

(* A handler begins. *)
LEMMA HandlerTyped ==
  ASSUME PlaceInv, NEW t \in Threads,
         Press(t) \/ Release(t) \/ Escape(t)
  PROVE  PlaceInv'
<1> USE CaptureAssumption DEF PlaceInv, Where, Placed, Opening, Closing, Idling, TypeOK, Streams,
          Threads, Steps, Aside, Looking, Causes
<1>1. ASSUME Press(t) PROVE PlaceInv'
  <2>1. TypeOK'
    BY <1>1 DEF Press, Go, Input, session, fields, outside, history
  <2>2. Where'
    BY <1>1 DEF Press, Go, Input
  <2> QED  BY <2>1, <2>2
<1>2. ASSUME Release(t) PROVE PlaceInv'
  <2>1. TypeOK'
    BY <1>2 DEF Release, Go, Enters, session, fields, outside, history
  <2>2. Where'
    BY <1>2 DEF Release, Go, Enters
  <2> QED  BY <2>1, <2>2
<1>3. ASSUME Escape(t) PROVE PlaceInv'
  <2>1. TypeOK'
    BY <1>3 DEF Escape, Go, Input, session, fields, outside, history
  <2>2. Where'
    BY <1>3 DEF Escape, Go, Input
  <2> QED  BY <2>1, <2>2
<1> QED  BY <1>1, <1>2, <1>3

(* The steps of a session beside the microphone. *)
LEMMA SessionTyped ==
  ASSUME PlaceInv, NEW t \in Threads,
         ClearBuffer(t) \/ Commit(t) \/ Begin(t) \/ Take(t) \/ Drain(t) \/
         Done(t) \/ Cancel(t) \/ Wipe(t) \/ Void(t)
  PROVE  PlaceInv'
<1> USE CaptureAssumption DEF PlaceInv, Where, Placed, Opening, Closing, Idling, TypeOK, Streams,
          Threads, Steps, Aside, Looking, Causes
<1>1. ASSUME ClearBuffer(t) PROVE PlaceInv'
  <2>1. TypeOK'
    BY <1>1 DEF ClearBuffer, Go, Enters, session, fields, outside, history
  <2>2. Where'
    BY <1>1 DEF ClearBuffer, Go, Enters
  <2> QED  BY <2>1, <2>2
<1>2. ASSUME Commit(t) PROVE PlaceInv'
  <2>1. /\ pc[t] = "commit"
        /\ then' = [then EXCEPT ![t] = "free"]
        /\ UNCHANGED <<request, lock, fields, outside, buffer, inputs, history>>
    BY <1>2 DEF Commit
  <2>2. CASE Go(t, "begin") /\ mode' = "recording"
    <3>1. TypeOK'
      BY <2>1, <2>2 DEF Go, session, fields, outside, history
    <3>2. Where'
      BY <2>1, <2>2 DEF Go, session, fields, outside, history
    <3> QED  BY <3>1, <3>2
  <2>3. CASE Go(t, "free") /\ UNCHANGED mode
    <3>1. TypeOK'
      BY <2>1, <2>3 DEF Go, session, fields, outside, history
    <3>2. Where'
      BY <2>1, <2>3 DEF Go, session, fields, outside, history
    <3> QED  BY <3>1, <3>2
  <2> QED  BY <1>2, <2>2, <2>3 DEF Commit
<1>3. ASSUME Begin(t) PROVE PlaceInv'
  <2>1. TypeOK'
    BY <1>3 DEF Begin, Go, session, fields, outside, history
  <2>2. Where'
    BY <1>3 DEF Begin, Go
  <2> QED  BY <2>1, <2>2
<1>4. ASSUME Take(t) PROVE PlaceInv'
  <2>1. TypeOK'
    BY <1>4 DEF Take, Go, session, fields, outside, history
  <2>2. Where'
    BY <1>4 DEF Take, Go
  <2> QED  BY <2>1, <2>2
<1>5. ASSUME Drain(t) PROVE PlaceInv'
  <2>1. TypeOK'
    BY <1>5 DEF Drain, Go, session, fields, outside, history
  <2>2. Where'
    BY <1>5 DEF Drain, Go
  <2> QED  BY <2>1, <2>2
<1>6. ASSUME Done(t) PROVE PlaceInv'
  <2>1. TypeOK'
    BY <1>6 DEF Done, Go, session, fields, outside, history
  <2>2. Where'
    BY <1>6 DEF Done, Go
  <2> QED  BY <2>1, <2>2
<1>7. ASSUME Cancel(t) PROVE PlaceInv'
  <2>1. TypeOK'
    BY <1>7 DEF Cancel, Go, Enters, session, fields, outside, history
  <2>2. Where'
    BY <1>7 DEF Cancel, Go, Enters
  <2> QED  BY <2>1, <2>2
<1>8. ASSUME Wipe(t) PROVE PlaceInv'
  <2>1. TypeOK'
    BY <1>8 DEF Wipe, Go, session, fields, outside, history
  <2>2. Where'
    BY <1>8 DEF Wipe, Go
  <2> QED  BY <2>1, <2>2
<1>9. ASSUME Void(t) PROVE PlaceInv'
  <2>1. TypeOK'
    BY <1>9 DEF Void, Go, session, fields, outside, history
  <2>2. Where'
    BY <1>9 DEF Void, Go
  <2> QED  BY <2>1, <2>2
<1> QED  BY <1>1, <1>2, <1>3, <1>4, <1>5, <1>6, <1>7, <1>8, <1>9

(* start *)
LEMMA StartTyped ==
  ASSUME PlaceInv, NEW t \in Threads,
         StartSeesRunning(t) \/ StartSeesFlag(t) \/ LockStream(t) \/
         OpenFails(t) \/ Play(t) \/ Identify(t) \/ SetRunning(t) \/
         ClearFlag(t)
  PROVE  PlaceInv'
<1> USE CaptureAssumption DEF PlaceInv, Where, Placed, Opening, Closing, Idling, TypeOK, Streams,
          Threads, Steps, Aside, Looking, Causes
<1>1. ASSUME StartSeesRunning(t) PROVE PlaceInv'
  <2>1. TypeOK'
    BY <1>1 DEF StartSeesRunning, Go, session, fields, outside, history
  <2>2. Where'
    BY <1>1 DEF StartSeesRunning, Go
  <2> QED  BY <2>1, <2>2
<1>2. ASSUME StartSeesFlag(t) PROVE PlaceInv'
  <2>1. TypeOK'
    BY <1>2 DEF StartSeesFlag, Go, session, fields, outside, history
  <2>2. Where'
    BY <1>2 DEF StartSeesFlag, Go
  <2> QED  BY <2>1, <2>2
<1>3. ASSUME LockStream(t) PROVE PlaceInv'
  <2>1. TypeOK'
    BY <1>3 DEF LockStream, Go, session, fields, outside, history
  <2>2. Where'
    BY <1>3 DEF LockStream, Go
  <2> QED  BY <2>1, <2>2
<1>4. ASSUME OpenFails(t) PROVE PlaceInv'
  <2>1. TypeOK'
    BY <1>4 DEF OpenFails, Go, Input, session, fields, outside, history
  <2>2. Where'
    BY <1>4 DEF OpenFails, Go, Input
  <2> QED  BY <2>1, <2>2
<1>5. ASSUME Play(t) PROVE PlaceInv'
  <2>1. TypeOK'
    BY <1>5 DEF Play, Go, session, fields, outside, history
  <2>2. Where'
    BY <1>5 DEF Play, Go
  <2> QED  BY <2>1, <2>2
<1>6. ASSUME Identify(t) PROVE PlaceInv'
  <2>1. TypeOK'
    BY <1>6 DEF Identify, Go, session, fields, outside, history
  <2>2. Where'
    BY <1>6 DEF Identify, Go
  <2> QED  BY <2>1, <2>2
<1>7. ASSUME SetRunning(t) PROVE PlaceInv'
  <2>1. TypeOK'
    BY <1>7 DEF SetRunning, Go, session, fields, outside, history
  <2>2. Where'
    BY <1>7 DEF SetRunning, Go
  <2> QED  BY <2>1, <2>2
<1>8. ASSUME ClearFlag(t) PROVE PlaceInv'
  <2>1. TypeOK'
    BY ZenonT(60), <1>8 DEF ClearFlag, Go, session, fields, outside, history
  <2>2. Where'
    BY <1>8 DEF ClearFlag, Go
  <2> QED  BY <2>1, <2>2
<1> QED  BY <1>1, <1>2, <1>3, <1>4, <1>5, <1>6, <1>7, <1>8

(* force_close, try_recover_device and restart *)
LEMMA CloseTyped ==
  ASSUME PlaceInv, NEW t \in Threads,
         CloseStream(t) \/ CloseLive(t) \/ CloseRunning(t) \/ CloseFlag(t) \/
         Recover(t) \/ Restart(t)
  PROVE  PlaceInv'
<1> USE CaptureAssumption DEF PlaceInv, Where, Placed, Opening, Closing, Idling, TypeOK, Streams,
          Threads, Steps, Aside, Looking, Causes
<1>1. ASSUME CloseStream(t) PROVE PlaceInv'
  <2>1. TypeOK'
    BY <1>1 DEF CloseStream, Go, session, fields, outside, history
  <2>2. Where'
    BY <1>1 DEF CloseStream, Go
  <2> QED  BY <2>1, <2>2
<1>2. ASSUME CloseLive(t) PROVE PlaceInv'
  <2>1. TypeOK'
    BY <1>2 DEF CloseLive, Go, session, fields, outside, history
  <2>2. Where'
    BY <1>2 DEF CloseLive, Go
  <2> QED  BY <2>1, <2>2
<1>3. ASSUME CloseRunning(t) PROVE PlaceInv'
  <2>1. TypeOK'
    BY <1>3 DEF CloseRunning, Go, session, fields, outside, history
  <2>2. Where'
    BY <1>3 DEF CloseRunning, Go
  <2> QED  BY <2>1, <2>2
<1>4. ASSUME CloseFlag(t) PROVE PlaceInv'
  <2>1. TypeOK'
    BY <1>4 DEF CloseFlag, Go, Left, session, fields, outside, history
  <2>2. Where'
    BY <1>4 DEF CloseFlag, Go, Left
  <2> QED  BY <2>1, <2>2
<1>5. ASSUME Recover(t) PROVE PlaceInv'
  <2>1. /\ pc[t] = "recover"
        /\ UNCHANGED <<session, lock, fields, outside, buffer, inputs, history>>
    BY <1>5 DEF Recover
  <2>2. CASE Go(t, "close") /\ then' = [then EXCEPT ![t] = "start"]
    <3>1. TypeOK'
      BY <2>1, <2>2 DEF Go, session, fields, outside, history
    <3>2. Where'
      BY <2>1, <2>2 DEF Go, session, fields, outside, history
    <3> QED  BY <3>1, <3>2
  <2>3. CASE Go(t, "free") /\ UNCHANGED then
    <3>1. TypeOK'
      BY <2>1, <2>3 DEF Go, session, fields, outside, history
    <3>2. Where'
      BY <2>1, <2>3 DEF Go, session, fields, outside, history
    <3> QED  BY <3>1, <3>2
  <2> QED  BY <1>5, <2>2, <2>3 DEF Recover
<1>6. ASSUME Restart(t) PROVE PlaceInv'
  <2>1. TypeOK'
    BY <1>6 DEF Restart, Go, session, fields, outside, history
  <2>2. Where'
    BY <1>6 DEF Restart, Go
  <2> QED  BY <2>1, <2>2
<1> QED  BY <1>1, <1>2, <1>3, <1>4, <1>5, <1>6

(* stop *)
LEMMA StopTyped ==
  ASSUME PlaceInv, NEW t \in Threads,
         StopRunning(t) \/ StopLive(t) \/ StopStream(t)
  PROVE  PlaceInv'
<1> USE CaptureAssumption DEF PlaceInv, Where, Placed, Opening, Closing, Idling, TypeOK, Streams,
          Threads, Steps, Aside, Looking, Causes
<1>1. ASSUME StopRunning(t) PROVE PlaceInv'
  <2>1. TypeOK'
    BY <1>1 DEF StopRunning, Go, session, fields, outside, history
  <2>2. Where'
    BY <1>1 DEF StopRunning, Go
  <2> QED  BY <2>1, <2>2
<1>2. ASSUME StopLive(t) PROVE PlaceInv'
  <2>1. TypeOK'
    BY <1>2 DEF StopLive, Go, session, fields, outside, history
  <2>2. Where'
    BY <1>2 DEF StopLive, Go
  <2> QED  BY <2>1, <2>2
<1>3. ASSUME StopStream(t) PROVE PlaceInv'
  <2>1. TypeOK'
    BY <1>3 DEF StopStream, Go, Left, session, fields, outside, history
  <2>2. Where'
    BY <1>3 DEF StopStream, Go, Left
  <2> QED  BY <2>1, <2>2
<1> QED  BY <1>1, <1>2, <1>3

(* The sweep and the settings. *)
LEMMA SweepTyped ==
  ASSUME PlaceInv,
         SweepLooks \/ SeeFlag \/ SeeLive \/ Reload
  PROVE  PlaceInv'
<1> USE CaptureAssumption DEF PlaceInv, Where, Placed, Opening, Closing, Idling, TypeOK, Streams,
          Threads, Steps, Aside, Looking, Causes
<1>1. ASSUME SweepLooks PROVE PlaceInv'
  <2>1. TypeOK'
    BY <1>1 DEF SweepLooks, Go, session, fields, outside, history
  <2>2. Where'
    BY <1>1 DEF SweepLooks, Go
  <2> QED  BY <2>1, <2>2
<1>2. ASSUME SeeFlag PROVE PlaceInv'
  <2>1. /\ pc[Sweep] = "seeFlag"
        /\ UNCHANGED <<session, then, lock, fields, outside, buffer, inputs>>
    BY <1>2 DEF SeeFlag
  <2>2. CASE Enters(Sweep, "recover")
    <3>1. TypeOK'
      BY <2>1, <2>2 DEF Go, Enters, session, fields, outside, history
    <3>2. Where'
      BY <2>1, <2>2 DEF Go, Enters, session, fields, outside, history
    <3> QED  BY <3>1, <3>2
  <2>3. CASE Go(Sweep, "seeLive") /\ UNCHANGED history
    <3>1. TypeOK'
      BY <2>1, <2>3 DEF Go, session, fields, outside, history
    <3>2. Where'
      BY <2>1, <2>3 DEF Go, session, fields, outside, history
    <3> QED  BY <3>1, <3>2
  <2> QED  BY <1>2, <2>2, <2>3 DEF SeeFlag
<1>3. ASSUME SeeLive PROVE PlaceInv'
  <2>1. /\ pc[Sweep] = "seeLive"
        /\ UNCHANGED <<session, then, lock, fields, outside, buffer, inputs>>
    BY <1>3 DEF SeeLive
  <2>2. CASE Enters(Sweep, "restart")
    <3>1. TypeOK'
      BY <2>1, <2>2 DEF Go, Enters, session, fields, outside, history
    <3>2. Where'
      BY <2>1, <2>2 DEF Go, Enters, session, fields, outside, history
    <3> QED  BY <3>1, <3>2
  <2>3. CASE Go(Sweep, "free") /\ UNCHANGED history
    <3>1. TypeOK'
      BY <2>1, <2>3 DEF Go, session, fields, outside, history
    <3>2. Where'
      BY <2>1, <2>3 DEF Go, session, fields, outside, history
    <3> QED  BY <3>1, <3>2
  <2> QED  BY <1>3, <2>2, <2>3 DEF SeeLive
<1>4. ASSUME Reload PROVE PlaceInv'
  <2>1. TypeOK'
    BY <1>4 DEF Reload, Go, Enters, Input, session, fields, outside, history
  <2>2. Where'
    BY <1>4 DEF Reload, Go, Enters, Input
  <2> QED  BY <2>1, <2>2
<1> QED  BY <1>1, <1>2, <1>3, <1>4

LEMMA PlaceStep == PlaceInv /\ [Next]_vars => PlaceInv'
<1> SUFFICES ASSUME PlaceInv, [Next]_vars PROVE PlaceInv'
  OBVIOUS
<1>1. CASE StreamFails \/ CallbackEnds \/ DeviceMoves \/ Hear
  BY <1>1, OutsideTyped
<1>2. CASE \E t \in Handlers : Press(t) \/ Release(t) \/ Escape(t)
  BY <1>2, HandlerTyped DEF Threads
<1>3. CASE \E t \in Threads : Work(t)
  BY <1>3, SessionTyped, StartTyped, CloseTyped, StopTyped DEF Work, Start, ForceClose, Stop
<1>4. CASE SweepStep \/ Reload
  BY <1>4, SweepTyped DEF SweepStep
<1>5. CASE UNCHANGED vars
  BY <1>5 DEF vars, session, fields, outside, history, PlaceInv, TypeOK, Where, Placed
<1> QED  BY <1>1, <1>2, <1>3, <1>4, <1>5 DEF Next

(* Most steps begin no start, no end and no session, and forget nothing. *)
Adds == /\ mode' \in {mode, "idle"}
        /\ Starting' \subseteq Starting /\ Ending' \subseteq Ending
        /\ blame \subseteq blame'

LEMMA AddsKept == ASSUME KeptInv, Adds PROVE KeptInv'
  BY DEF KeptInv, Adds, Excused

(* Left forgets only what no other thread is part of. *)
LEMMA LeftAlone ==
  ASSUME PlaceInv, NEW t \in Threads, Left(t) # blame
  PROVE  Starting = {} /\ Ending \subseteq {t}
<1>1. then[t] # "commit" /\ \A u \in Others(t) : pc[u] \in {"free"} \cup Looking
  BY DEF Left
<1>2. \A u \in Others(t) : then[u] = "free"
  BY <1>1 DEF PlaceInv, Where, Placed, Idling, Others, Looking
<1> QED  BY <1>1, <1>2 DEF Starting, Ending, Others

LEMMA OutsideKept ==
  ASSUME KeptInv, StreamFails \/ CallbackEnds \/ DeviceMoves \/ Hear
  PROVE  KeptInv'
<1>1. Adds
  BY DEF Adds, Starting, Ending, StreamFails, CallbackEnds, DeviceMoves, Hear, session, history
<1> QED  BY <1>1, AddsKept

LEMMA HandlerKept ==
  ASSUME PlaceInv, KeptInv, NEW t \in Threads, Press(t) \/ Release(t) \/ Escape(t)
  PROVE  KeptInv'
<1> USE DEF KeptInv, Excused, PlaceInv
<1>1. ASSUME Press(t) PROVE KeptInv'
  <2>1. mode' = "idle" /\ Starting' = Starting \cup {t} /\ Ending' \subseteq Ending
    BY <1>1 DEF Press, Starting, Ending, session, TypeOK
  <2>2. Starting # {} => "starters" \in blame'
    BY <1>1 DEF Press
  <2>3. Ending # {} => "overruled" \in blame'
    BY <1>1 DEF Press
  <2> QED  BY <2>1, <2>2, <2>3
<1>2. ASSUME Release(t) \/ Escape(t) PROVE KeptInv'
  <2>1. mode # "idle" /\ mode' = "processing" /\ Starting' \subseteq Starting /\ blame \subseteq blame'
    BY <1>2 DEF Release, Escape, Enters, Starting, session, history, TypeOK
  <2> QED  BY <2>1
<1> QED  BY <1>1, <1>2

LEMMA SessionKept ==
  ASSUME PlaceInv, KeptInv, NEW t \in Threads,
         ClearBuffer(t) \/ Commit(t) \/ Begin(t) \/ Take(t) \/ Drain(t) \/ Done(t) \/
         Cancel(t) \/ Wipe(t) \/ Void(t)
  PROVE  KeptInv'
<1>1. ASSUME Commit(t) PROVE KeptInv'
  <2>1. t \in Starting /\ Starting' \subseteq Starting \ {t} /\ Ending' \subseteq Ending
    BY <1>1 DEF Commit, Starting, Ending, PlaceInv, Where, Placed, TypeOK
  <2>2. blame' = blame
    BY <1>1 DEF Commit, history
  <2> QED  BY <2>1, <2>2 DEF KeptInv, Excused
<1>2. ASSUME Begin(t) \/ Take(t) \/ Drain(t) \/ Wipe(t) PROVE KeptInv'
  <2>1. Adds
    BY <1>2 DEF Adds, Starting, Ending, Begin, Take, Drain, Wipe, session, history
  <2> QED  BY <2>1, AddsKept
<1>3. ASSUME ClearBuffer(t) \/ Cancel(t) PROVE KeptInv'
  <2>1. Adds
    BY <1>3 DEF Adds, Starting, Ending, ClearBuffer, Cancel, Enters, session
  <2> QED  BY <2>1, AddsKept
<1>4. ASSUME Done(t) \/ Void(t) PROVE KeptInv'
  <2>1. Adds
    BY <1>4 DEF Adds, Starting, Ending, Done, Void, history, PlaceInv, TypeOK
  <2> QED  BY <2>1, AddsKept
<1> QED  BY <1>1, <1>2, <1>3, <1>4

LEMMA StartKept == ASSUME PlaceInv, KeptInv, NEW t \in Threads, Start(t) PROVE KeptInv'
<1>1. ASSUME OpenFails(t) PROVE Adds
  BY <1>1 DEF Adds, Starting, Ending, OpenFails, session, PlaceInv, TypeOK
<1>2. ASSUME Start(t), ~OpenFails(t) PROVE Adds
  BY <1>2 DEF Adds, Starting, Ending, Start, StartSeesRunning, StartSeesFlag, LockStream, Play,
     Identify, SetRunning, ClearFlag, session, history
<1> QED  BY <1>1, <1>2, AddsKept

LEMMA CloseKept ==
  ASSUME PlaceInv, KeptInv, NEW t \in Threads, ForceClose(t) \/ Recover(t) \/ Restart(t)
  PROVE  KeptInv'
<1>1. ASSUME CloseStream(t) \/ CloseLive(t) \/ CloseRunning(t) PROVE KeptInv'
  <2>1. Adds
    BY <1>1 DEF Adds, Starting, Ending, CloseStream, CloseLive, CloseRunning, session, history
  <2> QED  BY <2>1, AddsKept
<1>2. ASSUME CloseFlag(t) PROVE KeptInv'
  <2>1. then[t] \in {"commit", "free", "start"}
    BY <1>2 DEF CloseFlag, PlaceInv, Where, Placed, Closing
  <2>2. mode' = mode /\ Starting' \subseteq Starting /\ Ending' \subseteq Ending
    BY <1>2, <2>1 DEF CloseFlag, Starting, Ending, session, PlaceInv, TypeOK
  <2>3. Left(t) \subseteq blame'
    BY <1>2 DEF CloseFlag
  <2>4. CASE Left(t) = blame
    BY <2>2, <2>3, <2>4, AddsKept DEF Adds
  <2>5. CASE Left(t) # blame
    <3>1. Starting = {} /\ Ending \subseteq {t}
      BY <2>5, LeftAlone
    <3>2. t \notin Ending
      BY <2>1 DEF Ending
    <3> QED  BY <2>2, <3>1, <3>2 DEF KeptInv
  <2> QED  BY <2>4, <2>5
<1>3. ASSUME Recover(t) \/ Restart(t) PROVE KeptInv'
  <2>1. then[t] = "free" /\ then' \in {then, [then EXCEPT ![t] = "start"], [then EXCEPT ![t] = "free"]}
    BY <1>3 DEF Recover, Restart, PlaceInv, Where, Placed, Idling
  <2>2. mode' = mode /\ blame' = blame
    BY <1>3 DEF Recover, Restart, session, history
  <2>3. Adds
    BY <2>1, <2>2 DEF Adds, Starting, Ending, PlaceInv, TypeOK
  <2> QED  BY <2>3, AddsKept
<1> QED  BY <1>1, <1>2, <1>3 DEF ForceClose

LEMMA StopKept == ASSUME PlaceInv, KeptInv, NEW t \in Threads, Stop(t) PROVE KeptInv'
<1>1. ASSUME StopRunning(t) \/ StopLive(t) PROVE KeptInv'
  <2>1. Adds
    BY <1>1 DEF Adds, Starting, Ending, StopRunning, StopLive, session, history
  <2> QED  BY <2>1, AddsKept
<1>2. ASSUME StopStream(t) PROVE KeptInv'
  <2>1. mode' = mode /\ Starting' = Starting /\ Ending' = Ending
    BY <1>2 DEF StopStream, Starting, Ending, session
  <2>2. blame' = blame \/ (mode # "recording" /\ blame' = Left(t))
    BY <1>2 DEF StopStream
  <2>3. CASE blame' = blame
    BY <2>1, <2>3, AddsKept DEF Adds
  <2>4. CASE blame' # blame
    BY <2>1, <2>2, <2>4, LeftAlone DEF KeptInv
  <2> QED  BY <2>3, <2>4
<1> QED  BY <1>1, <1>2 DEF Stop

LEMMA SweepKept == ASSUME KeptInv, SweepStep \/ Reload PROVE KeptInv'
<1>1. Adds
  BY DEF Adds, Starting, Ending, SweepStep, SweepLooks, SeeFlag, SeeLive, Reload, Enters, session,
     history
<1> QED  BY <1>1, AddsKept

LEMMA KeptStep == PlaceInv /\ KeptInv /\ [Next]_vars => KeptInv'
<1> SUFFICES ASSUME PlaceInv, KeptInv, [Next]_vars PROVE KeptInv'
  OBVIOUS
<1>1. CASE StreamFails \/ CallbackEnds \/ DeviceMoves \/ Hear
  BY <1>1, OutsideKept
<1>2. CASE \E t \in Handlers : Press(t) \/ Release(t) \/ Escape(t)
  BY <1>2, HandlerKept DEF Threads
<1>3. CASE \E t \in Threads : Work(t)
  BY <1>3, SessionKept, StartKept, CloseKept, StopKept DEF Work
<1>4. CASE SweepStep \/ Reload
  BY <1>4, SweepKept
<1>5. CASE UNCHANGED vars
  <2>1. Adds
    BY <1>5 DEF Adds, Starting, Ending, vars, session, history
  <2> QED  BY <2>1, AddsKept
<1> QED  BY <1>1, <1>2, <1>3, <1>4, <1>5 DEF Next

(* Three actions empty the buffer. *)
LEMMA WhoClears ==
  ASSUME [Next]_vars, buffer, ~buffer'
  PROVE  \E t \in Threads : ClearBuffer(t) \/ Drain(t) \/ Wipe(t)
<1>1. CASE StreamFails \/ CallbackEnds \/ DeviceMoves \/ Hear
  BY <1>1 DEF StreamFails, CallbackEnds, DeviceMoves, Hear
<1>2. CASE \E t \in Handlers : Press(t) \/ Release(t) \/ Escape(t)
  BY <1>2 DEF Press, Release, Escape
<1>3. ASSUME NEW t \in Threads, Work(t), ~ClearBuffer(t), ~Drain(t), ~Wipe(t) PROVE FALSE
  <2>1. CASE Commit(t) \/ Begin(t) \/ Take(t) \/ Done(t) \/ Cancel(t) \/ Void(t)
    BY <2>1 DEF Commit, Begin, Take, Done, Cancel, Void
  <2>2. CASE Start(t)
    BY <2>2 DEF Start, StartSeesRunning, StartSeesFlag, LockStream, OpenFails, Play, Identify,
       SetRunning, ClearFlag
  <2>3. CASE ForceClose(t) \/ Recover(t) \/ Restart(t) \/ Stop(t)
    BY <2>3 DEF ForceClose, CloseStream, CloseLive, CloseRunning, CloseFlag, Recover, Restart, Stop,
       StopRunning, StopLive, StopStream
  <2> QED  BY <1>3, <2>1, <2>2, <2>3 DEF Work
<1>4. CASE SweepStep \/ Reload
  BY <1>4 DEF SweepStep, SweepLooks, SeeFlag, SeeLive, Reload
<1>5. CASE UNCHANGED vars
  BY <1>5 DEF vars
<1> QED  BY <1>1, <1>2, <1>3, <1>4, <1>5 DEF Next

(* Whoever opens a stream holds its lock from the moment the leftover is   *)
(* dropped to the last store (open_new_stream, capture.rs).                *)
THEOREM CaptureTyped == Spec => []TypeOK
<1>1. PlaceInv => TypeOK
  BY DEF PlaceInv
<1> QED  BY <1>1, CaptureInit, PlaceStep, PTL DEF Spec

(* What a recording has heard is cleared before its end only when another  *)
(* start ran beside it, or the thread of a session that was cancelled had  *)
(* not ended (start_ptt_now, finalize_request and cancel in session.rs).   *)
THEOREM RecordingKeepsAudio == Spec => AudioKept
<1>1. ASSUME PlaceInv, KeptInv, [Next]_vars, mode = "recording", buffer, ~buffer'
      PROVE  blame \cap {"starters", "overruled"} # {}
  <2>1. PICK t \in Threads : ClearBuffer(t) \/ Drain(t) \/ Wipe(t)
    BY <1>1, WhoClears
  <2>2. pc[t] \in {"clear", "drain", "wipe"}
    BY <2>1 DEF ClearBuffer, Drain, Wipe
  <2>3. t \in Starting \/ t \in Ending
    BY <1>1, <2>2 DEF PlaceInv, Where, Placed, Steps, Aside, Looking, Idling, Opening, Closing,
       Starting, Ending
  <2> QED  BY <1>1, <2>3 DEF KeptInv, Excused
<1>2. PlaceInv /\ KeptInv /\ [Next]_vars =>
        [mode = "recording" /\ buffer /\ ~buffer' => blame \cap {"starters", "overruled"} # {}]_vars
  BY <1>1
<1> QED  BY <1>2, CaptureInit, PlaceStep, KeptStep, PTL DEF Spec, AudioKept

-----------------------------------------------------------------------------
(* Between the operations *)

Identifying == {"identify", "run", "settle"}
Changing == {"open", "stopLive", "stopStream"} \cup Identifying \cup (Closing \ {"close"})

(* What a close, or a stop, by t has done so far. *)
Closed(t) ==
    /\ pc[t] \in {"stopLive", "stopStream"} => ~running
    /\ pc[t] = "stopStream" => live = None
    /\ pc[t] \in Closing \ {"close"} => stream = None
    /\ pc[t] \in {"closeRunning", "closeFlag"} => live = None
    /\ pc[t] = "closeFlag" => ~running

(* What an open by t has found and done so far. *)
Opened(t) ==
    /\ pc[t] \in {"flag", "lock", "open"} => ~running
    /\ pc[t] \in {"lock", "open"} /\ "unheard" \notin blame => stream = None /\ live = None
    /\ pc[t] \in Identifying => stream # None
    /\ pc[t] = "identify" /\ "moved" \notin blame => device = stream.on
    /\ pc[t] \in {"run", "settle"} =>
          live # None /\ ("moved" \notin blame => live = stream.on)
    /\ pc[t] = "settle" /\ stream.ok => running

Steady ==
    /\ "unheard" \notin blame => (stream = None <=> live = None)
    /\ running => stream # None
    /\ stream # None /\ stream.ok => running
    /\ stream # None /\ "moved" \notin blame => live = stream.on
    /\ stream # None /\ ~stream.ok => disconnected \/ "unheard" \in blame

(* A dropped stream has no callback, and an open finds none to drop. *)
DropInv ==
    /\ callback => stream # None /\ ~stream.ok
    /\ \A t \in Threads : pc[t] = "open" => stream = None

(* Operations that overlap have been noted. *)
AloneInv ==
    /\ "clash" \notin blame => \A t, u \in Operating : t = u
    /\ sole \in Operating => Operating = {sole}

FieldInv ==
    /\ "clash" \notin blame /\ (\A t \in Threads : pc[t] \notin Changing) => Steady
    /\ \A t \in Threads : "clash" \notin blame => Opened(t)
    /\ \A t \in Threads : "clash" \notin blame \/ sole = t => Closed(t)

Fouled == blame \cap {"unheard", "gaveUp", "dropped", "starters", "overruled", "clash"} # {}
Reopening(t) == pc[t] \in Closing \/ (pc[t] \in {"start", "flag", "lock", "open"} /\ then[t] = "free")

NoticedInv ==
    ~Fouled /\ (mode = "recording" \/ \E t \in Threads : pc[t] = "commit") =>
        stream # None \/ \E t \in Threads : Reopening(t)

Excepted == blame \cap {"starters", "overruled", "clash", "late"} # {}

IdleInv ==
    /\ ~Excepted /\ mode # "recording" =>
          \A t \in Operating : then[t] \in {"commit", "take", "cancelled"}
    /\ ~Excepted /\ mode # "recording" /\ stream # None =>
          Starting # {} \/ \E t \in Ending : pc[t] \in {"stop", "stopLive", "stopStream"}

LEMMA PcMoves ==
  ASSUME PlaceInv, NEW t \in Threads, NEW x, Go(t, x)
  PROVE  pc'[t] = x /\ \A u \in Others(t) : pc'[u] = pc[u]
BY DEF PlaceInv, TypeOK, Go, Others

(* Most steps leave the stream, its callback and who opens.                *)
LEMMA DropFrame ==
  ASSUME DropInv, stream' = stream, callback' => callback,
         \A u \in Threads : pc'[u] = "open" => pc[u] = "open"
  PROVE  DropInv'
BY DEF DropInv

LEMMA DropStep == PlaceInv /\ DropInv /\ [Next]_vars => DropInv'
<1> SUFFICES ASSUME PlaceInv, DropInv, [Next]_vars PROVE DropInv'
  OBVIOUS
<1>1. CASE StreamFails
  <2>1. stream # None /\ stream' = [stream EXCEPT !.ok = FALSE] /\ pc' = pc
    BY <1>1 DEF StreamFails
  <2>2. stream' = [on |-> stream.on, ok |-> FALSE]
    BY <2>1 DEF PlaceInv, TypeOK, Streams
  <2>3. stream' # None
    BY <2>1, <2>2, CaptureAssumption DEF PlaceInv, TypeOK, Streams
  <2> QED  BY <2>1, <2>2, <2>3 DEF DropInv
<1>2. CASE CallbackEnds \/ DeviceMoves \/ Hear
  BY <1>2, DropFrame DEF CallbackEnds, DeviceMoves, Hear, outside, fields
<1>3. ASSUME NEW t \in Handlers, Press(t) \/ Release(t) \/ Escape(t) PROVE DropInv'
  <2>1. PICK x \in {"clear", "stop", "cancel"} : Go(t, x)
    BY <1>3 DEF Press, Release, Escape, Enters
  <2>2. stream' = stream /\ callback' = callback
    BY <1>3 DEF Press, Release, Escape, fields, outside
  <2> QED  BY <2>1, <2>2, PcMoves, DropFrame DEF Others, Threads
<1>4. ASSUME NEW t \in Threads, Work(t) PROVE DropInv'
  <2>1. CASE LockStream(t)
    <3>1. pc' = [pc EXCEPT ![t] = "open"] /\ stream' = None /\ callback' = callback /\ ~callback
      BY <2>1 DEF LockStream, Go, outside
    <3> QED  BY <3>1 DEF DropInv
  <2>2. CASE Play(t)
    <3>1. pc[t] = "open" /\ lock = t
      BY <2>2 DEF Play, PlaceInv, TypeOK
    <3>2. \A u \in Others(t) : pc[u] # "open"
      BY <3>1 DEF PlaceInv, TypeOK, Others
    <3>3. \A u \in Threads : pc'[u] # "open"
      BY <2>2, <3>2, PcMoves DEF Play, Others
    <3>4. ~callback' /\ callback' = callback
      BY <2>2, <3>1 DEF DropInv, Play, outside
    <3> QED  BY <3>3, <3>4 DEF DropInv
  <2>3. CASE CloseStream(t) \/ StopStream(t)
    <3>1. stream' = None /\ ~callback'
      BY <2>3 DEF CloseStream, StopStream, outside
    <3> QED  BY <3>1 DEF DropInv
  <2>4. ASSUME Work(t), ~LockStream(t), ~Play(t), ~CloseStream(t), ~StopStream(t)
        PROVE  /\ stream' = stream /\ callback' = callback
               /\ \A u \in Threads : pc'[u] = "open" => pc[u] = "open"
    <3> USE DEF Go, PlaceInv, TypeOK
    <3>1. CASE ClearBuffer(t) \/ Commit(t) \/ Begin(t) \/ Take(t) \/ Drain(t) \/ Done(t)
               \/ Cancel(t) \/ Wipe(t) \/ Void(t)
      BY <3>1 DEF ClearBuffer, Commit, Begin, Take, Drain, Done, Cancel, Wipe, Void, Enters, fields,
         outside, Steps, Aside
    <3>2. CASE Start(t)
      <4>1. CASE ClearFlag(t) \/ StartSeesRunning(t)
        BY <4>1 DEF ClearFlag, StartSeesRunning, fields, outside, Steps, Aside, PlaceInv, Where,
           Placed, Opening
      <4>2. CASE StartSeesFlag(t) \/ OpenFails(t) \/ Identify(t) \/ SetRunning(t)
        BY <4>2 DEF StartSeesFlag, OpenFails, Identify, SetRunning, fields, outside, Steps, Aside
      <4> QED  BY <2>4, <3>2, <4>1, <4>2 DEF Start
    <3>3. CASE ForceClose(t) \/ Recover(t) \/ Restart(t) \/ Stop(t)
      <4>1. CASE CloseFlag(t)
        BY <4>1 DEF CloseFlag, outside, Steps, Aside, PlaceInv, Where, Placed, Closing
      <4>2. CASE CloseLive(t) \/ CloseRunning(t) \/ Recover(t) \/ Restart(t)
                 \/ StopRunning(t) \/ StopLive(t)
        BY <4>2 DEF CloseLive, CloseRunning, Recover, Restart, StopRunning, StopLive, fields,
           outside, Steps, Aside
      <4> QED  BY <2>4, <3>3, <4>1, <4>2 DEF ForceClose, Stop
    <3> QED  BY <2>4, <3>1, <3>2, <3>3 DEF Work
  <2> QED  BY <1>4, <2>1, <2>2, <2>3, <2>4, DropFrame
<1>5. CASE SweepStep \/ Reload
  <2>1. \A u \in Threads : pc'[u] = "open" => pc[u] = "open"
    BY <1>5 DEF SweepStep, SweepLooks, SeeFlag, SeeLive, Reload, Enters, Go, PlaceInv, TypeOK
  <2>2. stream' = stream /\ callback' = callback
    BY <1>5 DEF SweepStep, SweepLooks, SeeFlag, SeeLive, Reload, fields, outside
  <2> QED  BY <2>1, <2>2, DropFrame
<1>6. CASE UNCHANGED vars
  BY <1>6, DropFrame DEF vars, fields, outside
<1> QED  BY <1>1, <1>2, <1>3, <1>4, <1>5, <1>6 DEF Next

LEMMA OperatingMoves ==
  ASSUME PlaceInv, NEW t \in Threads, NEW x, Go(t, x)
  PROVE  Operating' \subseteq Operating \cup {t}
BY PcMoves DEF Operating, Others

LEMMA OperatingRests ==
  ASSUME PlaceInv, NEW t \in Threads, NEW x \in Aside \cup Looking, Go(t, x)
  PROVE  Operating' \subseteq Operating
BY PcMoves DEF Operating, Others

LEMMA AloneFrame ==
  ASSUME AloneInv, Operating' \subseteq Operating, sole' = sole, blame \subseteq blame'
  PROVE  AloneInv'
BY DEF AloneInv

LEMMA AloneEnters ==
  ASSUME PlaceInv, AloneInv, NEW t \in Threads, NEW x, Enters(t, x)
  PROVE  AloneInv'
<1>1. Operating' \subseteq Operating \cup {t}
  BY OperatingMoves DEF Enters
<1>2. CASE Operating = {}
  BY <1>1, <1>2 DEF AloneInv, Enters
<1>3. CASE Operating # {}
  <2>1. "clash" \in blame' /\ sole' = None
    BY <1>3 DEF Enters
  <2>2. None \notin Operating'
    BY <1>1, CaptureAssumption DEF Operating
  <2> QED  BY <2>1, <2>2 DEF AloneInv
<1> QED  BY <1>2, <1>3

LEMMA LeftSole == ASSUME NEW t \in Threads, Left(t) # blame PROVE sole = t
BY DEF Left

(* The thread that leaves was the only one there. *)
LEMMA AloneLeft ==
  ASSUME PlaceInv, AloneInv, NEW t \in Operating, NEW x, Go(t, x), sole' = sole,
         Left(t) \subseteq blame'
  PROVE  AloneInv'
<1>1. t \in Threads /\ Operating' \subseteq Operating
  BY OperatingMoves DEF Operating
<1>2. CASE Left(t) = blame
  BY <1>1, <1>2, AloneFrame
<1>3. CASE Left(t) # blame
  <2>1. Operating = {t}
    BY <1>1, <1>3, LeftSole DEF AloneInv
  <2> QED  BY <1>1, <1>3, <2>1, LeftSole DEF AloneInv
<1> QED  BY <1>2, <1>3

(* An operation goes on, or ends. *)
LEMMA WorkAlone ==
  ASSUME PlaceInv, AloneInv, NEW t \in Threads, Start(t) \/ ForceClose(t) \/ Recover(t) \/ Restart(t) \/ Stop(t)
  PROVE  AloneInv'
<1>1. t \in Operating
  BY DEF Start, StartSeesRunning, StartSeesFlag, LockStream, OpenFails, Play, Identify, SetRunning,
     ClearFlag, ForceClose, CloseStream, CloseLive, CloseRunning, CloseFlag, Recover, Restart, Stop,
     StopRunning, StopLive, StopStream, Operating, Aside, Looking
<1>2. PICK x : Go(t, x)
  BY DEF Start, StartSeesRunning, StartSeesFlag, LockStream, OpenFails, Play, Identify, SetRunning,
     ClearFlag, ForceClose, CloseStream, CloseLive, CloseRunning, CloseFlag, Recover, Restart, Stop,
     StopRunning, StopLive, StopStream
<1>3. Operating' \subseteq Operating
  BY <1>1, <1>2, OperatingMoves
<1>4. CASE Start(t)
  <2>1. sole' = sole /\ blame \subseteq blame'
    BY <1>4 DEF Start, StartSeesRunning, StartSeesFlag, LockStream, OpenFails, Play, Identify,
       SetRunning, ClearFlag, history
  <2> QED  BY <1>3, <2>1, AloneFrame
<1>5. CASE CloseFlag(t) \/ StopStream(t)
  <2>1. sole' = sole /\ (blame' = blame \/ Left(t) \subseteq blame')
    BY <1>5 DEF CloseFlag, StopStream
  <2> QED  BY <1>1, <1>2, <1>3, <2>1, AloneFrame, AloneLeft
<1>6. CASE CloseStream(t) \/ CloseLive(t) \/ CloseRunning(t) \/ Recover(t) \/ Restart(t)
           \/ StopRunning(t) \/ StopLive(t)
  <2>1. sole' = sole /\ blame' = blame
    BY <1>6 DEF CloseStream, CloseLive, CloseRunning, Recover, Restart, StopRunning, StopLive,
       history
  <2> QED  BY <1>3, <2>1, AloneFrame
<1> QED  BY <1>4, <1>5, <1>6 DEF ForceClose, Stop

LEMMA AloneStep == PlaceInv /\ AloneInv /\ [Next]_vars => AloneInv'
<1> SUFFICES ASSUME PlaceInv, AloneInv, [Next]_vars PROVE AloneInv'
  OBVIOUS
<1>1. CASE StreamFails \/ CallbackEnds \/ DeviceMoves \/ Hear
  <2>1. Operating' \subseteq Operating /\ sole' = sole /\ blame \subseteq blame'
    BY <1>1 DEF StreamFails, CallbackEnds, DeviceMoves, Hear, Operating, history
  <2> QED  BY <2>1, AloneFrame
<1>2. ASSUME NEW t \in Handlers, Press(t) \/ Release(t) \/ Escape(t) PROVE AloneInv'
  <2>1. t \in Threads
    BY DEF Threads
  <2>2. CASE Release(t)
    BY <2>1, <2>2, AloneEnters DEF Release
  <2>3. CASE Press(t) \/ Escape(t)
    <3>1. PICK x \in Aside : Go(t, x)
      BY <2>3 DEF Press, Escape, Aside
    <3>2. sole' = sole /\ blame \subseteq blame'
      BY <2>3 DEF Press, Escape, history
    <3> QED  BY <2>1, <3>1, <3>2, OperatingRests, AloneFrame
  <2> QED  BY <1>2, <2>2, <2>3
<1>3. ASSUME NEW t \in Threads, Work(t) PROVE AloneInv'
  <2>1. CASE ClearBuffer(t) \/ Cancel(t)
    BY <2>1, AloneEnters DEF ClearBuffer, Cancel
  <2>2. CASE Commit(t) \/ Begin(t) \/ Take(t) \/ Drain(t) \/ Done(t) \/ Wipe(t) \/ Void(t)
    <3>1. PICK x \in Aside : Go(t, x)
      BY <2>2 DEF Commit, Begin, Take, Drain, Done, Wipe, Void, Aside
    <3>2. sole' = sole /\ blame' = blame
      BY <2>2 DEF Commit, Begin, Take, Drain, Done, Wipe, Void, history
    <3> QED  BY <3>1, <3>2, OperatingRests, AloneFrame
  <2> QED  BY <1>3, <2>1, <2>2, WorkAlone DEF Work
<1>4. CASE SweepStep \/ Reload
  <2>1. Sweep \in Threads /\ Settings \in Threads
    BY DEF Threads
  <2>2. \/ \E t \in Threads, x \in {"recover", "restart"} : Enters(t, x)
        \/ \E x \in Aside \cup Looking : Go(Sweep, x) /\ sole' = sole /\ blame' = blame
    BY <1>4, <2>1 DEF SweepStep, SweepLooks, SeeFlag, SeeLive, Reload, Aside, Looking, history
  <2> QED  BY <2>1, <2>2, AloneEnters, OperatingRests, AloneFrame
<1>5. CASE UNCHANGED vars
  BY <1>5, AloneFrame DEF vars, history, Operating
<1> QED  BY <1>1, <1>2, <1>3, <1>4, <1>5 DEF Next

(* An operation that nothing overlaps finds the fields as they should be.  *)
LEMMA Calm ==
  ASSUME AloneInv, FieldInv, NEW t \in Operating, pc[t] \notin Changing, "clash" \notin blame
  PROVE  Steady
BY DEF AloneInv, FieldInv, Operating, Changing, Identifying, Closing, Aside, Looking

(* Only the thread that works on the fields needs to be looked at.         *)
LEMMA OnlyHere ==
  ASSUME PlaceInv, AloneInv, NEW t \in Operating, NEW x, Go(t, x), sole' = sole,
         "clash" \notin blame' => "clash" \notin blame \/ sole = t,
         "clash" \notin blame' => Opened(t)' /\ (x \notin Changing => Steady'),
         "clash" \notin blame' \/ sole = t => Closed(t)'
  PROVE  FieldInv'
<1>1. t \in Threads /\ pc'[t] = x /\ \A u \in Others(t) : pc'[u] = pc[u]
  BY PcMoves DEF Operating
<1>2. ASSUME NEW u \in Others(t), "clash" \notin blame' \/ sole = u
      PROVE  Opened(u)' /\ Closed(u)'
  <2>1. pc'[u] \in Aside \cup Looking
    BY <1>1, <1>2 DEF AloneInv, Operating, Others
  <2> QED  BY <2>1 DEF Opened, Closed, Identifying, Closing, Aside, Looking
<1>3. ASSUME "clash" \notin blame', \A u \in Threads : pc'[u] \notin Changing PROVE Steady'
  BY <1>1, <1>3
<1> QED  BY <1>1, <1>2, <1>3 DEF FieldInv, Others

LEMMA StartFields ==
  ASSUME PlaceInv, DropInv, AloneInv, FieldInv, NEW t \in Threads, Start(t)
  PROVE  FieldInv'
<1> DEFINE At(p) == pc[t] = p /\ t \in Operating /\ sole' = sole /\ blame \subseteq blame'
<1>1. ("clash" \notin blame => Opened(t)) /\ ("clash" \notin blame \/ sole = t => Closed(t))
  BY DEF FieldInv
<1>2. CASE StartSeesRunning(t)
  <2>1. At("start") /\ UNCHANGED <<fields, outside, blame>> /\ then[t] \in {"commit", "free"}
    BY <1>2 DEF StartSeesRunning, Operating, Aside, Looking, history, PlaceInv, Where, Placed,
       Opening
  <2>2. Go(t, IF running THEN then[t] ELSE "flag")
    BY <1>2 DEF StartSeesRunning
  <2>3. "clash" \notin blame => Steady'
    BY <2>1, Calm DEF Steady, fields, Changing, Identifying, Closing
  <2>4. pc'[t] = IF running THEN then[t] ELSE "flag"
    BY <2>2, PcMoves
  <2>5. Opened(t)' /\ Closed(t)'
    BY <2>1, <2>4 DEF Opened, Closed, fields, Identifying, Closing
  <2> QED  BY <2>1, <2>2, <2>3, <2>5, OnlyHere
<1>3. CASE StartSeesFlag(t)
  <2>1. At("flag") /\ UNCHANGED <<fields, outside, blame>>
    BY <1>3 DEF StartSeesFlag, Operating, Aside, Looking, history
  <2>2. Go(t, IF disconnected THEN "close" ELSE "lock")
    BY <1>3 DEF StartSeesFlag
  <2>3. "clash" \notin blame => Steady
    BY <2>1, Calm DEF Changing, Identifying, Closing
  <2>4. pc'[t] = IF disconnected THEN "close" ELSE "lock"
    BY <2>2, PcMoves
  <2>5. "clash" \notin blame => Opened(t)'
    BY <1>1, <2>1, <2>3, <2>4 DEF Opened, Steady, fields, Identifying
  <2>6. Closed(t)'
    BY <2>4 DEF Closed, Closing
  <2>7. Steady => Steady'
    BY <2>1 DEF Steady, fields
  <2> QED  BY <2>1, <2>2, <2>3, <2>5, <2>6, <2>7, OnlyHere
<1>4. CASE LockStream(t)
  <2>1. /\ At("lock") /\ Go(t, "open")
        /\ stream' = None /\ live' = live /\ running' = running /\ blame' = blame
    BY <1>4 DEF LockStream, Operating, Aside, Looking, history
  <2>2. pc'[t] = "open"
    BY <2>1, PcMoves
  <2>3. "clash" \notin blame => Opened(t)'
    BY <1>1, <2>1, <2>2 DEF Opened, Identifying
  <2>4. Closed(t)'
    BY <2>2 DEF Closed, Closing
  <2> QED  BY <2>1, <2>3, <2>4, OnlyHere DEF Changing
<1>5. CASE OpenFails(t)
  <2>1. At("open") /\ Go(t, "free") /\ UNCHANGED fields
    BY <1>5 DEF OpenFails, Operating, Aside, Looking
  <2>2. pc'[t] = "free"
    BY <2>1, PcMoves
  <2>3. "clash" \notin blame => Steady'
    BY <1>1, <2>1 DEF Opened, Steady, DropInv, fields
  <2>4. Opened(t)' /\ Closed(t)'
    BY <2>2 DEF Opened, Closed, Identifying, Closing
  <2> QED  BY <2>1, <2>3, <2>4, OnlyHere
<1>6. CASE Play(t)
  <2>1. /\ At("open") /\ Go(t, "identify") /\ device \in Devices
        /\ stream' = [on |-> device, ok |-> TRUE] /\ device' = device
    BY <1>6 DEF Play, Operating, Aside, Looking, history, outside, PlaceInv, TypeOK
  <2>2. pc'[t] = "identify"
    BY <2>1, PcMoves
  <2>3. stream' # None
    <3>1. [on |-> device, ok |-> TRUE] \in Streams
      BY <2>1 DEF Streams
    <3> QED  BY <2>1, <3>1, CaptureAssumption
  <2>4. Opened(t)' /\ Closed(t)'
    BY <2>1, <2>2, <2>3 DEF Opened, Closed, Identifying, Closing
  <2> QED  BY <2>1, <2>4, OnlyHere DEF Changing, Identifying
<1>7. CASE Identify(t)
  <2>1. /\ At("identify") /\ Go(t, "run") /\ device # None
        /\ live' = device /\ stream' = stream /\ blame' = blame
    BY <1>7, CaptureAssumption DEF Identify, Operating, Aside, Looking, history, PlaceInv, TypeOK
  <2>2. pc'[t] = "run"
    BY <2>1, PcMoves
  <2>3. "clash" \notin blame => Opened(t)'
    BY <1>1, <2>1, <2>2 DEF Opened, Identifying
  <2>4. Closed(t)'
    BY <2>2 DEF Closed, Closing
  <2> QED  BY <2>1, <2>3, <2>4, OnlyHere DEF Changing, Identifying
<1>8. CASE SetRunning(t)
  <2>1. /\ At("run") /\ Go(t, "settle")
        /\ running' = TRUE /\ live' = live /\ stream' = stream /\ blame' = blame
    BY <1>8 DEF SetRunning, Operating, Aside, Looking, history
  <2>2. pc'[t] = "settle"
    BY <2>1, PcMoves
  <2>3. "clash" \notin blame => Opened(t)'
    BY <1>1, <2>1, <2>2 DEF Opened, Identifying
  <2>4. Closed(t)'
    BY <2>2 DEF Closed, Closing
  <2> QED  BY <2>1, <2>3, <2>4, OnlyHere DEF Changing, Identifying
<1>9. CASE ClearFlag(t)
  <2>1. /\ At("settle") /\ Go(t, then[t]) /\ then[t] \in {"commit", "free"}
        /\ stream' = stream /\ live' = live /\ running' = running
        /\ stream # None /\ ~stream.ok => "unheard" \in blame'
    BY <1>9 DEF ClearFlag, Operating, Aside, Looking, PlaceInv, Where, Placed, Opening
  <2>2. pc'[t] = then[t]
    BY <2>1, PcMoves
  <2>3. "clash" \notin blame => Steady'
    BY <1>1, <2>1 DEF Opened, Steady, Identifying
  <2>4. Opened(t)' /\ Closed(t)'
    BY <2>1, <2>2 DEF Opened, Closed, Identifying, Closing
  <2> QED  BY <2>1, <2>3, <2>4, OnlyHere
<1> QED  BY <1>2, <1>3, <1>4, <1>5, <1>6, <1>7, <1>8, <1>9 DEF Start

LEMMA CloseFields ==
  ASSUME PlaceInv, AloneInv, FieldInv, NEW t \in Threads,
         ForceClose(t) \/ Recover(t) \/ Restart(t)
  PROVE  FieldInv'
<1> DEFINE At(p) == pc[t] = p /\ t \in Operating /\ sole' = sole
<1>1. ("clash" \notin blame => Opened(t)) /\ ("clash" \notin blame \/ sole = t => Closed(t))
  BY DEF FieldInv
<1>2. CASE CloseStream(t)
  <2>1. At("close") /\ Go(t, "closeLive") /\ stream' = None /\ blame' = blame
    BY <1>2 DEF CloseStream, Operating, Aside, Looking, history
  <2>2. pc'[t] = "closeLive"
    BY <2>1, PcMoves
  <2>3. Opened(t)' /\ Closed(t)'
    BY <2>1, <2>2 DEF Opened, Closed, Identifying, Closing
  <2> QED  BY <2>1, <2>3, OnlyHere DEF Changing, Closing
<1>3. CASE CloseLive(t)
  <2>1. /\ At("closeLive") /\ Go(t, "closeRunning")
        /\ live' = None /\ stream' = stream /\ blame' = blame
    BY <1>3 DEF CloseLive, Operating, Aside, Looking, history
  <2>2. pc'[t] = "closeRunning"
    BY <2>1, PcMoves
  <2>3. Opened(t)' /\ ("clash" \notin blame \/ sole = t => Closed(t)')
    BY <1>1, <2>1, <2>2 DEF Opened, Closed, Identifying, Closing
  <2> QED  BY <2>1, <2>3, OnlyHere DEF Changing, Closing
<1>4. CASE CloseRunning(t)
  <2>1. /\ At("closeRunning") /\ Go(t, "closeFlag")
        /\ running' = FALSE /\ live' = live /\ stream' = stream /\ blame' = blame
    BY <1>4 DEF CloseRunning, Operating, Aside, Looking, history
  <2>2. pc'[t] = "closeFlag"
    BY <2>1, PcMoves
  <2>3. Opened(t)' /\ ("clash" \notin blame \/ sole = t => Closed(t)')
    BY <1>1, <2>1, <2>2 DEF Opened, Closed, Identifying, Closing
  <2> QED  BY <2>1, <2>3, OnlyHere DEF Changing, Closing
<1>5. CASE CloseFlag(t)
  <2> DEFINE x == IF then[t] = "commit" THEN "lock" ELSE then[t]
  <2>1. /\ At("closeFlag") /\ Go(t, x) /\ x \in {"lock", "free", "start"}
        /\ stream' = stream /\ live' = live /\ running' = running
        /\ Left(t) \subseteq blame'
    BY <1>5 DEF CloseFlag, Operating, Aside, Looking, PlaceInv, Where, Placed, Closing
  <2>2. pc'[t] = x
    BY <2>1, PcMoves
  <2>3. "clash" \notin blame' => "clash" \notin blame \/ sole = t
    BY <2>1, LeftSole
  <2>4. "clash" \notin blame' => stream' = None /\ live' = None /\ ~running'
    BY <1>1, <2>1, <2>3 DEF Closed, Closing
  <2>5. "clash" \notin blame' => Opened(t)' /\ Steady'
    BY <2>1, <2>2, <2>4 DEF Opened, Steady, Identifying
  <2>6. Closed(t)'
    BY <2>1, <2>2 DEF Closed, Closing
  <2> HIDE DEF x
  <2> QED  BY <2>1, <2>3, <2>5, <2>6, OnlyHere
<1>6. CASE Recover(t) \/ Restart(t)
  <2>1. pc[t] \in {"recover", "restart"} /\ t \in Operating /\ UNCHANGED <<fields, history>>
    BY <1>6 DEF Recover, Restart, Operating, Aside, Looking
  <2>2. PICK x \in {"close", "free"} : Go(t, x)
    BY <1>6 DEF Recover, Restart
  <2>3. "clash" \notin blame => Steady'
    BY <2>1, Calm DEF Steady, fields, history, Changing, Identifying, Closing
  <2>4. pc'[t] = x
    BY <2>2, PcMoves
  <2>5. Opened(t)' /\ Closed(t)'
    BY <2>4 DEF Opened, Closed, Identifying, Closing
  <2> QED  BY <2>1, <2>2, <2>3, <2>5, OnlyHere DEF history
<1> QED  BY <1>2, <1>3, <1>4, <1>5, <1>6 DEF ForceClose

LEMMA StopFields ==
  ASSUME PlaceInv, AloneInv, FieldInv, NEW t \in Threads, Stop(t)
  PROVE  FieldInv'
<1> DEFINE At(p) == pc[t] = p /\ t \in Operating /\ sole' = sole
<1>1. "clash" \notin blame \/ sole = t => Closed(t)
  BY DEF FieldInv
<1>2. CASE StopRunning(t)
  <2>1. At("stop") /\ Go(t, "stopLive") /\ running' = FALSE /\ blame' = blame
    BY <1>2 DEF StopRunning, Operating, Aside, Looking, history
  <2>2. pc'[t] = "stopLive"
    BY <2>1, PcMoves
  <2>3. Opened(t)' /\ Closed(t)'
    BY <2>1, <2>2 DEF Opened, Closed, Identifying, Closing
  <2> QED  BY <2>1, <2>3, OnlyHere DEF Changing
<1>3. CASE StopLive(t)
  <2>1. /\ At("stopLive") /\ Go(t, "stopStream")
        /\ live' = None /\ running' = running /\ blame' = blame
    BY <1>3 DEF StopLive, Operating, Aside, Looking, history
  <2>2. pc'[t] = "stopStream"
    BY <2>1, PcMoves
  <2>3. Opened(t)' /\ ("clash" \notin blame \/ sole = t => Closed(t)')
    BY <1>1, <2>1, <2>2 DEF Opened, Closed, Identifying, Closing
  <2> QED  BY <2>1, <2>3, OnlyHere DEF Changing
<1>4. CASE StopStream(t)
  <2> DEFINE x == IF then[t] = "cancelled" THEN "wipe" ELSE "take"
  <2>1. /\ At("stopStream") /\ Go(t, x)
        /\ stream' = None /\ live' = live /\ running' = running
        /\ blame' = blame \/ Left(t) \subseteq blame'
    BY <1>4 DEF StopStream, Operating, Aside, Looking
  <2>2. pc'[t] = x
    BY <2>1, PcMoves
  <2>3. "clash" \notin blame' => "clash" \notin blame \/ sole = t
    BY <2>1, LeftSole
  <2>4. "clash" \notin blame' => Steady'
    BY <1>1, <2>1, <2>3 DEF Closed, Steady
  <2>5. Opened(t)' /\ Closed(t)'
    BY <2>2 DEF Opened, Closed, Identifying, Closing
  <2> HIDE DEF x
  <2> QED  BY <2>1, <2>3, <2>4, <2>5, OnlyHere
<1> QED  BY <1>2, <1>3, <1>4 DEF Stop

(* A thread that is not at the microphone changes nothing there, and one   *)
(* that begins has changed nothing yet.                                    *)
LEMMA AsideFields ==
  ASSUME PlaceInv, FieldInv, UNCHANGED fields, UNCHANGED outside, blame \subseteq blame',
         NEW t \in Threads \ Operating,
         NEW x \in Aside \cup Looking \cup {"start", "stop", "recover", "restart"}, Go(t, x),
         sole' \in {sole, t, None}
  PROVE  FieldInv'
<1>1. pc'[t] = x /\ \A u \in Others(t) : pc'[u] = pc[u]
  BY PcMoves
<1>2. Opened(t)' /\ Closed(t)' /\ pc[t] \notin Changing
  BY <1>1 DEF Opened, Closed, Changing, Identifying, Closing, Aside, Looking, Operating
<1>3. ASSUME NEW u \in Others(t)
      PROVE  /\ "clash" \notin blame' => Opened(u)'
             /\ "clash" \notin blame' \/ sole' = u => Closed(u)'
  <2>1. "clash" \notin blame' => Opened(u)'
    BY <1>1, <1>3 DEF FieldInv, Opened, Others, fields, outside
  <2>2. sole' = u => sole = u
    BY <1>3, CaptureAssumption DEF Others
  <2>3. Closed(u) => Closed(u)'
    BY <1>1, <1>3 DEF Closed, fields
  <2> QED  BY <1>3, <2>1, <2>2, <2>3 DEF FieldInv, Others
<1>4. ASSUME "clash" \notin blame', \A u \in Threads : pc'[u] \notin Changing PROVE Steady'
  <2>1. Steady
    BY <1>1, <1>2, <1>4 DEF FieldInv, Others
  <2> QED  BY <2>1 DEF Steady, fields
<1> QED  BY <1>2, <1>3, <1>4 DEF FieldInv, Others

LEMMA OutsideFields ==
  ASSUME PlaceInv, DropInv, FieldInv, StreamFails \/ CallbackEnds \/ DeviceMoves \/ Hear
  PROVE  FieldInv'
<1>1. pc' = pc /\ sole' = sole /\ blame \subseteq blame'
  BY DEF StreamFails, CallbackEnds, DeviceMoves, Hear, history
<1>2. SUFFICES ASSUME NEW t \in Threads
               PROVE  /\ Opened(t) => Opened(t)'
                      /\ Closed(t) => Closed(t)'
                      /\ Steady => Steady'
  <2>1. \A t \in Threads : "clash" \notin blame' => Opened(t)'
    BY <1>1, <1>2 DEF FieldInv
  <2>2. \A t \in Threads : "clash" \notin blame' \/ sole' = t => Closed(t)'
    BY <1>1, <1>2 DEF FieldInv
  <2>3. "clash" \notin blame' /\ (\A t \in Threads : pc'[t] \notin Changing) => Steady'
    BY <1>1, <1>2 DEF FieldInv, Threads
  <2> QED  BY <2>1, <2>2, <2>3 DEF FieldInv
<1>3. CASE StreamFails
  <2>1. /\ stream # None /\ stream' = [on |-> stream.on, ok |-> FALSE] /\ stream' # None
        /\ stream'.on = stream.on /\ ~stream'.ok
    <3>1. stream # None /\ stream \in Streams /\ stream' = [stream EXCEPT !.ok = FALSE]
      BY <1>3 DEF StreamFails, PlaceInv, TypeOK
    <3>2. stream' = [on |-> stream.on, ok |-> FALSE] /\ stream' \in Streams
      BY <3>1 DEF Streams
    <3> QED  BY <3>1, <3>2, CaptureAssumption
  <2>2. /\ live' = live /\ running' = running /\ disconnected' = TRUE /\ device' = device
        /\ blame' = blame
    BY <1>3 DEF StreamFails, history
  <2>3. Opened(t) => Opened(t)'
    BY <1>1, <2>1, <2>2 DEF Opened
  <2>4. Closed(t) => Closed(t)'
    BY <1>1, <2>1, <2>2 DEF Closed
  <2>5. Steady => Steady'
    BY <2>1, <2>2 DEF Steady
  <2> QED  BY <2>3, <2>4, <2>5
<1>4. CASE CallbackEnds
  <2>1. /\ stream # None /\ ~stream.ok /\ running' = FALSE
        /\ UNCHANGED <<stream, live, disconnected, device, blame>>
    BY <1>4 DEF CallbackEnds, DropInv, history
  <2>2. Opened(t) => Opened(t)'
    BY <1>1, <2>1 DEF Opened
  <2>3. Closed(t) => Closed(t)'
    BY <1>1, <2>1 DEF Closed
  <2>4. Steady => Steady'
    BY <2>1 DEF Steady
  <2> QED  BY <2>2, <2>3, <2>4
<1>5. CASE DeviceMoves
  <2>1. UNCHANGED fields /\ (pc[t] = "identify" => "moved" \in blame')
    BY <1>5 DEF DeviceMoves
  <2>2. Opened(t) => Opened(t)'
    BY <1>1, <2>1 DEF Opened, fields
  <2>3. Closed(t) => Closed(t)'
    BY <1>1, <2>1 DEF Closed, fields
  <2>4. Steady => Steady'
    BY <1>1, <2>1 DEF Steady, fields
  <2> QED  BY <2>2, <2>3, <2>4
<1>6. CASE Hear
  <2>1. UNCHANGED <<fields, device, blame>>
    BY <1>6 DEF Hear, outside, history
  <2> QED  BY <1>1, <2>1 DEF Opened, Closed, Steady, fields
<1> QED  BY <1>3, <1>4, <1>5, <1>6

(* What a thread does that is not at the microphone: it may go there.      *)
Apart(t) ==
    /\ UNCHANGED fields /\ UNCHANGED outside /\ blame \subseteq blame'
    /\ t \in Threads \ Operating
    /\ sole' \in {sole, t, None}

LEMMA SessionApart ==
  ASSUME PlaceInv, NEW t \in Threads,
         Press(t) \/ Release(t) \/ Escape(t) \/ ClearBuffer(t) \/ Commit(t) \/ Begin(t) \/ Take(t)
         \/ Drain(t) \/ Done(t) \/ Cancel(t) \/ Wipe(t) \/ Void(t)
  PROVE  /\ Apart(t)
         /\ \E x \in Aside \cup {"start", "stop"} : Go(t, x)
<1>1. CASE Press(t) \/ Escape(t) \/ Commit(t) \/ Begin(t) \/ Take(t) \/ Drain(t) \/ Done(t)
           \/ Wipe(t) \/ Void(t)
  <2>1. Apart(t)
    BY <1>1 DEF Apart, Press, Escape, Commit, Begin, Take, Drain, Done, Wipe, Void, history,
       outside, fields, Operating, Aside
  <2>2. \E x \in Aside \cup {"start", "stop"} : Go(t, x)
    BY <1>1 DEF Press, Escape, Commit, Begin, Take, Drain, Done, Wipe, Void, Aside
  <2> QED  BY <2>1, <2>2
<1>2. CASE Release(t) \/ ClearBuffer(t) \/ Cancel(t)
  <2>1. Apart(t)
    BY <1>2 DEF Apart, Release, ClearBuffer, Cancel, Enters, outside, fields, Operating, Aside
  <2>2. \E x \in Aside \cup {"start", "stop"} : Go(t, x)
    BY <1>2 DEF Release, ClearBuffer, Cancel, Enters
  <2> QED  BY <2>1, <2>2
<1> QED  BY <1>1, <1>2

LEMMA SweepApart ==
  ASSUME PlaceInv, SweepStep \/ Reload
  PROVE  \E t \in Threads :
            /\ Apart(t)
            /\ \E x \in {"free", "recover", "restart"} \cup Looking : Go(t, x)
<1>1. Sweep \in Threads /\ Settings \in Threads
  BY DEF Threads
<1>2. CASE SweepStep
  BY <1>1, <1>2 DEF SweepStep, SweepLooks, SeeFlag, SeeLive, Enters, Apart, Operating, Aside,
     Looking, history, outside, fields
<1>3. CASE Reload
  BY <1>1, <1>3 DEF Reload, Enters, Apart, Operating, Aside, outside, fields
<1> QED  BY <1>2, <1>3

LEMMA FieldStep == PlaceInv /\ DropInv /\ AloneInv /\ FieldInv /\ [Next]_vars => FieldInv'
<1> SUFFICES ASSUME PlaceInv, DropInv, AloneInv, FieldInv, [Next]_vars PROVE FieldInv'
  OBVIOUS
<1>1. CASE StreamFails \/ CallbackEnds \/ DeviceMoves \/ Hear
  BY <1>1, OutsideFields
<1>2. CASE \E t \in Handlers : Press(t) \/ Release(t) \/ Escape(t)
  BY <1>2, SessionApart, AsideFields DEF Apart, Threads
<1>3. ASSUME NEW t \in Threads, Work(t) PROVE FieldInv'
  <2>1. CASE ClearBuffer(t) \/ Commit(t) \/ Begin(t) \/ Take(t) \/ Drain(t) \/ Done(t)
             \/ Cancel(t) \/ Wipe(t) \/ Void(t)
    BY <2>1, SessionApart, AsideFields DEF Apart
  <2> QED  BY <1>3, <2>1, StartFields, CloseFields, StopFields DEF Work
<1>4. CASE SweepStep \/ Reload
  BY <1>4, SweepApart, AsideFields DEF Apart, Aside
<1>5. CASE UNCHANGED vars
  BY <1>5 DEF vars, fields, outside, history, FieldInv, Opened, Closed, Steady
<1> QED  BY <1>1, <1>2, <1>3, <1>4, <1>5 DEF Next

-----------------------------------------------------------------------------
(* Dead air is noticed *)

(* A start or an end beside a recording, or beside another start, is noted. *)
LEMMA OtherRecords ==
  ASSUME KeptInv, PlaceInv, NEW t \in Starting \cup Ending,
         mode = "recording" \/ \E u \in Others(t) : pc[u] = "commit"
  PROVE  Excused
BY DEF KeptInv, PlaceInv, TypeOK, Where, Placed, Starting, Ending, Excused, Others

LEMMA NoticedFrame ==
  ASSUME NoticedInv, blame \subseteq blame',
         mode' = "recording" => mode = "recording" \/ \E u \in Threads : pc[u] = "commit",
         \A u \in Threads : pc'[u] = "commit" => pc[u] = "commit",
         stream # None => stream' # None,
         \A u \in Threads : Reopening(u) => Reopening(u)'
  PROVE  NoticedInv'
BY DEF NoticedInv, Fouled

(* The others are where they were. *)
LEMMA WorkMoves ==
  ASSUME PlaceInv, NEW t \in Threads,
         Start(t) \/ ForceClose(t) \/ Recover(t) \/ Restart(t) \/ Stop(t)
  PROVE  /\ mode' = mode
         /\ \A u \in Others(t) : pc'[u] = pc[u] /\ then'[u] = then[u]
<1>1. mode' = mode
  BY DEF Start, StartSeesRunning, StartSeesFlag, LockStream, OpenFails, Play, Identify, SetRunning,
     ClearFlag, ForceClose, CloseStream, CloseLive, CloseRunning, CloseFlag, Recover, Restart, Stop,
     StopRunning, StopLive, StopStream, session
<1>2. \E x : Go(t, x)
  BY DEF Start, StartSeesRunning, StartSeesFlag, LockStream, OpenFails, Play, Identify, SetRunning,
     ClearFlag, ForceClose, CloseStream, CloseLive, CloseRunning, CloseFlag, Recover, Restart, Stop,
     StopRunning, StopLive, StopStream
<1>3. then' = then \/ \E y : then' = [then EXCEPT ![t] = y]
  BY DEF Start, StartSeesRunning, StartSeesFlag, LockStream, OpenFails, Play, Identify, SetRunning,
     ClearFlag, ForceClose, CloseStream, CloseLive, CloseRunning, CloseFlag, Recover, Restart, Stop,
     StopRunning, StopLive, StopStream
<1>4. \A u \in Others(t) : then'[u] = then[u]
  BY <1>3 DEF Others, PlaceInv, TypeOK
<1> QED  BY <1>1, <1>2, <1>4, PcMoves

LEMMA StartNoticed ==
  ASSUME PlaceInv, KeptInv, AloneInv, FieldInv, NoticedInv, NEW t \in Threads, Start(t)
  PROVE  NoticedInv'
<1>1. /\ mode' = mode
      /\ \A u \in Others(t) : pc'[u] = pc[u] /\ then'[u] = then[u]
  BY WorkMoves
<1>2. \A u \in Others(t) : Reopening(u) => Reopening(u)'
  BY <1>1 DEF Reopening
<1>3. then[t] \in {"commit", "free"}
  BY DEF Start, StartSeesRunning, StartSeesFlag, LockStream, OpenFails, Play, Identify, SetRunning,
     ClearFlag, PlaceInv, Where, Placed, Opening
<1>4. CASE (StartSeesRunning(t) /\ running) \/ ClearFlag(t)
  <2>1. stream' = stream /\ blame \subseteq blame'
    BY <1>4 DEF StartSeesRunning, ClearFlag, fields, history
  <2>2. CASE StartSeesRunning(t) /\ running
    <3>1. t \in Operating /\ pc[t] \notin Changing
      BY <2>2 DEF StartSeesRunning, Operating, Changing, Identifying, Closing, Aside, Looking
    <3> QED  BY <2>1, <2>2, <3>1, Calm DEF Steady, NoticedInv, Fouled
  <2>3. CASE ClearFlag(t)
    BY <2>1, <2>3 DEF ClearFlag, FieldInv, Opened, Identifying, NoticedInv, Fouled
  <2> QED  BY <1>4, <2>2, <2>3
<1>5. CASE (StartSeesRunning(t) /\ ~running) \/ StartSeesFlag(t) \/ Identify(t) \/ SetRunning(t)
  <2>1. /\ stream' = stream /\ blame' = blame /\ then' = then
        /\ \/ pc[t] \in {"start", "flag"} /\ \E x \in {"flag", "close", "lock"} : Go(t, x)
           \/ pc[t] \in {"identify", "run"} /\ \E x \in {"run", "settle"} : Go(t, x)
    BY <1>5 DEF StartSeesRunning, StartSeesFlag, Identify, SetRunning, fields, history
  <2>2. Reopening(t) => Reopening(t)'
    BY <2>1, PcMoves DEF Reopening, Closing
  <2>3. pc'[t] # "commit"
    BY <2>1, PcMoves
  <2> QED  BY <1>1, <1>2, <2>1, <2>2, <2>3, NoticedFrame DEF Others
<1>6. CASE (LockStream(t) \/ OpenFails(t)) /\ then[t] = "commit"
  <2>1. blame' = blame /\ \E x \in {"open", "free"} : Go(t, x)
    BY <1>6 DEF LockStream, OpenFails, history
  <2>2. pc'[t] # "commit"
    BY <2>1, PcMoves
  <2>3. t \in Starting
    BY <1>6 DEF Starting
  <2> QED  BY <1>1, <2>1, <2>2, <2>3, OtherRecords DEF NoticedInv, Fouled, Excused, Others
<1>7. CASE LockStream(t) /\ then[t] = "free"
  <2>1. pc'[t] = "open" /\ then' = then
    BY <1>7, PcMoves DEF LockStream
  <2> QED  BY <1>7, <2>1 DEF NoticedInv, Reopening
<1>8. CASE OpenFails(t) /\ then[t] = "free"
  BY <1>8 DEF OpenFails, NoticedInv, Fouled
<1>9. CASE Play(t)
  <2>1. [on |-> device, ok |-> TRUE] \in Streams
    BY <1>9 DEF Play, PlaceInv, TypeOK, Streams
  <2> QED  BY <1>9, <2>1, CaptureAssumption DEF Play, NoticedInv
<1> QED  BY <1>3, <1>4, <1>5, <1>6, <1>7, <1>8, <1>9 DEF Start

LEMMA CloseNoticed ==
  ASSUME PlaceInv, KeptInv, NoticedInv, NEW t \in Threads,
         ForceClose(t) \/ Recover(t) \/ Restart(t)
  PROVE  NoticedInv'
<1>1. /\ mode' = mode
      /\ \A u \in Others(t) : pc'[u] = pc[u] /\ then'[u] = then[u]
  BY WorkMoves
<1>2. \A u \in Others(t) : Reopening(u) => Reopening(u)'
  BY <1>1 DEF Reopening
<1>3. CASE CloseStream(t) \/ CloseLive(t) \/ CloseRunning(t) \/ Restart(t)
  <2>1. \E x \in Closing : Go(t, x)
    BY <1>3 DEF CloseStream, CloseLive, CloseRunning, Restart, Closing
  <2>2. pc'[t] \in Closing
    BY <2>1, PcMoves
  <2> QED  BY <2>2 DEF NoticedInv, Reopening
<1>4. CASE Recover(t)
  <2>1. PICK x \in {"close", "free"} : Go(t, x)
    BY <1>4 DEF Recover
  <2>2. pc'[t] = x
    BY <2>1, PcMoves
  <2>3. pc[t] = "recover" /\ stream' = stream /\ blame' = blame
    BY <1>4 DEF Recover, fields, history
  <2>4. ~Reopening(t)
    BY <2>3 DEF Reopening, Closing
  <2> QED  BY <1>1, <1>2, <2>2, <2>3, <2>4, NoticedFrame DEF Others
<1>5. CASE CloseFlag(t)
  <2>1. then[t] \in {"commit", "free", "start"} /\ Left(t) \subseteq blame'
    BY <1>5 DEF CloseFlag, PlaceInv, Where, Placed, Closing
  <2>2. CASE then[t] = "commit"
    <3>1. t \in Starting /\ Left(t) = blame
      BY <2>2 DEF Starting, Left
    <3>2. pc'[t] = "lock"
      BY <1>5, <2>2, PcMoves DEF CloseFlag
    <3> QED  BY <1>1, <2>1, <3>1, <3>2, OtherRecords DEF NoticedInv, Fouled, Excused, Others
  <2>3. CASE then[t] = "free"
    BY <1>5, <2>3 DEF CloseFlag, NoticedInv, Fouled
  <2>4. CASE then[t] = "start"
    <3>1. pc'[t] = "start"
      BY <1>5, <2>4, PcMoves DEF CloseFlag
    <3>2. then'[t] = "free"
      BY <1>5, <2>4 DEF CloseFlag, PlaceInv, TypeOK
    <3> QED  BY <3>1, <3>2 DEF NoticedInv, Reopening
  <2> QED  BY <2>1, <2>2, <2>3, <2>4
<1> QED  BY <1>3, <1>4, <1>5 DEF ForceClose

LEMMA StopNoticed ==
  ASSUME PlaceInv, KeptInv, NoticedInv, NEW t \in Threads, Stop(t)
  PROVE  NoticedInv'
<1>1. /\ mode' = mode
      /\ \A u \in Others(t) : pc'[u] = pc[u] /\ then'[u] = then[u]
  BY WorkMoves
<1>2. PICK x \in {"stopLive", "stopStream", "wipe", "take"} : Go(t, x)
  BY DEF Stop, StopRunning, StopLive, StopStream
<1>3. pc'[t] = x
  BY <1>2, PcMoves
<1>4. CASE StopRunning(t) \/ StopLive(t)
  <2>1. stream' = stream /\ blame' = blame /\ ~Reopening(t)
    BY <1>4 DEF StopRunning, StopLive, history, Reopening, Closing
  <2>2. \A u \in Threads : Reopening(u) => Reopening(u)'
    BY <1>1, <2>1 DEF Reopening, Others
  <2> QED  BY <1>1, <1>3, <2>1, <2>2, NoticedFrame DEF Others
<1>5. CASE StopStream(t)
  <2>1. t \in Ending
    BY <1>5 DEF StopStream, PlaceInv, Where, Placed, Steps, Aside, Looking, Idling, Opening,
       Closing, Ending
  <2>2. CASE blame' = blame
    BY <1>1, <1>3, <2>1, <2>2, OtherRecords DEF NoticedInv, Fouled, Excused, Others
  <2>3. CASE blame' # blame
    <3>1. mode # "recording" /\ \A u \in Others(t) : pc[u] \in {"free"} \cup Looking
      BY <1>5, <2>3 DEF StopStream, Left
    <3> QED  BY <1>1, <1>3, <3>1 DEF NoticedInv, Others, Looking
  <2> QED  BY <2>2, <2>3
<1> QED  BY <1>4, <1>5 DEF Stop

(* Only a thread that has started its capture makes the session record. *)
LEMMA SessionMoves ==
  ASSUME PlaceInv, NEW t \in Threads,
         Press(t) \/ Release(t) \/ Escape(t) \/ ClearBuffer(t) \/ Commit(t) \/ Begin(t) \/ Take(t)
         \/ Drain(t) \/ Done(t) \/ Cancel(t) \/ Wipe(t) \/ Void(t)
  PROVE  /\ mode' = "recording" => mode = "recording" \/ pc[t] = "commit"
         /\ \A u \in Others(t) : pc'[u] = pc[u] /\ then'[u] = then[u]
         /\ pc'[t] # "commit"
<1>1. mode' = "recording" => mode = "recording" \/ pc[t] = "commit"
  BY DEF Press, Release, Escape, ClearBuffer, Commit, Begin, Take, Drain, Done, Cancel, Wipe, Void,
     session
<1>2. PICK x : Go(t, x) /\ x # "commit"
  BY DEF Press, Release, Escape, ClearBuffer, Commit, Begin, Take, Drain, Done, Cancel, Wipe, Void,
     Enters
<1>3. then' = then \/ \E y : then' = [then EXCEPT ![t] = y]
  BY DEF Press, Release, Escape, ClearBuffer, Commit, Begin, Take, Drain, Done, Cancel, Wipe, Void
<1>4. \A u \in Others(t) : then'[u] = then[u]
  BY <1>3 DEF Others, PlaceInv, TypeOK
<1> QED  BY <1>1, <1>2, <1>4, PcMoves

LEMMA ApartNoticed ==
  ASSUME PlaceInv, NoticedInv, NEW t \in Threads, Apart(t),
         mode' = "recording" => mode = "recording" \/ pc[t] = "commit",
         \A u \in Others(t) : pc'[u] = pc[u] /\ then'[u] = then[u],
         pc'[t] # "commit"
  PROVE  NoticedInv'
<1>1. stream' = stream /\ blame \subseteq blame'
  BY DEF Apart, fields
<1>2. ~Reopening(t)
  BY DEF Apart, Operating, Reopening, Closing, Aside, Looking
<1>3. \A u \in Threads : Reopening(u) => Reopening(u)'
  BY <1>2 DEF Reopening, Others
<1> QED  BY <1>1, <1>3, NoticedFrame DEF Others

LEMMA NoticedStep ==
  PlaceInv /\ KeptInv /\ AloneInv /\ FieldInv /\ NoticedInv /\ [Next]_vars => NoticedInv'
<1> SUFFICES ASSUME PlaceInv, KeptInv, AloneInv, FieldInv, NoticedInv, [Next]_vars
             PROVE  NoticedInv'
  OBVIOUS
<1>1. CASE StreamFails \/ CallbackEnds \/ DeviceMoves \/ Hear
  <2>1. mode' = mode /\ pc' = pc /\ then' = then /\ blame \subseteq blame'
    BY <1>1 DEF StreamFails, CallbackEnds, DeviceMoves, Hear, session, history
  <2>2. stream # None => stream' # None
    <3>1. CASE StreamFails
      <4>1. stream' \in Streams
        BY <3>1 DEF StreamFails, PlaceInv, TypeOK, Streams
      <4> QED  BY <4>1, CaptureAssumption
    <3>2. CASE CallbackEnds \/ DeviceMoves \/ Hear
      BY <3>2 DEF CallbackEnds, DeviceMoves, Hear, fields
    <3> QED  BY <1>1, <3>1, <3>2
  <2>3. \A u \in Threads : Reopening(u) => Reopening(u)'
    BY <2>1 DEF Reopening
  <2> QED  BY <2>1, <2>2, <2>3, NoticedFrame
<1>2. CASE \E t \in Handlers : Press(t) \/ Release(t) \/ Escape(t)
  BY <1>2, SessionApart, SessionMoves, ApartNoticed DEF Threads
<1>3. ASSUME NEW t \in Threads, Work(t) PROVE NoticedInv'
  <2>1. CASE ClearBuffer(t) \/ Commit(t) \/ Begin(t) \/ Take(t) \/ Drain(t) \/ Done(t)
             \/ Cancel(t) \/ Wipe(t) \/ Void(t)
    BY <2>1, SessionApart, SessionMoves, ApartNoticed
  <2> QED  BY <1>3, <2>1, StartNoticed, CloseNoticed, StopNoticed DEF Work
<1>4. CASE SweepStep \/ Reload
  <2>1. mode' = mode /\ then' = then
    BY <1>4 DEF SweepStep, SweepLooks, SeeFlag, SeeLive, Reload, session
  <2>2. PICK t \in Threads : Apart(t) /\ \E x \in {"free", "recover", "restart"} \cup Looking : Go(t, x)
    BY <1>4, SweepApart
  <2>3. pc'[t] # "commit" /\ \A u \in Others(t) : pc'[u] = pc[u]
    BY <2>2, PcMoves DEF Looking
  <2> QED  BY <2>1, <2>2, <2>3, ApartNoticed
<1>5. CASE UNCHANGED vars
  BY <1>5 DEF vars, session, fields, history, NoticedInv, Fouled, Reopening
<1> QED  BY <1>1, <1>2, <1>3, <1>4, <1>5 DEF Next

-----------------------------------------------------------------------------
(* An idle session has no open microphone *)

OfSession == {"commit", "take", "cancelled"}
Stopping == {"stop", "stopLive", "stopStream"}

LEMMA IdleFrame ==
  ASSUME IdleInv, blame \subseteq blame', mode' # "recording" => mode # "recording",
         \A u \in Operating' : then'[u] \in OfSession \/ (u \in Operating /\ then'[u] = then[u]),
         stream' # None => stream # None /\ Starting \subseteq Starting',
         \A u \in Ending : pc[u] \in Stopping /\ stream' # None => u \in Ending' /\ pc'[u] \in Stopping
  PROVE  IdleInv'
<1> SUFFICES ASSUME ~Excepted', mode' # "recording"
             PROVE  /\ \A u \in Operating' : then'[u] \in OfSession
                    /\ stream' # None =>
                          Starting' # {} \/ \E u \in Ending' : pc'[u] \in Stopping
  BY DEF IdleInv, OfSession, Stopping
<1>1. ~Excepted
  BY DEF Excepted
<1>2. \A u \in Operating' : then'[u] \in OfSession
  BY <1>1 DEF IdleInv, OfSession
<1>3. ASSUME stream' # None PROVE Starting' # {} \/ \E u \in Ending' : pc'[u] \in Stopping
  <2>1. Starting # {} \/ \E u \in Ending : pc[u] \in Stopping
    BY <1>1, <1>3 DEF IdleInv, Stopping
  <2> QED  BY <1>3, <2>1
<1> QED  BY <1>2, <1>3

(* An operation whose thread is where it was in its session. *)
LEMMA IdleOn ==
  ASSUME PlaceInv, IdleInv, NEW t \in Operating, NEW x, Go(t, x), mode' = mode, then' = then,
         blame \subseteq blame', stream' # None => stream # None,
         pc[t] \in Stopping /\ stream' # None => x \in Stopping
  PROVE  IdleInv'
<1>1. t \in Threads /\ pc'[t] = x /\ \A u \in Others(t) : pc'[u] = pc[u]
  BY PcMoves DEF Operating
<1>2. Operating' \subseteq Operating
  BY <1>1, OperatingMoves
<1>3. Starting' = Starting /\ Ending' = Ending
  BY DEF Starting, Ending
<1>4. \A u \in Ending : pc[u] \in Stopping /\ stream' # None => pc'[u] \in Stopping
  BY <1>1 DEF Ending, Others
<1> QED  BY <1>2, <1>3, <1>4, IdleFrame

(* A reopening belongs to a recording, or has been noted. *)
LEMMA ReopeningNoted ==
  ASSUME IdleInv, NEW t \in Operating, then[t] \notin OfSession, mode # "recording"
  PROVE  Excepted
BY DEF IdleInv, OfSession

LEMMA StartIdle ==
  ASSUME PlaceInv, DropInv, IdleInv, NEW t \in Threads, Start(t)
  PROVE  IdleInv'
<1>1. then[t] \in {"commit", "free"} /\ t \in Operating /\ pc[t] \notin Stopping
  BY DEF Start, StartSeesRunning, StartSeesFlag, LockStream, OpenFails, Play, Identify, SetRunning,
     ClearFlag, PlaceInv, Where, Placed, Opening, Operating, Aside, Looking, Stopping
<1>2. CASE StartSeesRunning(t) \/ StartSeesFlag(t) \/ LockStream(t) \/ Identify(t) \/ SetRunning(t)
           \/ ClearFlag(t)
  <2>1. /\ mode' = mode /\ then' = then /\ blame \subseteq blame'
        /\ stream' # None => stream # None
    BY <1>2 DEF StartSeesRunning, StartSeesFlag, LockStream, Identify, SetRunning, ClearFlag,
       session, fields, history
  <2>2. \E x : Go(t, x)
    BY <1>2 DEF StartSeesRunning, StartSeesFlag, LockStream, Identify, SetRunning, ClearFlag
  <2> QED  BY <1>1, <2>1, <2>2, IdleOn
<1>3. CASE OpenFails(t)
  <2>1. stream' = None /\ mode' = mode /\ blame \subseteq blame' /\ Go(t, "free")
    BY <1>3 DEF OpenFails, DropInv, fields, session
  <2>2. \A u \in Operating' : u \in Operating /\ then'[u] = then[u]
    <3>1. \A u \in Others(t) : then'[u] = then[u]
      BY <1>3, WorkMoves DEF Start
    <3>2. pc'[t] = "free"
      BY <2>1, PcMoves
    <3> QED  BY <1>1, <2>1, <3>1, <3>2, OperatingMoves DEF Operating, Others, Aside
  <2> QED  BY <2>1, <2>2, IdleFrame
<1>4. CASE Play(t)
  <2>1. /\ mode' = mode /\ then' = then /\ blame' = blame /\ Go(t, "identify")
    BY <1>4 DEF Play, session, history
  <2>2. Starting' = Starting /\ Operating' \subseteq Operating
    BY <1>1, <2>1, OperatingMoves DEF Starting
  <2>3. mode # "recording" /\ ~Excepted => t \in Starting
    BY <1>1, ReopeningNoted DEF OfSession, Starting
  <2> QED  BY <2>1, <2>2, <2>3 DEF IdleInv, Excepted
<1> QED  BY <1>2, <1>3, <1>4 DEF Start

LEMMA CloseIdle ==
  ASSUME PlaceInv, AloneInv, FieldInv, IdleInv, NEW t \in Threads,
         ForceClose(t) \/ Recover(t) \/ Restart(t)
  PROVE  IdleInv'
<1>1. t \in Operating /\ mode' = mode /\ pc[t] \notin Stopping
  BY WorkMoves DEF ForceClose, CloseStream, CloseLive, CloseRunning, CloseFlag, Recover, Restart,
     Operating, Aside, Looking, Stopping
<1>2. CASE CloseStream(t) \/ CloseLive(t) \/ CloseRunning(t)
  <2>1. then' = then /\ blame' = blame /\ (stream' # None => stream # None)
    BY <1>2 DEF CloseStream, CloseLive, CloseRunning, history
  <2>2. \E x : Go(t, x)
    BY <1>2 DEF CloseStream, CloseLive, CloseRunning
  <2> QED  BY <1>1, <2>1, <2>2, IdleOn
<1>3. CASE Recover(t) \/ Restart(t)
  <2>1. blame' = blame /\ then[t] = "free"
    BY <1>3 DEF Recover, Restart, history, PlaceInv, Where, Placed, Idling
  <2> QED  BY <1>1, <2>1, ReopeningNoted DEF OfSession, IdleInv, Excepted
<1>4. CASE CloseFlag(t)
  <2>1. /\ then[t] \in {"commit", "free", "start"} /\ Left(t) \subseteq blame'
        /\ stream' = stream /\ \E x : Go(t, x)
    BY <1>4 DEF CloseFlag, PlaceInv, Where, Placed, Closing
  <2>2. CASE then[t] = "commit"
    <3>1. blame \subseteq blame' /\ then' = then
      BY <1>4, <2>1, <2>2 DEF CloseFlag, Left, PlaceInv, TypeOK
    <3> QED  BY <1>1, <2>1, <3>1, IdleOn
  <2>3. CASE then[t] # "commit" /\ Left(t) = blame
    <3>1. blame \subseteq blame'
      BY <2>1, <2>3
    <3> QED  BY <1>1, <2>1, <2>3, <3>1, ReopeningNoted DEF OfSession, IdleInv, Excepted
  <2>4. CASE then[t] = "start" /\ Left(t) # blame
    BY <1>1, <2>1, <2>4 DEF Left, IdleInv, Excepted
  <2>5. CASE then[t] = "free" /\ Left(t) # blame
    <3>1. stream' = None
      BY <1>4, <2>1, <2>5, LeftSole DEF FieldInv, Closed, CloseFlag, Closing
    <3>2. pc'[t] = "free"
      BY <1>4, <2>5, PcMoves DEF CloseFlag
    <3>3. \A u \in Others(t) : pc'[u] \in {"free"} \cup Looking
      BY <2>5, WorkMoves DEF Left
    <3>4. Operating' = {}
      BY <3>2, <3>3 DEF Operating, Others, Aside, Looking
    <3> QED  BY <3>1, <3>4 DEF IdleInv
  <2> QED  BY <2>1, <2>2, <2>3, <2>4, <2>5
<1> QED  BY <1>2, <1>3, <1>4 DEF ForceClose

LEMMA StopIdle ==
  ASSUME PlaceInv, IdleInv, NEW t \in Threads, Stop(t)
  PROVE  IdleInv'
<1>1. t \in Operating /\ mode' = mode /\ then' = then
  BY WorkMoves DEF Stop, StopRunning, StopLive, StopStream, Operating, Aside, Looking
<1>2. CASE StopRunning(t) \/ StopLive(t)
  <2>1. blame' = blame /\ stream' = stream /\ \E x \in Stopping : Go(t, x)
    BY <1>2 DEF StopRunning, StopLive, history, Stopping
  <2> QED  BY <1>1, <2>1, IdleOn
<1>3. CASE StopStream(t)
  <2>1. stream' = None /\ \E x \in {"wipe", "take"} : Go(t, x)
    BY <1>3 DEF StopStream
  <2>2. CASE blame' = blame
    BY <1>1, <2>1, <2>2, IdleOn
  <2>3. CASE blame' # blame
    <3>1. \A u \in Others(t) : pc'[u] \in {"free"} \cup Looking
      BY <1>3, <2>3, WorkMoves DEF StopStream, Left
    <3>2. pc'[t] \in Aside
      BY <2>1, PcMoves DEF Aside
    <3>3. Operating' = {}
      BY <3>1, <3>2 DEF Operating, Others, Aside, Looking
    <3> QED  BY <2>1, <3>3 DEF IdleInv
  <2> QED  BY <2>2, <2>3
<1> QED  BY <1>2, <1>3 DEF Stop

(* A thread that stays off the microphone. *)
LEMMA IdleAside ==
  ASSUME PlaceInv, IdleInv, NEW t \in Threads \ Operating, Apart(t),
         NEW x \in Aside \cup Looking, Go(t, x),
         mode' # "recording" => mode # "recording",
         \A u \in Others(t) : then'[u] = then[u],
         t \in Starting => t \in Starting'
  PROVE  IdleInv'
<1>1. pc'[t] = x /\ \A u \in Others(t) : pc'[u] = pc[u]
  BY PcMoves
<1>2. Operating' \subseteq Operating
  BY OperatingRests
<1>3. \A u \in Operating' : then'[u] = then[u]
  BY <1>2 DEF Operating, Others
<1>4. Starting \subseteq Starting'
  BY DEF Starting, Others
<1>5. pc[t] \notin Stopping
  BY DEF Operating, Aside, Looking, Stopping
<1>6. \A u \in Ending : pc[u] \in Stopping => u \in Ending' /\ pc'[u] \in Stopping
  BY <1>1, <1>5 DEF Ending, Others
<1> QED  BY <1>2, <1>3, <1>4, <1>6, IdleFrame DEF Apart, fields

(* A session goes to the microphone to start, or at its end. *)
LEMMA IdleEnters ==
  ASSUME PlaceInv, IdleInv, NEW t \in Threads \ Operating, Apart(t), NEW x, Go(t, x),
         then'[t] \in OfSession,
         \A u \in Others(t) : then'[u] = then[u],
         mode' # "recording" => mode # "recording" \/ (then'[t] # "commit" /\ x = "stop"),
         mode # "recording" \/ Operating = {} \/ "clash" \in blame',
         t \in Starting => t \in Starting'
  PROVE  IdleInv'
<1>1. pc'[t] = x /\ \A u \in Others(t) : pc'[u] = pc[u]
  BY PcMoves
<1>2. Operating' \subseteq Operating \cup {t}
  BY OperatingMoves
<1>3. blame \subseteq blame' /\ stream' = stream
  BY DEF Apart, fields
<1>4. CASE mode # "recording"
  <2>1. \A u \in Operating' : then'[u] \in OfSession \/ (u \in Operating /\ then'[u] = then[u])
    BY <1>2 DEF Operating, Others
  <2>2. Starting \subseteq Starting'
    BY DEF Starting, Others
  <2>3. pc[t] \notin Stopping
    BY DEF Operating, Aside, Looking, Stopping
  <2>4. \A u \in Ending : pc[u] \in Stopping => u \in Ending' /\ pc'[u] \in Stopping
    BY <1>1, <2>3 DEF Ending, Others
  <2> QED  BY <1>3, <1>4, <2>1, <2>2, <2>4, IdleFrame
<1>5. CASE mode = "recording" /\ Operating = {} /\ mode' # "recording"
  <2>1. \A u \in Operating' : then'[u] \in OfSession
    BY <1>2, <1>5
  <2>2. t \in Ending' /\ pc'[t] \in Stopping
    BY <1>1, <1>5 DEF Ending, OfSession, Stopping
  <2> QED  BY <2>1, <2>2 DEF IdleInv, OfSession, Stopping
<1>6. CASE mode' = "recording" \/ "clash" \in blame'
  BY <1>6 DEF IdleInv, Excepted
<1> QED  BY <1>4, <1>5, <1>6

LEMMA SessionIdle ==
  ASSUME PlaceInv, KeptInv, IdleInv, NEW t \in Threads,
         Press(t) \/ Release(t) \/ Escape(t) \/ ClearBuffer(t) \/ Commit(t) \/ Begin(t) \/ Take(t)
         \/ Drain(t) \/ Done(t) \/ Cancel(t) \/ Wipe(t) \/ Void(t)
  PROVE  IdleInv'
<1>1. Apart(t) /\ t \in Threads \ Operating
  BY SessionApart DEF Apart
<1>2. \A u \in Others(t) : then'[u] = then[u]
  BY SessionMoves
<1>3. CASE Press(t) \/ Escape(t)
  <2>1. PICK x \in Aside : Go(t, x)
    BY <1>3 DEF Press, Escape, Aside
  <2>2. t \notin Starting /\ (mode' # "recording" => mode # "recording")
    BY <1>3 DEF Press, Escape, session, PlaceInv, Where, Placed, Idling, Starting
  <2> QED  BY <1>1, <1>2, <2>1, <2>2, IdleAside
<1>4. CASE Begin(t) \/ Take(t) \/ Drain(t) \/ Wipe(t) \/ Void(t)
  <2>1. PICK x \in Aside : Go(t, x)
    BY <1>4 DEF Begin, Take, Drain, Wipe, Void, Aside
  <2>2. mode' = mode /\ (then' = then \/ Void(t))
    BY <1>4 DEF Begin, Take, Drain, Wipe, Void, session
  <2>3. t \in Starting => t \in Starting'
    BY <2>2 DEF Starting, Void, PlaceInv, Where, Placed, Steps, Aside, Looking, Idling, Opening,
       Closing
  <2> QED  BY <1>1, <1>2, <2>1, <2>2, <2>3, IdleAside
<1>5. CASE Commit(t)
  <2>1. t \in Starting /\ blame' = blame
    BY <1>5 DEF Commit, Starting, history, PlaceInv, Where, Placed
  <2>2. CASE mode = "idle"
    BY <1>5, <2>2 DEF Commit, IdleInv
  <2>3. CASE mode # "idle"
    BY <2>1, <2>3 DEF KeptInv, Excused, IdleInv, Excepted
  <2> QED  BY <2>2, <2>3
<1>6. CASE (Done(t) \/ Cancel(t)) /\ mode = "recording"
  <2>1. t \in Ending
    BY <1>6 DEF Done, Cancel, Ending, PlaceInv, Where, Placed, Steps, Aside, Looking, Idling,
       Opening, Closing
  <2> QED  BY <1>1, <1>6, <2>1 DEF KeptInv, Excused, IdleInv, Excepted, Apart
<1>7. CASE Done(t) /\ mode # "recording"
  <2>1. Go(t, "free") /\ t \notin Starting
    BY <1>7 DEF Done, Starting, PlaceInv, Where, Placed, Steps, Aside, Looking, Idling, Opening,
       Closing
  <2> QED  BY <1>1, <1>2, <1>7, <2>1, IdleAside DEF Aside
<1>8. CASE (Cancel(t) \/ ClearBuffer(t)) /\ mode # "recording"
  <2>1. then' = then /\ then[t] \in OfSession /\ \E x : Go(t, x)
    BY <1>8 DEF Cancel, ClearBuffer, Enters, OfSession, PlaceInv, Where, Placed, Steps, Aside,
       Looking, Idling, Opening, Closing
  <2>2. Starting' = Starting
    BY <2>1 DEF Starting
  <2> QED  BY <1>1, <1>2, <1>8, <2>1, <2>2, IdleEnters
<1>9. CASE ClearBuffer(t) /\ mode = "recording"
  BY <1>9 DEF ClearBuffer, session, IdleInv
<1>10. CASE Release(t)
  <2>1. then'[t] = "take" /\ t \notin Starting /\ Go(t, "stop")
    BY <1>10 DEF Release, Enters, Starting, PlaceInv, TypeOK, Where, Placed, Idling
  <2>2. Operating = {} \/ "clash" \in blame'
    BY <1>10 DEF Release, Enters
  <2> QED  BY <1>1, <1>2, <2>1, <2>2, IdleEnters DEF OfSession
<1> QED  BY <1>3, <1>4, <1>5, <1>6, <1>7, <1>8, <1>9, <1>10

LEMMA IdleStep ==
  PlaceInv /\ KeptInv /\ DropInv /\ AloneInv /\ FieldInv /\ IdleInv /\ [Next]_vars => IdleInv'
<1> SUFFICES ASSUME PlaceInv, KeptInv, DropInv, AloneInv, FieldInv, IdleInv, [Next]_vars
             PROVE  IdleInv'
  OBVIOUS
<1>1. CASE StreamFails \/ CallbackEnds \/ DeviceMoves \/ Hear
  <2>1. mode' = mode /\ pc' = pc /\ then' = then /\ blame \subseteq blame'
    BY <1>1 DEF StreamFails, CallbackEnds, DeviceMoves, Hear, session, history
  <2>2. stream' # None => stream # None
    BY <1>1 DEF StreamFails, CallbackEnds, DeviceMoves, Hear, fields
  <2>3. Operating' = Operating /\ Starting' = Starting /\ Ending' = Ending
    BY <2>1 DEF Operating, Starting, Ending
  <2> QED  BY <2>1, <2>2, <2>3, IdleFrame
<1>2. CASE \E t \in Handlers : Press(t) \/ Release(t) \/ Escape(t)
  BY <1>2, SessionIdle DEF Threads
<1>3. CASE \E t \in Threads : Work(t)
  BY <1>3, SessionIdle, StartIdle, CloseIdle, StopIdle DEF Work
<1>4. CASE SweepStep \/ Reload
  <2>1. mode' = mode /\ then' = then
    BY <1>4 DEF SweepStep, SweepLooks, SeeFlag, SeeLive, Reload, session
  <2>2. PICK t \in Threads :
           Apart(t) /\ \E x \in {"free", "recover", "restart"} \cup Looking : Go(t, x)
    BY <1>4, SweepApart
  <2>3. CASE \E x \in {"free"} \cup Looking : Go(t, x)
    <3>1. Starting' = Starting
      BY <2>1 DEF Starting
    <3> QED  BY <2>1, <2>2, <2>3, <3>1, IdleAside DEF Apart, Aside
  <2>4. CASE \E x \in {"recover", "restart"} : Go(t, x)
    <3>1. pc'[t] \in {"recover", "restart"} /\ pc[t] \notin {"recover", "restart"}
      BY <2>2, <2>4, PcMoves DEF Apart, Operating, Aside, Looking
    <3>2. \E u \in Threads, x \in {"recover", "restart"} : Enters(u, x)
      BY <1>4, <3>1 DEF SweepStep, SweepLooks, SeeFlag, SeeLive, Reload, Go, PlaceInv, TypeOK,
         Threads
    <3>3. mode # "recording" => "late" \in blame'
      BY <3>2 DEF Enters
    <3> QED  BY <2>1, <3>3 DEF IdleInv, Excepted
  <2> QED  BY <2>2, <2>3, <2>4
<1>5. CASE UNCHANGED vars
  BY <1>5 DEF vars, session, fields, history, IdleInv, Excepted, Operating, Starting, Ending
<1> QED  BY <1>1, <1>2, <1>3, <1>4, <1>5 DEF Next

-----------------------------------------------------------------------------
CaptureInv == PlaceInv /\ KeptInv /\ DropInv /\ AloneInv /\ FieldInv /\ NoticedInv /\ IdleInv

LEMMA CaptureHolds == Spec => []CaptureInv
<1>1. Init => CaptureInv
  <2> SUFFICES ASSUME Init PROVE CaptureInv
    OBVIOUS
  <2>1. Operating = {} /\ (\A t \in Threads : pc[t] = "free")
    BY DEF Init, Operating, Aside
  <2>2. DropInv /\ AloneInv
    BY <2>1 DEF Init, DropInv, AloneInv
  <2>3. FieldInv
    BY <2>1 DEF Init, FieldInv, Steady, Opened, Closed, Identifying, Closing
  <2>4. NoticedInv /\ IdleInv
    BY <2>1 DEF Init, NoticedInv, IdleInv
  <2> QED  BY <2>2, <2>3, <2>4, CaptureInit DEF CaptureInv
<1>2. CaptureInv /\ [Next]_vars => CaptureInv'
  BY PlaceStep, KeptStep, DropStep, AloneStep, FieldStep, NoticedStep, IdleStep DEF CaptureInv
<1> QED  BY <1>1, <1>2, PTL DEF Spec

(* When no thread is at the microphone, none works on the fields. *)
LEMMA QuietRests ==
  ASSUME PlaceInv, Quiet
  PROVE  Starting = {} /\ Ending = {} /\ \A t \in Threads : pc[t] \notin Changing /\ ~Reopening(t)
BY DEF Quiet, PlaceInv, Where, Placed, Idling, Looking, Starting, Ending, Changing, Identifying,
   Closing, Reopening

(* Between operations the stream, its identity and the flags tell the same *)
(* story, unless two operations overlapped since the last close (stop,     *)
(* force_close and open_new_stream in capture.rs).                         *)
THEOREM FieldsTellTheSame == Spec => []FieldsAgree
<1>1. CaptureInv => FieldsAgree
  BY QuietRests DEF CaptureInv, FieldInv, Steady, FieldsAgree
<1> QED  BY <1>1, CaptureHolds, PTL

(* A recording that hears nothing has the flag up for the sweep to see     *)
(* (recover_live_capture_device in session.rs), but for the named causes.  *)
THEOREM DeadAirIsNoticed == Spec => []DeadAirNoticed
<1>1. ASSUME CaptureInv, Quiet, mode = "recording", ~Works
      PROVE  disconnected \/ blame \cap {"unheard", "gaveUp", "dropped", "starters", "overruled", "clash"} # {}
  <2> SUFFICES ASSUME ~Fouled PROVE disconnected
    BY DEF Fouled
  <2>1. Steady /\ stream # None
    BY <1>1, QuietRests DEF CaptureInv, FieldInv, NoticedInv, Fouled
  <2>2. ~stream.ok
    BY <1>1, <2>1 DEF Works, Steady
  <2> QED  BY <2>1, <2>2 DEF Steady, Fouled
<1>2. CaptureInv => DeadAirNoticed
  BY <1>1 DEF DeadAirNoticed
<1> QED  BY <1>2, CaptureHolds, PTL

(* "The system mic indicator is on only while genuinely recording" (stop   *)
(* in capture.rs): an idle session between operations has no open          *)
(* microphone, but for the named causes.                                   *)
THEOREM IdleIsClosed == Spec => []ClosedWhenIdle
<1>1. CaptureInv => ClosedWhenIdle
  BY QuietRests DEF CaptureInv, IdleInv, Excepted, ClosedWhenIdle
<1> QED  BY <1>1, CaptureHolds, PTL
===============================================================================
