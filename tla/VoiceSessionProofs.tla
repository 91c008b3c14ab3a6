--------------------------- MODULE VoiceSessionProofs ---------------------------
(***************************************************************************)
(* Proofs about the dictation sessions, for any number of threads and any  *)
(* bounds: the types and the single owner of a session first, then, on     *)
(* top of them, what a moment without threads at work looks like           *)
(* (SessionInv).  What a step does to the threads is said once, by the     *)
(* lemmas about Go, Finish and Spawn; the other lemmas go through the      *)
(* actions.                                                                *)
(***************************************************************************)
EXTENDS VoiceSession, TLAPS

(* The types in five parts. *)
ThreadsTyped ==
    /\ pc \in [Threads -> Labels]
    /\ kind \in [Threads -> {"none", "ptt", "hf", "stop", "escape", "cancel", "sweep",
                             "reset"}]

RequestsTyped ==
    /\ nextReq \in Nat \ {0}
    /\ activeReq \in 0..nextReq - 1 /\ streams \subseteq 0..nextReq - 1
    /\ req \in [Threads -> 0..nextReq - 1]

UsedTyped == used \in [Kinds -> Nat]

ModesTyped ==
    /\ mode \in {"Idle", "PushToTalk", "HandsFree", "Processing"}
    /\ startedAt \in Ages /\ processingSince \in Ages
    /\ blame \subseteq {"starters", "early", "overruled", "reopened"}

FlagsTyped ==
    /\ mic \in BOOLEAN /\ lost \in BOOLEAN /\ ~(mic /\ lost)
    /\ pending \in BOOLEAN /\ justStopped \in BOOLEAN /\ paused \in BOOLEAN
    /\ held \in BOOLEAN /\ pttDown \in BOOLEAN /\ hfDown \in BOOLEAN

LEMMA TypeParts ==
  TypeOK <=> ThreadsTyped /\ RequestsTyped /\ UsedTyped /\ ModesTyped /\ FlagsTyped
  BY DEF TypeOK, ThreadsTyped, RequestsTyped, UsedTyped, ModesTyped,
         FlagsTyped

(* A thread that is dropping a session is never its owner, and from there  *)
(* only closes the microphone and discards the request.                    *)
DroppersQuit ==
    \A t \in Threads :
        /\ pc[t] \in {"drop", "forget"} => Quits(t)
        /\ Quits(t) => pc[t] \in {"drop", "forget", "close", "take", "remove"}

VoiceInv == TypeOK /\ DroppersQuit /\ OneOwner

LEMMA VoiceInit == Init => VoiceInv
<1> SUFFICES ASSUME Init PROVE VoiceInv
  OBVIOUS
<1>1. /\ ThreadsTyped
      /\ RequestsTyped
      /\ UsedTyped
      /\ ModesTyped
      /\ FlagsTyped
  <2>1. ThreadsTyped
    BY DEF Init, ThreadsTyped, Labels
  <2>2. RequestsTyped
    BY DEF Init, RequestsTyped
  <2>3. UsedTyped
    BY DEF Init, UsedTyped
  <2>4. ModesTyped
    BY DEF Init, ModesTyped, Ages
  <2>5. FlagsTyped
    BY DEF Init, FlagsTyped
  <2> QED  BY <2>1, <2>2, <2>3, <2>4, <2>5
<1>2. DroppersQuit
  BY DEF Init, DroppersQuit, Quits
<1>3. OneOwner
  BY DEF Init, OneOwner, Owners, Wedged, Finalizing
<1> QED  BY <1>1, <1>2, <1>3, TypeParts DEF VoiceInv

-----------------------------------------------------------------------------
(* What the moves of a thread preserve *)

LEMMA GoTyped ==
  ASSUME ThreadsTyped, NEW t \in Threads, NEW l \in Labels, Go(t, l)
  PROVE  ThreadsTyped' /\ req' = req
  BY DEF ThreadsTyped, Go

LEMMA FinishTyped ==
  ASSUME ThreadsTyped, NEW t \in Threads, Finish(t)
  PROVE  ThreadsTyped'
  BY DEF ThreadsTyped, Finish, Labels

LEMMA FinishRequests ==
  ASSUME RequestsTyped, NEW t \in Threads, Finish(t)
  PROVE  req' \in [Threads -> 0..nextReq - 1]
  BY DEF RequestsTyped, Finish

LEMMA SpawnTyped ==
  ASSUME ThreadsTyped, NEW t \in Threads, NEW l \in Labels,
         NEW k \in {"ptt", "hf", "stop", "escape", "sweep"}, Spawn(t, k, l)
  PROVE  ThreadsTyped' /\ req' = req
  BY DEF ThreadsTyped, Spawn

LEMMA SpendTyped ==
  ASSUME UsedTyped, NEW k \in Kinds, Spend(k)
  PROVE  UsedTyped'
  BY DEF UsedTyped, Spend

(* The steps and labels of the threads. *)
LEMMA StepThreads == ThreadsTyped /\ [Next]_vars => ThreadsTyped'
<1> SUFFICES ASSUME ThreadsTyped, [Next]_vars PROVE ThreadsTyped'
  OBVIOUS
<1>1. ASSUME NEW t \in Threads, PressPtt(t) PROVE ThreadsTyped'
  BY <1>1, SpawnTyped DEF PressPtt, Labels, Finalizing
<1>2. ASSUME NEW t \in Threads, ReleasePtt(t) PROVE ThreadsTyped'
  BY <1>2, SpawnTyped DEF ReleasePtt, Labels, Finalizing
<1>3. ASSUME NEW t \in Threads, PressHandsFree(t) PROVE ThreadsTyped'
  BY <1>3, SpawnTyped DEF PressHandsFree, Labels, Finalizing
<1>4. ASSUME NEW t \in Threads, PressEscape(t) PROVE ThreadsTyped'
  BY <1>4, SpawnTyped DEF PressEscape, Labels, Finalizing
<1>5. ASSUME NEW t \in Threads, StartPtt(t) PROVE ThreadsTyped'
  BY <1>5, GoTyped, FinishTyped DEF StartPtt, Labels, Finalizing, Park
<1>6. ASSUME NEW t \in Threads, MashGate(t) PROVE ThreadsTyped'
  BY <1>6, GoTyped, FinishTyped DEF MashGate, Labels, Finalizing
<1>7. ASSUME NEW t \in Threads, Rescue(t) PROVE ThreadsTyped'
  BY <1>7, GoTyped, FinishTyped DEF Rescue, Labels, Finalizing
<1>8. ASSUME NEW t \in Threads, CheckIdle(t) PROVE ThreadsTyped'
  BY <1>8, GoTyped, FinishTyped DEF CheckIdle, Labels, Finalizing, Park
<1>9. ASSUME NEW t \in Threads, OpenMic(t) PROVE ThreadsTyped'
  BY <1>9, GoTyped, FinishTyped DEF OpenMic, Labels, Finalizing
<1>10. ASSUME NEW t \in Threads, Commit(t) PROVE ThreadsTyped'
  BY <1>10, GoTyped, FinishTyped DEF Commit, Labels, Finalizing, Park
<1>11. ASSUME NEW t \in Threads, Register(t) PROVE ThreadsTyped'
  BY <1>11, GoTyped, FinishTyped DEF Register, Labels, Finalizing,
    ThreadsTyped
<1>12. ASSUME NEW t \in Threads, Forward(t) PROVE ThreadsTyped'
  BY <1>12, GoTyped, FinishTyped DEF Forward, Labels, Finalizing
<1>13. ASSUME NEW t \in Threads, StopPtt(t) PROVE ThreadsTyped'
  BY <1>13, GoTyped, FinishTyped DEF StopPtt, Labels, Finalizing
<1>14. ASSUME NEW t \in Threads, ToggleHandsFree(t) PROVE ThreadsTyped'
  BY <1>14, GoTyped, FinishTyped DEF ToggleHandsFree, Labels, Finalizing
<1>15. ASSUME NEW t \in Threads, EscapePressed(t) PROVE ThreadsTyped'
  BY <1>15, GoTyped, FinishTyped DEF EscapePressed, Labels, Finalizing
<1>16. ASSUME NEW t \in Threads, EscapeClaim(t) PROVE ThreadsTyped'
  BY <1>16, GoTyped, FinishTyped DEF EscapeClaim, Labels, Finalizing
<1>17. ASSUME NEW t \in Threads, Stamp(t) PROVE ThreadsTyped'
  BY <1>17, GoTyped, FinishTyped DEF Stamp, Labels, Finalizing
<1>18. ASSUME NEW t \in Threads, CloseMic(t) PROVE ThreadsTyped'
  BY <1>18, GoTyped, FinishTyped DEF CloseMic, Labels, Finalizing
<1>19. ASSUME NEW t \in Threads, TakeRequest(t) PROVE ThreadsTyped'
  BY <1>19, GoTyped, FinishTyped DEF TakeRequest, Labels, Finalizing,
    ThreadsTyped
<1>20. ASSUME NEW t \in Threads, RemoveStream(t) PROVE ThreadsTyped'
  BY <1>20, GoTyped, FinishTyped DEF RemoveStream, Labels, Finalizing
<1>21. ASSUME NEW t \in Threads, Decode(t) PROVE ThreadsTyped'
  BY <1>21, GoTyped, FinishTyped DEF Decode, Labels, Finalizing
<1>22. ASSUME NEW t \in Threads, SetIdle(t) PROVE ThreadsTyped'
  BY <1>22, GoTyped, FinishTyped DEF SetIdle, Labels, Finalizing
<1>23. ASSUME NEW t \in Threads, Unstamp(t) PROVE ThreadsTyped'
  BY <1>23, GoTyped, FinishTyped DEF Unstamp, Labels, Finalizing
<1>24. ASSUME NEW t \in Threads, Autostart(t) PROVE ThreadsTyped'
  BY <1>24, GoTyped, FinishTyped DEF Autostart, Labels, Finalizing,
    ThreadsTyped
<1>25. ASSUME NEW t \in Threads, DropPending(t) PROVE ThreadsTyped'
  BY <1>25, GoTyped, FinishTyped DEF DropPending, Labels, Finalizing,
    ThreadsTyped
<1>26. ASSUME NEW t \in Threads, DropSession(t) PROVE ThreadsTyped'
  BY <1>26, GoTyped, FinishTyped DEF DropSession, Labels, Finalizing
<1>27. ASSUME NEW t \in Threads, Forget(t) PROVE ThreadsTyped'
  BY <1>27, GoTyped, FinishTyped DEF Forget, Labels, Finalizing
<1>28. ASSUME NEW t \in Threads, StartSweep(t) PROVE ThreadsTyped'
  BY <1>28, SpawnTyped DEF StartSweep, Labels, Finalizing
<1>29. ASSUME NEW t \in Threads, Sweep(t) PROVE ThreadsTyped'
  BY <1>29, GoTyped, FinishTyped DEF Sweep, Labels, Finalizing
<1>30. ASSUME NEW t \in Threads, ReopenMic(t) PROVE ThreadsTyped'
  BY <1>30, GoTyped, FinishTyped DEF ReopenMic, Labels, Finalizing
<1>31. ASSUME NEW t \in Threads, RestartMic(t) PROVE ThreadsTyped'
  BY <1>31, GoTyped, FinishTyped DEF RestartMic, Labels, Finalizing
<1>32. ASSUME NEW t \in Threads, RecoverStranded(t) PROVE ThreadsTyped'
  BY <1>32, GoTyped, FinishTyped DEF RecoverStranded, Labels, Finalizing
<1>33. ASSUME IgnoredPress PROVE ThreadsTyped'
  BY <1>33 DEF IgnoredPress, Labels, Finalizing, ThreadsTyped, threadVars
<1>34. ASSUME IgnoredRelease PROVE ThreadsTyped'
  BY <1>34 DEF IgnoredRelease, Labels, Finalizing, ThreadsTyped, threadVars
<1>35. ASSUME ReleaseHandsFree PROVE ThreadsTyped'
  BY <1>35 DEF ReleaseHandsFree, Labels, Finalizing, ThreadsTyped, threadVars
<1>36. ASSUME TogglePause PROVE ThreadsTyped'
  BY <1>36 DEF TogglePause, Labels, Finalizing, ThreadsTyped, threadVars
<1>37. ASSUME DeviceFails PROVE ThreadsTyped'
  BY <1>37 DEF DeviceFails, Labels, Finalizing, ThreadsTyped, threadVars
<1>38. ASSUME MashWindowCloses PROVE ThreadsTyped'
  BY <1>38 DEF MashWindowCloses, Labels, Finalizing, ThreadsTyped, threadVars
<1>39. ASSUME RecordingAges PROVE ThreadsTyped'
  BY <1>39 DEF RecordingAges, Labels, Finalizing, ThreadsTyped, threadVars
<1>40. ASSUME ProcessingAges PROVE ThreadsTyped'
  BY <1>40 DEF ProcessingAges, Labels, Finalizing, ThreadsTyped, threadVars
<1>41. ASSUME UNCHANGED vars PROVE ThreadsTyped'
  BY <1>41 DEF vars, Labels, Finalizing, ThreadsTyped, threadVars
<1> QED
  BY <1>1, <1>2, <1>3, <1>4, <1>5, <1>6, <1>7, <1>8, <1>9, <1>10, <1>11,
     <1>12, <1>13, <1>14, <1>15, <1>16, <1>17, <1>18, <1>19, <1>20, <1>21,
     <1>22, <1>23, <1>24, <1>25, <1>26, <1>27, <1>28, <1>29, <1>30, <1>31,
     <1>32, <1>33, <1>34, <1>35, <1>36, <1>37, <1>38, <1>39, <1>40, <1>41
  DEF Next, Hook, User, Work, Time

(* Request ids are below the counter. *)
LEMMA StepRequests == (ThreadsTyped /\ RequestsTyped) /\ [Next]_vars => RequestsTyped'
<1> SUFFICES ASSUME (ThreadsTyped /\ RequestsTyped), [Next]_vars PROVE RequestsTyped'
  OBVIOUS
<1> USE DEF Labels, Finalizing
<1>1. ASSUME NEW t \in Threads, PressPtt(t) PROVE RequestsTyped'
  BY <1>1, SpawnTyped DEF PressPtt, RequestsTyped, reqVars
<1>2. ASSUME NEW t \in Threads, ReleasePtt(t) PROVE RequestsTyped'
  BY <1>2, SpawnTyped DEF ReleasePtt, RequestsTyped, reqVars
<1>3. ASSUME NEW t \in Threads, PressHandsFree(t) PROVE RequestsTyped'
  BY <1>3, SpawnTyped DEF PressHandsFree, RequestsTyped, reqVars
<1>4. ASSUME NEW t \in Threads, PressEscape(t) PROVE RequestsTyped'
  BY <1>4, SpawnTyped DEF PressEscape, RequestsTyped, reqVars
<1>5. ASSUME NEW t \in Threads, StartPtt(t) PROVE RequestsTyped'
  BY <1>5, GoTyped, FinishRequests DEF StartPtt, RequestsTyped, reqVars, Park
<1>6. ASSUME NEW t \in Threads, MashGate(t) PROVE RequestsTyped'
  BY <1>6, GoTyped, FinishRequests DEF MashGate, RequestsTyped, reqVars
<1>7. ASSUME NEW t \in Threads, Rescue(t) PROVE RequestsTyped'
  BY <1>7, GoTyped, FinishRequests DEF Rescue, RequestsTyped, reqVars
<1>8. ASSUME NEW t \in Threads, CheckIdle(t) PROVE RequestsTyped'
  BY <1>8, GoTyped, FinishRequests DEF CheckIdle, RequestsTyped, reqVars, Park
<1>9. ASSUME NEW t \in Threads, OpenMic(t) PROVE RequestsTyped'
  BY <1>9, GoTyped, FinishRequests DEF OpenMic, RequestsTyped, reqVars
<1>10. ASSUME NEW t \in Threads, Commit(t) PROVE RequestsTyped'
  BY <1>10, GoTyped, FinishRequests DEF Commit, RequestsTyped, reqVars, Park
<1>11. ASSUME NEW t \in Threads, Register(t) PROVE RequestsTyped'
  BY <1>11 DEF Register, RequestsTyped, reqVars
<1>12. ASSUME NEW t \in Threads, Forward(t) PROVE RequestsTyped'
  BY <1>12, GoTyped, FinishRequests DEF Forward, RequestsTyped, reqVars
<1>13. ASSUME NEW t \in Threads, StopPtt(t) PROVE RequestsTyped'
  BY <1>13, GoTyped, FinishRequests DEF StopPtt, RequestsTyped, reqVars
<1>14. ASSUME NEW t \in Threads, ToggleHandsFree(t) PROVE RequestsTyped'
  BY <1>14, GoTyped, FinishRequests DEF ToggleHandsFree, RequestsTyped,
    reqVars
<1>15. ASSUME NEW t \in Threads, EscapePressed(t) PROVE RequestsTyped'
  BY <1>15, GoTyped, FinishRequests DEF EscapePressed, RequestsTyped, reqVars
<1>16. ASSUME NEW t \in Threads, EscapeClaim(t) PROVE RequestsTyped'
  BY <1>16, GoTyped, FinishRequests DEF EscapeClaim, RequestsTyped, reqVars
<1>17. ASSUME NEW t \in Threads, Stamp(t) PROVE RequestsTyped'
  BY <1>17, GoTyped, FinishRequests DEF Stamp, RequestsTyped, reqVars
<1>18. ASSUME NEW t \in Threads, CloseMic(t) PROVE RequestsTyped'
  BY <1>18, GoTyped, FinishRequests DEF CloseMic, RequestsTyped, reqVars
<1>19. ASSUME NEW t \in Threads, TakeRequest(t) PROVE RequestsTyped'
  BY <1>19, GoTyped, FinishRequests DEF TakeRequest, RequestsTyped, reqVars
<1>20. ASSUME NEW t \in Threads, RemoveStream(t) PROVE RequestsTyped'
  BY <1>20, GoTyped, FinishRequests DEF RemoveStream, RequestsTyped, reqVars
<1>21. ASSUME NEW t \in Threads, Decode(t) PROVE RequestsTyped'
  BY <1>21, GoTyped, FinishRequests DEF Decode, RequestsTyped, reqVars
<1>22. ASSUME NEW t \in Threads, SetIdle(t) PROVE RequestsTyped'
  BY <1>22, GoTyped, FinishRequests DEF SetIdle, RequestsTyped, reqVars
<1>23. ASSUME NEW t \in Threads, Unstamp(t) PROVE RequestsTyped'
  BY <1>23, GoTyped, FinishRequests DEF Unstamp, RequestsTyped, reqVars
<1>24. ASSUME NEW t \in Threads, Autostart(t) PROVE RequestsTyped'
  BY <1>24, GoTyped, FinishRequests DEF Autostart, RequestsTyped, reqVars
<1>25. ASSUME NEW t \in Threads, DropPending(t) PROVE RequestsTyped'
  BY <1>25 DEF DropPending, RequestsTyped, reqVars
<1>26. ASSUME NEW t \in Threads, DropSession(t) PROVE RequestsTyped'
  BY <1>26, GoTyped, FinishRequests DEF DropSession, RequestsTyped, reqVars
<1>27. ASSUME NEW t \in Threads, Forget(t) PROVE RequestsTyped'
  BY <1>27, GoTyped, FinishRequests DEF Forget, RequestsTyped, reqVars
<1>28. ASSUME NEW t \in Threads, StartSweep(t) PROVE RequestsTyped'
  BY <1>28, SpawnTyped DEF StartSweep, RequestsTyped, reqVars
<1>29. ASSUME NEW t \in Threads, Sweep(t) PROVE RequestsTyped'
  BY <1>29, GoTyped, FinishRequests DEF Sweep, RequestsTyped, reqVars
<1>30. ASSUME NEW t \in Threads, ReopenMic(t) PROVE RequestsTyped'
  BY <1>30, GoTyped, FinishRequests DEF ReopenMic, RequestsTyped, reqVars
<1>31. ASSUME NEW t \in Threads, RestartMic(t) PROVE RequestsTyped'
  BY <1>31, GoTyped, FinishRequests DEF RestartMic, RequestsTyped, reqVars
<1>32. ASSUME NEW t \in Threads, RecoverStranded(t) PROVE RequestsTyped'
  BY <1>32, GoTyped, FinishRequests DEF RecoverStranded, RequestsTyped,
    reqVars
<1>33. ASSUME IgnoredPress PROVE RequestsTyped'
  BY <1>33 DEF IgnoredPress, RequestsTyped, reqVars, threadVars
<1>34. ASSUME IgnoredRelease PROVE RequestsTyped'
  BY <1>34 DEF IgnoredRelease, RequestsTyped, reqVars, threadVars
<1>35. ASSUME ReleaseHandsFree PROVE RequestsTyped'
  BY <1>35 DEF ReleaseHandsFree, RequestsTyped, reqVars, threadVars
<1>36. ASSUME TogglePause PROVE RequestsTyped'
  BY <1>36 DEF TogglePause, RequestsTyped, reqVars, threadVars
<1>37. ASSUME DeviceFails PROVE RequestsTyped'
  BY <1>37 DEF DeviceFails, RequestsTyped, reqVars, threadVars
<1>38. ASSUME MashWindowCloses PROVE RequestsTyped'
  BY <1>38 DEF MashWindowCloses, RequestsTyped, reqVars, threadVars
<1>39. ASSUME RecordingAges PROVE RequestsTyped'
  BY <1>39 DEF RecordingAges, RequestsTyped, reqVars, threadVars
<1>40. ASSUME ProcessingAges PROVE RequestsTyped'
  BY <1>40 DEF ProcessingAges, RequestsTyped, reqVars, threadVars
<1>41. ASSUME UNCHANGED vars PROVE RequestsTyped'
  BY <1>41 DEF vars, RequestsTyped, reqVars, threadVars
<1> QED
  BY <1>1, <1>2, <1>3, <1>4, <1>5, <1>6, <1>7, <1>8, <1>9, <1>10, <1>11,
     <1>12, <1>13, <1>14, <1>15, <1>16, <1>17, <1>18, <1>19, <1>20, <1>21,
     <1>22, <1>23, <1>24, <1>25, <1>26, <1>27, <1>28, <1>29, <1>30, <1>31,
     <1>32, <1>33, <1>34, <1>35, <1>36, <1>37, <1>38, <1>39, <1>40, <1>41
  DEF Next, Hook, User, Work, Time

(* What is spent is counted. *)
LEMMA StepUsed == UsedTyped /\ [Next]_vars => UsedTyped'
<1> SUFFICES ASSUME UsedTyped, [Next]_vars PROVE UsedTyped'
  OBVIOUS
<1>1. ASSUME NEW t \in Threads, PressPtt(t) PROVE UsedTyped'
  BY <1>1, SpendTyped DEF PressPtt, UsedTyped, Kinds
<1>2. ASSUME NEW t \in Threads, ReleasePtt(t) PROVE UsedTyped'
  BY <1>2, SpendTyped DEF ReleasePtt, UsedTyped, Kinds
<1>3. ASSUME NEW t \in Threads, PressHandsFree(t) PROVE UsedTyped'
  BY <1>3, SpendTyped DEF PressHandsFree, UsedTyped, Kinds
<1>4. ASSUME NEW t \in Threads, PressEscape(t) PROVE UsedTyped'
  BY <1>4, SpendTyped DEF PressEscape, UsedTyped, Kinds
<1>5. ASSUME NEW t \in Threads, StartPtt(t) PROVE UsedTyped'
  BY <1>5, SpendTyped DEF StartPtt, UsedTyped, Kinds
<1>6. ASSUME NEW t \in Threads, MashGate(t) PROVE UsedTyped'
  BY <1>6, SpendTyped DEF MashGate, UsedTyped, Kinds
<1>7. ASSUME NEW t \in Threads, Rescue(t) PROVE UsedTyped'
  BY <1>7, SpendTyped DEF Rescue, UsedTyped, Kinds
<1>8. ASSUME NEW t \in Threads, CheckIdle(t) PROVE UsedTyped'
  BY <1>8, SpendTyped DEF CheckIdle, UsedTyped, Kinds
<1>9. ASSUME NEW t \in Threads, OpenMic(t) PROVE UsedTyped'
  BY <1>9, SpendTyped DEF OpenMic, UsedTyped, Kinds, Opens, OpenFails
<1>10. ASSUME NEW t \in Threads, Commit(t) PROVE UsedTyped'
  BY <1>10, SpendTyped DEF Commit, UsedTyped, Kinds
<1>11. ASSUME NEW t \in Threads, Register(t) PROVE UsedTyped'
  BY <1>11, SpendTyped DEF Register, UsedTyped, Kinds
<1>12. ASSUME NEW t \in Threads, Forward(t) PROVE UsedTyped'
  BY <1>12, SpendTyped DEF Forward, UsedTyped, Kinds
<1>13. ASSUME NEW t \in Threads, StopPtt(t) PROVE UsedTyped'
  BY <1>13, SpendTyped DEF StopPtt, UsedTyped, Kinds
<1>14. ASSUME NEW t \in Threads, ToggleHandsFree(t) PROVE UsedTyped'
  BY <1>14, SpendTyped DEF ToggleHandsFree, UsedTyped, Kinds
<1>15. ASSUME NEW t \in Threads, EscapePressed(t) PROVE UsedTyped'
  BY <1>15, SpendTyped DEF EscapePressed, UsedTyped, Kinds
<1>16. ASSUME NEW t \in Threads, EscapeClaim(t) PROVE UsedTyped'
  BY <1>16, SpendTyped DEF EscapeClaim, UsedTyped, Kinds
<1>17. ASSUME NEW t \in Threads, Stamp(t) PROVE UsedTyped'
  BY <1>17, SpendTyped DEF Stamp, UsedTyped, Kinds
<1>18. ASSUME NEW t \in Threads, CloseMic(t) PROVE UsedTyped'
  BY <1>18, SpendTyped DEF CloseMic, UsedTyped, Kinds
<1>19. ASSUME NEW t \in Threads, TakeRequest(t) PROVE UsedTyped'
  BY <1>19, SpendTyped DEF TakeRequest, UsedTyped, Kinds
<1>20. ASSUME NEW t \in Threads, RemoveStream(t) PROVE UsedTyped'
  BY <1>20, SpendTyped DEF RemoveStream, UsedTyped, Kinds
<1>21. ASSUME NEW t \in Threads, Decode(t) PROVE UsedTyped'
  BY <1>21, SpendTyped DEF Decode, UsedTyped, Kinds
<1>22. ASSUME NEW t \in Threads, SetIdle(t) PROVE UsedTyped'
  BY <1>22, SpendTyped DEF SetIdle, UsedTyped, Kinds
<1>23. ASSUME NEW t \in Threads, Unstamp(t) PROVE UsedTyped'
  BY <1>23, SpendTyped DEF Unstamp, UsedTyped, Kinds
<1>24. ASSUME NEW t \in Threads, Autostart(t) PROVE UsedTyped'
  BY <1>24, SpendTyped DEF Autostart, UsedTyped, Kinds
<1>25. ASSUME NEW t \in Threads, DropPending(t) PROVE UsedTyped'
  BY <1>25, SpendTyped DEF DropPending, UsedTyped, Kinds
<1>26. ASSUME NEW t \in Threads, DropSession(t) PROVE UsedTyped'
  BY <1>26, SpendTyped DEF DropSession, UsedTyped, Kinds
<1>27. ASSUME NEW t \in Threads, Forget(t) PROVE UsedTyped'
  BY <1>27, SpendTyped DEF Forget, UsedTyped, Kinds
<1>28. ASSUME NEW t \in Threads, StartSweep(t) PROVE UsedTyped'
  BY <1>28, SpendTyped DEF StartSweep, UsedTyped, Kinds
<1>29. ASSUME NEW t \in Threads, Sweep(t) PROVE UsedTyped'
  BY <1>29, SpendTyped DEF Sweep, UsedTyped, Kinds
<1>30. ASSUME NEW t \in Threads, ReopenMic(t) PROVE UsedTyped'
  BY <1>30, SpendTyped DEF ReopenMic, UsedTyped, Kinds
<1>31. ASSUME NEW t \in Threads, RestartMic(t) PROVE UsedTyped'
  BY <1>31, SpendTyped DEF RestartMic, UsedTyped, Kinds, Opens, OpenFails
<1>32. ASSUME NEW t \in Threads, RecoverStranded(t) PROVE UsedTyped'
  BY <1>32, SpendTyped DEF RecoverStranded, UsedTyped, Kinds
<1>33. ASSUME IgnoredPress PROVE UsedTyped'
  BY <1>33, SpendTyped DEF IgnoredPress, UsedTyped, Kinds
<1>34. ASSUME IgnoredRelease PROVE UsedTyped'
  BY <1>34, SpendTyped DEF IgnoredRelease, UsedTyped, Kinds
<1>35. ASSUME ReleaseHandsFree PROVE UsedTyped'
  BY <1>35, SpendTyped DEF ReleaseHandsFree, UsedTyped, Kinds
<1>36. ASSUME TogglePause PROVE UsedTyped'
  BY <1>36, SpendTyped DEF TogglePause, UsedTyped, Kinds
<1>37. ASSUME DeviceFails PROVE UsedTyped'
  BY <1>37, SpendTyped DEF DeviceFails, UsedTyped, Kinds
<1>38. ASSUME MashWindowCloses PROVE UsedTyped'
  BY <1>38, SpendTyped DEF MashWindowCloses, UsedTyped, Kinds
<1>39. ASSUME RecordingAges PROVE UsedTyped'
  BY <1>39, SpendTyped DEF RecordingAges, UsedTyped, Kinds
<1>40. ASSUME ProcessingAges PROVE UsedTyped'
  BY <1>40, SpendTyped DEF ProcessingAges, UsedTyped, Kinds
<1>41. ASSUME UNCHANGED vars PROVE UsedTyped'
  BY <1>41, SpendTyped DEF vars, UsedTyped, Kinds
<1> QED
  BY <1>1, <1>2, <1>3, <1>4, <1>5, <1>6, <1>7, <1>8, <1>9, <1>10, <1>11,
     <1>12, <1>13, <1>14, <1>15, <1>16, <1>17, <1>18, <1>19, <1>20, <1>21,
     <1>22, <1>23, <1>24, <1>25, <1>26, <1>27, <1>28, <1>29, <1>30, <1>31,
     <1>32, <1>33, <1>34, <1>35, <1>36, <1>37, <1>38, <1>39, <1>40, <1>41
  DEF Next, Hook, User, Work, Time

(* The mode and the stamps. *)
LEMMA StepModes == ModesTyped /\ [Next]_vars => ModesTyped'
<1> SUFFICES ASSUME ModesTyped, [Next]_vars PROVE ModesTyped'
  OBVIOUS
<1>1. ASSUME NEW t \in Threads, PressPtt(t) PROVE ModesTyped'
  BY <1>1 DEF PressPtt, ModesTyped, Ages, timeVars
<1>2. ASSUME NEW t \in Threads, ReleasePtt(t) PROVE ModesTyped'
  BY <1>2 DEF ReleasePtt, ModesTyped, Ages, timeVars
<1>3. ASSUME NEW t \in Threads, PressHandsFree(t) PROVE ModesTyped'
  BY <1>3 DEF PressHandsFree, ModesTyped, Ages, timeVars
<1>4. ASSUME NEW t \in Threads, PressEscape(t) PROVE ModesTyped'
  BY <1>4 DEF PressEscape, ModesTyped, Ages, timeVars
<1>5. ASSUME NEW t \in Threads, StartPtt(t) PROVE ModesTyped'
  BY <1>5 DEF StartPtt, ModesTyped, Ages, timeVars
<1>6. ASSUME NEW t \in Threads, MashGate(t) PROVE ModesTyped'
  BY <1>6 DEF MashGate, ModesTyped, Ages, timeVars
<1>7. ASSUME NEW t \in Threads, Rescue(t) PROVE ModesTyped'
  BY <1>7 DEF Rescue, ModesTyped, Ages, timeVars
<1>8. ASSUME NEW t \in Threads, CheckIdle(t) PROVE ModesTyped'
  BY <1>8 DEF CheckIdle, ModesTyped, Ages, timeVars
<1>9. ASSUME NEW t \in Threads, OpenMic(t) PROVE ModesTyped'
  BY <1>9 DEF OpenMic, ModesTyped, Ages, timeVars
<1>10. ASSUME NEW t \in Threads, Commit(t) PROVE ModesTyped'
  BY <1>10 DEF Commit, ModesTyped, Ages, timeVars
<1>11. ASSUME NEW t \in Threads, Register(t) PROVE ModesTyped'
  BY <1>11 DEF Register, ModesTyped, Ages, timeVars
<1>12. ASSUME NEW t \in Threads, Forward(t) PROVE ModesTyped'
  BY <1>12 DEF Forward, ModesTyped, Ages, timeVars
<1>13. ASSUME NEW t \in Threads, StopPtt(t) PROVE ModesTyped'
  BY <1>13 DEF StopPtt, ModesTyped, Ages, timeVars
<1>14. ASSUME NEW t \in Threads, ToggleHandsFree(t) PROVE ModesTyped'
  BY <1>14 DEF ToggleHandsFree, ModesTyped, Ages, timeVars
<1>15. ASSUME NEW t \in Threads, EscapePressed(t) PROVE ModesTyped'
  BY <1>15 DEF EscapePressed, ModesTyped, Ages, timeVars
<1>16. ASSUME NEW t \in Threads, EscapeClaim(t) PROVE ModesTyped'
  BY <1>16 DEF EscapeClaim, ModesTyped, Ages, timeVars
<1>17. ASSUME NEW t \in Threads, Stamp(t) PROVE ModesTyped'
  BY <1>17 DEF Stamp, ModesTyped, Ages, timeVars
<1>18. ASSUME NEW t \in Threads, CloseMic(t) PROVE ModesTyped'
  BY <1>18 DEF CloseMic, ModesTyped, Ages, timeVars
<1>19. ASSUME NEW t \in Threads, TakeRequest(t) PROVE ModesTyped'
  BY <1>19 DEF TakeRequest, ModesTyped, Ages, timeVars
<1>20. ASSUME NEW t \in Threads, RemoveStream(t) PROVE ModesTyped'
  BY <1>20 DEF RemoveStream, ModesTyped, Ages, timeVars
<1>21. ASSUME NEW t \in Threads, Decode(t) PROVE ModesTyped'
  BY <1>21 DEF Decode, ModesTyped, Ages, timeVars
<1>22. ASSUME NEW t \in Threads, SetIdle(t) PROVE ModesTyped'
  BY <1>22 DEF SetIdle, ModesTyped, Ages, timeVars
<1>23. ASSUME NEW t \in Threads, Unstamp(t) PROVE ModesTyped'
  BY <1>23 DEF Unstamp, ModesTyped, Ages, timeVars
<1>24. ASSUME NEW t \in Threads, Autostart(t) PROVE ModesTyped'
  BY <1>24 DEF Autostart, ModesTyped, Ages, timeVars
<1>25. ASSUME NEW t \in Threads, DropPending(t) PROVE ModesTyped'
  BY <1>25 DEF DropPending, ModesTyped, Ages, timeVars
<1>26. ASSUME NEW t \in Threads, DropSession(t) PROVE ModesTyped'
  BY <1>26 DEF DropSession, ModesTyped, Ages, timeVars
<1>27. ASSUME NEW t \in Threads, Forget(t) PROVE ModesTyped'
  BY <1>27 DEF Forget, ModesTyped, Ages, timeVars
<1>28. ASSUME NEW t \in Threads, StartSweep(t) PROVE ModesTyped'
  BY <1>28 DEF StartSweep, ModesTyped, Ages, timeVars
<1>29. ASSUME NEW t \in Threads, Sweep(t) PROVE ModesTyped'
  BY <1>29 DEF Sweep, ModesTyped, Ages, timeVars
<1>30. ASSUME NEW t \in Threads, ReopenMic(t) PROVE ModesTyped'
  BY <1>30 DEF ReopenMic, ModesTyped, Ages, timeVars
<1>31. ASSUME NEW t \in Threads, RestartMic(t) PROVE ModesTyped'
  <2>1. blame' = blame \/ blame' = blame \cup {"reopened"}
    BY <1>31 DEF RestartMic
  <2>2. UNCHANGED <<mode, startedAt, processingSince>>
    BY <1>31 DEF RestartMic, timeVars
  <2> QED  BY <2>1, <2>2 DEF ModesTyped
<1>32. ASSUME NEW t \in Threads, RecoverStranded(t) PROVE ModesTyped'
  BY <1>32 DEF RecoverStranded, ModesTyped, Ages, timeVars
<1>33. ASSUME IgnoredPress PROVE ModesTyped'
  BY <1>33 DEF IgnoredPress, ModesTyped, Ages, timeVars
<1>34. ASSUME IgnoredRelease PROVE ModesTyped'
  BY <1>34 DEF IgnoredRelease, ModesTyped, Ages, timeVars
<1>35. ASSUME ReleaseHandsFree PROVE ModesTyped'
  BY <1>35 DEF ReleaseHandsFree, ModesTyped, Ages, timeVars
<1>36. ASSUME TogglePause PROVE ModesTyped'
  BY <1>36 DEF TogglePause, ModesTyped, Ages, timeVars
<1>37. ASSUME DeviceFails PROVE ModesTyped'
  BY <1>37 DEF DeviceFails, ModesTyped, Ages, timeVars
<1>38. ASSUME MashWindowCloses PROVE ModesTyped'
  BY <1>38 DEF MashWindowCloses, ModesTyped, Ages, timeVars
<1>39. ASSUME RecordingAges PROVE ModesTyped'
  BY <1>39 DEF RecordingAges, ModesTyped, Ages, timeVars
<1>40. ASSUME ProcessingAges PROVE ModesTyped'
  BY <1>40 DEF ProcessingAges, ModesTyped, Ages, timeVars
<1>41. ASSUME UNCHANGED vars PROVE ModesTyped'
  BY <1>41 DEF vars, ModesTyped, Ages, timeVars
<1> QED
  BY <1>1, <1>2, <1>3, <1>4, <1>5, <1>6, <1>7, <1>8, <1>9, <1>10, <1>11,
     <1>12, <1>13, <1>14, <1>15, <1>16, <1>17, <1>18, <1>19, <1>20, <1>21,
     <1>22, <1>23, <1>24, <1>25, <1>26, <1>27, <1>28, <1>29, <1>30, <1>31,
     <1>32, <1>33, <1>34, <1>35, <1>36, <1>37, <1>38, <1>39, <1>40, <1>41
  DEF Next, Hook, User, Work, Time

(* The microphone and the flags. *)
LEMMA StepFlags == FlagsTyped /\ [Next]_vars => FlagsTyped'
<1> SUFFICES ASSUME FlagsTyped, [Next]_vars PROVE FlagsTyped'
  OBVIOUS
<1>1. ASSUME NEW t \in Threads, PressPtt(t) PROVE FlagsTyped'
  BY <1>1 DEF PressPtt, FlagsTyped, keyVars, micVars, timeVars
<1>2. ASSUME NEW t \in Threads, ReleasePtt(t) PROVE FlagsTyped'
  BY <1>2 DEF ReleasePtt, FlagsTyped, keyVars, micVars, timeVars
<1>3. ASSUME NEW t \in Threads, PressHandsFree(t) PROVE FlagsTyped'
  BY <1>3 DEF PressHandsFree, FlagsTyped, keyVars, micVars, timeVars
<1>4. ASSUME NEW t \in Threads, PressEscape(t) PROVE FlagsTyped'
  BY <1>4 DEF PressEscape, FlagsTyped, keyVars, micVars, timeVars
<1>5. ASSUME NEW t \in Threads, StartPtt(t) PROVE FlagsTyped'
  BY <1>5 DEF StartPtt, FlagsTyped, keyVars, micVars, timeVars, Park
<1>6. ASSUME NEW t \in Threads, MashGate(t) PROVE FlagsTyped'
  BY <1>6 DEF MashGate, FlagsTyped, keyVars, micVars, timeVars
<1>7. ASSUME NEW t \in Threads, Rescue(t) PROVE FlagsTyped'
  BY <1>7 DEF Rescue, FlagsTyped, keyVars, micVars, timeVars
<1>8. ASSUME NEW t \in Threads, CheckIdle(t) PROVE FlagsTyped'
  BY <1>8 DEF CheckIdle, FlagsTyped, keyVars, micVars, timeVars, Park
<1>9. ASSUME NEW t \in Threads, OpenMic(t) PROVE FlagsTyped'
  BY <1>9 DEF OpenMic, FlagsTyped, keyVars, micVars, timeVars, Opens,
    OpenFails
<1>10. ASSUME NEW t \in Threads, Commit(t) PROVE FlagsTyped'
  BY <1>10 DEF Commit, FlagsTyped, keyVars, micVars, timeVars, Park
<1>11. ASSUME NEW t \in Threads, Register(t) PROVE FlagsTyped'
  BY <1>11 DEF Register, FlagsTyped, keyVars, micVars, timeVars
<1>12. ASSUME NEW t \in Threads, Forward(t) PROVE FlagsTyped'
  BY <1>12 DEF Forward, FlagsTyped, keyVars, micVars, timeVars
<1>13. ASSUME NEW t \in Threads, StopPtt(t) PROVE FlagsTyped'
  BY <1>13 DEF StopPtt, FlagsTyped, keyVars, micVars, timeVars
<1>14. ASSUME NEW t \in Threads, ToggleHandsFree(t) PROVE FlagsTyped'
  BY <1>14 DEF ToggleHandsFree, FlagsTyped, keyVars, micVars, timeVars
<1>15. ASSUME NEW t \in Threads, EscapePressed(t) PROVE FlagsTyped'
  BY <1>15 DEF EscapePressed, FlagsTyped, keyVars, micVars, timeVars
<1>16. ASSUME NEW t \in Threads, EscapeClaim(t) PROVE FlagsTyped'
  BY <1>16 DEF EscapeClaim, FlagsTyped, keyVars, micVars, timeVars
<1>17. ASSUME NEW t \in Threads, Stamp(t) PROVE FlagsTyped'
  BY <1>17 DEF Stamp, FlagsTyped, keyVars, micVars, timeVars
<1>18. ASSUME NEW t \in Threads, CloseMic(t) PROVE FlagsTyped'
  BY <1>18 DEF CloseMic, FlagsTyped, keyVars, micVars, timeVars
<1>19. ASSUME NEW t \in Threads, TakeRequest(t) PROVE FlagsTyped'
  BY <1>19 DEF TakeRequest, FlagsTyped, keyVars, micVars, timeVars
<1>20. ASSUME NEW t \in Threads, RemoveStream(t) PROVE FlagsTyped'
  BY <1>20 DEF RemoveStream, FlagsTyped, keyVars, micVars, timeVars
<1>21. ASSUME NEW t \in Threads, Decode(t) PROVE FlagsTyped'
  BY <1>21 DEF Decode, FlagsTyped, keyVars, micVars, timeVars
<1>22. ASSUME NEW t \in Threads, SetIdle(t) PROVE FlagsTyped'
  BY <1>22 DEF SetIdle, FlagsTyped, keyVars, micVars, timeVars
<1>23. ASSUME NEW t \in Threads, Unstamp(t) PROVE FlagsTyped'
  BY <1>23 DEF Unstamp, FlagsTyped, keyVars, micVars, timeVars
<1>24. ASSUME NEW t \in Threads, Autostart(t) PROVE FlagsTyped'
  BY <1>24 DEF Autostart, FlagsTyped, keyVars, micVars, timeVars
<1>25. ASSUME NEW t \in Threads, DropPending(t) PROVE FlagsTyped'
  BY <1>25 DEF DropPending, FlagsTyped, keyVars, micVars, timeVars
<1>26. ASSUME NEW t \in Threads, DropSession(t) PROVE FlagsTyped'
  BY <1>26 DEF DropSession, FlagsTyped, keyVars, micVars, timeVars
<1>27. ASSUME NEW t \in Threads, Forget(t) PROVE FlagsTyped'
  BY <1>27 DEF Forget, FlagsTyped, keyVars, micVars, timeVars
<1>28. ASSUME NEW t \in Threads, StartSweep(t) PROVE FlagsTyped'
  BY <1>28 DEF StartSweep, FlagsTyped, keyVars, micVars, timeVars
<1>29. ASSUME NEW t \in Threads, Sweep(t) PROVE FlagsTyped'
  BY <1>29 DEF Sweep, FlagsTyped, keyVars, micVars, timeVars
<1>30. ASSUME NEW t \in Threads, ReopenMic(t) PROVE FlagsTyped'
  <2>1. \/ mic' = mic /\ lost' = lost
        \/ lost' = FALSE /\ mic' = FALSE
    BY <1>30 DEF ReopenMic, micVars
  <2>2. mic \in BOOLEAN /\ lost \in BOOLEAN /\ ~(mic /\ lost)
    BY DEF FlagsTyped
  <2>3. mic' \in BOOLEAN /\ lost' \in BOOLEAN /\ ~(mic' /\ lost')
    <3>1. CASE mic' = mic /\ lost' = lost
      BY <2>2, <3>1
    <3>2. CASE lost' = FALSE /\ mic' = FALSE
      BY <2>2, <3>2
    <3> QED  BY <2>1, <3>1, <3>2
  <2>4. UNCHANGED <<pending, justStopped, paused, held, pttDown, hfDown>>
    BY <1>30 DEF ReopenMic, timeVars, keyVars
  <2> QED  BY <2>3, <2>4 DEF FlagsTyped
<1>31. ASSUME NEW t \in Threads, RestartMic(t) PROVE FlagsTyped'
  <2>1. \/ mic' = mic /\ lost' = lost
        \/ lost' = FALSE /\ (mic' = mic \/ mic' = TRUE)
    BY <1>31 DEF RestartMic, micVars, Opens, OpenFails
  <2>2. mic \in BOOLEAN /\ lost \in BOOLEAN /\ ~(mic /\ lost)
    BY DEF FlagsTyped
  <2>3. mic' \in BOOLEAN /\ lost' \in BOOLEAN /\ ~(mic' /\ lost')
    <3>1. CASE mic' = mic /\ lost' = lost
      BY <2>2, <3>1
    <3>2. CASE lost' = FALSE /\ (mic' = mic \/ mic' = TRUE)
      BY <2>2, <3>2
    <3> QED  BY <2>1, <3>1, <3>2
  <2>4. UNCHANGED <<pending, justStopped, paused, held, pttDown, hfDown>>
    BY <1>31 DEF RestartMic, timeVars, keyVars
  <2> QED  BY <2>3, <2>4 DEF FlagsTyped
<1>32. ASSUME NEW t \in Threads, RecoverStranded(t) PROVE FlagsTyped'
  BY <1>32 DEF RecoverStranded, FlagsTyped, keyVars, micVars, timeVars
<1>33. ASSUME IgnoredPress PROVE FlagsTyped'
  BY <1>33 DEF IgnoredPress, FlagsTyped, keyVars, micVars, timeVars
<1>34. ASSUME IgnoredRelease PROVE FlagsTyped'
  BY <1>34 DEF IgnoredRelease, FlagsTyped, keyVars, micVars, timeVars
<1>35. ASSUME ReleaseHandsFree PROVE FlagsTyped'
  BY <1>35 DEF ReleaseHandsFree, FlagsTyped, keyVars, micVars, timeVars
<1>36. ASSUME TogglePause PROVE FlagsTyped'
  BY <1>36 DEF TogglePause, FlagsTyped, keyVars, micVars, timeVars
<1>37. ASSUME DeviceFails PROVE FlagsTyped'
  BY <1>37 DEF DeviceFails, FlagsTyped, keyVars, micVars, timeVars
<1>38. ASSUME MashWindowCloses PROVE FlagsTyped'
  BY <1>38 DEF MashWindowCloses, FlagsTyped, keyVars, micVars, timeVars
<1>39. ASSUME RecordingAges PROVE FlagsTyped'
  BY <1>39 DEF RecordingAges, FlagsTyped, keyVars, micVars, timeVars
<1>40. ASSUME ProcessingAges PROVE FlagsTyped'
  BY <1>40 DEF ProcessingAges, FlagsTyped, keyVars, micVars, timeVars
<1>41. ASSUME UNCHANGED vars PROVE FlagsTyped'
  BY <1>41 DEF vars, FlagsTyped, keyVars, micVars, timeVars
<1> QED
  BY <1>1, <1>2, <1>3, <1>4, <1>5, <1>6, <1>7, <1>8, <1>9, <1>10, <1>11,
     <1>12, <1>13, <1>14, <1>15, <1>16, <1>17, <1>18, <1>19, <1>20, <1>21,
     <1>22, <1>23, <1>24, <1>25, <1>26, <1>27, <1>28, <1>29, <1>30, <1>31,
     <1>32, <1>33, <1>34, <1>35, <1>36, <1>37, <1>38, <1>39, <1>40, <1>41
  DEF Next, Hook, User, Work, Time

LEMMA VoiceTypes == TypeOK /\ [Next]_vars => TypeOK'
<1> SUFFICES ASSUME TypeOK, [Next]_vars PROVE TypeOK'
  OBVIOUS
<1>1. ThreadsTyped /\ RequestsTyped /\ UsedTyped /\ ModesTyped /\ FlagsTyped
  BY TypeParts
<1>2. (ThreadsTyped /\ RequestsTyped /\ UsedTyped /\ ModesTyped /\ FlagsTyped)'
  BY <1>1, StepThreads, StepRequests, StepUsed, StepModes, StepFlags
<1> QED  BY <1>2 DEF TypeOK, ThreadsTyped, RequestsTyped, UsedTyped, ModesTyped,
         FlagsTyped

-----------------------------------------------------------------------------
(* The owners *)

(* Only a cancel or a reset comes to drop a session. *)
LEMMA VoiceDroppers == (ThreadsTyped /\ DroppersQuit) /\ [Next]_vars => DroppersQuit'
<1> SUFFICES ASSUME (ThreadsTyped /\ DroppersQuit), [Next]_vars PROVE DroppersQuit'
  OBVIOUS
<1>1. ASSUME NEW t \in Threads, PressPtt(t) PROVE DroppersQuit'
  BY <1>1 DEF PressPtt, ThreadsTyped, DroppersQuit, Quits, Spawn, Go, Finish
<1>2. ASSUME NEW t \in Threads, ReleasePtt(t) PROVE DroppersQuit'
  BY <1>2 DEF ReleasePtt, ThreadsTyped, DroppersQuit, Quits, Spawn, Go, Finish
<1>3. ASSUME NEW t \in Threads, PressHandsFree(t) PROVE DroppersQuit'
  BY <1>3 DEF PressHandsFree, ThreadsTyped, DroppersQuit, Quits, Spawn, Go,
    Finish
<1>4. ASSUME NEW t \in Threads, PressEscape(t) PROVE DroppersQuit'
  BY <1>4 DEF PressEscape, ThreadsTyped, DroppersQuit, Quits, Spawn, Go,
    Finish
<1>5. ASSUME NEW t \in Threads, StartPtt(t) PROVE DroppersQuit'
  BY <1>5 DEF StartPtt, ThreadsTyped, DroppersQuit, Quits, Spawn, Go, Finish,
    Park
<1>6. ASSUME NEW t \in Threads, MashGate(t) PROVE DroppersQuit'
  BY <1>6 DEF MashGate, ThreadsTyped, DroppersQuit, Quits, Spawn, Go, Finish
<1>7. ASSUME NEW t \in Threads, Rescue(t) PROVE DroppersQuit'
  BY <1>7 DEF Rescue, ThreadsTyped, DroppersQuit, Quits, Spawn, Go, Finish
<1>8. ASSUME NEW t \in Threads, CheckIdle(t) PROVE DroppersQuit'
  BY <1>8 DEF CheckIdle, ThreadsTyped, DroppersQuit, Quits, Spawn, Go, Finish,
    Park
<1>9. ASSUME NEW t \in Threads, OpenMic(t) PROVE DroppersQuit'
  BY <1>9 DEF OpenMic, ThreadsTyped, DroppersQuit, Quits, Spawn, Go, Finish
<1>10. ASSUME NEW t \in Threads, Commit(t) PROVE DroppersQuit'
  BY <1>10 DEF Commit, ThreadsTyped, DroppersQuit, Quits, Spawn, Go, Finish,
    Park
<1>11. ASSUME NEW t \in Threads, Register(t) PROVE DroppersQuit'
  BY <1>11 DEF Register, ThreadsTyped, DroppersQuit, Quits, Spawn, Go, Finish
<1>12. ASSUME NEW t \in Threads, Forward(t) PROVE DroppersQuit'
  BY <1>12 DEF Forward, ThreadsTyped, DroppersQuit, Quits, Spawn, Go, Finish
<1>13. ASSUME NEW t \in Threads, StopPtt(t) PROVE DroppersQuit'
  BY <1>13 DEF StopPtt, ThreadsTyped, DroppersQuit, Quits, Spawn, Go, Finish
<1>14. ASSUME NEW t \in Threads, ToggleHandsFree(t) PROVE DroppersQuit'
  BY <1>14 DEF ToggleHandsFree, ThreadsTyped, DroppersQuit, Quits, Spawn, Go,
    Finish
<1>15. ASSUME NEW t \in Threads, EscapePressed(t) PROVE DroppersQuit'
  BY <1>15 DEF EscapePressed, ThreadsTyped, DroppersQuit, Quits, Spawn, Go,
    Finish
<1>16. ASSUME NEW t \in Threads, EscapeClaim(t) PROVE DroppersQuit'
  BY <1>16 DEF EscapeClaim, ThreadsTyped, DroppersQuit, Quits, Spawn, Go,
    Finish
<1>17. ASSUME NEW t \in Threads, Stamp(t) PROVE DroppersQuit'
  BY <1>17 DEF Stamp, ThreadsTyped, DroppersQuit, Quits, Spawn, Go, Finish
<1>18. ASSUME NEW t \in Threads, CloseMic(t) PROVE DroppersQuit'
  BY <1>18 DEF CloseMic, ThreadsTyped, DroppersQuit, Quits, Spawn, Go, Finish
<1>19. ASSUME NEW t \in Threads, TakeRequest(t) PROVE DroppersQuit'
  BY <1>19 DEF TakeRequest, ThreadsTyped, DroppersQuit, Quits, Spawn, Go,
    Finish
<1>20. ASSUME NEW t \in Threads, RemoveStream(t) PROVE DroppersQuit'
  BY <1>20 DEF RemoveStream, ThreadsTyped, DroppersQuit, Quits, Spawn, Go,
    Finish
<1>21. ASSUME NEW t \in Threads, Decode(t) PROVE DroppersQuit'
  BY <1>21 DEF Decode, ThreadsTyped, DroppersQuit, Quits, Spawn, Go, Finish
<1>22. ASSUME NEW t \in Threads, SetIdle(t) PROVE DroppersQuit'
  BY <1>22 DEF SetIdle, ThreadsTyped, DroppersQuit, Quits, Spawn, Go, Finish
<1>23. ASSUME NEW t \in Threads, Unstamp(t) PROVE DroppersQuit'
  BY <1>23 DEF Unstamp, ThreadsTyped, DroppersQuit, Quits, Spawn, Go, Finish
<1>24. ASSUME NEW t \in Threads, Autostart(t) PROVE DroppersQuit'
  BY <1>24 DEF Autostart, ThreadsTyped, DroppersQuit, Quits, Spawn, Go, Finish
<1>25. ASSUME NEW t \in Threads, DropPending(t) PROVE DroppersQuit'
  BY <1>25 DEF DropPending, ThreadsTyped, DroppersQuit, Quits, Spawn, Go,
    Finish
<1>26. ASSUME NEW t \in Threads, DropSession(t) PROVE DroppersQuit'
  BY <1>26 DEF DropSession, ThreadsTyped, DroppersQuit, Quits, Spawn, Go,
    Finish
<1>27. ASSUME NEW t \in Threads, Forget(t) PROVE DroppersQuit'
  BY <1>27 DEF Forget, ThreadsTyped, DroppersQuit, Quits, Spawn, Go, Finish
<1>28. ASSUME NEW t \in Threads, StartSweep(t) PROVE DroppersQuit'
  BY <1>28 DEF StartSweep, ThreadsTyped, DroppersQuit, Quits, Spawn, Go,
    Finish
<1>29. ASSUME NEW t \in Threads, Sweep(t) PROVE DroppersQuit'
  BY <1>29 DEF Sweep, ThreadsTyped, DroppersQuit, Quits, Spawn, Go, Finish
<1>30. ASSUME NEW t \in Threads, ReopenMic(t) PROVE DroppersQuit'
  BY <1>30 DEF ReopenMic, ThreadsTyped, DroppersQuit, Quits, Spawn, Go, Finish
<1>31. ASSUME NEW t \in Threads, RestartMic(t) PROVE DroppersQuit'
  BY <1>31 DEF RestartMic, ThreadsTyped, DroppersQuit, Quits, Spawn, Go,
    Finish
<1>32. ASSUME NEW t \in Threads, RecoverStranded(t) PROVE DroppersQuit'
  BY <1>32 DEF RecoverStranded, ThreadsTyped, DroppersQuit, Quits, Spawn, Go,
    Finish
<1>33. ASSUME IgnoredPress PROVE DroppersQuit'
  BY <1>33 DEF IgnoredPress, ThreadsTyped, DroppersQuit, Quits, Spawn, Go,
    Finish, threadVars
<1>34. ASSUME IgnoredRelease PROVE DroppersQuit'
  BY <1>34 DEF IgnoredRelease, ThreadsTyped, DroppersQuit, Quits, Spawn, Go,
    Finish, threadVars
<1>35. ASSUME ReleaseHandsFree PROVE DroppersQuit'
  BY <1>35 DEF ReleaseHandsFree, ThreadsTyped, DroppersQuit, Quits, Spawn, Go,
    Finish, threadVars
<1>36. ASSUME TogglePause PROVE DroppersQuit'
  BY <1>36 DEF TogglePause, ThreadsTyped, DroppersQuit, Quits, Spawn, Go,
    Finish, threadVars
<1>37. ASSUME DeviceFails PROVE DroppersQuit'
  BY <1>37 DEF DeviceFails, ThreadsTyped, DroppersQuit, Quits, Spawn, Go,
    Finish, threadVars
<1>38. ASSUME MashWindowCloses PROVE DroppersQuit'
  BY <1>38 DEF MashWindowCloses, ThreadsTyped, DroppersQuit, Quits, Spawn, Go,
    Finish, threadVars
<1>39. ASSUME RecordingAges PROVE DroppersQuit'
  BY <1>39 DEF RecordingAges, ThreadsTyped, DroppersQuit, Quits, Spawn, Go,
    Finish, threadVars
<1>40. ASSUME ProcessingAges PROVE DroppersQuit'
  BY <1>40 DEF ProcessingAges, ThreadsTyped, DroppersQuit, Quits, Spawn, Go,
    Finish, threadVars
<1>41. ASSUME UNCHANGED vars PROVE DroppersQuit'
  BY <1>41 DEF vars, ThreadsTyped, DroppersQuit, Quits, Spawn, Go, Finish,
    threadVars
<1> QED
  BY <1>1, <1>2, <1>3, <1>4, <1>5, <1>6, <1>7, <1>8, <1>9, <1>10, <1>11,
     <1>12, <1>13, <1>14, <1>15, <1>16, <1>17, <1>18, <1>19, <1>20, <1>21,
     <1>22, <1>23, <1>24, <1>25, <1>26, <1>27, <1>28, <1>29, <1>30, <1>31,
     <1>32, <1>33, <1>34, <1>35, <1>36, <1>37, <1>38, <1>39, <1>40, <1>41
  DEF Next, Hook, User, Work, Time

(* What the moves of a thread do to the owners. *)
LEMMA Ownership ==
  ASSUME NEW t \in Threads
  PROVE  /\ t \in Owners <=> pc[t] \in Finalizing /\ ~Quits(t)
         /\ t \in Wedged <=> pc[t] = "wedged"
  BY DEF Owners, Wedged

LEMMA GoOwners ==
  ASSUME ThreadsTyped, NEW t \in Threads, NEW l, Go(t, l)
  PROVE  /\ Owners' = IF l \in Finalizing /\ ~Quits(t) THEN Owners \cup {t}
                                                     ELSE Owners \ {t}
         /\ Wedged' = IF l = "wedged" THEN Wedged \cup {t} ELSE Wedged \ {t}
<1>1. ASSUME NEW u \in Threads
      PROVE  /\ u # t => pc'[u] = pc[u]
             /\ pc'[t] = l
             /\ kind' = kind
  BY DEF ThreadsTyped, Go
<1>2. Owners' = IF l \in Finalizing /\ ~Quits(t) THEN Owners \cup {t} ELSE Owners \ {t}
  BY <1>1 DEF Owners, Quits
<1>3. Wedged' = IF l = "wedged" THEN Wedged \cup {t} ELSE Wedged \ {t}
  BY <1>1 DEF Wedged
<1> QED  BY <1>2, <1>3

LEMMA FinishOwners ==
  ASSUME ThreadsTyped, NEW t \in Threads, Finish(t)
  PROVE  Owners' = Owners \ {t} /\ Wedged' = Wedged \ {t}
<1>1. ASSUME NEW u \in Threads
      PROVE  /\ u # t => pc'[u] = pc[u] /\ kind'[u] = kind[u]
             /\ pc'[t] = "free"
  BY DEF ThreadsTyped, Finish
<1>2. Owners' = Owners \ {t}
  BY <1>1 DEF Owners, Quits, Finalizing
<1>3. Wedged' = Wedged \ {t}
  BY <1>1 DEF Wedged
<1> QED  BY <1>2, <1>3

LEMMA SpawnOwners ==
  ASSUME ThreadsTyped, NEW t \in Threads, NEW k, NEW l, Spawn(t, k, l),
         l \notin Finalizing \cup {"wedged"}
  PROVE  Owners' = Owners /\ Wedged' = Wedged
<1>1. ASSUME NEW u \in Threads
      PROVE  /\ u # t => pc'[u] = pc[u] /\ kind'[u] = kind[u]
             /\ pc'[t] = l /\ pc[t] = "free"
  BY DEF ThreadsTyped, Spawn
<1>2. Owners' = Owners
  BY <1>1 DEF Owners, Quits, Finalizing
<1>3. Wedged' = Wedged
  BY <1>1 DEF Wedged
<1> QED  BY <1>2, <1>3

(* A thread that takes a recording over becomes the only owner. *)
LEMMA Claim ==
  ASSUME ThreadsTyped, OneOwner, NEW t \in Threads, ~Quits(t),
         mode \in {"PushToTalk", "HandsFree"}, mode' = "Processing", Go(t, "stamp"),
         blame' = blame
  PROVE  OneOwner'
<1>1. Owners' = Owners \cup {t}
  BY GoOwners DEF Finalizing
<1>2. "overruled" \notin blame => Owners = {}
  BY DEF OneOwner
<1> QED  BY <1>1, <1>2 DEF OneOwner

(* Each step keeps the owner the only one. *)
LEMMA VoiceOwners == (ThreadsTyped /\ DroppersQuit /\ OneOwner) /\ [Next]_vars => OneOwner'
<1> SUFFICES ASSUME (ThreadsTyped /\ DroppersQuit /\ OneOwner), [Next]_vars PROVE OneOwner'
  OBVIOUS
<1> USE DEF OneOwner, Finalizing
<1>1. ASSUME NEW t \in Threads, PressPtt(t) PROVE OneOwner'
  BY <1>1, SpawnOwners DEF PressPtt
<1>2. ASSUME NEW t \in Threads, ReleasePtt(t) PROVE OneOwner'
  BY <1>2, SpawnOwners DEF ReleasePtt
<1>3. ASSUME NEW t \in Threads, PressHandsFree(t) PROVE OneOwner'
  BY <1>3, SpawnOwners DEF PressHandsFree
<1>4. ASSUME NEW t \in Threads, PressEscape(t) PROVE OneOwner'
  BY <1>4, SpawnOwners DEF PressEscape
<1>5. ASSUME NEW t \in Threads, StartPtt(t) PROVE OneOwner'
  BY <1>5, GoOwners, FinishOwners, Ownership DEF StartPtt, Park
<1>6. ASSUME NEW t \in Threads, MashGate(t) PROVE OneOwner'
  BY <1>6, GoOwners, FinishOwners, Ownership DEF MashGate
<1>7. ASSUME NEW t \in Threads, Rescue(t) PROVE OneOwner'
  BY <1>7, GoOwners, FinishOwners, Ownership DEF Rescue
<1>8. ASSUME NEW t \in Threads, CheckIdle(t) PROVE OneOwner'
  BY <1>8, GoOwners, FinishOwners, Ownership DEF CheckIdle, Park
<1>9. ASSUME NEW t \in Threads, OpenMic(t) PROVE OneOwner'
  BY <1>9, GoOwners, FinishOwners, Ownership DEF OpenMic
<1>10. ASSUME NEW t \in Threads, Commit(t) PROVE OneOwner'
  BY <1>10, GoOwners, FinishOwners, Ownership DEF Commit, Park
<1>11. ASSUME NEW t \in Threads, Register(t) PROVE OneOwner'
  <2>1. /\ pc[t] \notin Finalizing \cup {"wedged"} /\ pc'[t] \notin Finalizing \cup {"wedged"}
        /\ \A u \in Threads \ {t} : pc'[u] = pc[u] /\ kind'[u] = kind[u]
    BY <1>11 DEF Register, ThreadsTyped
  <2>2. Owners' = Owners /\ Wedged' = Wedged
    BY <2>1 DEF Owners, Wedged, Quits
  <2> QED  BY <1>11, <2>2 DEF Register
<1>12. ASSUME NEW t \in Threads, Forward(t) PROVE OneOwner'
  BY <1>12, GoOwners, FinishOwners, Ownership DEF Forward
<1>13. ASSUME NEW t \in Threads, StopPtt(t) PROVE OneOwner'
  <2>1. ~Quits(t)
    BY <1>13 DEF StopPtt, DroppersQuit
  <2>2. CASE mode = "PushToTalk"
    BY <1>13, <2>1, <2>2, Claim DEF StopPtt
  <2>3. CASE mode # "PushToTalk"
    BY <1>13, <2>3, FinishOwners, Ownership DEF StopPtt
  <2> QED  BY <2>2, <2>3
<1>14. ASSUME NEW t \in Threads, ToggleHandsFree(t) PROVE OneOwner'
  <2>1. ~Quits(t)
    BY <1>14 DEF ToggleHandsFree, DroppersQuit
  <2>2. pc[t] = "toggle" /\ blame' = blame
    BY <1>14 DEF ToggleHandsFree
  <2>3. CASE Finish(t) /\ mode' = mode
    BY <2>2, <2>3, FinishOwners, Ownership
  <2>4. CASE Go(t, "gate") /\ mode' = mode
    BY <2>2, <2>4, GoOwners, Ownership
  <2>5. CASE mode = "HandsFree" /\ mode' = "Processing" /\ Go(t, "stamp")
    BY <2>1, <2>2, <2>5, Claim
  <2> QED  BY <1>14, <2>3, <2>4, <2>5 DEF ToggleHandsFree
<1>15. ASSUME NEW t \in Threads, EscapePressed(t) PROVE OneOwner'
  BY <1>15, GoOwners, FinishOwners, Ownership DEF EscapePressed
<1>16. ASSUME NEW t \in Threads, EscapeClaim(t) PROVE OneOwner'
  <2>1. ~Quits(t)
    BY <1>16 DEF EscapeClaim, DroppersQuit
  <2>2. CASE Recording
    BY <1>16, <2>1, <2>2, Claim DEF EscapeClaim, Recording
  <2>3. CASE ~Recording
    BY <1>16, <2>3, FinishOwners, Ownership DEF EscapeClaim
  <2> QED  BY <2>2, <2>3
<1>17. ASSUME NEW t \in Threads, Stamp(t) PROVE OneOwner'
  BY <1>17, GoOwners, FinishOwners, Ownership DEF Stamp
<1>18. ASSUME NEW t \in Threads, CloseMic(t) PROVE OneOwner'
  BY <1>18, GoOwners, FinishOwners, Ownership DEF CloseMic
<1>19. ASSUME NEW t \in Threads, TakeRequest(t) PROVE OneOwner'
  <2>1. pc[t] = "take" /\ mode' = mode /\ blame \subseteq blame'
    BY <1>19 DEF TakeRequest
  <2>2. CASE activeReq = 0 /\ Quits(t)
    BY <1>19, <2>1, <2>2, FinishOwners, Ownership DEF TakeRequest
  <2>3. CASE activeReq = 0 /\ ~Quits(t)
    BY <1>19, <2>1, <2>3, GoOwners, Ownership DEF TakeRequest
  <2>4. CASE activeReq # 0
    <3>1. /\ pc'[t] = "remove" /\ kind' = kind
          /\ \A u \in Threads \ {t} : pc'[u] = pc[u]
      BY <1>19, <2>4 DEF TakeRequest, ThreadsTyped
    <3>2. Owners' = Owners /\ Wedged' = Wedged
      BY <2>1, <3>1 DEF Owners, Wedged, Quits
    <3> QED  BY <2>1, <3>2
  <2> QED  BY <2>2, <2>3, <2>4
<1>20. ASSUME NEW t \in Threads, RemoveStream(t) PROVE OneOwner'
  BY <1>20, GoOwners, FinishOwners, Ownership DEF RemoveStream
<1>21. ASSUME NEW t \in Threads, Decode(t) PROVE OneOwner'
  <2>1. pc[t] = "decode" /\ mode' = mode /\ blame' = blame
    BY <1>21 DEF Decode
  <2>2. t \in Owners
    BY <2>1, Ownership DEF DroppersQuit
  <2>3. CASE Go(t, "idle")
    BY <2>1, <2>2, <2>3, GoOwners, Ownership
  <2>4. CASE Go(t, "wedged")
    BY <2>1, <2>2, <2>4, GoOwners, Ownership
  <2> QED  BY <1>21, <2>3, <2>4 DEF Decode
<1>22. ASSUME NEW t \in Threads, SetIdle(t) PROVE OneOwner'
  <2>1. pc[t] = "idle" /\ mode' = "Idle" /\ blame' = blame /\ Go(t, "unstamp")
    BY <1>22 DEF SetIdle
  <2>2. t \in Owners
    BY <2>1, Ownership DEF DroppersQuit
  <2>3. Owners' = Owners \ {t}
    BY <2>1, GoOwners
  <2> QED  BY <2>1, <2>2, <2>3
<1>23. ASSUME NEW t \in Threads, Unstamp(t) PROVE OneOwner'
  BY <1>23, GoOwners, FinishOwners, Ownership DEF Unstamp
<1>24. ASSUME NEW t \in Threads, Autostart(t) PROVE OneOwner'
  <2>1. CASE Finish(t)
    BY <1>24, <2>1, FinishOwners, Ownership DEF Autostart
  <2>2. CASE ~Finish(t)
    <3>1. /\ pc[t] \notin Finalizing \cup {"wedged"}
          /\ pc'[t] \notin Finalizing \cup {"wedged"}
          /\ \A u \in Threads \ {t} : pc'[u] = pc[u] /\ kind'[u] = kind[u]
      BY <1>24, <2>2 DEF Autostart, ThreadsTyped
    <3>2. Owners' = Owners /\ Wedged' = Wedged
      BY <3>1 DEF Owners, Wedged, Quits
    <3> QED  BY <1>24, <3>2 DEF Autostart
  <2> QED  BY <2>1, <2>2
<1>25. ASSUME NEW t \in Threads, DropPending(t) PROVE OneOwner'
  <2>1. /\ pc[t] \notin Finalizing \cup {"wedged"} /\ pc'[t] \notin Finalizing \cup {"wedged"}
        /\ \A u \in Threads \ {t} : pc'[u] = pc[u] /\ kind'[u] = kind[u]
    BY <1>25 DEF DropPending, ThreadsTyped
  <2>2. Owners' = Owners /\ Wedged' = Wedged
    BY <2>1 DEF Owners, Wedged, Quits
  <2> QED  BY <1>25, <2>2 DEF DropPending
<1>26. ASSUME NEW t \in Threads, DropSession(t) PROVE OneOwner'
  <2>1. Owners' = Owners \ {t} /\ mode' = "Idle"
    BY <1>26, GoOwners DEF DropSession, DroppersQuit
  <2>2. CASE Owners # {} \/ mode # "Processing"
    BY <1>26, <2>2 DEF DropSession, DroppersQuit
  <2>3. CASE Owners = {}
    BY <2>1, <2>3
  <2> QED  BY <2>2, <2>3
<1>27. ASSUME NEW t \in Threads, Forget(t) PROVE OneOwner'
  <2>1. pc[t] = "forget" /\ Go(t, "close") /\ mode' = mode /\ blame' = blame
    BY <1>27 DEF Forget, DroppersQuit
  <2>2. Quits(t)
    BY <2>1 DEF DroppersQuit
  <2>3. t \notin Owners /\ t \notin Wedged
    BY <2>1, <2>2, Ownership
  <2>4. Owners' = Owners /\ Wedged' = Wedged
    BY <2>1, <2>2, <2>3, GoOwners
  <2> QED  BY <2>1, <2>4
<1>28. ASSUME NEW t \in Threads, StartSweep(t) PROVE OneOwner'
  BY <1>28, SpawnOwners DEF StartSweep
<1>29. ASSUME NEW t \in Threads, Sweep(t) PROVE OneOwner'
  BY <1>29, GoOwners, FinishOwners, Ownership DEF Sweep
<1>30. ASSUME NEW t \in Threads, ReopenMic(t) PROVE OneOwner'
  BY <1>30, GoOwners, FinishOwners, Ownership DEF ReopenMic
<1>31. ASSUME NEW t \in Threads, RestartMic(t) PROVE OneOwner'
  BY <1>31, GoOwners, FinishOwners, Ownership DEF RestartMic
<1>32. ASSUME NEW t \in Threads, RecoverStranded(t) PROVE OneOwner'
  BY <1>32, GoOwners, FinishOwners, Ownership DEF RecoverStranded
<1>33. ASSUME IgnoredPress PROVE OneOwner'
  BY <1>33 DEF IgnoredPress, threadVars, Owners, Wedged, Quits
<1>34. ASSUME IgnoredRelease PROVE OneOwner'
  BY <1>34 DEF IgnoredRelease, threadVars, Owners, Wedged, Quits
<1>35. ASSUME ReleaseHandsFree PROVE OneOwner'
  BY <1>35 DEF ReleaseHandsFree, threadVars, Owners, Wedged, Quits
<1>36. ASSUME TogglePause PROVE OneOwner'
  BY <1>36 DEF TogglePause, threadVars, Owners, Wedged, Quits
<1>37. ASSUME DeviceFails PROVE OneOwner'
  BY <1>37 DEF DeviceFails, threadVars, Owners, Wedged, Quits
<1>38. ASSUME MashWindowCloses PROVE OneOwner'
  BY <1>38 DEF MashWindowCloses, threadVars, Owners, Wedged, Quits
<1>39. ASSUME RecordingAges PROVE OneOwner'
  BY <1>39 DEF RecordingAges, threadVars, Owners, Wedged, Quits
<1>40. ASSUME ProcessingAges PROVE OneOwner'
  BY <1>40 DEF ProcessingAges, threadVars, Owners, Wedged, Quits
<1>41. ASSUME UNCHANGED vars PROVE OneOwner'
  BY <1>41 DEF vars, threadVars, Owners, Wedged, Quits
<1> QED
  BY <1>1, <1>2, <1>3, <1>4, <1>5, <1>6, <1>7, <1>8, <1>9, <1>10, <1>11,
     <1>12, <1>13, <1>14, <1>15, <1>16, <1>17, <1>18, <1>19, <1>20, <1>21,
     <1>22, <1>23, <1>24, <1>25, <1>26, <1>27, <1>28, <1>29, <1>30, <1>31,
     <1>32, <1>33, <1>34, <1>35, <1>36, <1>37, <1>38, <1>39, <1>40, <1>41
  DEF Next, Hook, User, Work, Time

(* Types, and the single owner of a session: for any number of handler      *)
(* threads, rescue waiters and sweeps, and however they interleave, a       *)
(* recording is taken over by one thread only, and Processing has an owner, *)
(* until a cancel or a reset overrules it.                                  *)
THEOREM VoiceOneOwner == Spec => [](TypeOK /\ OneOwner)
<1>1. VoiceInv /\ [Next]_vars => VoiceInv'
  BY VoiceTypes, VoiceDroppers, VoiceOwners, TypeParts DEF VoiceInv
<1>2. VoiceInv => TypeOK /\ OneOwner
  BY DEF VoiceInv
<1> QED  BY VoiceInit, <1>1, <1>2, PTL DEF Spec

-----------------------------------------------------------------------------
(* What the steps do, in the form that the later proofs use: a thread      *)
(* moves and the others stand still.                                       *)

Still(t) == \A u \in Threads \ {t} : pc'[u] = pc[u] /\ kind'[u] = kind[u] /\ req'[u] = req[u]

(* The moves of one thread. *)
LEMMA GoStep ==
  ASSUME ThreadsTyped, RequestsTyped, NEW t \in Threads, NEW l, Go(t, l)
  PROVE  Still(t) /\ pc'[t] = l /\ kind'[t] = kind[t] /\ req'[t] = req[t]
  BY DEF ThreadsTyped, RequestsTyped, Go, Still

LEMMA FinishStep ==
  ASSUME ThreadsTyped, RequestsTyped, NEW t \in Threads, Finish(t)
  PROVE  Still(t) /\ pc'[t] = "free" /\ kind'[t] = "none" /\ req'[t] = 0
  BY DEF ThreadsTyped, RequestsTyped, Finish, Still

LEMMA SpawnStep ==
  ASSUME ThreadsTyped, RequestsTyped, NEW t \in Threads, NEW k, NEW l, Spawn(t, k, l)
  PROVE  Still(t) /\ pc[t] = "free" /\ pc'[t] = l /\ kind'[t] = k /\ req'[t] = req[t]
  BY DEF ThreadsTyped, RequestsTyped, Spawn, Still

(* A new thread: only an escape spends escapes, and a sweep is alone.      *)
LEMMA Arrival ==
  ASSUME ThreadsTyped, RequestsTyped, UsedTyped, NEW t \in Threads, Hook(t) \/ StartSweep(t)
  PROVE  /\ Still(t) /\ pc[t] = "free" /\ req'[t] = req[t]
         /\ pc'[t] \in {"start", "stop", "toggle", "escape", "sweep"}
         /\ kind'[t] \in {"ptt", "stop", "hf", "escape", "sweep"}
         /\ pc'[t] = "escape" <=> kind'[t] = "escape"
         /\ pc'[t] = "sweep" <=> kind'[t] = "sweep"
         /\ kind'[t] = "sweep" => \A u \in Threads : kind[u] \notin {"sweep", "reset"}
         /\ kind'[t] = "escape" => used'["escape"] # 0
         /\ used'["escape"] = 0 => used["escape"] = 0
         /\ UNCHANGED <<mode, mic, pending, activeReq, streams, nextReq, processingSince,
                        blame>>
<1> USE DEF micVars, reqVars, timeVars
<1>1. CASE PressPtt(t)
  <2>1. used'["escape"] = used["escape"]
    BY <1>1 DEF PressPtt, Spend, UsedTyped, Kinds
  <2> QED  BY <1>1, <2>1, SpawnStep DEF PressPtt
<1>2. CASE ReleasePtt(t)
  BY <1>2, SpawnStep DEF ReleasePtt
<1>3. CASE PressHandsFree(t)
  <2>1. used'["escape"] = used["escape"]
    BY <1>3 DEF PressHandsFree, Spend, UsedTyped, Kinds
  <2> QED  BY <1>3, <2>1, SpawnStep DEF PressHandsFree
<1>4. CASE PressEscape(t)
  <2>1. used'["escape"] = used["escape"] + 1 /\ used["escape"] \in Nat
    BY <1>4 DEF PressEscape, Spend, UsedTyped, Kinds
  <2>2. Still(t) /\ pc[t] = "free" /\ pc'[t] = "escape" /\ kind'[t] = "escape" /\ req'[t] = req[t]
    BY <1>4, SpawnStep DEF PressEscape
  <2>3. used'["escape"] # 0
    BY <2>1
  <2> QED  BY <1>4, <2>2, <2>3 DEF PressEscape
<1>5. CASE StartSweep(t)
  BY <1>5, SpawnStep DEF StartSweep
<1> QED  BY <1>1, <1>2, <1>3, <1>4, <1>5 DEF Hook

(* A start that has not opened the microphone yet.                         *)
Early == {"start", "gate", "rescue", "check"}

EarlyStep(t) == StartPtt(t) \/ MashGate(t) \/ Rescue(t) \/ CheckIdle(t)

LEMMA Approach ==
  ASSUME ThreadsTyped, RequestsTyped, NEW t \in Threads, EarlyStep(t)
  PROVE  /\ Still(t) /\ pc[t] \in Early
         /\ pc'[t] \in Early \cup {"open", "free"}
         /\ kind'[t] \in {kind[t], "none"}
         /\ pending' => pending \/ mode # "Idle"
         /\ UNCHANGED <<mode, mic, activeReq, streams, nextReq, processingSince, used,
                        blame>>
<1> USE DEF micVars, reqVars, timeVars, Early
<1>1. CASE StartPtt(t)
  BY <1>1, GoStep, FinishStep DEF StartPtt, Park
<1>2. CASE MashGate(t)
  BY <1>2, GoStep DEF MashGate
<1>3. CASE Rescue(t)
  BY <1>3, GoStep, FinishStep DEF Rescue
<1>4. CASE CheckIdle(t)
  BY <1>4, GoStep, FinishStep DEF CheckIdle, Park
<1> QED  BY <1>1, <1>2, <1>3, <1>4 DEF EarlyStep

(* The handlers that may take a recording over.                            *)
StopStep(t) == StopPtt(t) \/ ToggleHandsFree(t) \/ EscapeClaim(t)

LEMMA Takeover ==
  ASSUME ThreadsTyped, RequestsTyped, NEW t \in Threads, StopStep(t)
  PROVE  /\ Still(t) /\ pc[t] \in {"stop", "toggle", "claim"}
         /\ kind'[t] \in {kind[t], "none"}
         /\ \/ /\ Recording /\ mode' = "Processing"
               /\ pc'[t] = "stamp" /\ kind'[t] = kind[t]
            \/ mode' = mode /\ pc'[t] \in {"free", "gate"}
         /\ UNCHANGED <<mic, pending, activeReq, streams, nextReq, processingSince, used,
                        blame>>
<1> USE DEF micVars, reqVars, timeVars, Recording
<1>1. CASE StopPtt(t)
  BY <1>1, GoStep, FinishStep DEF StopPtt
<1>2. CASE ToggleHandsFree(t)
  BY <1>2, GoStep, FinishStep DEF ToggleHandsFree
<1>3. CASE EscapeClaim(t)
  BY <1>3, GoStep, FinishStep DEF EscapeClaim
<1> QED  BY <1>1, <1>2, <1>3 DEF StopStep

(* Steps that move no thread: only the microphone may fail and only the    *)
(* age of a stamp grow.                                                    *)
Surroundings == User \/ DeviceFails \/ Time \/ UNCHANGED vars

LEMMA Background ==
  ASSUME UsedTyped, Surroundings
  PROVE  /\ UNCHANGED <<mode, pending, activeReq, streams, nextReq, pc, kind, req, blame>>
         /\ mic' => mic
         /\ used'["escape"] = used["escape"]
         /\ \/ processingSince' = processingSince
            \/ /\ processingSince = "fresh" /\ processingSince' = "old"
               /\ \A t \in Threads : AtRest(t, {})
<1> USE DEF micVars, reqVars, timeVars, threadVars
<1>1. CASE IgnoredPress
  BY <1>1 DEF IgnoredPress, Spend, UsedTyped, Kinds
<1>2. CASE IgnoredRelease
  BY <1>2 DEF IgnoredRelease, Spend, UsedTyped, Kinds
<1>3. CASE ReleaseHandsFree
  BY <1>3 DEF ReleaseHandsFree
<1>4. CASE TogglePause
  BY <1>4 DEF TogglePause, Spend, UsedTyped, Kinds
<1>5. CASE DeviceFails
  BY <1>5 DEF DeviceFails, Spend, UsedTyped, Kinds
<1>6. CASE MashWindowCloses
  BY <1>6 DEF MashWindowCloses
<1>7. CASE RecordingAges
  BY <1>7 DEF RecordingAges
<1>8. CASE ProcessingAges
  BY <1>8 DEF ProcessingAges
<1>9. CASE UNCHANGED vars
  BY <1>9 DEF vars
<1> QED
  BY <1>1, <1>2, <1>3, <1>4, <1>5, <1>6, <1>7, <1>8, <1>9 DEF Surroundings, User, Time


(* The microphone is open without a recording only while a thread is about *)
(* to use it or to close it, unless one of the races has left it open.     *)
Parked == blame \cap {"starters", "overruled", "reopened"} # {}

MicAccounted ==
    mic /\ ~Recording /\ ~Parked =>
        \E t \in Threads : pc[t] \in {"commit", "stamp", "forget", "close"}

(* An owner works on a Processing session, unless it was overruled.        *)
LEMMA OwnerProcessing ==
  ASSUME DroppersQuit, OneOwner, NEW t \in Threads, "overruled" \notin blame,
         pc[t] \in Finalizing \ {"close", "take", "remove"} \/ (pc[t] \in Finalizing /\ ~Quits(t))
  PROVE  mode = "Processing" /\ \A u \in Owners : u = t
<1>1. t \in Owners
  BY Ownership DEF DroppersQuit, Finalizing
<1> QED  BY <1>1 DEF OneOwner

(* Each step keeps the microphone accounted for. *)
LEMMA StepMic ==
  ASSUME TypeOK, DroppersQuit, OneOwner, MicAccounted, [Next]_vars
  PROVE  MicAccounted'
<1> ThreadsTyped /\ RequestsTyped /\ UsedTyped /\ ModesTyped
  BY TypeParts
<1> USE DEF MicAccounted, Parked, Recording, micVars
<1>1. ASSUME NEW t \in Threads, Hook(t) \/ StartSweep(t) PROVE MicAccounted'
  BY <1>1, Arrival DEF Still
<1>2. ASSUME NEW t \in Threads, EarlyStep(t) PROVE MicAccounted'
  BY <1>2, Approach DEF Still, Early
<1>3. ASSUME NEW t \in Threads, StopStep(t) PROVE MicAccounted'
  BY <1>3, Takeover DEF Still
<1>4. ASSUME NEW t \in Threads, OpenMic(t) PROVE MicAccounted'
  BY <1>4, GoStep, FinishStep DEF OpenMic, Still, Opens, OpenFails
<1>5. ASSUME NEW t \in Threads, Commit(t) PROVE MicAccounted'
  BY <1>5, GoStep, FinishStep DEF Commit, Still, Park
<1>6. ASSUME NEW t \in Threads, Register(t) PROVE MicAccounted'
  BY <1>6, GoStep, FinishStep DEF Register, Still, ThreadsTyped, RequestsTyped
<1>7. ASSUME NEW t \in Threads, Forward(t) PROVE MicAccounted'
  BY <1>7, GoStep, FinishStep DEF Forward, Still
<1>8. ASSUME NEW t \in Threads, EscapePressed(t) PROVE MicAccounted'
  BY <1>8, GoStep, FinishStep DEF EscapePressed, Still
<1>9. ASSUME NEW t \in Threads, Stamp(t) PROVE MicAccounted'
  BY <1>9, GoStep, FinishStep DEF Stamp, Still
<1>10. ASSUME NEW t \in Threads, CloseMic(t) PROVE MicAccounted'
  BY <1>10, GoStep, FinishStep DEF CloseMic, Still
<1>11. ASSUME NEW t \in Threads, TakeRequest(t) PROVE MicAccounted'
  BY <1>11, GoStep, FinishStep DEF TakeRequest, Still, ThreadsTyped, RequestsTyped
<1>12. ASSUME NEW t \in Threads, RemoveStream(t) PROVE MicAccounted'
  BY <1>12, GoStep, FinishStep DEF RemoveStream, Still
<1>13. ASSUME NEW t \in Threads, Decode(t) PROVE MicAccounted'
  BY <1>13, GoStep, FinishStep DEF Decode, Still
<1>14. ASSUME NEW t \in Threads, SetIdle(t) PROVE MicAccounted'
  <2>1. CASE "overruled" \in blame
    BY <1>14, <2>1 DEF SetIdle
  <2>2. CASE "overruled" \notin blame
    <3>1. mode = "Processing"
      BY <1>14, <2>2, OwnerProcessing DEF SetIdle, Finalizing
    <3> QED  BY <1>14, <3>1, GoStep DEF SetIdle, Still
  <2> QED  BY <2>1, <2>2
<1>15. ASSUME NEW t \in Threads, Unstamp(t) PROVE MicAccounted'
  BY <1>15, GoStep, FinishStep DEF Unstamp, Still
<1>16. ASSUME NEW t \in Threads, Autostart(t) PROVE MicAccounted'
  BY <1>16, GoStep, FinishStep DEF Autostart, Still, ThreadsTyped, RequestsTyped
<1>17. ASSUME NEW t \in Threads, DropPending(t) PROVE MicAccounted'
  BY <1>17, GoStep, FinishStep DEF DropPending, Still, ThreadsTyped, RequestsTyped
<1>18. ASSUME NEW t \in Threads, DropSession(t) PROVE MicAccounted'
  BY <1>18, GoStep, FinishStep DEF DropSession, Still
<1>19. ASSUME NEW t \in Threads, Forget(t) PROVE MicAccounted'
  BY <1>19, GoStep, FinishStep DEF Forget, Still
<1>20. ASSUME NEW t \in Threads, Sweep(t) PROVE MicAccounted'
  BY <1>20, GoStep, FinishStep DEF Sweep, Still
<1>21. ASSUME NEW t \in Threads, ReopenMic(t) PROVE MicAccounted'
  BY <1>21, GoStep, FinishStep DEF ReopenMic, Still
<1>22. ASSUME NEW t \in Threads, RestartMic(t) PROVE MicAccounted'
  BY <1>22, GoStep, FinishStep DEF RestartMic, Still, Opens, OpenFails
<1>23. ASSUME NEW t \in Threads, RecoverStranded(t) PROVE MicAccounted'
  BY <1>23, GoStep, FinishStep DEF RecoverStranded, Still
<1>24. CASE Surroundings
  BY <1>24, Background
<1> QED BY <1>1, <1>2, <1>3, <1>4, <1>5, <1>6, <1>7, <1>8, <1>9, <1>10, <1>11,
  <1>12, <1>13, <1>14, <1>15, <1>16, <1>17, <1>18, <1>19, <1>20, <1>21, <1>22,
  <1>23, <1>24 DEF Next, Work, EarlyStep, StopStep, Surroundings

(* While the Processing state has its stamp, the owner that set it is at   *)
(* work on the session, or its worker call never returned.                 *)
StampOwned ==
    processingSince # "none" =>
        \E t \in Threads :
            /\ ~Quits(t)
            /\ pc[t] \in (Finalizing \ {"stamp"}) \cup {"unstamp", "wedged"}

(* Each step keeps the stamp owned. *)
LEMMA StepStamp ==
  ASSUME TypeOK, DroppersQuit, StampOwned, [Next]_vars
  PROVE  StampOwned'
<1> ThreadsTyped /\ RequestsTyped /\ UsedTyped /\ ModesTyped
  BY TypeParts
<1> USE DEF StampOwned, Quits, Finalizing, timeVars
<1>1. ASSUME NEW t \in Threads, Hook(t) \/ StartSweep(t) PROVE StampOwned'
  BY <1>1, Arrival DEF Still
<1>2. ASSUME NEW t \in Threads, EarlyStep(t) PROVE StampOwned'
  BY <1>2, Approach DEF Still, Early
<1>3. ASSUME NEW t \in Threads, StopStep(t) PROVE StampOwned'
  BY <1>3, Takeover DEF Still
<1>4. ASSUME NEW t \in Threads, OpenMic(t) PROVE StampOwned'
  BY <1>4, GoStep, FinishStep DEF OpenMic, Still, Opens, OpenFails
<1>5. ASSUME NEW t \in Threads, Commit(t) PROVE StampOwned'
  BY <1>5, GoStep, FinishStep DEF Commit, Still, Park
<1>6. ASSUME NEW t \in Threads, Register(t) PROVE StampOwned'
  BY <1>6, GoStep, FinishStep DEF Register, Still, ThreadsTyped, RequestsTyped
<1>7. ASSUME NEW t \in Threads, Forward(t) PROVE StampOwned'
  BY <1>7, GoStep, FinishStep DEF Forward, Still
<1>8. ASSUME NEW t \in Threads, EscapePressed(t) PROVE StampOwned'
  BY <1>8, GoStep, FinishStep DEF EscapePressed, Still
<1>9. ASSUME NEW t \in Threads, Stamp(t) PROVE StampOwned'
  BY <1>9, GoStep, FinishStep DEF Stamp, Still, DroppersQuit
<1>10. ASSUME NEW t \in Threads, CloseMic(t) PROVE StampOwned'
  BY <1>10, GoStep, FinishStep DEF CloseMic, Still
<1>11. ASSUME NEW t \in Threads, TakeRequest(t) PROVE StampOwned'
  BY <1>11, GoStep, FinishStep DEF TakeRequest, Still, ThreadsTyped, RequestsTyped
<1>12. ASSUME NEW t \in Threads, RemoveStream(t) PROVE StampOwned'
  BY <1>12, GoStep, FinishStep DEF RemoveStream, Still
<1>13. ASSUME NEW t \in Threads, Decode(t) PROVE StampOwned'
  BY <1>13, GoStep, FinishStep DEF Decode, Still
<1>14. ASSUME NEW t \in Threads, SetIdle(t) PROVE StampOwned'
  BY <1>14, GoStep, FinishStep DEF SetIdle, Still
<1>15. ASSUME NEW t \in Threads, Unstamp(t) PROVE StampOwned'
  BY <1>15, GoStep, FinishStep DEF Unstamp, Still
<1>16. ASSUME NEW t \in Threads, Autostart(t) PROVE StampOwned'
  BY <1>16, GoStep, FinishStep DEF Autostart, Still, ThreadsTyped, RequestsTyped
<1>17. ASSUME NEW t \in Threads, DropPending(t) PROVE StampOwned'
  BY <1>17, GoStep, FinishStep DEF DropPending, Still, ThreadsTyped, RequestsTyped
<1>18. ASSUME NEW t \in Threads, DropSession(t) PROVE StampOwned'
  BY <1>18, GoStep, FinishStep DEF DropSession, Still
<1>19. ASSUME NEW t \in Threads, Forget(t) PROVE StampOwned'
  BY <1>19, GoStep, FinishStep DEF Forget, Still
<1>20. ASSUME NEW t \in Threads, Sweep(t) PROVE StampOwned'
  BY <1>20, GoStep, FinishStep DEF Sweep, Still
<1>21. ASSUME NEW t \in Threads, ReopenMic(t) PROVE StampOwned'
  BY <1>21, GoStep, FinishStep DEF ReopenMic, Still
<1>22. ASSUME NEW t \in Threads, RestartMic(t) PROVE StampOwned'
  BY <1>22, GoStep, FinishStep DEF RestartMic, Still, Opens, OpenFails
<1>23. ASSUME NEW t \in Threads, RecoverStranded(t) PROVE StampOwned'
  BY <1>23, GoStep, FinishStep DEF RecoverStranded, Still
<1>24. CASE Surroundings
  BY <1>24, Background
<1> QED BY <1>1, <1>2, <1>3, <1>4, <1>5, <1>6, <1>7, <1>8, <1>9, <1>10, <1>11,
  <1>12, <1>13, <1>14, <1>15, <1>16, <1>17, <1>18, <1>19, <1>20, <1>21, <1>22,
  <1>23, <1>24 DEF Next, Work, EarlyStep, StopStep, Surroundings

(* Neither a race nor a worker call without end so far.                    *)
Clean == blame = {} /\ Wedged = {}

Grown == blame \subseteq blame' /\ Wedged \subseteq Wedged'

(* What blame lists stays listed, and a call without end stays so. *)
LEMMA BlameStays ==
  ASSUME TypeOK, [Next]_vars
  PROVE  Grown
<1> ThreadsTyped /\ RequestsTyped /\ UsedTyped /\ ModesTyped
  BY TypeParts
<1> USE DEF Grown, Wedged
<1>1. ASSUME NEW t \in Threads, Hook(t) \/ StartSweep(t) PROVE Grown
  BY <1>1, Arrival DEF Still
<1>2. ASSUME NEW t \in Threads, EarlyStep(t) PROVE Grown
  BY <1>2, Approach DEF Still, Early
<1>3. ASSUME NEW t \in Threads, StopStep(t) PROVE Grown
  BY <1>3, Takeover DEF Still
<1>4. ASSUME NEW t \in Threads, OpenMic(t) PROVE Grown
  BY <1>4, GoStep, FinishStep DEF OpenMic, Still, Opens, OpenFails
<1>5. ASSUME NEW t \in Threads, Commit(t) PROVE Grown
  BY <1>5, GoStep, FinishStep DEF Commit, Still, Park
<1>6. ASSUME NEW t \in Threads, Register(t) PROVE Grown
  BY <1>6, GoStep, FinishStep DEF Register, Still, ThreadsTyped, RequestsTyped
<1>7. ASSUME NEW t \in Threads, Forward(t) PROVE Grown
  BY <1>7, GoStep, FinishStep DEF Forward, Still
<1>8. ASSUME NEW t \in Threads, EscapePressed(t) PROVE Grown
  BY <1>8, GoStep, FinishStep DEF EscapePressed, Still
<1>9. ASSUME NEW t \in Threads, Stamp(t) PROVE Grown
  BY <1>9, GoStep, FinishStep DEF Stamp, Still
<1>10. ASSUME NEW t \in Threads, CloseMic(t) PROVE Grown
  BY <1>10, GoStep, FinishStep DEF CloseMic, Still
<1>11. ASSUME NEW t \in Threads, TakeRequest(t) PROVE Grown
  BY <1>11, GoStep, FinishStep DEF TakeRequest, Still, ThreadsTyped, RequestsTyped
<1>12. ASSUME NEW t \in Threads, RemoveStream(t) PROVE Grown
  BY <1>12, GoStep, FinishStep DEF RemoveStream, Still
<1>13. ASSUME NEW t \in Threads, Decode(t) PROVE Grown
  BY <1>13, GoStep, FinishStep DEF Decode, Still
<1>14. ASSUME NEW t \in Threads, SetIdle(t) PROVE Grown
  BY <1>14, GoStep, FinishStep DEF SetIdle, Still
<1>15. ASSUME NEW t \in Threads, Unstamp(t) PROVE Grown
  BY <1>15, GoStep, FinishStep DEF Unstamp, Still
<1>16. ASSUME NEW t \in Threads, Autostart(t) PROVE Grown
  BY <1>16, GoStep, FinishStep DEF Autostart, Still, ThreadsTyped, RequestsTyped
<1>17. ASSUME NEW t \in Threads, DropPending(t) PROVE Grown
  BY <1>17, GoStep, FinishStep DEF DropPending, Still, ThreadsTyped, RequestsTyped
<1>18. ASSUME NEW t \in Threads, DropSession(t) PROVE Grown
  BY <1>18, GoStep, FinishStep DEF DropSession, Still
<1>19. ASSUME NEW t \in Threads, Forget(t) PROVE Grown
  BY <1>19, GoStep, FinishStep DEF Forget, Still
<1>20. ASSUME NEW t \in Threads, Sweep(t) PROVE Grown
  BY <1>20, GoStep, FinishStep DEF Sweep, Still
<1>21. ASSUME NEW t \in Threads, ReopenMic(t) PROVE Grown
  BY <1>21, GoStep, FinishStep DEF ReopenMic, Still
<1>22. ASSUME NEW t \in Threads, RestartMic(t) PROVE Grown
  BY <1>22, GoStep, FinishStep DEF RestartMic, Still, Opens, OpenFails
<1>23. ASSUME NEW t \in Threads, RecoverStranded(t) PROVE Grown
  BY <1>23, GoStep, FinishStep DEF RecoverStranded, Still
<1>24. CASE Surroundings
  BY <1>24, Background
<1> QED BY <1>1, <1>2, <1>3, <1>4, <1>5, <1>6, <1>7, <1>8, <1>9, <1>10, <1>11,
  <1>12, <1>13, <1>14, <1>15, <1>16, <1>17, <1>18, <1>19, <1>20, <1>21, <1>22,
  <1>23, <1>24 DEF Next, Work, EarlyStep, StopStep, Surroundings

(* A clean state is reached from clean states only.                        *)
LEMMA CleanBefore ==
  ASSUME TypeOK, [Next]_vars, Clean'
  PROVE  Clean
  BY BlameStays DEF Clean, Grown

(* The three parts of what holds as long as nothing has gone wrong.  A     *)
(* thread that drops a session stops before the drop: past it, either an   *)
(* owner was overruled or there was no Processing session to drop.         *)
QuittersWait == \A t \in Threads : Quits(t) => pc[t] = "drop"

(* The active request is that of the recording, or of the session that an  *)
(* owner has not taken it from; it is registered by one thread.            *)
Taking == {t \in Threads : pc[t] \in {"stamp", "close", "take"}}
Registering == {t \in Threads : pc[t] = "register"}

RequestOwned ==
    /\ activeReq # 0 => Recording \/ Taking # {}
    /\ Registering # {} => activeReq = 0 /\ (Recording \/ Taking # {})
    /\ \A t, u \in Registering : t = u
    /\ Recording => activeReq # 0 \/ Registering # {}

(* A forwarder streams for the active request, or for one whose owner is   *)
(* about to remove it.                                                     *)
Forwarding == {t \in Threads : pc[t] = "forward"}

StreamsMatched ==
    \A s \in streams \cup {req[t] : t \in Forwarding} :
        s = activeReq \/ \E u \in Threads : pc[u] = "remove" /\ req[u] = s

(* Whatever happens, a request gets one forwarder.                         *)
StreamsDistinct ==
    /\ \A t \in Forwarding : req[t] # 0 /\ req[t] \notin streams
    /\ \A t, u \in Forwarding : req[t] = req[u] => t = u
    /\ 0 \notin streams

(* Each step that leaves the state clean keeps the quitters waiting. *)
LEMMA StepQuitters ==
  ASSUME TypeOK, DroppersQuit, OneOwner, QuittersWait, Clean, Clean', [Next]_vars
  PROVE  QuittersWait'
<1> ThreadsTyped /\ RequestsTyped /\ UsedTyped /\ ModesTyped
  BY TypeParts
<1> USE DEF QuittersWait, Quits
<1>1. ASSUME NEW t \in Threads, Hook(t) \/ StartSweep(t) PROVE QuittersWait'
  BY <1>1, Arrival DEF Still
<1>2. ASSUME NEW t \in Threads, EarlyStep(t) PROVE QuittersWait'
  BY <1>2, Approach DEF Still, Early
<1>3. ASSUME NEW t \in Threads, StopStep(t) PROVE QuittersWait'
  BY <1>3, Takeover DEF Still
<1>4. ASSUME NEW t \in Threads, OpenMic(t) PROVE QuittersWait'
  BY <1>4, GoStep, FinishStep DEF OpenMic, Still, Opens, OpenFails
<1>5. ASSUME NEW t \in Threads, Commit(t) PROVE QuittersWait'
  BY <1>5, GoStep, FinishStep DEF Commit, Still, Park
<1>6. ASSUME NEW t \in Threads, Register(t) PROVE QuittersWait'
  BY <1>6, GoStep, FinishStep DEF Register, Still, ThreadsTyped, RequestsTyped
<1>7. ASSUME NEW t \in Threads, Forward(t) PROVE QuittersWait'
  BY <1>7, GoStep, FinishStep DEF Forward, Still
<1>8. ASSUME NEW t \in Threads, EscapePressed(t) PROVE QuittersWait'
  BY <1>8, GoStep, FinishStep DEF EscapePressed, Still
<1>9. ASSUME NEW t \in Threads, Stamp(t) PROVE QuittersWait'
  BY <1>9, GoStep, FinishStep DEF Stamp, Still
<1>10. ASSUME NEW t \in Threads, CloseMic(t) PROVE QuittersWait'
  BY <1>10, GoStep, FinishStep DEF CloseMic, Still
<1>11. ASSUME NEW t \in Threads, TakeRequest(t) PROVE QuittersWait'
  BY <1>11, GoStep, FinishStep DEF TakeRequest, Still, ThreadsTyped, RequestsTyped
<1>12. ASSUME NEW t \in Threads, RemoveStream(t) PROVE QuittersWait'
  BY <1>12, GoStep, FinishStep DEF RemoveStream, Still
<1>13. ASSUME NEW t \in Threads, Decode(t) PROVE QuittersWait'
  BY <1>13, GoStep, FinishStep DEF Decode, Still
<1>14. ASSUME NEW t \in Threads, SetIdle(t) PROVE QuittersWait'
  BY <1>14, GoStep, FinishStep DEF SetIdle, Still
<1>15. ASSUME NEW t \in Threads, Unstamp(t) PROVE QuittersWait'
  BY <1>15, GoStep, FinishStep DEF Unstamp, Still
<1>16. ASSUME NEW t \in Threads, Autostart(t) PROVE QuittersWait'
  BY <1>16, GoStep, FinishStep DEF Autostart, Still, ThreadsTyped, RequestsTyped
<1>17. ASSUME NEW t \in Threads, DropPending(t) PROVE QuittersWait'
  BY <1>17, GoStep, FinishStep DEF DropPending, Still, ThreadsTyped, RequestsTyped
<1>18. ASSUME NEW t \in Threads, DropSession(t) PROVE QuittersWait'
  BY <1>18, GoStep, FinishStep DEF DropSession, Still, Clean, Wedged, OneOwner
<1>19. ASSUME NEW t \in Threads, Forget(t) PROVE QuittersWait'
  BY <1>19, GoStep, FinishStep DEF Forget, Still
<1>20. ASSUME NEW t \in Threads, Sweep(t) PROVE QuittersWait'
  BY <1>20, GoStep, FinishStep DEF Sweep, Still
<1>21. ASSUME NEW t \in Threads, ReopenMic(t) PROVE QuittersWait'
  BY <1>21, GoStep, FinishStep DEF ReopenMic, Still
<1>22. ASSUME NEW t \in Threads, RestartMic(t) PROVE QuittersWait'
  BY <1>22, GoStep, FinishStep DEF RestartMic, Still, Opens, OpenFails
<1>23. ASSUME NEW t \in Threads, RecoverStranded(t) PROVE QuittersWait'
  BY <1>23, GoStep, FinishStep DEF RecoverStranded, Still
<1>24. CASE Surroundings
  BY <1>24, Background
<1> QED BY <1>1, <1>2, <1>3, <1>4, <1>5, <1>6, <1>7, <1>8, <1>9, <1>10, <1>11,
  <1>12, <1>13, <1>14, <1>15, <1>16, <1>17, <1>18, <1>19, <1>20, <1>21, <1>22,
  <1>23, <1>24 DEF Next, Work, EarlyStep, StopStep, Surroundings

(* In a clean state there is one owner, whoever finalizes.                 *)
LEMMA CleanOwner ==
  ASSUME OneOwner, QuittersWait, Clean, NEW t \in Threads, pc[t] \in Finalizing
  PROVE  mode = "Processing" /\ \A u \in Threads : pc[u] \in Finalizing => u = t
<1>1. \A u \in Threads : pc[u] \in Finalizing => u \in Owners
  BY Ownership DEF QuittersWait, Finalizing
<1> QED  BY <1>1 DEF OneOwner, Clean

(* Each step that leaves the state clean keeps the request owned. *)
LEMMA StepRequest ==
  ASSUME TypeOK, DroppersQuit, OneOwner, QuittersWait, RequestOwned, Clean, Clean', [Next]_vars
  PROVE  RequestOwned'
<1> ThreadsTyped /\ RequestsTyped /\ UsedTyped /\ ModesTyped
  BY TypeParts
<1> USE DEF RequestOwned, Recording, reqVars, Taking, Registering
<1>1. ASSUME NEW t \in Threads, Hook(t) \/ StartSweep(t) PROVE RequestOwned'
  BY <1>1, Arrival DEF Still
<1>2. ASSUME NEW t \in Threads, EarlyStep(t) PROVE RequestOwned'
  BY <1>2, Approach DEF Still, Early
<1>3. ASSUME NEW t \in Threads, StopStep(t) PROVE RequestOwned'
  BY <1>3, Takeover DEF Still
<1>4. ASSUME NEW t \in Threads, OpenMic(t) PROVE RequestOwned'
  BY <1>4, GoStep, FinishStep DEF OpenMic, Still, Opens, OpenFails
<1>5. ASSUME NEW t \in Threads, Commit(t) PROVE RequestOwned'
  <2>1. mode = "Idle" /\ Still(t) /\ pc'[t] = "register" /\ mode' \in {"PushToTalk", "HandsFree"}
    BY <1>5, GoStep DEF Commit, Clean
  <2>2. activeReq' = activeReq
    BY <1>5 DEF Commit
  <2>3. Taking = {}
    BY <2>1, CleanOwner DEF Finalizing
  <2>4. activeReq = 0 /\ Registering = {}
    BY <2>1, <2>3
  <2> QED  BY <2>1, <2>2, <2>4 DEF Still
<1>6. ASSUME NEW t \in Threads, Register(t) PROVE RequestOwned'
  BY <1>6, GoStep, FinishStep DEF Register, Still, ThreadsTyped, RequestsTyped
<1>7. ASSUME NEW t \in Threads, Forward(t) PROVE RequestOwned'
  BY <1>7, GoStep, FinishStep DEF Forward, Still
<1>8. ASSUME NEW t \in Threads, EscapePressed(t) PROVE RequestOwned'
  BY <1>8, GoStep, FinishStep DEF EscapePressed, Still
<1>9. ASSUME NEW t \in Threads, Stamp(t) PROVE RequestOwned'
  BY <1>9, GoStep, FinishStep DEF Stamp, Still
<1>10. ASSUME NEW t \in Threads, CloseMic(t) PROVE RequestOwned'
  BY <1>10, GoStep, FinishStep DEF CloseMic, Still
<1>11. ASSUME NEW t \in Threads, TakeRequest(t) PROVE RequestOwned'
  <2>1. pc[t] = "take" /\ mode' = mode /\ activeReq' = 0
    BY <1>11 DEF TakeRequest
  <2>2. activeReq # 0
    BY <1>11 DEF TakeRequest, Clean
  <2>3. mode = "Processing" /\ Registering = {}
    BY <2>1, <2>2, CleanOwner DEF Finalizing
  <2>4. pc'[t] = "remove" /\ Still(t)
    BY <1>11, <2>2 DEF TakeRequest, Still, ThreadsTyped, RequestsTyped
  <2> QED  BY <2>1, <2>3, <2>4 DEF Still
<1>12. ASSUME NEW t \in Threads, RemoveStream(t) PROVE RequestOwned'
  BY <1>12, GoStep, FinishStep DEF RemoveStream, Still
<1>13. ASSUME NEW t \in Threads, Decode(t) PROVE RequestOwned'
  BY <1>13, GoStep, FinishStep DEF Decode, Still
<1>14. ASSUME NEW t \in Threads, SetIdle(t) PROVE RequestOwned'
  <2>1. pc[t] = "idle" /\ mode' = "Idle" /\ activeReq' = activeReq
    BY <1>14 DEF SetIdle
  <2>2. mode = "Processing" /\ Taking = {}
    BY <2>1, CleanOwner DEF Finalizing
  <2>3. activeReq = 0 /\ Registering = {}
    BY <2>2
  <2>4. pc'[t] = "unstamp" /\ Still(t)
    BY <1>14, GoStep DEF SetIdle
  <2> QED  BY <2>1, <2>3, <2>4 DEF Still
<1>15. ASSUME NEW t \in Threads, Unstamp(t) PROVE RequestOwned'
  BY <1>15, GoStep, FinishStep DEF Unstamp, Still
<1>16. ASSUME NEW t \in Threads, Autostart(t) PROVE RequestOwned'
  BY <1>16, GoStep, FinishStep DEF Autostart, Still, ThreadsTyped, RequestsTyped
<1>17. ASSUME NEW t \in Threads, DropPending(t) PROVE RequestOwned'
  BY <1>17, GoStep, FinishStep DEF DropPending, Still, ThreadsTyped, RequestsTyped
<1>18. ASSUME NEW t \in Threads, DropSession(t) PROVE RequestOwned'
  <2>1. "overruled" \notin blame' /\ "overruled" \notin blame /\ Wedged = {}
    BY DEF Clean
  <2>2. Owners = {} /\ mode = "Processing"
    BY <1>18, <2>1 DEF DropSession
  <2> QED  BY <2>1, <2>2 DEF OneOwner
<1>19. ASSUME NEW t \in Threads, Forget(t) PROVE RequestOwned'
  BY <1>19, GoStep, FinishStep DEF Forget, Still
<1>20. ASSUME NEW t \in Threads, Sweep(t) PROVE RequestOwned'
  BY <1>20, GoStep, FinishStep DEF Sweep, Still
<1>21. ASSUME NEW t \in Threads, ReopenMic(t) PROVE RequestOwned'
  BY <1>21, GoStep, FinishStep DEF ReopenMic, Still
<1>22. ASSUME NEW t \in Threads, RestartMic(t) PROVE RequestOwned'
  BY <1>22, GoStep, FinishStep DEF RestartMic, Still, Opens, OpenFails
<1>23. ASSUME NEW t \in Threads, RecoverStranded(t) PROVE RequestOwned'
  BY <1>23, GoStep, FinishStep DEF RecoverStranded, Still
<1>24. CASE Surroundings
  BY <1>24, Background
<1> QED BY <1>1, <1>2, <1>3, <1>4, <1>5, <1>6, <1>7, <1>8, <1>9, <1>10, <1>11,
  <1>12, <1>13, <1>14, <1>15, <1>16, <1>17, <1>18, <1>19, <1>20, <1>21, <1>22,
  <1>23, <1>24 DEF Next, Work, EarlyStep, StopStep, Surroundings

(* Each step keeps the forwarders distinct. *)
LEMMA StepDistinct ==
  ASSUME TypeOK, StreamsDistinct, [Next]_vars
  PROVE  StreamsDistinct'
<1> ThreadsTyped /\ RequestsTyped /\ UsedTyped /\ ModesTyped
  BY TypeParts
<1> USE DEF StreamsDistinct, reqVars, Forwarding
<1>1. ASSUME NEW t \in Threads, Hook(t) \/ StartSweep(t) PROVE StreamsDistinct'
  BY <1>1, Arrival DEF Still
<1>2. ASSUME NEW t \in Threads, EarlyStep(t) PROVE StreamsDistinct'
  BY <1>2, Approach DEF Still, Early
<1>3. ASSUME NEW t \in Threads, StopStep(t) PROVE StreamsDistinct'
  BY <1>3, Takeover DEF Still
<1>4. ASSUME NEW t \in Threads, OpenMic(t) PROVE StreamsDistinct'
  BY <1>4, GoStep, FinishStep DEF OpenMic, Still, Opens, OpenFails
<1>5. ASSUME NEW t \in Threads, Commit(t) PROVE StreamsDistinct'
  BY <1>5, GoStep, FinishStep DEF Commit, Still, Park
<1>6. ASSUME NEW t \in Threads, Register(t) PROVE StreamsDistinct'
  BY <1>6, GoStep, FinishStep DEF Register, Still, ThreadsTyped, RequestsTyped
<1>7. ASSUME NEW t \in Threads, Forward(t) PROVE StreamsDistinct'
  BY <1>7, GoStep, FinishStep DEF Forward, Still
<1>8. ASSUME NEW t \in Threads, EscapePressed(t) PROVE StreamsDistinct'
  BY <1>8, GoStep, FinishStep DEF EscapePressed, Still
<1>9. ASSUME NEW t \in Threads, Stamp(t) PROVE StreamsDistinct'
  BY <1>9, GoStep, FinishStep DEF Stamp, Still
<1>10. ASSUME NEW t \in Threads, CloseMic(t) PROVE StreamsDistinct'
  BY <1>10, GoStep, FinishStep DEF CloseMic, Still
<1>11. ASSUME NEW t \in Threads, TakeRequest(t) PROVE StreamsDistinct'
  BY <1>11, GoStep, FinishStep DEF TakeRequest, Still, ThreadsTyped, RequestsTyped
<1>12. ASSUME NEW t \in Threads, RemoveStream(t) PROVE StreamsDistinct'
  BY <1>12, GoStep, FinishStep DEF RemoveStream, Still
<1>13. ASSUME NEW t \in Threads, Decode(t) PROVE StreamsDistinct'
  BY <1>13, GoStep, FinishStep DEF Decode, Still
<1>14. ASSUME NEW t \in Threads, SetIdle(t) PROVE StreamsDistinct'
  BY <1>14, GoStep, FinishStep DEF SetIdle, Still
<1>15. ASSUME NEW t \in Threads, Unstamp(t) PROVE StreamsDistinct'
  BY <1>15, GoStep, FinishStep DEF Unstamp, Still
<1>16. ASSUME NEW t \in Threads, Autostart(t) PROVE StreamsDistinct'
  BY <1>16, GoStep, FinishStep DEF Autostart, Still, ThreadsTyped, RequestsTyped
<1>17. ASSUME NEW t \in Threads, DropPending(t) PROVE StreamsDistinct'
  BY <1>17, GoStep, FinishStep DEF DropPending, Still, ThreadsTyped, RequestsTyped
<1>18. ASSUME NEW t \in Threads, DropSession(t) PROVE StreamsDistinct'
  BY <1>18, GoStep, FinishStep DEF DropSession, Still
<1>19. ASSUME NEW t \in Threads, Forget(t) PROVE StreamsDistinct'
  BY <1>19, GoStep, FinishStep DEF Forget, Still
<1>20. ASSUME NEW t \in Threads, Sweep(t) PROVE StreamsDistinct'
  BY <1>20, GoStep, FinishStep DEF Sweep, Still
<1>21. ASSUME NEW t \in Threads, ReopenMic(t) PROVE StreamsDistinct'
  BY <1>21, GoStep, FinishStep DEF ReopenMic, Still
<1>22. ASSUME NEW t \in Threads, RestartMic(t) PROVE StreamsDistinct'
  BY <1>22, GoStep, FinishStep DEF RestartMic, Still, Opens, OpenFails
<1>23. ASSUME NEW t \in Threads, RecoverStranded(t) PROVE StreamsDistinct'
  BY <1>23, GoStep, FinishStep DEF RecoverStranded, Still
<1>24. CASE Surroundings
  BY <1>24, Background
<1> QED BY <1>1, <1>2, <1>3, <1>4, <1>5, <1>6, <1>7, <1>8, <1>9, <1>10, <1>11,
  <1>12, <1>13, <1>14, <1>15, <1>16, <1>17, <1>18, <1>19, <1>20, <1>21, <1>22,
  <1>23, <1>24 DEF Next, Work, EarlyStep, StopStep, Surroundings

(* Each step that leaves the state clean keeps the streams matched. *)
LEMMA StepStreams ==
  ASSUME TypeOK, QuittersWait, RequestOwned, StreamsDistinct, StreamsMatched, Clean, Clean', [Next]_vars
  PROVE  StreamsMatched'
<1> ThreadsTyped /\ RequestsTyped /\ UsedTyped /\ ModesTyped
  BY TypeParts
<1> USE DEF StreamsMatched, reqVars, Forwarding
<1>1. ASSUME NEW t \in Threads, Hook(t) \/ StartSweep(t) PROVE StreamsMatched'
  BY <1>1, Arrival DEF Still
<1>2. ASSUME NEW t \in Threads, EarlyStep(t) PROVE StreamsMatched'
  BY <1>2, Approach DEF Still, Early
<1>3. ASSUME NEW t \in Threads, StopStep(t) PROVE StreamsMatched'
  BY <1>3, Takeover DEF Still
<1>4. ASSUME NEW t \in Threads, OpenMic(t) PROVE StreamsMatched'
  BY <1>4, GoStep, FinishStep DEF OpenMic, Still, Opens, OpenFails
<1>5. ASSUME NEW t \in Threads, Commit(t) PROVE StreamsMatched'
  BY <1>5, GoStep, FinishStep DEF Commit, Still, Park
<1>6. ASSUME NEW t \in Threads, Register(t) PROVE StreamsMatched'
  <2>1. activeReq = 0 /\ streams' = streams
    BY <1>6 DEF Register, RequestOwned, Registering
  <2>2. activeReq' = nextReq /\ pc'[t] = "forward" /\ req'[t] = nextReq /\ Still(t) /\ pc[t] = "register"
    BY <1>6 DEF Register, Still, ThreadsTyped, RequestsTyped
  <2>3. ASSUME NEW s \in streams' \cup {req'[u] : u \in Forwarding'}, s # activeReq'
        PROVE  \E u \in Threads : pc'[u] = "remove" /\ req'[u] = s
    <3>1. s \in streams \cup {req[u] : u \in Forwarding} /\ s # 0
      BY <2>1, <2>2, <2>3 DEF Still, StreamsDistinct
    <3>2. PICK u \in Threads : pc[u] = "remove" /\ req[u] = s
      BY <2>1, <3>1
    <3> QED  BY <2>2, <3>2 DEF Still
  <2> QED  BY <2>3
<1>7. ASSUME NEW t \in Threads, Forward(t) PROVE StreamsMatched'
  BY <1>7, GoStep, FinishStep DEF Forward, Still
<1>8. ASSUME NEW t \in Threads, EscapePressed(t) PROVE StreamsMatched'
  BY <1>8, GoStep, FinishStep DEF EscapePressed, Still
<1>9. ASSUME NEW t \in Threads, Stamp(t) PROVE StreamsMatched'
  BY <1>9, GoStep, FinishStep DEF Stamp, Still
<1>10. ASSUME NEW t \in Threads, CloseMic(t) PROVE StreamsMatched'
  BY <1>10, GoStep, FinishStep DEF CloseMic, Still
<1>11. ASSUME NEW t \in Threads, TakeRequest(t) PROVE StreamsMatched'
  BY <1>11, GoStep, FinishStep DEF TakeRequest, Still, ThreadsTyped, RequestsTyped
<1>12. ASSUME NEW t \in Threads, RemoveStream(t) PROVE StreamsMatched'
  <2>1. /\ pc[t] = "remove" /\ req[t] \in streams
        /\ streams' = streams \ {req[t]} /\ activeReq' = activeReq
        /\ Still(t) /\ pc'[t] # "forward"
    BY <1>12, GoStep, FinishStep DEF RemoveStream, Clean
  <2>2. ASSUME NEW s \in streams' \cup {req'[u] : u \in Forwarding'}, s # activeReq'
        PROVE  \E u \in Threads : pc'[u] = "remove" /\ req'[u] = s
    <3>1. s \in streams \cup {req[u] : u \in Forwarding} /\ s # req[t]
      BY <2>1, <2>2 DEF Still, StreamsDistinct
    <3>2. PICK u \in Threads : pc[u] = "remove" /\ req[u] = s
      BY <2>1, <2>2, <3>1
    <3> QED  BY <2>1, <3>1, <3>2 DEF Still
  <2> QED  BY <2>2
<1>13. ASSUME NEW t \in Threads, Decode(t) PROVE StreamsMatched'
  BY <1>13, GoStep, FinishStep DEF Decode, Still
<1>14. ASSUME NEW t \in Threads, SetIdle(t) PROVE StreamsMatched'
  BY <1>14, GoStep, FinishStep DEF SetIdle, Still
<1>15. ASSUME NEW t \in Threads, Unstamp(t) PROVE StreamsMatched'
  BY <1>15, GoStep, FinishStep DEF Unstamp, Still
<1>16. ASSUME NEW t \in Threads, Autostart(t) PROVE StreamsMatched'
  BY <1>16, GoStep, FinishStep DEF Autostart, Still, ThreadsTyped, RequestsTyped
<1>17. ASSUME NEW t \in Threads, DropPending(t) PROVE StreamsMatched'
  BY <1>17, GoStep, FinishStep DEF DropPending, Still, ThreadsTyped, RequestsTyped
<1>18. ASSUME NEW t \in Threads, DropSession(t) PROVE StreamsMatched'
  BY <1>18, GoStep, FinishStep DEF DropSession, Still
<1>19. ASSUME NEW t \in Threads, Forget(t) PROVE StreamsMatched'
  BY <1>19, GoStep, FinishStep DEF Forget, Still
<1>20. ASSUME NEW t \in Threads, Sweep(t) PROVE StreamsMatched'
  BY <1>20, GoStep, FinishStep DEF Sweep, Still
<1>21. ASSUME NEW t \in Threads, ReopenMic(t) PROVE StreamsMatched'
  BY <1>21, GoStep, FinishStep DEF ReopenMic, Still
<1>22. ASSUME NEW t \in Threads, RestartMic(t) PROVE StreamsMatched'
  BY <1>22, GoStep, FinishStep DEF RestartMic, Still, Opens, OpenFails
<1>23. ASSUME NEW t \in Threads, RecoverStranded(t) PROVE StreamsMatched'
  BY <1>23, GoStep, FinishStep DEF RecoverStranded, Still
<1>24. CASE Surroundings
  BY <1>24, Background
<1> QED BY <1>1, <1>2, <1>3, <1>4, <1>5, <1>6, <1>7, <1>8, <1>9, <1>10, <1>11,
  <1>12, <1>13, <1>14, <1>15, <1>16, <1>17, <1>18, <1>19, <1>20, <1>21, <1>22,
  <1>23, <1>24 DEF Next, Work, EarlyStep, StopStep, Surroundings

(* What a thread is, by the step it has reached.                           *)
KindsFit ==
    \A t \in Threads :
        /\ pc[t] \in {"escape", "claim"} => kind[t] = "escape"
        /\ pc[t] = "void" => kind[t] \in {"escape", "sweep"}
        /\ pc[t] \in {"sweep", "reopen", "restart", "stranded"} => kind[t] = "sweep"

(* Each step keeps the kinds and the steps together. *)
LEMMA StepKinds ==
  ASSUME TypeOK, KindsFit, [Next]_vars
  PROVE  KindsFit'
<1> ThreadsTyped /\ RequestsTyped /\ UsedTyped /\ ModesTyped
  BY TypeParts
<1> USE DEF KindsFit
<1>1. ASSUME NEW t \in Threads, Hook(t) \/ StartSweep(t) PROVE KindsFit'
  BY <1>1, Arrival DEF Still
<1>2. ASSUME NEW t \in Threads, EarlyStep(t) PROVE KindsFit'
  BY <1>2, Approach DEF Still, Early
<1>3. ASSUME NEW t \in Threads, StopStep(t) PROVE KindsFit'
  BY <1>3, Takeover DEF Still
<1>4. ASSUME NEW t \in Threads, OpenMic(t) PROVE KindsFit'
  BY <1>4, GoStep, FinishStep DEF OpenMic, Still, Opens, OpenFails
<1>5. ASSUME NEW t \in Threads, Commit(t) PROVE KindsFit'
  BY <1>5, GoStep, FinishStep DEF Commit, Still, Park
<1>6. ASSUME NEW t \in Threads, Register(t) PROVE KindsFit'
  BY <1>6, GoStep, FinishStep DEF Register, Still, ThreadsTyped, RequestsTyped
<1>7. ASSUME NEW t \in Threads, Forward(t) PROVE KindsFit'
  BY <1>7, GoStep, FinishStep DEF Forward, Still
<1>8. ASSUME NEW t \in Threads, EscapePressed(t) PROVE KindsFit'
  BY <1>8, GoStep, FinishStep DEF EscapePressed, Still
<1>9. ASSUME NEW t \in Threads, Stamp(t) PROVE KindsFit'
  BY <1>9, GoStep, FinishStep DEF Stamp, Still
<1>10. ASSUME NEW t \in Threads, CloseMic(t) PROVE KindsFit'
  BY <1>10, GoStep, FinishStep DEF CloseMic, Still
<1>11. ASSUME NEW t \in Threads, TakeRequest(t) PROVE KindsFit'
  BY <1>11, GoStep, FinishStep DEF TakeRequest, Still, ThreadsTyped, RequestsTyped
<1>12. ASSUME NEW t \in Threads, RemoveStream(t) PROVE KindsFit'
  BY <1>12, GoStep, FinishStep DEF RemoveStream, Still
<1>13. ASSUME NEW t \in Threads, Decode(t) PROVE KindsFit'
  BY <1>13, GoStep, FinishStep DEF Decode, Still
<1>14. ASSUME NEW t \in Threads, SetIdle(t) PROVE KindsFit'
  BY <1>14, GoStep, FinishStep DEF SetIdle, Still
<1>15. ASSUME NEW t \in Threads, Unstamp(t) PROVE KindsFit'
  BY <1>15, GoStep, FinishStep DEF Unstamp, Still
<1>16. ASSUME NEW t \in Threads, Autostart(t) PROVE KindsFit'
  BY <1>16, GoStep, FinishStep DEF Autostart, Still, ThreadsTyped, RequestsTyped
<1>17. ASSUME NEW t \in Threads, DropPending(t) PROVE KindsFit'
  BY <1>17, GoStep, FinishStep DEF DropPending, Still, ThreadsTyped, RequestsTyped
<1>18. ASSUME NEW t \in Threads, DropSession(t) PROVE KindsFit'
  BY <1>18, GoStep, FinishStep DEF DropSession, Still
<1>19. ASSUME NEW t \in Threads, Forget(t) PROVE KindsFit'
  BY <1>19, GoStep, FinishStep DEF Forget, Still
<1>20. ASSUME NEW t \in Threads, Sweep(t) PROVE KindsFit'
  BY <1>20, GoStep, FinishStep DEF Sweep, Still
<1>21. ASSUME NEW t \in Threads, ReopenMic(t) PROVE KindsFit'
  BY <1>21, GoStep, FinishStep DEF ReopenMic, Still
<1>22. ASSUME NEW t \in Threads, RestartMic(t) PROVE KindsFit'
  BY <1>22, GoStep, FinishStep DEF RestartMic, Still, Opens, OpenFails
<1>23. ASSUME NEW t \in Threads, RecoverStranded(t) PROVE KindsFit'
  BY <1>23, GoStep, FinishStep DEF RecoverStranded, Still
<1>24. CASE Surroundings
  BY <1>24, Background
<1> QED BY <1>1, <1>2, <1>3, <1>4, <1>5, <1>6, <1>7, <1>8, <1>9, <1>10, <1>11,
  <1>12, <1>13, <1>14, <1>15, <1>16, <1>17, <1>18, <1>19, <1>20, <1>21, <1>22,
  <1>23, <1>24 DEF Next, Work, EarlyStep, StopStep, Surroundings

(* There is one sweep at a time.  It resets a session only after ninety    *)
(* seconds, which pass over a worker call without end alone.               *)
Sweepers == {t \in Threads : kind[t] \in {"sweep", "reset"}}

SweepAlone == \A t, u \in Sweepers : t = u

OldIsWedged ==
    processingSince = "old" /\ Wedged = {} =>
        \E t \in Threads : kind[t] = "sweep" /\ pc[t] \in Finalizing \cup {"unstamp"}

ResetIsWedged ==
    Wedged = {} =>
        \A t \in Threads : kind[t] # "reset" /\ (kind[t] = "sweep" => pc[t] # "void")

(* Each step keeps the sweep alone. *)
LEMMA StepAlone ==
  ASSUME TypeOK, SweepAlone, [Next]_vars
  PROVE  SweepAlone'
<1> ThreadsTyped /\ RequestsTyped /\ UsedTyped /\ ModesTyped
  BY TypeParts
<1> USE DEF SweepAlone, Sweepers
<1>1. ASSUME NEW t \in Threads, Hook(t) \/ StartSweep(t) PROVE SweepAlone'
  BY <1>1, Arrival DEF Still
<1>2. ASSUME NEW t \in Threads, EarlyStep(t) PROVE SweepAlone'
  BY <1>2, Approach DEF Still, Early
<1>3. ASSUME NEW t \in Threads, StopStep(t) PROVE SweepAlone'
  BY <1>3, Takeover DEF Still
<1>4. ASSUME NEW t \in Threads, OpenMic(t) PROVE SweepAlone'
  BY <1>4, GoStep, FinishStep DEF OpenMic, Still, Opens, OpenFails
<1>5. ASSUME NEW t \in Threads, Commit(t) PROVE SweepAlone'
  BY <1>5, GoStep, FinishStep DEF Commit, Still, Park
<1>6. ASSUME NEW t \in Threads, Register(t) PROVE SweepAlone'
  BY <1>6, GoStep, FinishStep DEF Register, Still, ThreadsTyped, RequestsTyped
<1>7. ASSUME NEW t \in Threads, Forward(t) PROVE SweepAlone'
  BY <1>7, GoStep, FinishStep DEF Forward, Still
<1>8. ASSUME NEW t \in Threads, EscapePressed(t) PROVE SweepAlone'
  BY <1>8, GoStep, FinishStep DEF EscapePressed, Still
<1>9. ASSUME NEW t \in Threads, Stamp(t) PROVE SweepAlone'
  BY <1>9, GoStep, FinishStep DEF Stamp, Still
<1>10. ASSUME NEW t \in Threads, CloseMic(t) PROVE SweepAlone'
  BY <1>10, GoStep, FinishStep DEF CloseMic, Still
<1>11. ASSUME NEW t \in Threads, TakeRequest(t) PROVE SweepAlone'
  BY <1>11, GoStep, FinishStep DEF TakeRequest, Still, ThreadsTyped, RequestsTyped
<1>12. ASSUME NEW t \in Threads, RemoveStream(t) PROVE SweepAlone'
  BY <1>12, GoStep, FinishStep DEF RemoveStream, Still
<1>13. ASSUME NEW t \in Threads, Decode(t) PROVE SweepAlone'
  BY <1>13, GoStep, FinishStep DEF Decode, Still
<1>14. ASSUME NEW t \in Threads, SetIdle(t) PROVE SweepAlone'
  BY <1>14, GoStep, FinishStep DEF SetIdle, Still
<1>15. ASSUME NEW t \in Threads, Unstamp(t) PROVE SweepAlone'
  BY <1>15, GoStep, FinishStep DEF Unstamp, Still
<1>16. ASSUME NEW t \in Threads, Autostart(t) PROVE SweepAlone'
  BY <1>16, GoStep, FinishStep DEF Autostart, Still, ThreadsTyped, RequestsTyped
<1>17. ASSUME NEW t \in Threads, DropPending(t) PROVE SweepAlone'
  BY <1>17, GoStep, FinishStep DEF DropPending, Still, ThreadsTyped, RequestsTyped
<1>18. ASSUME NEW t \in Threads, DropSession(t) PROVE SweepAlone'
  BY <1>18, GoStep, FinishStep DEF DropSession, Still
<1>19. ASSUME NEW t \in Threads, Forget(t) PROVE SweepAlone'
  BY <1>19, GoStep, FinishStep DEF Forget, Still
<1>20. ASSUME NEW t \in Threads, Sweep(t) PROVE SweepAlone'
  BY <1>20, GoStep, FinishStep DEF Sweep, Still
<1>21. ASSUME NEW t \in Threads, ReopenMic(t) PROVE SweepAlone'
  BY <1>21, GoStep, FinishStep DEF ReopenMic, Still
<1>22. ASSUME NEW t \in Threads, RestartMic(t) PROVE SweepAlone'
  BY <1>22, GoStep, FinishStep DEF RestartMic, Still, Opens, OpenFails
<1>23. ASSUME NEW t \in Threads, RecoverStranded(t) PROVE SweepAlone'
  BY <1>23, GoStep, FinishStep DEF RecoverStranded, Still
<1>24. CASE Surroundings
  BY <1>24, Background
<1> QED BY <1>1, <1>2, <1>3, <1>4, <1>5, <1>6, <1>7, <1>8, <1>9, <1>10, <1>11,
  <1>12, <1>13, <1>14, <1>15, <1>16, <1>17, <1>18, <1>19, <1>20, <1>21, <1>22,
  <1>23, <1>24 DEF Next, Work, EarlyStep, StopStep, Surroundings

(* Each step keeps an old stamp that of a call without end. *)
LEMMA StepOld ==
  ASSUME TypeOK, StampOwned, OldIsWedged, [Next]_vars
  PROVE  OldIsWedged'
<1> ThreadsTyped /\ RequestsTyped /\ UsedTyped /\ ModesTyped
  BY TypeParts
<1> USE DEF OldIsWedged, Finalizing, Wedged, timeVars
<1>1. ASSUME NEW t \in Threads, Hook(t) \/ StartSweep(t) PROVE OldIsWedged'
  BY <1>1, Arrival DEF Still
<1>2. ASSUME NEW t \in Threads, EarlyStep(t) PROVE OldIsWedged'
  BY <1>2, Approach DEF Still, Early
<1>3. ASSUME NEW t \in Threads, StopStep(t) PROVE OldIsWedged'
  BY <1>3, Takeover DEF Still
<1>4. ASSUME NEW t \in Threads, OpenMic(t) PROVE OldIsWedged'
  BY <1>4, GoStep, FinishStep DEF OpenMic, Still, Opens, OpenFails
<1>5. ASSUME NEW t \in Threads, Commit(t) PROVE OldIsWedged'
  BY <1>5, GoStep, FinishStep DEF Commit, Still, Park
<1>6. ASSUME NEW t \in Threads, Register(t) PROVE OldIsWedged'
  BY <1>6, GoStep, FinishStep DEF Register, Still, ThreadsTyped, RequestsTyped
<1>7. ASSUME NEW t \in Threads, Forward(t) PROVE OldIsWedged'
  BY <1>7, GoStep, FinishStep DEF Forward, Still
<1>8. ASSUME NEW t \in Threads, EscapePressed(t) PROVE OldIsWedged'
  BY <1>8, GoStep, FinishStep DEF EscapePressed, Still
<1>9. ASSUME NEW t \in Threads, Stamp(t) PROVE OldIsWedged'
  BY <1>9, GoStep, FinishStep DEF Stamp, Still
<1>10. ASSUME NEW t \in Threads, CloseMic(t) PROVE OldIsWedged'
  BY <1>10, GoStep, FinishStep DEF CloseMic, Still
<1>11. ASSUME NEW t \in Threads, TakeRequest(t) PROVE OldIsWedged'
  BY <1>11, GoStep, FinishStep DEF TakeRequest, Still, ThreadsTyped, RequestsTyped,
    Quits
<1>12. ASSUME NEW t \in Threads, RemoveStream(t) PROVE OldIsWedged'
  BY <1>12, GoStep, FinishStep DEF RemoveStream, Still, Quits
<1>13. ASSUME NEW t \in Threads, Decode(t) PROVE OldIsWedged'
  BY <1>13, GoStep, FinishStep DEF Decode, Still
<1>14. ASSUME NEW t \in Threads, SetIdle(t) PROVE OldIsWedged'
  BY <1>14, GoStep, FinishStep DEF SetIdle, Still
<1>15. ASSUME NEW t \in Threads, Unstamp(t) PROVE OldIsWedged'
  BY <1>15, GoStep, FinishStep DEF Unstamp, Still
<1>16. ASSUME NEW t \in Threads, Autostart(t) PROVE OldIsWedged'
  BY <1>16, GoStep, FinishStep DEF Autostart, Still, ThreadsTyped, RequestsTyped
<1>17. ASSUME NEW t \in Threads, DropPending(t) PROVE OldIsWedged'
  BY <1>17, GoStep, FinishStep DEF DropPending, Still, ThreadsTyped, RequestsTyped
<1>18. ASSUME NEW t \in Threads, DropSession(t) PROVE OldIsWedged'
  BY <1>18, GoStep, FinishStep DEF DropSession, Still
<1>19. ASSUME NEW t \in Threads, Forget(t) PROVE OldIsWedged'
  BY <1>19, GoStep, FinishStep DEF Forget, Still
<1>20. ASSUME NEW t \in Threads, Sweep(t) PROVE OldIsWedged'
  BY <1>20, GoStep, FinishStep DEF Sweep, Still
<1>21. ASSUME NEW t \in Threads, ReopenMic(t) PROVE OldIsWedged'
  BY <1>21, GoStep, FinishStep DEF ReopenMic, Still
<1>22. ASSUME NEW t \in Threads, RestartMic(t) PROVE OldIsWedged'
  BY <1>22, GoStep, FinishStep DEF RestartMic, Still, Opens, OpenFails
<1>23. ASSUME NEW t \in Threads, RecoverStranded(t) PROVE OldIsWedged'
  BY <1>23, GoStep, FinishStep DEF RecoverStranded, Still
<1>24. CASE Surroundings
  BY <1>24, Background DEF StampOwned, AtRest
<1> QED BY <1>1, <1>2, <1>3, <1>4, <1>5, <1>6, <1>7, <1>8, <1>9, <1>10, <1>11,
  <1>12, <1>13, <1>14, <1>15, <1>16, <1>17, <1>18, <1>19, <1>20, <1>21, <1>22,
  <1>23, <1>24 DEF Next, Work, EarlyStep, StopStep, Surroundings

(* Each step keeps the resets those of a call without end. *)
LEMMA StepReset ==
  ASSUME TypeOK, KindsFit, SweepAlone, OldIsWedged, ResetIsWedged, [Next]_vars
  PROVE  ResetIsWedged'
<1> ThreadsTyped /\ RequestsTyped /\ UsedTyped /\ ModesTyped
  BY TypeParts
<1> USE DEF ResetIsWedged, Wedged
<1>1. ASSUME NEW t \in Threads, Hook(t) \/ StartSweep(t) PROVE ResetIsWedged'
  BY <1>1, Arrival DEF Still
<1>2. ASSUME NEW t \in Threads, EarlyStep(t) PROVE ResetIsWedged'
  BY <1>2, Approach DEF Still, Early
<1>3. ASSUME NEW t \in Threads, StopStep(t) PROVE ResetIsWedged'
  BY <1>3, Takeover DEF Still
<1>4. ASSUME NEW t \in Threads, OpenMic(t) PROVE ResetIsWedged'
  BY <1>4, GoStep, FinishStep DEF OpenMic, Still, Opens, OpenFails
<1>5. ASSUME NEW t \in Threads, Commit(t) PROVE ResetIsWedged'
  BY <1>5, GoStep, FinishStep DEF Commit, Still, Park
<1>6. ASSUME NEW t \in Threads, Register(t) PROVE ResetIsWedged'
  BY <1>6, GoStep, FinishStep DEF Register, Still, ThreadsTyped, RequestsTyped
<1>7. ASSUME NEW t \in Threads, Forward(t) PROVE ResetIsWedged'
  BY <1>7, GoStep, FinishStep DEF Forward, Still
<1>8. ASSUME NEW t \in Threads, EscapePressed(t) PROVE ResetIsWedged'
  BY <1>8, GoStep, FinishStep DEF EscapePressed, Still, KindsFit
<1>9. ASSUME NEW t \in Threads, Stamp(t) PROVE ResetIsWedged'
  BY <1>9, GoStep, FinishStep DEF Stamp, Still
<1>10. ASSUME NEW t \in Threads, CloseMic(t) PROVE ResetIsWedged'
  BY <1>10, GoStep, FinishStep DEF CloseMic, Still
<1>11. ASSUME NEW t \in Threads, TakeRequest(t) PROVE ResetIsWedged'
  BY <1>11, GoStep, FinishStep DEF TakeRequest, Still, ThreadsTyped, RequestsTyped
<1>12. ASSUME NEW t \in Threads, RemoveStream(t) PROVE ResetIsWedged'
  BY <1>12, GoStep, FinishStep DEF RemoveStream, Still
<1>13. ASSUME NEW t \in Threads, Decode(t) PROVE ResetIsWedged'
  BY <1>13, GoStep, FinishStep DEF Decode, Still
<1>14. ASSUME NEW t \in Threads, SetIdle(t) PROVE ResetIsWedged'
  BY <1>14, GoStep, FinishStep DEF SetIdle, Still
<1>15. ASSUME NEW t \in Threads, Unstamp(t) PROVE ResetIsWedged'
  BY <1>15, GoStep, FinishStep DEF Unstamp, Still
<1>16. ASSUME NEW t \in Threads, Autostart(t) PROVE ResetIsWedged'
  BY <1>16, GoStep, FinishStep DEF Autostart, Still, ThreadsTyped, RequestsTyped
<1>17. ASSUME NEW t \in Threads, DropPending(t) PROVE ResetIsWedged'
  BY <1>17, GoStep, FinishStep DEF DropPending, Still, ThreadsTyped, RequestsTyped
<1>18. ASSUME NEW t \in Threads, DropSession(t) PROVE ResetIsWedged'
  BY <1>18, GoStep, FinishStep DEF DropSession, Still
<1>19. ASSUME NEW t \in Threads, Forget(t) PROVE ResetIsWedged'
  BY <1>19, GoStep, FinishStep DEF Forget, Still
<1>20. ASSUME NEW t \in Threads, Sweep(t) PROVE ResetIsWedged'
  BY <1>20, GoStep, FinishStep DEF Sweep, Still
<1>21. ASSUME NEW t \in Threads, ReopenMic(t) PROVE ResetIsWedged'
  BY <1>21, GoStep, FinishStep DEF ReopenMic, Still
<1>22. ASSUME NEW t \in Threads, RestartMic(t) PROVE ResetIsWedged'
  BY <1>22, GoStep, FinishStep DEF RestartMic, Still, Opens, OpenFails
<1>23. ASSUME NEW t \in Threads, RecoverStranded(t) PROVE ResetIsWedged'
  BY <1>23, GoStep, FinishStep DEF RecoverStranded, Still, KindsFit, SweepAlone,
    Sweepers, OldIsWedged, Finalizing
<1>24. CASE Surroundings
  BY <1>24, Background
<1> QED BY <1>1, <1>2, <1>3, <1>4, <1>5, <1>6, <1>7, <1>8, <1>9, <1>10, <1>11,
  <1>12, <1>13, <1>14, <1>15, <1>16, <1>17, <1>18, <1>19, <1>20, <1>21, <1>22,
  <1>23, <1>24 DEF Next, Work, EarlyStep, StopStep, Surroundings

(* A fault is no escape.                                                  *)
LEMMA FaultSpent ==
  ASSUME UsedTyped, Spend("fault")
  PROVE  used'["escape"] = used["escape"]
  BY DEF UsedTyped, Spend, Kinds

(* Without an escape there is none to claim or to cancel a session.        *)
NoEscapes ==
    used["escape"] = 0 => \A t \in Threads : kind[t] \notin {"escape", "cancel"}

(* Each step keeps the escapes counted. *)
LEMMA StepEscapes ==
  ASSUME TypeOK, KindsFit, NoEscapes, [Next]_vars
  PROVE  NoEscapes'
<1> ThreadsTyped /\ RequestsTyped /\ UsedTyped /\ ModesTyped
  BY TypeParts
<1> USE DEF NoEscapes
<1>1. ASSUME NEW t \in Threads, Hook(t) \/ StartSweep(t) PROVE NoEscapes'
  BY <1>1, Arrival DEF Still
<1>2. ASSUME NEW t \in Threads, EarlyStep(t) PROVE NoEscapes'
  BY <1>2, Approach DEF Still, Early
<1>3. ASSUME NEW t \in Threads, StopStep(t) PROVE NoEscapes'
  BY <1>3, Takeover DEF Still
<1>4. ASSUME NEW t \in Threads, OpenMic(t) PROVE NoEscapes'
  BY <1>4, GoStep, FinishStep, FaultSpent DEF OpenMic, Still, Opens, OpenFails
<1>5. ASSUME NEW t \in Threads, Commit(t) PROVE NoEscapes'
  BY <1>5, GoStep, FinishStep DEF Commit, Still, Park
<1>6. ASSUME NEW t \in Threads, Register(t) PROVE NoEscapes'
  BY <1>6, GoStep, FinishStep DEF Register, Still, ThreadsTyped, RequestsTyped
<1>7. ASSUME NEW t \in Threads, Forward(t) PROVE NoEscapes'
  BY <1>7, GoStep, FinishStep, FaultSpent DEF Forward, Still
<1>8. ASSUME NEW t \in Threads, EscapePressed(t) PROVE NoEscapes'
  BY <1>8, GoStep, FinishStep DEF EscapePressed, Still
<1>9. ASSUME NEW t \in Threads, Stamp(t) PROVE NoEscapes'
  BY <1>9, GoStep, FinishStep DEF Stamp, Still
<1>10. ASSUME NEW t \in Threads, CloseMic(t) PROVE NoEscapes'
  BY <1>10, GoStep, FinishStep DEF CloseMic, Still
<1>11. ASSUME NEW t \in Threads, TakeRequest(t) PROVE NoEscapes'
  BY <1>11, GoStep, FinishStep DEF TakeRequest, Still, ThreadsTyped, RequestsTyped
<1>12. ASSUME NEW t \in Threads, RemoveStream(t) PROVE NoEscapes'
  BY <1>12, GoStep, FinishStep DEF RemoveStream, Still
<1>13. ASSUME NEW t \in Threads, Decode(t) PROVE NoEscapes'
  BY <1>13, GoStep, FinishStep, FaultSpent DEF Decode, Still
<1>14. ASSUME NEW t \in Threads, SetIdle(t) PROVE NoEscapes'
  BY <1>14, GoStep, FinishStep DEF SetIdle, Still
<1>15. ASSUME NEW t \in Threads, Unstamp(t) PROVE NoEscapes'
  BY <1>15, GoStep, FinishStep DEF Unstamp, Still
<1>16. ASSUME NEW t \in Threads, Autostart(t) PROVE NoEscapes'
  BY <1>16, GoStep, FinishStep DEF Autostart, Still, ThreadsTyped, RequestsTyped
<1>17. ASSUME NEW t \in Threads, DropPending(t) PROVE NoEscapes'
  BY <1>17, GoStep, FinishStep DEF DropPending, Still, ThreadsTyped, RequestsTyped,
    KindsFit
<1>18. ASSUME NEW t \in Threads, DropSession(t) PROVE NoEscapes'
  BY <1>18, GoStep, FinishStep DEF DropSession, Still
<1>19. ASSUME NEW t \in Threads, Forget(t) PROVE NoEscapes'
  BY <1>19, GoStep, FinishStep DEF Forget, Still
<1>20. ASSUME NEW t \in Threads, Sweep(t) PROVE NoEscapes'
  BY <1>20, GoStep, FinishStep DEF Sweep, Still
<1>21. ASSUME NEW t \in Threads, ReopenMic(t) PROVE NoEscapes'
  BY <1>21, GoStep, FinishStep DEF ReopenMic, Still
<1>22. ASSUME NEW t \in Threads, RestartMic(t) PROVE NoEscapes'
  BY <1>22, GoStep, FinishStep, FaultSpent DEF RestartMic, Still, Opens, OpenFails
<1>23. ASSUME NEW t \in Threads, RecoverStranded(t) PROVE NoEscapes'
  BY <1>23, GoStep, FinishStep DEF RecoverStranded, Still
<1>24. CASE Surroundings
  BY <1>24, Background
<1> QED BY <1>1, <1>2, <1>3, <1>4, <1>5, <1>6, <1>7, <1>8, <1>9, <1>10, <1>11,
  <1>12, <1>13, <1>14, <1>15, <1>16, <1>17, <1>18, <1>19, <1>20, <1>21, <1>22,
  <1>23, <1>24 DEF Next, Work, EarlyStep, StopStep, Surroundings

(* A parked press waits for a session, or for an owner that has it before  *)
(* it: without escapes and calls without end, every owner gets to it.      *)
ParkedWaits ==
    used["escape"] = 0 /\ Wedged = {} /\ pending =>
        mode # "Idle" \/ \E t \in Threads : pc[t] \in Finalizing \cup {"unstamp", "autostart"}

(* Each step keeps the parked press waited for. *)
LEMMA StepParked ==
  ASSUME TypeOK, DroppersQuit, NoEscapes, ResetIsWedged, ParkedWaits, [Next]_vars
  PROVE  ParkedWaits'
<1> ThreadsTyped /\ RequestsTyped /\ UsedTyped /\ ModesTyped
  BY TypeParts
<1> USE DEF ParkedWaits, Finalizing, Wedged
<1>1. ASSUME NEW t \in Threads, Hook(t) \/ StartSweep(t) PROVE ParkedWaits'
  BY <1>1, Arrival DEF Still
<1>2. ASSUME NEW t \in Threads, EarlyStep(t) PROVE ParkedWaits'
  <2>1. /\ Still(t) /\ pc[t] \in Early /\ mode' = mode
        /\ pc'[t] \notin Finalizing \cup {"wedged"}
        /\ used'["escape"] = used["escape"]
        /\ pending' => pending \/ mode # "Idle"
    BY <1>2, Approach DEF Early
  <2>2. CASE mode # "Idle"
    BY <2>1, <2>2
  <2>3. CASE mode = "Idle"
    BY <2>1, <2>3 DEF Still, Early
  <2> QED  BY <2>2, <2>3
<1>3. ASSUME NEW t \in Threads, StopStep(t) PROVE ParkedWaits'
  BY <1>3, Takeover DEF Still
<1>4. ASSUME NEW t \in Threads, OpenMic(t) PROVE ParkedWaits'
  <2>1. /\ Still(t) /\ pc[t] = "open" /\ mode' = mode
        /\ pc'[t] \in {"commit", "free"}
        /\ used'["escape"] = used["escape"]
    BY <1>4, GoStep, FinishStep, FaultSpent DEF OpenMic, Opens, OpenFails
  <2>2. pending' => pending
    BY <1>4 DEF OpenMic
  <2> QED  BY <2>1, <2>2 DEF Still
<1>5. ASSUME NEW t \in Threads, Commit(t) PROVE ParkedWaits'
  BY <1>5, GoStep, FinishStep DEF Commit, Still, Park
<1>6. ASSUME NEW t \in Threads, Register(t) PROVE ParkedWaits'
  BY <1>6, GoStep, FinishStep DEF Register, Still, ThreadsTyped, RequestsTyped
<1>7. ASSUME NEW t \in Threads, Forward(t) PROVE ParkedWaits'
  BY <1>7, GoStep, FinishStep, FaultSpent DEF Forward, Still
<1>8. ASSUME NEW t \in Threads, EscapePressed(t) PROVE ParkedWaits'
  BY <1>8, GoStep, FinishStep DEF EscapePressed, Still
<1>9. ASSUME NEW t \in Threads, Stamp(t) PROVE ParkedWaits'
  BY <1>9, GoStep, FinishStep DEF Stamp, Still
<1>10. ASSUME NEW t \in Threads, CloseMic(t) PROVE ParkedWaits'
  BY <1>10, GoStep, FinishStep DEF CloseMic, Still
<1>11. ASSUME NEW t \in Threads, TakeRequest(t) PROVE ParkedWaits'
  BY <1>11, GoStep, FinishStep DEF TakeRequest, Still, ThreadsTyped, RequestsTyped,
    NoEscapes, ResetIsWedged, DroppersQuit, Quits
<1>12. ASSUME NEW t \in Threads, RemoveStream(t) PROVE ParkedWaits'
  BY <1>12, GoStep, FinishStep DEF RemoveStream, Still, NoEscapes, ResetIsWedged,
    DroppersQuit, Quits
<1>13. ASSUME NEW t \in Threads, Decode(t) PROVE ParkedWaits'
  BY <1>13, GoStep, FinishStep, FaultSpent DEF Decode, Still
<1>14. ASSUME NEW t \in Threads, SetIdle(t) PROVE ParkedWaits'
  BY <1>14, GoStep, FinishStep DEF SetIdle, Still
<1>15. ASSUME NEW t \in Threads, Unstamp(t) PROVE ParkedWaits'
  BY <1>15, GoStep, FinishStep DEF Unstamp, Still, NoEscapes, ResetIsWedged,
    DroppersQuit, Quits
<1>16. ASSUME NEW t \in Threads, Autostart(t) PROVE ParkedWaits'
  BY <1>16, GoStep, FinishStep DEF Autostart, Still, ThreadsTyped, RequestsTyped
<1>17. ASSUME NEW t \in Threads, DropPending(t) PROVE ParkedWaits'
  BY <1>17, GoStep, FinishStep DEF DropPending, Still, ThreadsTyped, RequestsTyped
<1>18. ASSUME NEW t \in Threads, DropSession(t) PROVE ParkedWaits'
  BY <1>18, GoStep, FinishStep DEF DropSession, Still, NoEscapes, ResetIsWedged,
    DroppersQuit, Quits
<1>19. ASSUME NEW t \in Threads, Forget(t) PROVE ParkedWaits'
  BY <1>19, GoStep, FinishStep DEF Forget, Still
<1>20. ASSUME NEW t \in Threads, Sweep(t) PROVE ParkedWaits'
  BY <1>20, GoStep, FinishStep DEF Sweep, Still
<1>21. ASSUME NEW t \in Threads, ReopenMic(t) PROVE ParkedWaits'
  BY <1>21, GoStep, FinishStep DEF ReopenMic, Still
<1>22. ASSUME NEW t \in Threads, RestartMic(t) PROVE ParkedWaits'
  BY <1>22, GoStep, FinishStep, FaultSpent DEF RestartMic, Still, Opens, OpenFails
<1>23. ASSUME NEW t \in Threads, RecoverStranded(t) PROVE ParkedWaits'
  BY <1>23, GoStep, FinishStep DEF RecoverStranded, Still
<1>24. CASE Surroundings
  BY <1>24, Background
<1> QED BY <1>1, <1>2, <1>3, <1>4, <1>5, <1>6, <1>7, <1>8, <1>9, <1>10, <1>11,
  <1>12, <1>13, <1>14, <1>15, <1>16, <1>17, <1>18, <1>19, <1>20, <1>21, <1>22,
  <1>23, <1>24 DEF Next, Work, EarlyStep, StopStep, Surroundings

-----------------------------------------------------------------------------
(* The inductive invariant, and what it says of a moment at which no       *)
(* thread is at work.                                                      *)

CleanInv == Clean => QuittersWait /\ RequestOwned /\ StreamsMatched

SessionInv ==
    /\ VoiceInv /\ MicAccounted /\ StampOwned
    /\ CleanInv /\ StreamsDistinct
    /\ KindsFit /\ SweepAlone /\ OldIsWedged /\ ResetIsWedged
    /\ NoEscapes /\ ParkedWaits

(* It holds initially and is kept by each step. *)
LEMMA SessionInit == Init => SessionInv
<1> SUFFICES ASSUME Init PROVE SessionInv
  OBVIOUS
<1>1. VoiceInv
  BY VoiceInit
<1>2. MicAccounted /\ StampOwned /\ ParkedWaits
  <2>1. MicAccounted
    BY DEF Init, MicAccounted
  <2>2. StampOwned
    BY DEF Init, StampOwned
  <2>3. ParkedWaits
    BY DEF Init, ParkedWaits
  <2> QED  BY <2>1, <2>2, <2>3
<1>3. ASSUME NEW t \in Threads PROVE pc[t] = "free" /\ kind[t] = "none"
  BY DEF Init
<1>4. QuittersWait /\ KindsFit /\ SweepAlone /\ ResetIsWedged /\ NoEscapes
  BY <1>3 DEF QuittersWait, Quits, KindsFit, SweepAlone, Sweepers, ResetIsWedged,
              NoEscapes
<1>5. OldIsWedged
  BY DEF Init, OldIsWedged
<1>6. RequestOwned
  BY <1>3 DEF Init, RequestOwned, Registering, Recording
<1>7. StreamsMatched /\ StreamsDistinct
  <2>1. streams = {} /\ Forwarding = {}
    BY <1>3 DEF Init, Forwarding
  <2> QED  BY <2>1 DEF StreamsMatched, StreamsDistinct
<1> QED  BY <1>1, <1>2, <1>4, <1>5, <1>6, <1>7 DEF SessionInv, CleanInv

LEMMA SessionStep == SessionInv /\ [Next]_vars => SessionInv'
<1> SUFFICES ASSUME SessionInv, [Next]_vars PROVE SessionInv'
  OBVIOUS
<1> USE DEF SessionInv
<1>1. TypeOK /\ DroppersQuit /\ OneOwner
  BY DEF VoiceInv
<1>2. VoiceInv'
  BY <1>1, VoiceTypes, VoiceDroppers, VoiceOwners, TypeParts DEF VoiceInv
<1>3. MicAccounted' /\ StampOwned'
  BY <1>1, StepMic, StepStamp
<1>4. CleanInv'
  <2> SUFFICES ASSUME Clean' PROVE QuittersWait' /\ RequestOwned' /\ StreamsMatched'
    BY DEF CleanInv
  <2>1. Clean
    BY <1>1, CleanBefore
  <2>2. QuittersWait /\ RequestOwned /\ StreamsMatched
    BY <2>1 DEF CleanInv
  <2> QED  BY <1>1, <2>1, <2>2, StepQuitters, StepRequest, StepStreams
<1>5. StreamsDistinct'
  BY <1>1, StepDistinct
<1>6. KindsFit' /\ SweepAlone'
  BY <1>1, StepKinds, StepAlone
<1>7. OldIsWedged' /\ ResetIsWedged'
  BY <1>1, StepOld, StepReset
<1>8. NoEscapes' /\ ParkedWaits'
  BY <1>1, StepEscapes, StepParked
<1> QED  BY <1>2, <1>3, <1>4, <1>5, <1>6, <1>7, <1>8

(* For any number of threads and however they interleave: when no thread   *)
(* is at work and no session is on, an open microphone was left by a       *)
(* starter that lost the race after its open, by an owner that was         *)
(* overruled, or by a sweep that reopened after the stop.                  *)
THEOREM MicParkedByRace == Spec => []MicParkedOnlyIf
<1>1. SessionInv => MicParkedOnlyIf
  BY DEF SessionInv, MicAccounted, MicParkedOnlyIf, Quiet, Parked, Recording
<1> QED  BY SessionInit, SessionStep, <1>1, PTL DEF Spec

(* For any number of threads and sessions: when no thread is at work and   *)
(* none of the races has happened, the mode, the stamp, the microphone,    *)
(* the active request and the streams are those of one recording, or of    *)
(* none.                                                                   *)
THEOREM QuietIsConsistent == Spec => []Consistent
<1>1. SessionInv => Consistent
  <2> SUFFICES ASSUME SessionInv, Quiet, blame = {}
               PROVE  /\ mode # "Processing" /\ processingSince = "none"
                      /\ mic => Recording
                      /\ (activeReq # 0) <=> Recording
                      /\ streams \subseteq {activeReq}
    BY DEF Consistent
  <2> USE DEF SessionInv, Quiet
  <2>1. Wedged = {} /\ Owners = {} /\ Taking = {} /\ Registering = {}
    BY DEF Wedged, Owners, Taking, Registering, Finalizing
  <2>2. mode # "Processing"
    BY <2>1 DEF VoiceInv, OneOwner
  <2>3. processingSince = "none"
    BY DEF StampOwned, Finalizing
  <2>4. mic => Recording
    BY DEF MicAccounted, Parked
  <2>5. QuittersWait /\ RequestOwned /\ StreamsMatched
    BY <2>1 DEF CleanInv, Clean
  <2>6. (activeReq # 0) <=> Recording
    BY <2>1, <2>5 DEF RequestOwned
  <2>7. streams \subseteq {activeReq}
    BY <2>5 DEF StreamsMatched
  <2> QED  BY <2>2, <2>3, <2>4, <2>6, <2>7
<1> QED  BY SessionInit, SessionStep, <1>1, PTL DEF Spec

(* For any number of threads, presses and sessions: when no thread is at   *)
(* work and no session is on, a press parked during a session whose key is *)
(* still held is pending only if Escape was pressed.                       *)
THEOREM ParkedPressStarted == Spec => []ParkedPressHonoredUnlessEscape
<1>1. SessionInv => ParkedPressHonoredUnlessEscape
  <2> SUFFICES ASSUME SessionInv, Quiet, mode = "Idle", pending, used["escape"] <= 0
               PROVE  FALSE
    BY DEF ParkedPressHonoredUnlessEscape, SessionInv, VoiceInv, TypeOK, Kinds
  <2>1. used["escape"] = 0
    BY DEF SessionInv, VoiceInv, TypeOK, Kinds
  <2>2. Wedged = {} /\ \A t \in Threads : pc[t] = "free"
    BY DEF Quiet, Wedged
  <2> QED  BY <2>1, <2>2 DEF SessionInv, ParkedWaits, Finalizing
<1> QED  BY SessionInit, SessionStep, <1>1, PTL DEF Spec
=============================================================================
