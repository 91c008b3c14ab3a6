----------------------------- MODULE KeyHookProofs -----------------------------
(***************************************************************************)
(* What the runs check of the callback, for every set of keys, every       *)
(* chords and any number of inputs, in four parts: the types; the flags,   *)
(* which inherit their honesty from the modifiers (IInv); the order of the *)
(* simulated events (InStep); and key by key what the callback owes a key  *)
(* that is down (KeyInv), from which it follows that no key stays down in  *)
(* the window and, with the modifiers complete and the repeats quiet, that *)
(* a chord fires when its keys are down.                                   *)
(***************************************************************************)
EXTENDS KeyHook, TLAPS

(* A modifier the callback takes for down is down, unless one of its       *)
(* events was misjudged.  A press sets a flag only when the chord's        *)
(* modifiers are what the callback takes for down, so the flag inherits    *)
(* their honesty; a release of a key of the chord resets it, or is blamed. *)
ModsHonest ==
    \A m \in mods : m \in held \/ Blamed({"mistaken", "stray"}, {m})

IInv == ModsHonest /\ FlagsHonest

(* What the callback and the filter change, in its types *)
StateTyped ==
    /\ shown \subseteq Keys /\ mods \subseteq Modifiers
    /\ down \subseteq {"pause", "ptt", "handsfree"}
    /\ swallowed \subseteq Keys \ Modifiers
    /\ assist \in {"off", "word", "open"}
    /\ queue \in Seq(Event)
    /\ fired \subseteq Uses \cup {"stop"}

HistoryTyped ==
    /\ blame \subseteq Causes \X Keys
    /\ shifted \subseteq Keys /\ diverged \subseteq Divergences

OthersTyped ==
    /\ scenario \in Scenarios
    /\ held \subseteq Keys /\ latest \in held \cup {None}
    /\ paused \in BOOLEAN /\ suppressed \in BOOLEAN /\ injecting \in BOOLEAN
    /\ todo \in Seq(Event) /\ coming \in Seq(Event)
    /\ inputs \in 0 .. MaxInputs /\ faults \in 0 .. MaxFaults

LEMMA TypeParts == TypeOK <=> StateTyped /\ HistoryTyped /\ OthersTyped
  BY DEF TypeOK, StateTyped, HistoryTyped, OthersTyped, Uses

LEMMA TypeNext == ASSUME StateTyped', HistoryTyped', OthersTyped' PROVE TypeOK'
  BY DEF TypeOK, StateTyped, HistoryTyped, OthersTyped, Uses

LEMMA ChordsTyped ==
    ASSUME KeyHookAssumption, scenario \in Scenarios, NEW u \in Uses
    PROVE  /\ bound[u].key \in (Keys \ Modifiers) \cup {None}
           /\ bound[u].mods \subseteq Modifiers
           /\ scenario.plan \in Seq(Event) /\ scenario.keys \subseteq Keys
           /\ MaxInputs \in Nat
           /\ u \in {"pause", "hotkey"} /\ bound[u].key = None => bound[u].mods = {}
  BY DEF KeyHookAssumption, Scenario, Chord, bound, MaxInputs

LEMMA InputCounted ==
    ASSUME KeyHookAssumption, OthersTyped, Input, scenario' = scenario
    PROVE  inputs' \in 0 .. MaxInputs'
  <1>1. MaxInputs \in Nat /\ MaxInputs' = MaxInputs
    BY ChordsTyped DEF OthersTyped, Uses, MaxInputs
  <1>. QED BY <1>1 DEF Input, OthersTyped

LEMMA HandleTyped ==
    ASSUME KeyHookAssumption, scenario \in Scenarios, StateTyped, NEW e \in Event, Handle(e)
    PROVE  StateTyped'
  <1>. e.key \in Keys /\ e.press \in BOOLEAN
    BY DEF Event
  <1>1. shown' \subseteq Keys
    BY DEF Handle, Consume, Callback, StopTalk, ReleaseInjecting, PauseChord, PassPaused, VoiceChord,
           CompletionKey, PressHotkey, TypeKey, Release, ReleaseHotkey, Pass, Swallow, Apply,
           StateTyped
  <1>2. CASE Consume(e)
    <2>1. queue' \in Seq(Event)
      BY <1>2 DEF Consume, Expected, StateTyped
    <2>. QED BY <1>1, <1>2, <2>1 DEF Consume, stateVars, StateTyped
  <1>3. CASE Callback(e) /\ queue' = queue
    <2>1. mods' \subseteq Modifiers
      BY <1>3 DEF Callback, Track, Apply, StateTyped
    <2>2. down' \subseteq {"pause", "ptt", "handsfree"} /\ fired' \subseteq Uses \cup {"stop"}
      BY <1>3 DEF Callback, StopTalk, ReleaseInjecting, PauseChord, PassPaused, VoiceChord,
             CompletionKey, PressHotkey, TypeKey, Release, ReleaseHotkey, Lifted, Uses, StateTyped
    <2>3. swallowed' \subseteq swallowed \cup {e.key}
      BY <1>3 DEF Callback, StopTalk, ReleaseInjecting, PauseChord, PassPaused, VoiceChord,
             CompletionKey, PressHotkey, TypeKey, Release, ReleaseHotkey
    <2>4. PressHotkey(e) => e.key \in Keys \ Modifiers
      BY ChordsTyped DEF PressHotkey, Hotkeys, Presses, StateTyped, Uses
    <2>5. swallowed' \subseteq Keys \ Modifiers
      <3>1. swallowed' \subseteq swallowed \/ PressHotkey(e)
        BY <1>3 DEF Callback, StopTalk, ReleaseInjecting, PauseChord, PassPaused, VoiceChord,
               CompletionKey, PressHotkey, TypeKey, Release, ReleaseHotkey
      <3>. QED BY <2>3, <2>4, <3>1 DEF StateTyped
    <2>6. assist' \in {"off", "word", "open"}
      BY <1>3 DEF Callback, StopTalk, ReleaseInjecting, PauseChord, PassPaused, VoiceChord,
             CompletionKey, PressHotkey, TypeKey, Release, ReleaseHotkey, StateTyped
    <2>. QED BY <1>1, <1>3, <2>1, <2>2, <2>5, <2>6 DEF StateTyped
  <1>. QED BY <1>2, <1>3 DEF Handle

LEMMA EventTyped ==
    ASSUME KeyHookAssumption, TypeOK, NEW e \in Event, UserEvent(e), Input,
           held' \subseteq Keys, latest' \in held' \cup {None}, shifted' \subseteq Keys
    PROVE  TypeOK'
  <1>1. StateTyped'
    BY HandleTyped, TypeParts DEF UserEvent, OthersTyped
  <1>2. OthersTyped'
    <2>1. inputs' \in 0 .. MaxInputs'
      BY TypeParts, InputCounted DEF UserEvent
    <2>. QED BY <2>1, TypeParts DEF UserEvent, OthersTyped, modeVars, injectVars
  <1>3. blame' \subseteq Causes \X Keys
    <2>1. Blames(e) \subseteq Causes /\ e.key \in Keys
      BY DEF Blames, Causes, Event
    <2>2. Settled(e) \subseteq blame
      BY DEF Settled
    <2>. QED BY <2>1, <2>2, TypeParts DEF UserEvent, HistoryTyped
  <1>4. diverged' \subseteq Divergences
    BY TypeParts DEF UserEvent, HistoryTyped, Divergences
  <1>. QED BY <1>1, <1>2, <1>3, <1>4, TypeNext DEF HistoryTyped

LEMMA TypeStep == ASSUME KeyHookAssumption, TypeOK, [Next]_vars PROVE TypeOK'
  <1>. USE DEF InjectUnchanged, Shift, MaxInputs
  <1>0. StateTyped /\ HistoryTyped /\ OthersTyped
    BY TypeParts
  <1>1. ASSUME NEW k \in scenario.keys, PressKey(k) PROVE TypeOK'
    <2>1. k \in Keys
      BY <1>0, ChordsTyped DEF OthersTyped, Uses
    <2>. QED BY <1>0, <1>1, <2>1, EventTyped DEF PressKey, Event, OthersTyped, HistoryTyped
  <1>2. ASSUME NEW k \in scenario.keys, ReleaseKey(k) PROVE TypeOK'
    <2>1. k \in Keys
      BY <1>0, ChordsTyped DEF OthersTyped, Uses
    <2>. QED BY <1>0, <1>2, <2>1, EventTyped DEF ReleaseKey, Event, OthersTyped, HistoryTyped
  <1>3. ASSUME Click PROVE TypeOK'
    <2>1. StateTyped'
      BY <1>0, <1>3 DEF Click, stateVars, StateTyped
    <2>2. HistoryTyped'
      BY <1>0, <1>3 DEF Click, HistoryTyped, StateTyped, OthersTyped, Causes
    <2>3. OthersTyped'
      BY <1>0, <1>3, InputCounted DEF Click, OthersTyped, modeVars, injectVars
    <2>. QED BY <2>1, <2>2, <2>3, TypeNext
  <1>4. ASSUME Switch PROVE TypeOK'
    <2>1. StateTyped' /\ HistoryTyped'
      BY <1>0, <1>4 DEF Switch, StateTyped, HistoryTyped, OthersTyped, stateVars
    <2>2. paused' \in BOOLEAN /\ suppressed' \in BOOLEAN
      BY <1>0, <1>4, Zenon DEF Switch, OthersTyped
    <2>3. inputs' \in 0 .. MaxInputs'
      BY <1>0, <1>4, InputCounted DEF Switch
    <2>4. OthersTyped'
      BY <1>0, <1>4, <2>2, <2>3 DEF Switch, OthersTyped, injectVars
    <2>. QED BY <2>1, <2>4, TypeNext
  <1>5. ASSUME Begin PROVE TypeOK'
    <2>1. StateTyped' /\ HistoryTyped'
      BY <1>0, <1>5 DEF Begin, StateTyped, HistoryTyped, stateVars, historyVars
    <2>2. scenario.plan \in Seq(Event)
      BY <1>0, ChordsTyped, KeyHookAssumption DEF OthersTyped, Uses
    <2>3. OthersTyped'
      BY <1>0, <1>5, <2>2, InputCounted DEF Begin, OthersTyped, modeVars
    <2>. QED BY <2>1, <2>3, TypeNext
  <1>6. ASSUME End PROVE TypeOK'
    <2>1. StateTyped' /\ HistoryTyped'
      BY <1>0, <1>6 DEF End, StateTyped, HistoryTyped, stateVars, historyVars
    <2>2. OthersTyped'
      BY <1>0, <1>6 DEF End, OthersTyped, modeVars
    <2>. QED BY <2>1, <2>2, TypeNext
  <1>7. ASSUME Simulate PROVE TypeOK'
    <2>1. Head(todo) \in Event /\ Tail(todo) \in Seq(Event)
      BY <1>0, <1>7 DEF Simulate, OthersTyped
    <2>2. StateTyped'
      <3>1. shown' \subseteq Keys
        BY <1>0, <1>7, <2>1 DEF Simulate, Pass, Apply, StateTyped, Event
      <3>2. queue' \in Seq(Event)
        BY <1>0, <1>7, <2>1 DEF Simulate, StateTyped
      <3>. QED BY <1>0, <1>7, <3>1, <3>2 DEF Simulate, StateTyped, stateVars
    <2>3. HistoryTyped'
      BY <1>0, <1>7 DEF Simulate, HistoryTyped
    <2>4. coming' \in Seq(Event)
      <3>1. coming \in Seq(Event) /\ Append(coming, Head(todo)) \in Seq(Event)
        BY <1>0, <2>1 DEF OthersTyped
      <3>2. coming' = coming \/ coming' = Append(coming, Head(todo))
        BY <1>7, Zenon DEF Simulate
      <3>. QED BY <3>1, <3>2
    <2>5. OthersTyped'
      BY <1>0, <1>7, <2>1, <2>4 DEF Simulate, OthersTyped, modeVars
    <2>. QED BY <2>2, <2>3, <2>5, TypeNext
  <1>8. ASSUME SimulateFails PROVE TypeOK'
    <2>1. Head(todo) \in Event /\ Tail(todo) \in Seq(Event)
      BY <1>0, <1>8 DEF SimulateFails, OthersTyped
    <2>2. queue' \in Seq(Event)
      <3>1. Append(queue, Head(todo)) \in Seq(Event) /\ Append(queue, Head(todo)) # <<>>
        BY <1>0, <2>1 DEF StateTyped
      <3>. QED BY <1>8, <3>1 DEF SimulateFails, TakeBack
    <2>3. StateTyped'
      BY <1>0, <1>8, <2>2 DEF SimulateFails, StateTyped, stateVars
    <2>4. HistoryTyped'
      BY <1>0, <1>8, <2>1 DEF SimulateFails, HistoryTyped, Causes, Divergences, Event
    <2>5. OthersTyped'
      BY <1>0, <1>8, <2>1 DEF SimulateFails, OthersTyped, modeVars, KeyHookAssumption
    <2>. QED BY <2>3, <2>4, <2>5, TypeNext
  <1>9. ASSUME Echo PROVE TypeOK'
    <2>1. Head(coming) \in Event /\ Tail(coming) \in Seq(Event)
      BY <1>0, <1>9 DEF Echo, OthersTyped
    <2>2. StateTyped'
      BY <1>0, <1>9, <2>1, HandleTyped DEF Echo, OthersTyped
    <2>3. HistoryTyped'
      BY <1>0, <1>9, <2>1 DEF Echo, HistoryTyped, OthersTyped, Causes, Event
    <2>4. OthersTyped'
      BY <1>0, <1>9, <2>1 DEF Echo, OthersTyped, userVars, modeVars, injectVars
    <2>. QED BY <2>2, <2>3, <2>4, TypeNext
  <1>10. ASSUME Expire PROVE TypeOK'
    <2>1. queue' \in Seq(Event)
      BY <1>0, <1>10 DEF Expire, StateTyped
    <2>2. StateTyped' /\ HistoryTyped'
      BY <1>0, <1>10, <2>1 DEF Expire, StateTyped, HistoryTyped, stateVars, Divergences
    <2>3. OthersTyped'
      BY <1>0, <1>10 DEF Expire, OthersTyped, modeVars, injectVars
    <2>. QED BY <2>2, <2>3, TypeNext
  <1>11. ASSUME Skip PROVE TypeOK'
    <2>1. todo' \in Seq(Event)
      BY <1>0, <1>11 DEF Skip, OthersTyped
    <2>2. StateTyped' /\ HistoryTyped'
      BY <1>0, <1>11 DEF Skip, StateTyped, HistoryTyped, stateVars, historyVars
    <2>3. OthersTyped'
      BY <1>0, <1>11, <2>1 DEF Skip, OthersTyped, modeVars
    <2>. QED BY <2>2, <2>3, TypeNext
  <1>12. ASSUME UNCHANGED vars PROVE TypeOK'
    BY <1>12 DEF TypeOK, vars, userVars, stateVars, modeVars, injectVars, historyVars
  <1>. QED
    BY <1>1, <1>2, <1>3, <1>4, <1>5, <1>6, <1>7, <1>8, <1>9, <1>10, <1>11, <1>12 DEF Next

(* The state stays in its types. *)
THEOREM KeyHookTyped == Spec => []TypeOK
  <1>1. Init => TypeOK
    <2>. SUFFICES ASSUME Init PROVE TypeOK
      OBVIOUS
    <2>1. StateTyped /\ HistoryTyped
      BY DEF Init, StateTyped, HistoryTyped
    <2>2. inputs \in 0 .. MaxInputs /\ faults \in 0 .. MaxFaults
      BY KeyHookAssumption, ChordsTyped DEF Init, KeyHookAssumption, Uses
    <2>3. todo \in Seq(Event) /\ coming \in Seq(Event)
      BY DEF Init
    <2>4. OthersTyped
      BY <2>2, <2>3 DEF Init, OthersTyped
    <2>. QED BY <2>1, <2>4, TypeParts
  <1>2. TypeOK /\ [Next]_vars => TypeOK'
    BY TypeStep, KeyHookAssumption
  <1>. QED BY <1>1, <1>2, PTL DEF Spec

-----------------------------------------------------------------------------

(* A release resets flags and sets none. *)
LEMMA ReleaseLifts ==
    ASSUME NEW e \in Event, ~e.press, Callback(e)
    PROVE  down' = down \ Lifted(e)
  BY DEF Callback, StopTalk, ReleaseInjecting, PauseChord, PassPaused, VoiceChord, Voices,
         CompletionKey, PressHotkey, TypeKey, Typed, Release, Presses, Event

(* A press adds at most one flag, of a chord that it completes. *)
LEMMA PressSets ==
    ASSUME NEW e \in Event, e.press, Callback(e)
    PROVE  \A u \in down' : u \in down \/ (u \in {"pause", "ptt", "handsfree"}
                                           /\ Presses(u, e, Track(e)))
  <1>. DEFINE Goal == \A u \in down' : u \in down \/ (u \in {"pause", "ptt", "handsfree"}
                                                     /\ Presses(u, e, Track(e)))
  <1>1. ASSUME StopTalk(e) PROVE Goal
    BY <1>1 DEF StopTalk
  <1>2. ASSUME ReleaseInjecting(e) PROVE Goal
    BY <1>2 DEF ReleaseInjecting
  <1>3. ASSUME PauseChord(e) PROVE Goal
    BY <1>3 DEF PauseChord
  <1>4. ASSUME PassPaused(e) PROVE Goal
    BY <1>4 DEF PassPaused
  <1>5. ASSUME NEW u \in {"ptt", "handsfree"}, VoiceChord(u, e) PROVE Goal
    BY <1>5 DEF VoiceChord, Voices
  <1>6. ASSUME CompletionKey(e) PROVE Goal
    BY <1>6 DEF CompletionKey
  <1>7. ASSUME PressHotkey(e) PROVE Goal
    BY <1>7 DEF PressHotkey
  <1>8. ASSUME TypeKey(e) PROVE Goal
    BY <1>8 DEF TypeKey
  <1>9. ASSUME Release(e) PROVE Goal
    BY <1>9 DEF Release
  <1>. QED
    BY <1>1, <1>2, <1>3, <1>4, <1>5, <1>6, <1>7, <1>8, <1>9 DEF Callback

LEMMA CallbackTracks == ASSUME NEW e, Callback(e) PROVE mods' = Track(e)
  BY DEF Callback

(* What a step may do to a state in which every flag and every modifier is *)
(* accounted for: the blame only grows, and so do the held keys.           *)
LEMMA Growing ==
    ASSUME IInv, scenario' = scenario, held \subseteq held', blame \subseteq blame',
           mods' \subseteq mods, down' = down
    PROVE  IInv'
  <1>1. ModsHonest'
    BY DEF IInv, ModsHonest, Blamed
  <1>3. ASSUME NEW u \in down'
        PROVE  Belongs(u)' \subseteq held' \/ Blamed({"mistaken", "stray", "skipped"}, Belongs(u))'
    <2>1. u \in down /\ Belongs(u)' = Belongs(u)
      BY DEF Belongs, bound
    <2>2. Belongs(u) \subseteq held \/ Blamed({"mistaken", "stray", "skipped"}, Belongs(u))
      BY <2>1 DEF IInv, FlagsHonest
    <2>. QED BY <2>1, <2>2 DEF Blamed
  <1>. QED BY <1>1, <1>3 DEF IInv, FlagsHonest

(* The user presses k. *)
LEMMA PressKeeps ==
    ASSUME KeyHookAssumption, TypeOK, IInv, NEW k \in Keys, PressKey(k)
    PROVE  IInv'
  <1>. DEFINE e == [key |-> k, press |-> TRUE]
  <1>1. /\ e \in Event /\ e.press /\ e.key = k
        /\ scenario' = scenario /\ held' = held \cup {k}
        /\ blame \subseteq blame'
    BY DEF PressKey, UserEvent, Settled, Settles, Event
  <1>2. CASE Consume(e)
    <2>1. mods' = mods /\ down' = down
      BY <1>2 DEF Consume, stateVars
    <2>. QED BY <1>1, <2>1, Growing
  <1>3. CASE Callback(e)
    <2>1. mods' \subseteq mods \cup {k}
      BY <1>1, <1>3, CallbackTracks DEF Track, Apply
    <2>2. ModsHonest'
      BY <1>1, <2>1 DEF IInv, ModsHonest, Blamed
    <2>3. ASSUME NEW u \in down'
          PROVE  /\ u \in {"pause", "ptt", "handsfree"}
                 /\ \/ Belongs(u)' \subseteq held'
                    \/ Blamed({"mistaken", "stray", "skipped"}, Belongs(u))'
      <3>1. CASE u \in down
        <4>1. u \in {"pause", "ptt", "handsfree"} /\ Belongs(u)' = Belongs(u)
          BY <1>1, <3>1 DEF TypeOK, Uses, Belongs, bound
        <4>2. Belongs(u) \subseteq held \/ Blamed({"mistaken", "stray", "skipped"}, Belongs(u))
          BY <3>1 DEF IInv, FlagsHonest
        <4>. QED BY <1>1, <4>1, <4>2 DEF Blamed
      <3>2. CASE u \in {"pause", "ptt", "handsfree"} /\ Presses(u, e, Track(e))
        <4>1. Belongs(u)' = Belongs(u) /\ Belongs(u) \subseteq mods' \cup {k}
          <5>1. /\ Track(e) = mods'
                /\ u = "pause" /\ bound[u].key = None => bound[u].mods = {}
            BY <1>3, <3>2, CallbackTracks, ChordsTyped DEF TypeOK, Uses
          <5>. QED BY <1>1, <3>2, <5>1 DEF Presses, Belongs, bound
        <4>2. CASE \E m \in Belongs(u) : m \notin held'
          <5>1. PICK m \in Belongs(u) : m \notin held'
            BY <4>2
          <5>2. PICK b \in blame' : b[1] \in {"mistaken", "stray"} /\ b[2] \in {m}
            BY <1>1, <2>2, <4>1, <5>1 DEF ModsHonest, Blamed
          <5>3. b[1] \in {"mistaken", "stray", "skipped"} /\ b[2] \in Belongs(u)'
            BY <4>1, <5>1, <5>2
          <5>. QED BY <3>2, <5>3 DEF Blamed
        <4>. QED BY <3>2, <4>1, <4>2
      <3>. QED BY <1>1, <1>3, <3>1, <3>2, PressSets
    <2>. QED BY <2>2, <2>3 DEF IInv, FlagsHonest
  <1>. QED BY <1>2, <1>3 DEF PressKey, UserEvent, Handle

(* The user lets go of k. *)
LEMMA ReleaseKeeps ==
    ASSUME KeyHookAssumption, TypeOK, IInv, NEW k \in Keys, ReleaseKey(k)
    PROVE  IInv'
  <1>. DEFINE e == [key |-> k, press |-> FALSE]
  <1>1. /\ e \in Event /\ ~e.press /\ e.key = k
        /\ scenario' = scenario /\ held' = held \ {k}
        /\ blame' = Settled(e) \cup (Blames(e) \X {k})
    BY DEF ReleaseKey, UserEvent, Event
  <1>2. \A b \in blame : b[2] # k => b \in blame'
    BY <1>1 DEF Settled
  <1>3. CASE Consume(e)
    <2>1. mods' = mods /\ down' = down
      BY <1>3 DEF Consume, stateVars
    <2>2. "mistaken" \in Blames(e) /\ <<"mistaken", k>> \in blame'
      BY <1>1, <1>3 DEF Consume, Blames, Causes
    <2>3. \A b \in blame : b \in blame'
      BY <1>1, <1>3 DEF Settled, Settles, Consume
    <2>4. ModsHonest'
      <3>. SUFFICES ASSUME NEW m \in mods PROVE m \in held' \/ Blamed({"mistaken", "stray"}, {m})'
        BY <2>1 DEF ModsHonest
      <3>1. CASE m = k
        BY <2>2, <3>1 DEF Blamed
      <3>2. CASE m # k
        BY <1>1, <2>3, <3>2 DEF IInv, ModsHonest, Blamed
      <3>. QED BY <3>1, <3>2
    <2>5. ASSUME NEW u \in down
          PROVE  Belongs(u)' \subseteq held' \/ Blamed({"mistaken", "stray", "skipped"}, Belongs(u))'
      <3>1. Belongs(u)' = Belongs(u)
        BY <1>1 DEF Belongs, bound
      <3>2. Belongs(u) \subseteq held \/ Blamed({"mistaken", "stray", "skipped"}, Belongs(u))
        BY DEF IInv, FlagsHonest
      <3>3. CASE k \in Belongs(u)
        BY <2>2, <3>1, <3>3 DEF Blamed
      <3>4. CASE k \notin Belongs(u)
        BY <1>1, <2>3, <3>1, <3>2, <3>4 DEF Blamed
      <3>. QED BY <3>3, <3>4
    <2>. QED BY <2>1, <2>4, <2>5 DEF IInv, FlagsHonest
  <1>4. CASE Callback(e) /\ ~Expected(e)
    <2>1. ModsHonest'
      <3>1. mods' \subseteq mods /\ (k \in mods' => k \notin Modifiers)
        BY <1>1, <1>4, CallbackTracks DEF Track, Apply
      <3>. SUFFICES ASSUME NEW m \in mods' PROVE m \in held' \/ Blamed({"mistaken", "stray"}, {m})'
        BY DEF ModsHonest
      <3>2. m # k
        BY <3>1 DEF TypeOK
      <3>. QED BY <1>1, <1>2, <3>1, <3>2 DEF IInv, ModsHonest, Blamed
    <2>2. ASSUME NEW u \in down'
          PROVE  /\ u \in {"pause", "ptt", "handsfree"}
                 /\ \/ Belongs(u)' \subseteq held'
                    \/ Blamed({"mistaken", "stray", "skipped"}, Belongs(u))'
      <3>1. u \in down /\ u \notin Lifted(e) /\ Belongs(u)' = Belongs(u)
        BY <1>1, <1>4, ReleaseLifts DEF Belongs, bound
      <3>2. u \in {"pause", "ptt", "handsfree"}
        BY <3>1 DEF TypeOK, Uses
      <3>3. CASE k \in Belongs(u)
        <4>1. u = "handsfree" /\ EndsTalk(e) /\ Releases("handsfree", e)
          BY <1>1, <3>1, <3>2, <3>3 DEF Lifted, Releases, Belongs
        <4>2. "skipped" \in Blames(e) /\ <<"skipped", k>> \in blame'
          BY <1>1, <1>4, <3>1, <4>1 DEF Blames
        <4>. QED
          BY <3>1, <3>2, <3>3, <4>2 DEF Blamed
      <3>4. CASE k \notin Belongs(u)
        BY ZenonT(60), <1>1, <1>2, <3>1, <3>2, <3>4 DEF IInv, FlagsHonest, Blamed
      <3>. QED BY <3>3, <3>4
    <2>. QED BY <2>1, <2>2 DEF IInv, FlagsHonest
  <1>. QED BY <1>3, <1>4 DEF ReleaseKey, UserEvent, Handle

(* A simulated event reaches the callback. *)
LEMMA EchoKeeps ==
    ASSUME KeyHookAssumption, TypeOK, IInv, Echo
    PROVE  IInv'
  <1>. DEFINE e == Head(coming)
              k == e.key
  <1>0. e \in Event
    BY DEF Echo, TypeOK
  <1>1. scenario' = scenario /\ held' = held /\ blame \subseteq blame'
    BY DEF Echo, userVars
  <1>2. CASE Consume(e)
    <2>1. mods' = mods /\ down' = down
      BY <1>2 DEF Consume, stateVars
    <2>. QED BY <1>1, <2>1, Growing
  <1>3. CASE Callback(e) /\ ~Expected(e)
    <2>1. <<"stray", k>> \in blame'
      BY <1>3 DEF Echo
    <2>2. \A m \in mods' : m \in mods \/ m = k
      BY <1>3, CallbackTracks DEF Track, Apply
    <2>3. ModsHonest'
      BY <1>1, <2>1, <2>2 DEF IInv, ModsHonest, Blamed
    <2>4. ASSUME NEW u \in down'
          PROVE  /\ u \in {"pause", "ptt", "handsfree"}
                 /\ \/ Belongs(u)' \subseteq held'
                    \/ Blamed({"mistaken", "stray", "skipped"}, Belongs(u))'
      <3>1. CASE u \in down
        <4>1. u \in {"pause", "ptt", "handsfree"} /\ Belongs(u)' = Belongs(u)
          BY <1>1, <3>1 DEF TypeOK, Uses, Belongs, bound
        <4>2. Belongs(u) \subseteq held \/ Blamed({"mistaken", "stray", "skipped"}, Belongs(u))
          BY <3>1 DEF IInv, FlagsHonest
        <4>. QED BY <1>1, <4>1, <4>2 DEF Blamed
      <3>2. CASE u \in {"pause", "ptt", "handsfree"} /\ Presses(u, e, Track(e))
        <4>1. Belongs(u)' = Belongs(u) /\ k \in Belongs(u)
          <5>1. u = "pause" /\ bound[u].key = None => bound[u].mods = {}
            BY <3>2, ChordsTyped DEF TypeOK, Uses
          <5>2. k \in Keys /\ None \notin Keys
            BY <1>0 DEF Event, KeyHookAssumption
          <5>. QED BY <1>1, <3>2, <5>1, <5>2 DEF Presses, Belongs, bound
        <4>. QED BY <2>1, <3>2, <4>1 DEF Blamed
      <3>3. u \in down \/ (u \in {"pause", "ptt", "handsfree"} /\ Presses(u, e, Track(e)))
        BY <1>0, <1>3, PressSets, ReleaseLifts DEF Event
      <3>. QED BY <3>1, <3>2, <3>3
    <2>. QED BY <2>3, <2>4 DEF IInv, FlagsHonest
  <1>. QED BY <1>2, <1>3 DEF Echo, Handle

LEMMA Accounted == Spec => []IInv
  <1>1. Init => IInv
    BY DEF Init, IInv, ModsHonest, FlagsHonest
  <1>2. ASSUME TypeOK, TypeOK', IInv, [Next]_vars PROVE IInv'
    <2>1. ASSUME NEW k \in scenario.keys, PressKey(k) \/ ReleaseKey(k) PROVE IInv'
      <3>1. k \in Keys
        BY <1>2, KeyHookAssumption, ChordsTyped DEF TypeOK, Uses
      <3>. QED BY <1>2, <2>1, <3>1, PressKeeps, ReleaseKeeps, KeyHookAssumption
    <2>2. ASSUME Click PROVE IInv'
      <3>1. mods' \subseteq mods /\ down' = down /\ held' = held /\ scenario' = scenario
        BY <2>2 DEF Click, stateVars
      <3>2. blame \subseteq blame'
        BY <2>2 DEF Click
      <3>. QED BY <1>2, <3>1, <3>2, Growing
    <2>3. ASSUME Switch \/ Begin \/ End \/ Skip \/ Simulate \/ SimulateFails \/ Expire PROVE IInv'
      <3>1. mods' = mods /\ down' = down /\ held' = held /\ scenario' = scenario
        BY <2>3 DEF Switch, Begin, End, Skip, Simulate, SimulateFails, Expire, InjectUnchanged, stateVars
      <3>2. blame \subseteq blame'
        BY <2>3 DEF Switch, Begin, End, Skip, Simulate, SimulateFails, Expire, historyVars
      <3>. QED BY <1>2, <3>1, <3>2, Growing
    <2>4. ASSUME Echo PROVE IInv'
      BY <1>2, <2>4, EchoKeeps, KeyHookAssumption
    <2>5. ASSUME UNCHANGED vars PROVE IInv'
      <3>1. mods' = mods /\ down' = down /\ held' = held /\ scenario' = scenario /\ blame' = blame
        BY <2>5 DEF vars, userVars, stateVars, historyVars
      <3>. QED BY <1>2, <3>1, Growing
    <2>. QED BY <1>2, <2>1, <2>2, <2>3, <2>4, <2>5 DEF Next
  <1>. QED BY <1>1, <1>2, KeyHookTyped, PTL DEF Spec

(* Every flag that is set belongs to a chord still held, for every         *)
(* settings and every sequence of inputs, echoes and faults: the listener's *)
(* "a physical release landing mid-injection must still clear its flag".   *)
THEOREM FlagsStayHonest == Spec => []FlagsHonest
  <1>1. IInv => FlagsHonest
    BY DEF IInv
  <1>. QED BY <1>1, Accounted, PTL

-----------------------------------------------------------------------------

(* On Windows nothing comes back; on macOS the queue is what is coming,    *)
(* for as long as nothing went wrong.                                      *)
InStep ==
    /\ scenario.platform = "windows" => coming = <<>>
    /\ scenario.platform # "windows" /\ diverged = {} => queue = coming

(* An event of the user's may be taken for a simulated one, and is blamed. *)
LEMMA UserStaysInStep ==
    ASSUME InStep, NEW e, UserEvent(e)
    PROVE  InStep'
  BY DEF InStep, UserEvent, Handle, Consume, Expected

LEMMA InjectionStaysInStep ==
    ASSUME TypeOK, InStep, Simulate \/ SimulateFails
    PROVE  InStep'
  <1>1. CASE Simulate
    BY <1>1 DEF Simulate, InjectUnchanged, InStep
  <1>2. CASE SimulateFails
    <2>1. Head(todo) \in Event /\ queue \in Seq(Event)
      BY <1>2 DEF SimulateFails, TypeOK
    <2>2. scenario' = scenario /\ coming' = coming
      BY <1>2 DEF SimulateFails, InjectUnchanged
    <2>3. CASE queue = <<>>
      <3>1. Append(queue, Head(todo)) = <<Head(todo)>>
        BY <2>3
      <3>2. queue' = <<>>
        BY <1>2, <3>1 DEF SimulateFails, TakeBack
      <3>. QED BY <1>2, <2>2, <2>3, <3>2 DEF SimulateFails, InStep
    <2>4. CASE queue # <<>>
      BY <1>2, <2>2, <2>4 DEF SimulateFails, InStep
    <2>. QED BY <2>3, <2>4
  <1>. QED BY <1>1, <1>2

LEMMA EchoStaysInStep ==
    ASSUME TypeOK, InStep, Echo \/ Expire
    PROVE  InStep'
  <1>1. CASE Echo
    <2>1. scenario' = scenario /\ coming # <<>> /\ coming' = Tail(coming)
      BY <1>1 DEF Echo, userVars
    <2>2. CASE diverged = {}
      <3>1. Expected(Head(coming)) /\ queue = coming
        BY <2>1, <2>2 DEF InStep, Expected
      <3>2. queue' = coming'
        BY <1>1, <2>1, <3>1 DEF Echo, Handle, Consume
      <3>. QED BY <2>1, <3>2 DEF InStep
    <2>3. CASE diverged # {}
      BY <1>1, <2>1, <2>3 DEF Echo, InStep
    <2>. QED BY <2>2, <2>3
  <1>2. CASE Expire
    <2>1. scenario' = scenario /\ coming' = coming
      BY <1>2 DEF Expire, InjectUnchanged, injectVars
    <2>2. CASE coming = <<>>
      <3>1. diverged = {} => queue = <<>> \/ scenario.platform = "windows"
        BY <2>2 DEF InStep
      <3>2. queue # <<>>
        BY <1>2 DEF Expire, TypeOK
      <3>. QED BY <1>2, <2>1, <2>2, <3>1, <3>2 DEF Expire, InStep
    <2>3. CASE coming # <<>>
      BY <1>2, <2>1, <2>3 DEF Expire, InStep
    <2>. QED BY <2>2, <2>3
  <1>. QED BY <1>1, <1>2

(* A simulated event is taken for what it is unless the queue and the      *)
(* events were put out of step before: by one the system refused, by one   *)
(* that came late, or by a key of the user's that looked like it.          *)
THEOREM EchoesRecognised == Spec => EchoesIgnored
  <1>1. Init => InStep
    BY DEF Init, InStep
  <1>2. ASSUME TypeOK, InStep, [Next]_vars PROVE InStep'
    <2>1. ASSUME NEW k \in scenario.keys, PressKey(k) \/ ReleaseKey(k) PROVE InStep'
      BY <1>2, <2>1, UserStaysInStep DEF PressKey, ReleaseKey
    <2>2. ASSUME Click \/ Switch \/ Begin \/ End \/ Skip PROVE InStep'
      BY <1>2, <2>2 DEF Click, Switch, Begin, End, Skip, InjectUnchanged, injectVars, historyVars,
         InStep
    <2>3. ASSUME UNCHANGED vars PROVE InStep'
      BY <1>2, <2>3 DEF vars, historyVars, InStep
    <2>. QED
      BY <1>2, <2>1, <2>2, <2>3, InjectionStaysInStep, EchoStaysInStep DEF Next
  <1>3. InStep => (coming # <<>> => Expected(Head(coming)) \/ diverged # {})
    BY DEF InStep, Expected
  <1>. QED BY <1>1, <1>2, <1>3, KeyHookTyped, PTL DEF Spec, EchoesIgnored

-----------------------------------------------------------------------------

(* What excuses a key in NoKeyStuck, and the keys that nothing excuses *)
Bad == Causes \ {"cleared"}
Clean(k) == k \notin shifted /\ ~Blamed(Bad, {k})

Press(k) == [key |-> k, press |-> TRUE]
Up(k) == [key |-> k, press |-> FALSE]

Ups(events, k) == \E i \in DOMAIN events : events[i] = Up(k)

(* A simulated release of k is still to come. *)
Pending(k) == Ups(coming, k) \/ Ups(todo, k)

(* The injection releases what it pressed. *)
Released(i) ==
    \/ \E j \in DOMAIN coming : j > i /\ coming[j] = Up(coming[i].key)
    \/ Ups(todo, coming[i].key)
    \/ <<"refused", coming[i].key>> \in blame

Delivers ==
    /\ ~injecting => todo = <<>>
    /\ Releasing(todo)
    /\ scenario.platform = "windows" => coming = <<>>
    /\ \A i \in DOMAIN coming : coming[i].press => Released(i)

(* The window takes k for down only while it is, or until its release comes. *)
ShownHeld(k) == k \notin held /\ k \in shown /\ Clean(k) => Pending(k)

(* The callback owes k's release to nobody, or has it to end a talk with,  *)
(* only while k is down.                                                   *)
Doubts == {"mistaken", "stray", "paused", "skipped"}
SwallowedHeld(k) == k \in swallowed => k \in held \/ Blamed(Doubts, {k})
TalkHeld(k) == "ptt" \in down /\ k = bound["ptt"].key => k \in held \/ Blamed(Bad, {k})

(* The hotkeys or the talk took the press of k: they will take its repeats. *)
Taken(k) ==
    k \in held /\ Clean(k) =>
        /\ k \in swallowed => ~paused /\ ~suppressed
        /\ "ptt" \in down /\ k = bound["ptt"].key =>
               ~paused /\ ~suppressed /\ mods = bound["ptt"].mods

(* The window got the press of k: it will get its repeats and its release. *)
Given(k) ==
    k \in held /\ Clean(k) /\ k \notin Modifiers /\ k \in shown /\ ~Pending(k) =>
        /\ k \notin swallowed
        /\ ~("ptt" \in down /\ k = bound["ptt"].key)
        /\ ~paused /\ ~suppressed => ~Presses("ptt", Press(k), mods)
        /\ k = Tab /\ assist = "open" => paused

KeyInv(k) == ShownHeld(k) /\ SwallowedHeld(k) /\ TalkHeld(k) /\ Taken(k) /\ Given(k)
StuckInv == Delivers /\ \A k \in Keys : KeyInv(k)

LEMMA EventsTyped ==
    ASSUME NEW k
    PROVE  /\ Up(k).key = k /\ Up(k).press = FALSE
           /\ Press(k).key = k /\ Press(k).press = TRUE
           /\ \A e \in Event : e.key = k => e = IF e.press THEN Press(k) ELSE Up(k)
  BY DEF Up, Press, Event

LEMMA UpsTail ==
    ASSUME NEW s \in Seq(Event), s # <<>>, NEW k
    PROVE  Ups(s, k) <=> Head(s) = Up(k) \/ Ups(Tail(s), k)
  <1>1. /\ Len(s) \in Nat /\ Len(s) > 0 /\ DOMAIN s = 1 .. Len(s)
        /\ DOMAIN Tail(s) = 1 .. (Len(s) - 1)
        /\ \A i \in 1 .. (Len(s) - 1) : Tail(s)[i] = s[i + 1]
        /\ Head(s) = s[1]
    OBVIOUS
  <1>2. ASSUME NEW i \in DOMAIN s, s[i] = Up(k) PROVE Head(s) = Up(k) \/ Ups(Tail(s), k)
    <2>1. CASE i = 1
      BY <1>1, <1>2, <2>1
    <2>2. CASE i # 1
      <3>1. i - 1 \in DOMAIN Tail(s) /\ Tail(s)[i - 1] = Up(k)
        BY <1>1, <1>2, <2>2
      <3>. QED BY <3>1 DEF Ups
    <2>. QED BY <2>1, <2>2
  <1>3. ASSUME NEW i \in DOMAIN Tail(s), Tail(s)[i] = Up(k) PROVE Ups(s, k)
    <2>1. i + 1 \in DOMAIN s /\ s[i + 1] = Up(k)
      BY <1>1, <1>3
    <2>. QED BY <2>1 DEF Ups
  <1>4. ASSUME Head(s) = Up(k) PROVE Ups(s, k)
    <2>1. 1 \in DOMAIN s
      BY <1>1
    <2>. QED BY <1>1, <1>4, <2>1 DEF Ups
  <1>. QED BY <1>2, <1>3, <1>4 DEF Ups

LEMMA UpsAppend ==
    ASSUME NEW s \in Seq(Event), NEW e \in Event, NEW k
    PROVE  Ups(Append(s, e), k) <=> Ups(s, k) \/ e = Up(k)
  <1>1. /\ Len(s) \in Nat /\ DOMAIN s = 1 .. Len(s)
        /\ DOMAIN Append(s, e) = 1 .. (Len(s) + 1)
        /\ \A i \in 1 .. Len(s) : Append(s, e)[i] = s[i]
        /\ Append(s, e)[Len(s) + 1] = e
    OBVIOUS
  <1>2. ASSUME NEW i \in DOMAIN Append(s, e), Append(s, e)[i] = Up(k)
        PROVE  Ups(s, k) \/ e = Up(k)
    <2>1. i \in DOMAIN s \/ i = Len(s) + 1
      BY <1>1
    <2>. QED BY <1>1, <1>2, <2>1 DEF Ups
  <1>3. ASSUME NEW i \in DOMAIN s, s[i] = Up(k) PROVE Ups(Append(s, e), k)
    <2>1. i \in DOMAIN Append(s, e) /\ Append(s, e)[i] = Up(k)
      BY <1>1, <1>3
    <2>. QED BY <2>1 DEF Ups
  <1>4. ASSUME e = Up(k) PROVE Ups(Append(s, e), k)
    <2>1. Len(s) + 1 \in DOMAIN Append(s, e)
      BY <1>1
    <2>. QED BY <1>1, <1>4, <2>1 DEF Ups
  <1>. QED BY <1>2, <1>3, <1>4 DEF Ups

LEMMA ReleasingTail ==
    ASSUME NEW s \in Seq(Event), s # <<>>, Releasing(s)
    PROVE  /\ Releasing(Tail(s))
           /\ Head(s).press => Ups(Tail(s), Head(s).key)
  <1>1. /\ Len(s) \in Nat /\ Len(s) > 0 /\ DOMAIN s = 1 .. Len(s)
        /\ DOMAIN Tail(s) = 1 .. (Len(s) - 1)
        /\ \A i \in 1 .. (Len(s) - 1) : Tail(s)[i] = s[i + 1]
        /\ Head(s) = s[1]
    OBVIOUS
  <1>2. ASSUME NEW i \in DOMAIN Tail(s), Tail(s)[i].press
        PROVE  \E j \in DOMAIN Tail(s) :
                   j > i /\ Tail(s)[j] = [key |-> Tail(s)[i].key, press |-> FALSE]
    <2>1. i + 1 \in DOMAIN s /\ s[i + 1] = Tail(s)[i]
      BY <1>1
    <2>2. PICK j \in DOMAIN s : j > i + 1 /\ s[j] = [key |-> s[i + 1].key, press |-> FALSE]
      BY <1>2, <2>1 DEF Releasing
    <2>3. j \in Nat /\ i \in Nat /\ j - 1 \in 1 .. (Len(s) - 1) /\ j - 1 > i /\ (j - 1) + 1 = j
      BY <1>1, <2>2
    <2>4. j - 1 \in DOMAIN Tail(s) /\ Tail(s)[j - 1] = s[j]
      BY <1>1, <2>3
    <2>. QED BY <2>1, <2>2, <2>3, <2>4
  <1>3. ASSUME Head(s).press PROVE Ups(Tail(s), Head(s).key)
    <2>1. PICK j \in DOMAIN s : j > 1 /\ s[j] = [key |-> s[1].key, press |-> FALSE]
      BY <1>1, <1>3 DEF Releasing
    <2>2. j \in Nat /\ j - 1 \in 1 .. (Len(s) - 1) /\ (j - 1) + 1 = j
      BY <1>1, <2>1
    <2>3. j - 1 \in DOMAIN Tail(s) /\ Tail(s)[j - 1] = s[j]
      BY <1>1, <2>2
    <2>. QED BY <1>1, <2>1, <2>3 DEF Ups, Up
  <1>. QED BY <1>2, <1>3 DEF Releasing

(* An event of the user's of another key, or one that settles nothing,     *)
(* leaves the blame on k; and no event does while simulated ones are       *)
(* coming.                                                                 *)
LEMMA BlameStays ==
    ASSUME NEW e \in Event, NEW k, NEW causes, UserEvent(e),
           e.key # k \/ ~Settles(e) \/ k \in shown' \/ coming # <<>>,
           Blamed(causes, {k})
    PROVE  Blamed(causes, {k})'
  <1>1. PICK b \in blame : b[1] \in causes /\ b[2] = k
    BY DEF Blamed
  <1>2. b \in blame'
    BY <1>1 DEF UserEvent, Settled
  <1>. QED BY <1>1, <1>2 DEF Blamed

LEMMA BlameGrows ==
    ASSUME NEW k, NEW causes, blame \subseteq blame', Blamed(causes, {k})
    PROVE  Blamed(causes, {k})'
  BY DEF Blamed

LEMMA DoubtsBad == ASSUME NEW k, Blamed(Doubts, {k}) PROVE Blamed(Bad, {k})
  BY DEF Blamed, Doubts, Bad, Causes

(* What the simulated events leave to be released stays to be released     *)
(* while neither they nor the injection move.                              *)
LEMMA DeliversUser ==
    ASSUME Delivers, NEW e \in Event, UserEvent(e)
    PROVE  Delivers'
  <1>1. UNCHANGED <<scenario, injecting, todo, coming>>
    BY DEF UserEvent, injectVars
  <1>2. coming # <<>> => blame \subseteq blame'
    BY DEF UserEvent, Settled
  <1>3. CASE coming = <<>>
    BY <1>1, <1>3 DEF Delivers
  <1>4. CASE coming # <<>>
    <2>. SUFFICES ASSUME NEW i \in DOMAIN coming', coming'[i].press PROVE Released(i)'
      BY <1>1 DEF Delivers
    <2>. QED BY <1>1, <1>2, <1>4 DEF Delivers, Released
  <1>. QED BY <1>3, <1>4

LEMMA DeliversStill ==
    ASSUME Delivers, UNCHANGED <<scenario, injecting, todo, coming>>, blame \subseteq blame'
    PROVE  Delivers'
  <1>. SUFFICES ASSUME NEW i \in DOMAIN coming', coming'[i].press PROVE Released(i)'
    BY DEF Delivers
  <1>. QED BY DEF Delivers, Released

LEMMA DeliversBegin ==
    ASSUME KeyHookAssumption, TypeOK, Delivers, Begin \/ End
    PROVE  Delivers'
  <1>1. UNCHANGED <<scenario, coming, blame>>
    BY DEF Begin, End, InjectUnchanged, historyVars
  <1>2. Releasing(todo') /\ (~injecting' => todo' = <<>>)
    BY DEF Begin, End, Delivers, KeyHookAssumption, TypeOK
  <1>3. ASSUME NEW k, Ups(todo, k) PROVE Ups(todo', k)
    BY <1>3 DEF Begin, End, Delivers, Ups
  <1>. SUFFICES ASSUME NEW i \in DOMAIN coming', coming'[i].press PROVE Released(i)'
    BY <1>1, <1>2 DEF Delivers
  <1>. QED BY <1>1, <1>3 DEF Delivers, Released

LEMMA DeliversSimulate ==
    ASSUME KeyHookAssumption, TypeOK, Delivers, Simulate \/ SimulateFails \/ Skip
    PROVE  Delivers'
  <1>1. /\ todo \in Seq(Event) /\ todo # <<>> /\ todo' = Tail(todo)
        /\ coming \in Seq(Event) /\ Head(todo) \in Event
        /\ scenario' = scenario /\ injecting' = injecting
    BY DEF Simulate, SimulateFails, Skip, InjectUnchanged, TypeOK
  <1>2. Releasing(todo') /\ (~injecting' => todo' = <<>>)
    BY <1>1, ReleasingTail DEF Delivers
  <1>3. scenario.platform = "windows" => coming' = <<>>
    BY DEF Simulate, SimulateFails, Skip, Delivers
  <1>4. blame \subseteq blame'
    BY DEF Simulate, SimulateFails, Skip, historyVars
  <1>5. CASE coming' = <<>>
    BY <1>1, <1>2, <1>5 DEF Delivers
  <1>6. CASE coming' = Append(coming, Head(todo))
    <2>1. /\ Len(coming) \in Nat /\ DOMAIN coming = 1 .. Len(coming)
          /\ DOMAIN coming' = 1 .. (Len(coming) + 1)
          /\ \A i \in 1 .. Len(coming) : coming'[i] = coming[i]
          /\ coming'[Len(coming) + 1] = Head(todo)
      BY <1>1, <1>6
    <2>2. ASSUME NEW i \in DOMAIN coming', coming'[i].press PROVE Released(i)'
      <3>1. CASE i = Len(coming) + 1
        BY <1>1, <2>1, <2>2, <3>1, ReleasingTail DEF Delivers, Released
      <3>2. CASE i \in DOMAIN coming
        <4>1. coming'[i] = coming[i] /\ i < Len(coming) + 1
          BY <2>1, <3>2
        <4>2. ASSUME NEW j \in DOMAIN coming, j > i, coming[j] = Up(coming[i].key)
              PROVE  Released(i)'
          <5>1. j \in DOMAIN coming' /\ coming'[j] = coming[j]
            BY <2>1
          <5>. QED BY <4>1, <4>2, <5>1 DEF Released
        <4>3. ASSUME Ups(todo, coming[i].key) PROVE Released(i)'
          <5>1. Head(todo) = Up(coming[i].key) \/ Ups(todo', coming[i].key)
            BY <1>1, <4>3, UpsTail
          <5>2. Len(coming) + 1 \in DOMAIN coming' /\ Len(coming) + 1 > i
            BY <2>1, <4>1, <3>2
          <5>. QED BY <2>1, <4>1, <5>1, <5>2 DEF Released
        <4>4. ASSUME <<"refused", coming[i].key>> \in blame PROVE Released(i)'
          BY <1>4, <4>1, <4>4 DEF Released
        <4>. QED BY <2>2, <3>2, <4>1, <4>2, <4>3, <4>4 DEF Delivers, Released
      <3>. QED BY <2>1, <3>1, <3>2
    <2>. QED BY <1>1, <1>2, <1>3, <2>2 DEF Delivers
  <1>7. CASE coming' = coming /\ coming # <<>>
    <2>1. SimulateFails
      BY <1>7, <1>1, <1>3 DEF Simulate, Skip, Needless, Delivers
    <2>2. ASSUME NEW i \in DOMAIN coming, coming[i].press PROVE Released(i)'
      <3>1. ASSUME Ups(todo, coming[i].key) PROVE Released(i)'
        <4>1. CASE Head(todo) = Up(coming[i].key)
          <5>1. <<"refused", coming[i].key>> \in blame'
            BY <2>1, <4>1, EventsTyped DEF SimulateFails
          <5>. QED BY <1>7, <5>1 DEF Released
        <4>2. CASE Head(todo) # Up(coming[i].key)
          BY <1>1, <1>7, <3>1, <4>2, UpsTail DEF Released
        <4>. QED BY <4>1, <4>2
      <3>2. ASSUME <<"refused", coming[i].key>> \in blame PROVE Released(i)'
        BY <1>4, <1>7, <3>2 DEF Released
      <3>. QED BY <1>7, <2>2, <3>1, <3>2 DEF Delivers, Released
    <2>. QED BY <1>1, <1>2, <1>3, <1>7, <2>2 DEF Delivers
  <1>8. coming' = coming \/ coming' = Append(coming, Head(todo))
    BY DEF Simulate, SimulateFails, Skip
  <1>. QED BY <1>5, <1>6, <1>7, <1>8

LEMMA DeliversEcho ==
    ASSUME TypeOK, Delivers, Echo
    PROVE  Delivers'
  <1>1. /\ coming \in Seq(Event) /\ coming # <<>> /\ coming' = Tail(coming)
        /\ UNCHANGED <<scenario, injecting, todo>> /\ blame \subseteq blame'
    BY DEF Echo, TypeOK, injectVars
  <1>2. /\ Len(coming) \in Nat /\ DOMAIN coming = 1 .. Len(coming)
        /\ DOMAIN coming' = 1 .. (Len(coming) - 1)
        /\ \A i \in 1 .. (Len(coming) - 1) : coming'[i] = coming[i + 1]
    BY <1>1
  <1>. SUFFICES ASSUME NEW i \in DOMAIN coming', coming'[i].press PROVE Released(i)'
    BY <1>1 DEF Delivers
  <1>3. i \in Nat /\ i + 1 \in DOMAIN coming /\ coming'[i] = coming[i + 1]
    BY <1>2
  <1>4. ASSUME NEW j \in DOMAIN coming, j > i + 1, coming[j] = Up(coming[i + 1].key)
        PROVE  \E l \in DOMAIN coming' : l > i /\ coming'[l] = Up(coming'[i].key)
    <2>1. j \in Nat /\ j - 1 \in 1 .. (Len(coming) - 1) /\ j - 1 > i /\ (j - 1) + 1 = j
      BY <1>2, <1>3, <1>4
    <2>2. j - 1 \in DOMAIN coming' /\ coming'[j - 1] = coming[j]
      BY <1>2, <2>1
    <2>. QED BY <1>3, <1>4, <2>1, <2>2
  <1>5. \/ \E j \in DOMAIN coming : j > i + 1 /\ coming[j] = Up(coming[i + 1].key)
        \/ Ups(todo, coming[i + 1].key)
        \/ <<"refused", coming[i + 1].key>> \in blame
    BY <1>3 DEF Delivers, Released
  <1>. QED BY <1>1, <1>3, <1>4, <1>5 DEF Released

(* What a step may do that is not about k's own events: it excuses nothing *)
(* that was not excused, and shows k only with a release to come; while k  *)
(* is down it leaves what the callback goes by, or is held against k.      *)
LEMMA KeyFrame ==
    ASSUME NEW k, KeyInv(k), scenario' = scenario, k \in held' <=> k \in held,
           Clean(k)' => Clean(k),
           Blamed(Bad, {k}) => Blamed(Bad, {k})', Blamed(Doubts, {k}) => Blamed(Doubts, {k})',
           k \in swallowed' => k \in swallowed,
           "ptt" \in down' /\ k = bound["ptt"].key => "ptt" \in down,
           k \in held /\ Clean(k)' => UNCHANGED <<mods, assist, paused, suppressed>>,
           k \in shown' /\ ~Pending(k)' /\ Clean(k)' => k \in shown /\ ~Pending(k)
    PROVE  KeyInv(k)'
  <1>0. bound' = bound
    BY DEF bound
  <1>1. ShownHeld(k)'
    BY DEF KeyInv, ShownHeld
  <1>2. SwallowedHeld(k)'
    BY DEF KeyInv, SwallowedHeld
  <1>3. TalkHeld(k)'
    BY <1>0 DEF KeyInv, TalkHeld
  <1>4. Taken(k)'
    BY <1>0 DEF KeyInv, Taken
  <1>5. Given(k)'
    <2>1. mods' = mods => (Presses("ptt", Press(k), mods)' <=> Presses("ptt", Press(k), mods))
      BY <1>0 DEF Presses
    <2>. QED BY <1>0, <2>1 DEF KeyInv, Given
  <1>. QED BY <1>1, <1>2, <1>3, <1>4, <1>5 DEF KeyInv

(* The callback leaves the other keys alone. *)
LEMMA HandleOthers ==
    ASSUME KeyHookAssumption, TypeOK, NEW e \in Event, Handle(e), NEW k \in Keys, k # e.key
    PROVE  /\ k \in shown' <=> k \in shown
           /\ k \in swallowed' <=> k \in swallowed
           /\ "ptt" \in down' /\ k = bound["ptt"].key => "ptt" \in down
  <1>1. k \in shown' <=> k \in shown
    BY DEF Handle, Consume, Callback, StopTalk, ReleaseInjecting, PauseChord, PassPaused, VoiceChord,
           CompletionKey, PressHotkey, TypeKey, Release, ReleaseHotkey, Pass, Swallow, Apply
  <1>2. k \in swallowed' <=> k \in swallowed
    BY DEF Handle, Consume, stateVars, Callback, StopTalk, ReleaseInjecting, PauseChord, PassPaused,
           VoiceChord, CompletionKey, PressHotkey, TypeKey, Release, ReleaseHotkey
  <1>3. ASSUME "ptt" \in down', k = bound["ptt"].key PROVE "ptt" \in down
    <2>1. CASE Consume(e)
      BY <1>3, <2>1 DEF Consume, stateVars
    <2>2. CASE Callback(e) /\ e.press
      <3>1. ~Presses("ptt", e, Track(e))
        BY <1>3, KeyHookAssumption DEF Presses, KeyHookAssumption
      <3>. QED BY <1>3, <2>2, <3>1, PressSets
    <2>3. CASE Callback(e) /\ ~e.press
      BY <1>3, <2>3, ReleaseLifts
    <2>. QED BY <2>1, <2>2, <2>3 DEF Handle
  <1>. QED BY <1>1, <1>2, <1>3

(* The user presses or releases another key. *)
LEMMA OtherKey ==
    ASSUME KeyHookAssumption, TypeOK, NEW j \in Keys, PressKey(j) \/ ReleaseKey(j),
           NEW k \in Keys, k # j, KeyInv(k)
    PROVE  KeyInv(k)'
  <1>1. PICK e \in Event : e.key = j /\ UserEvent(e)
    BY DEF PressKey, ReleaseKey, Event
  <1>2. UNCHANGED <<scenario, paused, suppressed, coming, todo>> /\ Handle(e)
    BY <1>1 DEF UserEvent, modeVars, injectVars
  <1>3. k \in held' <=> k \in held
    BY DEF PressKey, ReleaseKey
  <1>4. \A causes : Blamed(causes, {k}) => Blamed(causes, {k})'
    BY <1>1, BlameStays
  <1>5. /\ k \in shifted => k \in shifted'
        /\ k \in held /\ k \notin shifted' => UNCHANGED <<mods, swallowed, assist>>
    BY DEF PressKey, ReleaseKey, Shift
  <1>6. Clean(k)' => Clean(k)
    BY <1>4, <1>5 DEF Clean
  <1>7. Pending(k)' <=> Pending(k)
    BY <1>2 DEF Pending
  <1>. QED
    BY <1>1, <1>2, <1>3, <1>4, <1>5, <1>6, <1>7, HandleOthers, KeyFrame DEF Clean

(* What the callback does with the release of a key: it keeps it from the  *)
(* window only if the hotkeys, a talk or the popup had its press, and from *)
(* the hotkeys only if a talk or the popup took it, or it came paused.     *)
LEMMA ReleaseSeen ==
    ASSUME TypeOK, KeyHookAssumption, NEW k \in Keys, Callback(Up(k))
    PROVE  /\ k \in shown' =>
                  /\ k \notin Modifiers
                  /\ \/ k \in swallowed
                     \/ "ptt" \in down /\ k = bound["ptt"].key
                     \/ ~paused /\ assist = "open" /\ k = Tab
           /\ k \in swallowed' => Forgets(Up(k)) \/ (~injecting /\ paused)
           /\ ~("ptt" \in down' /\ k = bound["ptt"].key)
  <1>. DEFINE e == Up(k)
  <1>0. e.key = k /\ ~e.press /\ e \in Event /\ swallowed \subseteq Keys \ Modifiers
        /\ Tab \notin Modifiers
    BY DEF Up, Event, TypeOK, KeyHookAssumption
  <1>. DEFINE Goal == /\ k \in shown' =>
                           /\ k \notin Modifiers
                           /\ \/ k \in swallowed
                              \/ "ptt" \in down /\ k = bound["ptt"].key
                              \/ ~paused /\ assist = "open" /\ k = Tab
                      /\ k \in swallowed' => Forgets(e) \/ (~injecting /\ paused)
  <1>1. ASSUME StopTalk(e) PROVE Goal
    <2>1. Forgets(e) /\ k \in bound["ptt"].mods \cup {bound["ptt"].key} /\ "ptt" \in down
      BY <1>0, <1>1 DEF StopTalk, Forgets, EndsTalk, Releases
    <2>2. bound["ptt"].mods \subseteq Modifiers
      BY ChordsTyped DEF TypeOK, Uses
    <2>3. k \in shown' => k \notin Modifiers
      BY <1>0, <1>1 DEF StopTalk, Pass, Apply
    <2>. QED BY <2>1, <2>2, <2>3
  <1>2. ASSUME ReleaseHotkey(e) PROVE Goal
    BY <1>0, <1>2 DEF ReleaseHotkey, Pass, Swallow, Apply
  <1>3. ASSUME PassPaused(e) PROVE Goal
    BY <1>0, <1>3 DEF PassPaused, Arrives, Pass, Apply
  <1>4. ASSUME Release(e) PROVE Goal
    BY <1>0, <1>2, <1>4 DEF Release, Arrives, Forgets
  <1>5. StopTalk(e) \/ ReleaseHotkey(e) \/ PassPaused(e) \/ Release(e)
    BY <1>0 DEF Callback, ReleaseInjecting, PauseChord, VoiceChord, Voices, CompletionKey, PressHotkey,
       TypeKey, Typed, Presses
  <1>6. ~("ptt" \in down' /\ k = bound["ptt"].key)
    BY <1>0, ReleaseLifts DEF Lifted, Releases
  <1>. QED BY <1>1, <1>2, <1>3, <1>4, <1>5, <1>6

(* The user lets go of k. *)
LEMMA OwnRelease ==
    ASSUME KeyHookAssumption, TypeOK, NEW k \in Keys, ReleaseKey(k), KeyInv(k)
    PROVE  KeyInv(k)'
  <1>. DEFINE e == Up(k)
  <1>1. /\ e \in Event /\ e.key = k /\ ~e.press
        /\ UserEvent(e) /\ Handle(e) /\ k \notin held' /\ k \in held
        /\ scenario' = scenario /\ bound' = bound
        /\ k \in shifted => k \in shifted'
        /\ UNCHANGED <<coming, todo>>
    BY DEF ReleaseKey, UserEvent, Up, Event, injectVars, bound
  <1>2. \A c \in Causes : c \in Blames(e) => <<c, k>> \in blame'
    BY <1>1 DEF UserEvent, Up
  <1>3. Taken(k)' /\ Given(k)'
    BY <1>1 DEF Taken, Given
  <1>4. CASE Consume(e)
    <2>1. <<"mistaken", k>> \in blame'
      BY <1>2, <1>4 DEF Consume, Blames, Causes
    <2>2. Blamed(Bad, {k})' /\ Blamed(Doubts, {k})'
      BY <2>1 DEF Blamed, Bad, Causes, Doubts
    <2>. QED BY <1>3, <2>2 DEF KeyInv, ShownHeld, SwallowedHeld, TalkHeld, Clean
  <1>5. CASE Callback(e) /\ ~Expected(e)
    <2>1. k \in swallowed' => Blamed(Doubts, {k})'
      <3>. SUFFICES ASSUME k \in swallowed' PROVE Blamed(Doubts, {k})'
        OBVIOUS
      <3>1. k \in swallowed
        BY <1>5 DEF Callback, StopTalk, ReleaseInjecting, PauseChord, PassPaused, VoiceChord,
           CompletionKey, PressHotkey, TypeKey, Typed, Release, ReleaseHotkey, Up
      <3>2. "skipped" \in Blames(e) \/ "paused" \in Blames(e)
        BY <1>1, <1>5, <3>1, ReleaseSeen DEF Blames, Settles
      <3>3. <<"skipped", k>> \in blame' \/ <<"paused", k>> \in blame'
        BY <1>2, <3>2 DEF Causes
      <3>. QED BY <3>3 DEF Blamed, Doubts
    <2>2. ASSUME k \in shown', Clean(k)' PROVE Pending(k)'
      <3>1. Clean(k)
        BY <1>1, <2>2, BlameStays DEF Clean
      <3>2. k \in shown
        BY <1>1, <2>2 DEF Handle, Consume, Callback, StopTalk, ReleaseInjecting, PauseChord,
           PassPaused, VoiceChord, CompletionKey, PressHotkey, TypeKey, Typed, Release, ReleaseHotkey,
           Pass, Swallow, Apply
      <3>3. Pending(k)
        BY <1>1, <1>5, <2>2, <3>1, <3>2, ReleaseSeen DEF KeyInv, Given
      <3>. QED BY <1>1, <3>3 DEF Pending
    <2>3. ~("ptt" \in down' /\ k = bound["ptt"].key)
      BY <1>5, ReleaseSeen
    <2>. QED BY <1>1, <1>3, <2>1, <2>2, <2>3 DEF KeyInv, ShownHeld, SwallowedHeld, TalkHeld
  <1>. QED BY <1>1, <1>4, <1>5 DEF Handle

(* What the callback does with the press of a key: it takes it for the     *)
(* hotkeys or a talk only when neither paused nor suppressed, and gives it *)
(* to the window only if neither of them nor the popup is due.             *)
LEMMA PressSeen ==
    ASSUME TypeOK, KeyHookAssumption, NEW k \in Keys, Callback(Press(k))
    PROVE  /\ k \in swallowed' => k \in swallowed \/ (~paused /\ ~suppressed)
           /\ "ptt" \in down' =>
                  "ptt" \in down \/ (~paused /\ ~suppressed /\ Presses("ptt", Press(k), mods'))
           /\ k \in shown' /\ k \notin Modifiers /\ k \notin shown =>
                  /\ swallowed' = swallowed
                  /\ "ptt" \in down' => "ptt" \in down
                  /\ ~paused /\ ~suppressed =>
                         ~Presses("ptt", Press(k), mods') /\ k \notin swallowed
                  /\ ~paused /\ k = Tab => assist' # "open"
  <1>. DEFINE e == Press(k)
  <1>0. e.key = k /\ e.press /\ e \in Event /\ mods' = Track(e)
    BY CallbackTracks DEF Press, Event
  <1>. DEFINE Goal == /\ k \in swallowed' => k \in swallowed \/ (~paused /\ ~suppressed)
                      /\ "ptt" \in down' =>
                             "ptt" \in down
                                 \/ (~paused /\ ~suppressed /\ Presses("ptt", e, mods'))
                      /\ k \in shown' /\ k \notin Modifiers /\ k \notin shown =>
                             /\ swallowed' = swallowed
                             /\ "ptt" \in down' => "ptt" \in down
                             /\ ~paused /\ ~suppressed =>
                                    ~Presses("ptt", e, mods') /\ k \notin swallowed
                             /\ ~paused /\ k = Tab => assist' # "open"
  <1>1. ASSUME PauseChord(e) PROVE Goal
    BY <1>0, <1>1 DEF PauseChord, Swallow
  <1>2. ASSUME PassPaused(e) PROVE Goal
    BY <1>0, <1>2 DEF PassPaused
  <1>3. ASSUME NEW u \in {"ptt", "handsfree"}, VoiceChord(u, e) PROVE Goal
    BY <1>0, <1>3 DEF VoiceChord, Voices, Swallow
  <1>4. ASSUME CompletionKey(e) PROVE Goal
    BY <1>0, <1>4 DEF CompletionKey, Swallow
  <1>5. ASSUME PressHotkey(e) PROVE Goal
    BY <1>0, <1>5 DEF PressHotkey, Typed, Hotkeys, Swallow
  <1>6. ASSUME TypeKey(e) PROVE Goal
    BY <1>0, <1>6 DEF TypeKey, Typed, Hotkeys, Voices
  <1>. QED
    BY <1>0, <1>1, <1>2, <1>3, <1>4, <1>5, <1>6
    DEF Callback, StopTalk, EndsTalk, Releases, ReleaseInjecting, Release

(* The user presses k, or the system repeats it. *)
LEMMA OwnPress ==
    ASSUME KeyHookAssumption, TypeOK, NEW k \in Keys, PressKey(k), KeyInv(k)
    PROVE  KeyInv(k)'
  <1>. DEFINE e == Press(k)
  <1>1. /\ e \in Event /\ e.key = k /\ e.press
        /\ UserEvent(e) /\ Handle(e) /\ held' = held \cup {k}
        /\ scenario' = scenario /\ bound' = bound
        /\ UNCHANGED <<coming, todo, paused, suppressed>>
    BY DEF PressKey, UserEvent, Press, Event, modeVars, injectVars, bound
  <1>2. k \in held /\ k \notin shifted' =>
            k \notin shifted /\ UNCHANGED <<mods, swallowed, assist>>
    BY DEF PressKey, Shift
  <1>3. k \in shown /\ k \notin shifted' => k \notin shifted
    BY DEF PressKey
  <1>4. ShownHeld(k)' /\ SwallowedHeld(k)' /\ TalkHeld(k)'
    BY <1>1 DEF ShownHeld, SwallowedHeld, TalkHeld
  <1>5. Pending(k)' <=> Pending(k)
    BY <1>1 DEF Pending
  <1>6. ASSUME Clean(k)' PROVE Taken(k)' /\ Given(k)'
    <2>1. ~Blamed(Bad, {k})
      BY <1>1, <1>6, BlameStays DEF Clean, Settles
    <2>2. Callback(e)
      <3>1. ASSUME Expected(e) PROVE FALSE
        <4>1. <<"mistaken", k>> \in blame'
          BY <1>1, <3>1 DEF UserEvent, Blames
        <4>. QED BY <1>6, <4>1 DEF Clean, Blamed, Bad, Causes
      <3>. QED BY <1>1, <3>1 DEF Handle, Consume
    <2>3. CASE k \in held
      <3>1. Clean(k) /\ UNCHANGED <<mods, swallowed, assist>>
        BY <1>2, <1>6, <2>1, <2>3 DEF Clean
      <3>2. Taken(k)'
        <4>1. "ptt" \in down' =>
                  "ptt" \in down \/ (~paused /\ ~suppressed /\ mods = bound["ptt"].mods)
          BY <2>2, <3>1, PressSeen DEF Presses
        <4>. QED BY <1>1, <2>3, <3>1, <4>1 DEF KeyInv, Taken
      <3>3. ASSUME k \notin Modifiers, k \in shown', ~Pending(k)' PROVE Given(k)'
        <4>1. CASE k \in shown
          <5>1. /\ k \notin swallowed
                /\ ~("ptt" \in down /\ k = bound["ptt"].key)
                /\ ~paused /\ ~suppressed => ~Presses("ptt", Press(k), mods)
                /\ k = Tab /\ assist = "open" => paused
            BY <1>5, <2>3, <3>1, <3>3, <4>1 DEF KeyInv, Given
          <5>2. Presses("ptt", Press(k), mods)' <=> Presses("ptt", Press(k), mods)
            BY <1>1, <3>1 DEF Presses
          <5>3. "ptt" \in down' => "ptt" \in down
            BY <2>2, <3>1, <5>1, PressSeen
          <5>. QED BY <1>1, <3>1, <5>1, <5>2, <5>3 DEF Given
        <4>2. CASE k \notin shown
          <5>1. k \notin swallowed
            BY <2>2, <2>3, <3>1, <3>3, <4>2, PressSeen DEF KeyInv, Taken
          <5>2. ~("ptt" \in down /\ k = bound["ptt"].key)
            BY <1>1, <2>2, <2>3, <3>1, <3>3, <4>2, PressSeen, KeyHookAssumption
            DEF KeyInv, Taken, Presses, KeyHookAssumption
          <5>3. Presses("ptt", Press(k), mods)' <=> Presses("ptt", Press(k), mods)
            BY <1>1, <3>1 DEF Presses
          <5>. QED
            BY <1>1, <2>2, <3>1, <3>3, <4>2, <5>1, <5>2, <5>3, PressSeen DEF Given
        <4>. QED BY <4>1, <4>2
      <3>. QED BY <3>2, <3>3 DEF Given
    <2>4. CASE k \notin held
      <3>1. k \notin swallowed /\ ~("ptt" \in down /\ k = bound["ptt"].key)
        BY <2>1, <2>4, DoubtsBad DEF KeyInv, SwallowedHeld, TalkHeld
      <3>2. Taken(k)'
        BY <1>1, <2>2, <3>1, PressSeen DEF Taken, Presses
      <3>3. ASSUME k \notin Modifiers, k \in shown', ~Pending(k)' PROVE Given(k)'
        <4>1. k \notin shown
          BY <1>3, <1>5, <1>6, <2>1, <2>4, <3>3 DEF KeyInv, ShownHeld, Clean
        <4>2. Presses("ptt", Press(k), mods)' <=> Presses("ptt", Press(k), mods')
          BY <1>1 DEF Presses
        <4>. QED
          BY <1>1, <2>2, <3>1, <3>3, <4>1, <4>2, PressSeen DEF Given
      <3>. QED BY <3>2, <3>3 DEF Given
    <2>. QED BY <2>3, <2>4
  <1>. QED BY <1>4, <1>6 DEF KeyInv, Taken, Given

(* A simulated event reaches the callback. *)
LEMMA EchoKey ==
    ASSUME KeyHookAssumption, TypeOK, Delivers, Echo, NEW k \in Keys, KeyInv(k)
    PROVE  KeyInv(k)'
  <1>. DEFINE e == Head(coming)
  <1>1. /\ coming \in Seq(Event) /\ coming # <<>> /\ coming' = Tail(coming) /\ e \in Event
        /\ UNCHANGED <<scenario, held, todo, paused, suppressed>>
        /\ blame \subseteq blame' /\ shifted \subseteq shifted' /\ Handle(e)
        /\ k \in held /\ k \notin shifted' => UNCHANGED <<mods, swallowed, assist>>
    BY DEF Echo, TypeOK, userVars, modeVars, injectVars, Shift
  <1>2. /\ Blamed(Bad, {k}) => Blamed(Bad, {k})'
        /\ Blamed(Doubts, {k}) => Blamed(Doubts, {k})'
    BY <1>1, BlameGrows
  <1>3. Clean(k)' => Clean(k)
    BY <1>1, <1>2 DEF Clean
  <1>4. CASE e.key # k
    <2>1. Pending(k) => Pending(k)'
      BY <1>1, <1>4, UpsTail, EventsTyped DEF Pending
    <2>. QED BY <1>1, <1>2, <1>3, <1>4, <2>1, HandleOthers, KeyFrame DEF Clean
  <1>5. CASE e.key = k /\ Consume(e)
    <2>1. UNCHANGED stateVars /\ shown' = Apply(e, shown)
      BY <1>5 DEF Consume, Pass
    <2>2. ASSUME k \in shown' PROVE Pending(k)' \/ Blamed(Bad, {k})'
      <3>1. e.press
        BY <1>5, <2>1, <2>2 DEF Apply
      <3>2. 1 \in DOMAIN coming /\ coming[1] = e
        BY <1>1
      <3>3. Released(1)
        BY <3>1, <3>2 DEF Delivers
      <3>4. CASE \E j \in DOMAIN coming : j > 1 /\ coming[j] = Up(k)
        <4>1. PICK j \in DOMAIN coming : j > 1 /\ coming[j] = Up(k)
          BY <3>4
        <4>2. /\ Len(coming) \in Nat /\ DOMAIN coming = 1 .. Len(coming)
              /\ DOMAIN coming' = 1 .. (Len(coming) - 1)
              /\ \A i \in 1 .. (Len(coming) - 1) : coming'[i] = coming[i + 1]
          BY <1>1
        <4>3. j \in Nat /\ j - 1 \in 1 .. (Len(coming) - 1) /\ (j - 1) + 1 = j
          BY <4>1, <4>2
        <4>4. j - 1 \in DOMAIN coming' /\ coming'[j - 1] = Up(k)
          BY <4>1, <4>2, <4>3
        <4>. QED BY <4>4 DEF Pending, Ups
      <3>5. CASE Ups(todo, k)
        BY <1>1, <3>5 DEF Pending
      <3>6. CASE <<"refused", k>> \in blame
        BY <1>1, <3>6 DEF Blamed, Bad, Causes
      <3>. QED BY <1>5, <3>2, <3>3, <3>4, <3>5, <3>6 DEF Released
    <2>. QED BY <1>1, <1>2, <1>3, <2>1, <2>2, KeyFrame DEF stateVars, Clean
  <1>6. CASE e.key = k /\ ~Expected(e)
    <2>1. <<"stray", k>> \in blame'
      BY <1>6 DEF Echo
    <2>2. Blamed(Bad, {k})' /\ Blamed(Doubts, {k})'
      BY <2>1 DEF Blamed, Bad, Causes, Doubts
    <2>. QED
      BY <2>2 DEF KeyInv, ShownHeld, SwallowedHeld, TalkHeld, Taken, Given, Clean
  <1>. QED BY <1>1, <1>4, <1>5, <1>6 DEF Handle

(* An injection simulates an event, or does not. *)
LEMMA InjectKey ==
    ASSUME KeyHookAssumption, TypeOK, Delivers, Simulate \/ SimulateFails \/ Skip,
           NEW k \in Keys, KeyInv(k)
    PROVE  KeyInv(k)'
  <1>. DEFINE e == Head(todo)
  <1>1. /\ todo \in Seq(Event) /\ todo # <<>> /\ todo' = Tail(todo) /\ e \in Event
        /\ coming \in Seq(Event)
        /\ UNCHANGED <<scenario, held, mods, down, swallowed, assist, paused, suppressed, shifted>>
        /\ blame \subseteq blame'
    BY DEF Simulate, SimulateFails, Skip, TypeOK, InjectUnchanged, historyVars, stateVars, modeVars
  <1>2. /\ Blamed(Bad, {k}) => Blamed(Bad, {k})'
        /\ Blamed(Doubts, {k}) => Blamed(Doubts, {k})'
    BY <1>1, BlameGrows
  <1>3. Clean(k)' => Clean(k)
    BY <1>1, <1>2 DEF Clean
  <1>4. Ups(todo, k) <=> e = Up(k) \/ Ups(todo', k)
    BY <1>1, UpsTail
  <1>5. ASSUME k \in shown', ~Pending(k)', Clean(k)' PROVE k \in shown /\ ~Pending(k)
    <2>1. CASE Skip
      <3>1. shown' = shown /\ coming' = coming
        BY <2>1 DEF Skip
      <3>2. e # Up(k)
        BY <1>5, <2>1, <3>1, EventsTyped DEF Skip, Needless
      <3>. QED BY <1>4, <1>5, <3>1, <3>2 DEF Pending
    <2>2. CASE SimulateFails
      <3>1. shown' = shown /\ coming' = coming
        BY <2>2 DEF SimulateFails
      <3>2. ASSUME e = Up(k) PROVE FALSE
        <4>1. <<"refused", k>> \in blame'
          BY <2>2, <3>2, EventsTyped DEF SimulateFails
        <4>. QED BY <1>5, <4>1 DEF Clean, Blamed, Bad, Causes
      <3>. QED BY <1>4, <1>5, <3>1, <3>2 DEF Pending
    <2>3. CASE Simulate /\ scenario.platform = "windows"
      <3>1. shown' = Apply(e, shown) /\ coming' = coming
        BY <2>3 DEF Simulate, Pass
      <3>2. e # Up(k)
        BY <1>5, <3>1, EventsTyped DEF Apply
      <3>3. ASSUME e = Press(k) PROVE FALSE
        <4>1. e.press /\ e.key = k /\ Releasing(todo)
          BY <3>3, EventsTyped DEF Delivers
        <4>2. Ups(todo', k)
          BY <1>1, <4>1, ReleasingTail
        <4>. QED BY <1>5, <4>2 DEF Pending
      <3>. QED BY <1>1, <1>4, <1>5, <3>1, <3>2, <3>3, EventsTyped DEF Apply, Pending
    <2>4. CASE Simulate /\ scenario.platform # "windows"
      <3>1. shown' = shown /\ coming' = Append(coming, e)
        BY <2>4 DEF Simulate
      <3>. QED BY <1>1, <1>4, <1>5, <3>1, UpsAppend DEF Pending
    <2>. QED BY <2>1, <2>2, <2>3, <2>4
  <1>. QED BY <1>1, <1>2, <1>3, <1>5, KeyFrame

(* Everything else leaves the keys where they are. *)
LEMMA OtherSteps ==
    ASSUME Delivers, Click \/ Switch \/ Begin \/ End \/ Expire \/ UNCHANGED vars,
           NEW k \in Keys, KeyInv(k)
    PROVE  KeyInv(k)'
  <1>. USE DEF Click, Switch, Begin, End, Expire, InjectUnchanged, vars, userVars, stateVars,
           modeVars, injectVars, historyVars
  <1>1. /\ UNCHANGED <<scenario, held, shown, down, coming>>
        /\ blame \subseteq blame' /\ shifted \subseteq shifted'
        /\ k \in swallowed' => k \in swallowed
    OBVIOUS
  <1>2. k \in held /\ k \notin shifted' => UNCHANGED <<mods, assist, paused, suppressed>>
    BY DEF Shift
  <1>3. /\ Blamed(Bad, {k}) => Blamed(Bad, {k})'
        /\ Blamed(Doubts, {k}) => Blamed(Doubts, {k})'
    BY <1>1, BlameGrows
  <1>4. Clean(k)' => Clean(k)
    BY <1>1, <1>3 DEF Clean
  <1>5. Ups(todo, k) => Ups(todo', k)
    BY DEF Delivers, Ups
  <1>6. Pending(k) => Pending(k)'
    BY <1>1, <1>5 DEF Pending
  <1>. QED BY <1>1, <1>2, <1>3, <1>4, <1>6, KeyFrame DEF Clean

LEMMA KeysAccounted == Spec => []StuckInv
  <1>1. Init => StuckInv
    <2>. SUFFICES ASSUME Init PROVE StuckInv
      OBVIOUS
    <2>1. Delivers
      BY DEF Init, Delivers, Releasing
    <2>2. \A k \in Keys : KeyInv(k)
      BY DEF Init, KeyInv, ShownHeld, SwallowedHeld, TalkHeld, Taken, Given
    <2>. QED BY <2>1, <2>2 DEF StuckInv
  <1>2. ASSUME TypeOK, StuckInv, [Next]_vars PROVE StuckInv'
    <2>0. Delivers /\ \A k \in Keys : KeyInv(k)
      BY <1>2 DEF StuckInv
    <2>1. ASSUME NEW j \in scenario.keys, PressKey(j) \/ ReleaseKey(j) PROVE StuckInv'
      <3>1. j \in Keys
        BY <1>2, KeyHookAssumption, ChordsTyped DEF TypeOK, Uses
      <3>2. PICK e \in Event : UserEvent(e)
        BY <2>1, <3>1 DEF PressKey, ReleaseKey, Event
      <3>3. Delivers'
        BY <2>0, <3>2, DeliversUser
      <3>4. ASSUME NEW k \in Keys PROVE KeyInv(k)'
        BY <1>2, <2>0, <2>1, <3>1, OtherKey, OwnPress, OwnRelease, KeyHookAssumption
      <3>. QED BY <3>3, <3>4 DEF StuckInv
    <2>2. ASSUME Echo PROVE StuckInv'
      BY <1>2, <2>0, <2>2, DeliversEcho, EchoKey, KeyHookAssumption DEF StuckInv
    <2>3. ASSUME Simulate \/ SimulateFails \/ Skip PROVE StuckInv'
      BY <1>2, <2>0, <2>3, DeliversSimulate, InjectKey, KeyHookAssumption DEF StuckInv
    <2>4. ASSUME Click \/ Switch \/ Begin \/ End \/ Expire \/ UNCHANGED vars PROVE StuckInv'
      <3>1. Delivers'
        <4>1. CASE Begin \/ End
          BY <1>2, <2>0, <4>1, DeliversBegin, KeyHookAssumption
        <4>2. CASE Click \/ Switch \/ Expire \/ UNCHANGED vars
          <5>1. UNCHANGED <<scenario, injecting, todo, coming>> /\ blame \subseteq blame'
            BY <4>2 DEF Click, Switch, Expire, InjectUnchanged, vars, injectVars, historyVars
          <5>. QED BY <2>0, <5>1, DeliversStill
        <4>. QED BY <2>4, <4>1, <4>2
      <3>2. ASSUME NEW k \in Keys PROVE KeyInv(k)'
        BY <2>0, <2>4, OtherSteps
      <3>. QED BY <3>1, <3>2 DEF StuckInv
    <2>. QED BY <1>2, <2>1, <2>2, <2>3, <2>4 DEF Next
  <1>. QED BY <1>1, <1>2, KeyHookTyped, PTL DEF Spec

(* Once everything is delivered, no key the user has let go of stays down  *)
(* in the window: a press that the window got has its repeats and its      *)
(* release let through, for as long as nothing the callback goes by        *)
(* changes meanwhile, and a press it did not get has its release kept.     *)
THEOREM NoKeyIsStuck == Spec => []NoKeyStuck
  <1>1. TypeOK /\ StuckInv => NoKeyStuck
    <2>. SUFFICES ASSUME TypeOK, StuckInv, todo = <<>>, coming = <<>>,
                         NEW k \in shown \ held
                  PROVE  k \in shifted \/ Blamed(Bad, {k})
      BY DEF NoKeyStuck, Bad
    <2>1. k \in Keys /\ ~Pending(k)
      BY DEF TypeOK, Pending, Ups
    <2>. QED BY <2>1 DEF StuckInv, KeyInv, ShownHeld, Clean
  <1>. QED BY <1>1, KeyHookTyped, KeysAccounted, PTL

-----------------------------------------------------------------------------

(* A modifier that is down is taken for down, unless one of its events was *)
(* misjudged or a click cleared it.                                        *)
ModsComplete ==
    \A m \in held \cap Modifiers : m \in mods \/ Blamed({"mistaken", "stray", "cleared"}, {m})

(* A repeat of k would fire nothing: the chord it completes has its flag   *)
(* set, or the key is among the swallowed.                                 *)
Quiet(k) ==
    LET e == Press(k)
    IN  /\ Presses("pause", e, Track(e)) => "pause" \in down
        /\ ~Presses("pause", e, Track(e)) /\ ~paused =>
               /\ \A u \in {"ptt", "handsfree"} : Voices(u, e) => u \in down
               /\ (\A u \in {"ptt", "handsfree"} : ~Voices(u, e)) /\ ~Completes(e) /\ Hotkeys(e)
                      => k \in swallowed

RepeatsQuiet ==
    latest # None /\ latest \notin shifted /\ ~Blamed({"mistaken", "stray"}, {latest}) => Quiet(latest)

LEMMA CompleteStep ==
    ASSUME KeyHookAssumption, TypeOK, ModsComplete, [Next]_vars
    PROVE  ModsComplete'
  <1>1. ASSUME NEW j \in scenario.keys, NEW e \in Event, e.key = j, UserEvent(e),
               e.press => held' = held \cup {j}, ~e.press => held' = held \ {j}
        PROVE  ModsComplete'
    <2>. SUFFICES ASSUME NEW m \in held' \cap Modifiers
                  PROVE  m \in mods' \/ Blamed({"mistaken", "stray", "cleared"}, {m})'
      BY DEF ModsComplete
    <2>1. m # j \/ e.press
      BY <1>1
    <2>2. CASE Expected(e) /\ m = j
      <3>1. <<"mistaken", j>> \in blame'
        BY <1>1, <2>2 DEF UserEvent, Blames
      <3>. QED BY <2>2, <3>1 DEF Blamed
    <2>3. CASE ~Expected(e) /\ m = j
      BY <1>1, <2>1, <2>3, CallbackTracks DEF UserEvent, Handle, Consume, Track, Apply
    <2>4. CASE m # j
      <3>1. m \in mods => m \in mods'
        BY <1>1, <2>4, CallbackTracks DEF UserEvent, Handle, Consume, stateVars, Track, Apply
      <3>2. m \in held
        BY <1>1, <2>4 DEF Event
      <3>. QED BY <1>1, <2>4, <3>1, <3>2, BlameStays DEF ModsComplete
    <2>. QED BY <2>2, <2>3, <2>4
  <1>2. ASSUME NEW j \in scenario.keys, PressKey(j) PROVE ModsComplete'
    <2>1. Press(j) \in Event
      BY ChordsTyped DEF TypeOK, Uses, Press, Event
    <2>. QED BY <1>1, <1>2, <2>1, EventsTyped DEF PressKey, Press
  <1>3. ASSUME NEW j \in scenario.keys, ReleaseKey(j) PROVE ModsComplete'
    <2>1. Up(j) \in Event
      BY ChordsTyped DEF TypeOK, Uses, Up, Event
    <2>. QED BY <1>1, <1>3, <2>1, EventsTyped DEF ReleaseKey, Up
  <1>4. ASSUME Echo PROVE ModsComplete'
    <2>. SUFFICES ASSUME NEW m \in held' \cap Modifiers
                  PROVE  m \in mods' \/ Blamed({"mistaken", "stray", "cleared"}, {m})'
      BY DEF ModsComplete
    <2>1. blame \subseteq blame' /\ held' = held /\ Handle(Head(coming))
      BY <1>4 DEF Echo, userVars
    <2>2. CASE ~Expected(Head(coming)) /\ Head(coming).key = m
      <3>1. <<"stray", m>> \in blame'
        BY <1>4, <2>2 DEF Echo
      <3>. QED BY <3>1 DEF Blamed
    <2>3. CASE Expected(Head(coming)) \/ Head(coming).key # m
      <3>1. m \in mods => m \in mods'
        BY <2>1, <2>3, CallbackTracks DEF Handle, Consume, stateVars, Track, Apply
      <3>. QED BY <2>1, <3>1, BlameGrows DEF ModsComplete
    <2>. QED BY <2>2, <2>3
  <1>5. ASSUME Click PROVE ModsComplete'
    <2>. SUFFICES ASSUME NEW m \in held' \cap Modifiers
                  PROVE  m \in mods' \/ Blamed({"mistaken", "stray", "cleared"}, {m})'
      BY DEF ModsComplete
    <2>1. blame \subseteq blame' /\ held' = held
      BY <1>5 DEF Click
    <2>2. m \in mods /\ m \notin mods' => <<"cleared", m>> \in blame'
      BY <1>5, <2>1 DEF Click, stateVars
    <2>3. CASE m \in mods /\ m \notin mods'
      BY <2>2, <2>3 DEF Blamed
    <2>. QED BY <2>1, <2>3, BlameGrows DEF ModsComplete
  <1>6. ASSUME Switch \/ Begin \/ End \/ Skip \/ Simulate \/ SimulateFails \/ Expire \/ UNCHANGED vars
        PROVE  ModsComplete'
    <2>1. mods' = mods /\ held' = held /\ blame \subseteq blame'
      BY <1>6 DEF Switch, Begin, End, Skip, Simulate, SimulateFails, Expire, InjectUnchanged, stateVars,
         historyVars, vars, userVars
    <2>. QED BY <2>1, BlameGrows DEF ModsComplete
  <1>. QED BY <1>2, <1>3, <1>4, <1>5, <1>6 DEF Next

(* What the callback makes of a press it makes of the repeat: nothing.     *)
LEMMA QuietPress ==
    ASSUME NEW k \in Keys, Callback(Press(k)), UNCHANGED <<scenario, paused, suppressed>>
    PROVE  Quiet(k)'
  <1>. DEFINE e == Press(k)
  <1>1. mods' = Track(e) /\ e.key = k /\ e.press
    BY CallbackTracks DEF Press
  <1>2. /\ bound' = bound /\ Track(e)' = Track(e)
        /\ \A u \in Uses : Presses(u, e, Track(e))' <=> Presses(u, e, Track(e))
        /\ \A u \in {"ptt", "handsfree"} : Voices(u, e)' <=> Voices(u, e)
    BY <1>1 DEF bound, Track, Apply, Presses, Voices
  <1>3. Hotkeys(e)' <=> ~suppressed /\ (k \in swallowed' \/ Presses("hotkey", e, Track(e)))
    BY <1>1, <1>2 DEF Hotkeys, Uses
  <1>4. Presses("pause", e, Track(e))' <=> Presses("pause", e, Track(e))
    BY <1>2 DEF Uses
  <1>5. ASSUME PauseChord(e) PROVE Quiet(k)'
    BY <1>4, <1>5 DEF PauseChord, Quiet
  <1>6. ASSUME PassPaused(e) PROVE Quiet(k)'
    BY <1>4, <1>6 DEF PassPaused, Arrives, Quiet
  <1>7. ASSUME NEW u \in {"ptt", "handsfree"}, VoiceChord(u, e) PROVE Quiet(k)'
    <2>1. Voices(u, e) /\ u \in down' /\ ~Presses("pause", e, Track(e))
      BY <1>7 DEF VoiceChord, Arrives
    <2>2. \A v \in {"ptt", "handsfree"} : Voices(v, e) => v = u
      BY <2>1 DEF Voices
    <2>. QED BY <1>2, <1>4, <2>1, <2>2 DEF Quiet
  <1>8. ASSUME Typed(e)
        PROVE  /\ ~Presses("pause", e, Track(e))'
               /\ \A u \in {"ptt", "handsfree"} : ~Voices(u, e)'
    BY <1>2, <1>4, <1>8 DEF Typed, Arrives
  <1>9. ASSUME CompletionKey(e) PROVE Quiet(k)'
    <2>1. Completes(e)'
      BY <1>2, <1>9 DEF CompletionKey, Completes
    <2>. QED BY <1>8, <1>9, <2>1 DEF CompletionKey, Quiet
  <1>10. ASSUME PressHotkey(e) PROVE Quiet(k)'
    BY <1>1, <1>8, <1>10 DEF PressHotkey, Quiet
  <1>11. ASSUME TypeKey(e) PROVE Quiet(k)'
    <2>1. ~Hotkeys(e)'
      BY <1>1, <1>3, <1>11 DEF TypeKey, Hotkeys
    <2>. QED BY <1>8, <1>11, <2>1 DEF TypeKey, Quiet
  <1>. QED
    BY <1>1, <1>5, <1>6, <1>7, <1>9, <1>10, <1>11
    DEF Callback, StopTalk, EndsTalk, Releases, ReleaseInjecting, Release

LEMMA QuietStays ==
    ASSUME NEW k, Quiet(k), UNCHANGED <<scenario, mods, swallowed, assist, paused, suppressed>>,
           \A u \in {"pause", "ptt", "handsfree"} :
               u \in down /\ Presses(u, Press(k), Track(Press(k))) => u \in down'
    PROVE  Quiet(k)'
  <1>. DEFINE e == Press(k)
  <1>1. /\ bound' = bound /\ Track(e)' = Track(e)
        /\ \A u \in Uses : Presses(u, e, Track(e))' <=> Presses(u, e, Track(e))
    BY DEF bound, Track, Apply, Presses
  <1>2. /\ \A u \in {"ptt", "handsfree"} : Voices(u, e)' <=> Voices(u, e)
        /\ Completes(e)' <=> Completes(e)
        /\ Hotkeys(e)' <=> Hotkeys(e)
    BY <1>1 DEF Voices, Completes, Hotkeys, Uses
  <1>3. Presses("pause", e, Track(e))' <=> Presses("pause", e, Track(e))
    BY <1>1 DEF Uses
  <1>4. \A u \in {"ptt", "handsfree"} : Voices(u, e) => Presses(u, e, Track(e))
    BY DEF Voices
  <1>. QED BY <1>2, <1>3, <1>4 DEF Quiet

(* Another key's event that leaves the modifiers as they are resets no     *)
(* flag of a chord that k completes.                                       *)
LEMMA QuietOthers ==
    ASSUME KeyHookAssumption, TypeOK, NEW e \in Event, Handle(e), NEW k \in Keys, k # e.key, Quiet(k),
           UNCHANGED <<scenario, mods, swallowed, assist, paused, suppressed>>
    PROVE  Quiet(k)'
  <1>. SUFFICES ASSUME NEW u \in {"pause", "ptt", "handsfree"}, u \in down, u \notin down',
                       Presses(u, Press(k), Track(Press(k)))
                PROVE  FALSE
    BY QuietStays
  <1>1. Callback(e)
    BY DEF Handle, Consume, stateVars
  <1>2. ~e.press /\ u \in Lifted(e)
    <2>1. CASE e.press
      BY <1>1, <2>1 DEF Callback, StopTalk, EndsTalk, ReleaseInjecting, PauseChord, PassPaused,
         VoiceChord, CompletionKey, PressHotkey, TypeKey, Release, Lifted, Releases
    <2>2. CASE ~e.press
      BY <1>1, <2>2, ReleaseLifts
    <2>. QED BY <2>1, <2>2
  <1>3. e.key \in bound[u].mods \cup {bound[u].key}
    BY <1>2 DEF Lifted, Releases
  <1>4. /\ Track(Press(k)) = bound[u].mods
        /\ bound[u].key # None => k = bound[u].key
        /\ e.key \in Keys /\ None \notin Keys /\ bound[u].mods \subseteq Modifiers
    BY EventsTyped, ChordsTyped DEF Presses, Event, KeyHookAssumption, TypeOK, Uses
  <1>5. e.key \in bound[u].mods
    BY <1>3, <1>4
  <1>6. e.key \in mods
    <2>1. Track(Press(k)) \subseteq mods \cup {k}
      BY DEF Track, Apply, Press
    <2>. QED BY <1>4, <1>5, <2>1
  <1>7. mods' = mods \ {e.key}
    BY <1>1, <1>2, <1>4, <1>5, CallbackTracks DEF Track, Apply
  <1>. QED BY <1>6, <1>7

LEMMA QuietStep ==
    ASSUME KeyHookAssumption, TypeOK, TypeOK', RepeatsQuiet, [Next]_vars
    PROVE  RepeatsQuiet'
  <1>. DEFINE Looks == {"mistaken", "stray"}
  <1>. SUFFICES ASSUME latest' # None, latest' \notin shifted', ~Blamed(Looks, {latest})'
                PROVE  Quiet(latest)'
    BY DEF RepeatsQuiet
  <1>0. PICK k : k = latest'
    OBVIOUS
  <1>1. k \in held' /\ k \in Keys /\ k \notin shifted' /\ ~Blamed(Looks, {k})'
    BY <1>0 DEF TypeOK, Blamed
  <1>2. ASSUME NEW j \in scenario.keys, PressKey(j) PROVE Quiet(k)'
    <2>1. /\ k = j /\ UserEvent(Press(k)) /\ UNCHANGED <<scenario, paused, suppressed>>
      BY <1>0, <1>2 DEF PressKey, Press, UserEvent, modeVars
    <2>2. ASSUME Expected(Press(k)) PROVE FALSE
      <3>1. <<"mistaken", k>> \in blame'
        BY <2>1, <2>2, EventsTyped DEF UserEvent, Blames
      <3>. QED BY <1>1, <3>1 DEF Blamed
    <2>. QED BY <1>1, <2>1, <2>2, QuietPress DEF UserEvent, Handle, Consume
  <1>3. ASSUME latest = k, ~Blamed(Looks, {k}), k \notin shifted PROVE Quiet(k) /\ k \in held
    BY <1>1, <1>0, <1>3 DEF RepeatsQuiet, TypeOK, Blamed
  <1>4. ASSUME NEW j \in scenario.keys, ReleaseKey(j) PROVE Quiet(k)'
    <2>1. /\ k # j /\ latest = k /\ UserEvent(Up(j)) /\ Handle(Up(j))
          /\ UNCHANGED <<scenario, paused, suppressed>>
          /\ k \notin shifted /\ UNCHANGED <<mods, swallowed, assist>>
      BY <1>0, <1>1, <1>4 DEF ReleaseKey, Up, UserEvent, modeVars, Shift
    <2>2. Up(j) \in Event /\ Up(j).key = j
      BY ChordsTyped DEF TypeOK, Uses, Up, Event
    <2>3. ~Blamed(Looks, {k})
      BY <1>1, <2>1, <2>2, BlameStays
    <2>. QED BY <1>1, <1>3, <2>1, <2>2, <2>3, QuietOthers
  <1>5. ASSUME Echo PROVE Quiet(k)'
    <2>1. /\ latest = k /\ held' = held /\ Handle(Head(coming)) /\ Head(coming) \in Event
          /\ UNCHANGED <<scenario, paused, suppressed>>
          /\ k \notin shifted /\ UNCHANGED <<mods, swallowed, assist>>
          /\ blame \subseteq blame'
      BY <1>0, <1>1, <1>5 DEF Echo, userVars, modeVars, Shift, TypeOK
    <2>2. Quiet(k)
      BY <1>1, <1>3, <2>1, BlameGrows
    <2>3. CASE Consume(Head(coming))
      BY <2>1, <2>2, <2>3, QuietStays DEF Consume, stateVars
    <2>4. CASE ~Expected(Head(coming))
      <3>1. Head(coming).key # k
        <4>. SUFFICES ASSUME Head(coming).key = k PROVE FALSE
          OBVIOUS
        <4>1. <<"stray", k>> \in blame'
          BY <1>5, <2>4 DEF Echo
        <4>. QED BY <1>1, <4>1 DEF Blamed
      <3>. QED BY <1>1, <2>1, <2>2, <3>1, QuietOthers
    <2>. QED BY <2>1, <2>3, <2>4 DEF Handle
  <1>6. ASSUME Click \/ Switch \/ Begin \/ End \/ Skip \/ Simulate \/ SimulateFails \/ Expire
               \/ UNCHANGED vars
        PROVE  Quiet(k)'
    <2>. USE DEF Click, Switch, Begin, End, Skip, Simulate, SimulateFails, Expire, InjectUnchanged,
             vars, userVars, stateVars, modeVars, injectVars, historyVars
    <2>1. UNCHANGED <<scenario, held, latest, down>> /\ blame \subseteq blame'
      BY <1>6
    <2>2. k \notin shifted /\ UNCHANGED <<mods, swallowed, assist, paused, suppressed>>
      BY <1>1, <1>6, <2>1 DEF Shift
    <2>3. Quiet(k)
      BY <1>0, <1>1, <1>3, <2>1, <2>2, BlameGrows
    <2>. QED BY <2>1, <2>2, <2>3, QuietStays
  <1>7. Quiet(k)'
    BY <1>2, <1>4, <1>5, <1>6 DEF Next
  <1>. QED BY <1>0, <1>7

(* The first event of a press fires what the keys that are down call for.  *)
LEMMA FreshFires ==
    ASSUME KeyHookAssumption, TypeOK, IInv, ModsComplete, NEW k \in Keys, KeyInv(k), PressKey(k),
           k \notin held,
           ~Blamed({"mistaken", "stray", "cleared", "paused", "skipped"}, {k} \cup Modifiers)'
    PROVE  fired' = Due(k)
  <1>. DEFINE e == Press(k)
              C == {"mistaken", "stray", "cleared", "paused", "skipped"}
              P(u) == Presses(u, e, Track(e))
  <1>1. e \in Event /\ e.key = k /\ e.press /\ UserEvent(e) /\ blame \subseteq blame'
    BY DEF PressKey, UserEvent, Press, Event, Settled, Settles
  <1>2. \A b \in blame' : b[1] \in C => b[2] \notin {k} \cup Modifiers
    BY DEF Blamed
  <1>3. Callback(e)
    <2>1. ASSUME Expected(e) PROVE FALSE
      <3>1. <<"mistaken", k>> \in blame'
        BY <1>1, <2>1 DEF UserEvent, Blames
      <3>. QED BY <1>2, <3>1
    <2>. QED BY <1>1, <2>1 DEF UserEvent, Handle, Consume
  <1>4. mods = held \cap Modifiers
    <2>1. ASSUME NEW m \in mods PROVE m \in held
      BY <1>1, <1>2 DEF IInv, ModsHonest, Blamed, TypeOK
    <2>2. ASSUME NEW m \in held \cap Modifiers PROVE m \in mods
      BY <1>1, <1>2 DEF ModsComplete, Blamed
    <2>. QED BY <2>1, <2>2 DEF TypeOK
  <1>5. Track(e) = (held \cup {k}) \cap Modifiers
    BY <1>1, <1>4 DEF Track, Apply
  <1>6. ASSUME NEW u \in {"pause", "ptt", "handsfree"}, P(u) PROVE u \notin down
    <2>1. Belongs(u) \subseteq {k} \cup Modifiers
      BY <1>1, <1>6, ChordsTyped DEF Presses, Belongs, TypeOK, Uses
    <2>2. k \in Belongs(u)
      BY <1>1, <1>6, ChordsTyped, KeyHookAssumption
      DEF Presses, Belongs, TypeOK, Uses, KeyHookAssumption
    <2>3. ~Blamed({"mistaken", "stray", "skipped"}, Belongs(u))
      BY <1>1, <1>2, <2>1 DEF Blamed
    <2>. QED BY <2>2, <2>3 DEF IInv, FlagsHonest
  <1>7. k \notin swallowed
    <2>1. ~Blamed(Doubts, {k})
      BY <1>1, <1>2 DEF Blamed, Doubts
    <2>. QED BY <2>1 DEF KeyInv, SwallowedHeld
  <1>8. Due(k) = IF P("pause") THEN {"pause"}
                 ELSE IF paused \/ suppressed THEN {}
                 ELSE IF P("ptt") THEN {"ptt"}
                 ELSE IF P("handsfree") THEN {"handsfree"}
                 ELSE IF Completes(e) THEN {}
                 ELSE IF P("hotkey") THEN {"hotkey"} ELSE {}
    <2>1. Completes(e) <=> k = Tab /\ held \cap Modifiers = {} /\ assist # "off"
      BY <1>1, <1>5, KeyHookAssumption DEF Completes, KeyHookAssumption
    <2>. QED BY <1>5, <2>1 DEF Due, Press
  <1>9. CASE PauseChord(e)
    BY <1>6, <1>8, <1>9 DEF PauseChord
  <1>10. CASE PassPaused(e)
    BY <1>8, <1>10 DEF PassPaused, Arrives
  <1>11. ASSUME NEW u \in {"ptt", "handsfree"}, VoiceChord(u, e) PROVE fired' = Due(k)
    <2>1. /\ ~P("pause") /\ ~paused /\ ~suppressed /\ P(u)
          /\ u = "handsfree" => ~P("ptt")
          /\ fired' = {u} \ down
      BY <1>11 DEF VoiceChord, Arrives, Voices
    <2>. QED BY <1>6, <1>8, <2>1
  <1>12. ASSUME Typed(e)
         PROVE  /\ ~P("pause") /\ ~paused
                /\ ~suppressed => ~P("ptt") /\ ~P("handsfree")
    BY <1>12 DEF Typed, Arrives, Voices
  <1>13. CASE CompletionKey(e)
    BY <1>8, <1>12, <1>13 DEF CompletionKey
  <1>14. CASE PressHotkey(e)
    BY <1>1, <1>7, <1>8, <1>12, <1>14 DEF PressHotkey, Hotkeys
  <1>15. CASE TypeKey(e)
    BY <1>8, <1>12, <1>15 DEF TypeKey, Hotkeys
  <1>. QED
    BY <1>1, <1>3, <1>9, <1>10, <1>11, <1>13, <1>14, <1>15
    DEF Callback, StopTalk, EndsTalk, Releases, ReleaseInjecting, Release

(* The repeats of a press fire nothing. *)
LEMMA RepeatFiresNothing ==
    ASSUME NEW k \in Keys, Quiet(k), Handle(Press(k))
    PROVE  fired' = {}
  <1>. DEFINE e == Press(k)
  <1>1. e.key = k /\ e.press
    BY DEF Press
  <1>2. CASE Consume(e)
    BY <1>2 DEF Consume
  <1>3. CASE PauseChord(e)
    BY <1>3 DEF PauseChord, Quiet
  <1>4. ASSUME NEW u \in {"ptt", "handsfree"}, VoiceChord(u, e) PROVE fired' = {}
    BY <1>4 DEF VoiceChord, Arrives, Quiet
  <1>5. CASE PressHotkey(e)
    BY <1>1, <1>5 DEF PressHotkey, Typed, Arrives, Quiet
  <1>. QED
    BY <1>1, <1>2, <1>3, <1>4, <1>5
    DEF Handle, Callback, StopTalk, EndsTalk, Releases, ReleaseInjecting, Release, PassPaused,
        CompletionKey, TypeKey

(* A key that goes down fires the chord that the keys which are down make  *)
(* of it, and no other, and its repeats fire nothing, for every settings:  *)
(* the callback's modifiers are those that are down, its flags are those   *)
(* of chords still held, and the swallowed keys are down.                  *)
THEOREM ChordsFire == Spec => ChordFires
  <1>1. Init => ModsComplete /\ RepeatsQuiet
    BY DEF Init, ModsComplete, RepeatsQuiet
  <1>2. TypeOK /\ TypeOK' /\ ModsComplete /\ RepeatsQuiet /\ [Next]_vars
            => (ModsComplete /\ RepeatsQuiet)'
    BY CompleteStep, QuietStep, KeyHookAssumption
  <1>. DEFINE Fires ==
           \A k \in held' :
               /\ k \notin held =>
                     \/ fired' = Due(k)
                     \/ Blamed({"mistaken", "stray", "cleared", "paused", "skipped"},
                               {k} \cup Modifiers)'
               /\ (held' = held /\ inputs' # inputs /\ k = latest) =>
                     \/ fired' = {} \/ k \in shifted
                     \/ Blamed({"mistaken", "stray"}, {k})'
  <1>3. ASSUME TypeOK, TypeOK', IInv, StuckInv, ModsComplete, RepeatsQuiet, [Next]_vars PROVE Fires
    <2>1. ASSUME NEW k \in held', k \notin held
          PROVE  \/ fired' = Due(k)
                 \/ Blamed({"mistaken", "stray", "cleared", "paused", "skipped"}, {k} \cup Modifiers)'
      <3>1. PressKey(k) /\ k \in Keys
        <4>1. held' # held
          BY <2>1
        <4>2. k \in Keys
          BY <1>3, <2>1 DEF TypeOK
        <4>. QED
          BY <1>3, <2>1, <4>1, <4>2 DEF Next, PressKey, ReleaseKey, Click, Switch, Begin, End, Skip, Simulate,
             SimulateFails, Echo, Expire, InjectUnchanged, vars, userVars
      <3>. QED BY <1>3, <2>1, <3>1, FreshFires, KeyHookAssumption DEF StuckInv
    <2>2. ASSUME NEW k \in held', held' = held, inputs' # inputs, k = latest
          PROVE  fired' = {} \/ k \in shifted \/ Blamed({"mistaken", "stray"}, {k})'
      <3>1. k \in Keys /\ k # None
        BY <1>3, <2>2, KeyHookAssumption DEF TypeOK, KeyHookAssumption
      <3>2. CASE PressKey(k)
        <4>1. UserEvent(Press(k)) /\ Handle(Press(k)) /\ Press(k) \in Event
          BY <3>1, <3>2 DEF PressKey, UserEvent, Press, Event
        <4>2. Blamed({"mistaken", "stray"}, {k}) => Blamed({"mistaken", "stray"}, {k})'
          BY <4>1, BlameStays, EventsTyped DEF Settles
        <4>3. k \notin shifted /\ ~Blamed({"mistaken", "stray"}, {k}) => Quiet(k)
          BY <1>3, <2>2, <3>1 DEF RepeatsQuiet
        <4>. QED BY <3>1, <4>1, <4>2, <4>3, RepeatFiresNothing
      <3>3. CASE Click \/ Switch \/ Begin
        BY <3>3 DEF Click, Switch, Begin
      <3>. QED
        BY <1>3, <2>2, <3>2, <3>3 DEF Next, PressKey, ReleaseKey, End, Skip, Simulate, SimulateFails,
           Echo, Expire, vars, userVars
    <2>. QED BY <2>1, <2>2
  <1>4. ASSUME TypeOK, TypeOK', IInv, StuckInv, ModsComplete, RepeatsQuiet, [Next]_vars
        PROVE  [Fires]_vars
    BY <1>3, <1>4
  <1>. QED BY <1>1, <1>2, <1>4, KeyHookTyped, Accounted, KeysAccounted, PTL DEF Spec, ChordFires
================================================================================
