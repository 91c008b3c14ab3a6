-------------------------------- MODULE KeyHook --------------------------------
(***************************************************************************)
(* The hook callback of Windows and macOS: process_keyboard_event          *)
(* (hook/listener/mod.rs) sees every press, repeat and release before the  *)
(* focused window does and decides whether the window gets it.  It tracks  *)
(* the modifiers, keeps a flag per chord (pause, push to talk, hands-free) *)
(* so that a repeat does not fire it again, the set of hotkey keys whose   *)
(* release it owes nobody (input/hotkey_evaluator.rs), and takes the       *)
(* program's own simulated events for what they are by comparing them with *)
(* a queue (injector/simulate.rs).                                         *)
(*                                                                         *)
(* On macOS a simulated event comes back through the callback, after a     *)
(* while and in order.  On Windows the hook procedure lets it by           *)
(* (listener/windows.rs), so its entry stays in the queue until it         *)
(* expires.                                                                *)
(***************************************************************************)
EXTENDS Naturals, Sequences, FiniteSets

CONSTANTS Keys,
          Modifiers,    \* one key per modifier family
          Tab,          \* the key that cycles the completion popup
          None,
          Scenarios,    \* the settings and the injection checked, see Scenario
          MaxFaults     \* bound: simulated events the system refuses

Uses == {"pause", "ptt", "handsfree", "hotkey"}

(* A chord: a key with the modifiers it needs, or (key = None) just        *)
(* modifiers; an unset one has neither.                                    *)
Chord == [key : (Keys \ Modifiers) \cup {None}, mods : SUBSET Modifiers]

Event == [key : Keys, press : BOOLEAN]

Scenario == [platform : {"windows", "macos"},
             keys : SUBSET Keys,        \* those the user has to do with
             bound : [Uses -> Chord],
             plan : Seq(Event),         \* what an injection simulates
             switches : SUBSET {"paused", "suppressed", "click"},
             inputs : Nat]   \* bound: keys, clicks, switches and injections

(* An injection releases every key it presses (rdev_injector.rs). *)
Releasing(plan) ==
    \A i \in DOMAIN plan : plan[i].press =>
        \E j \in DOMAIN plan : j > i /\ plan[j] = [key |-> plan[i].key, press |-> FALSE]

ASSUME KeyHookAssumption ==
    /\ Modifiers \subseteq Keys /\ Tab \in Keys \ Modifiers /\ None \notin Keys
    /\ Scenarios \subseteq Scenario
    /\ \A s \in Scenarios, u \in {"pause", "hotkey"} :
           s.bound[u].key = None => s.bound[u].mods = {}
    /\ \A s \in Scenarios : Releasing(s.plan)
    /\ MaxFaults \in Nat

VARIABLES
    scenario,   \* constant
    held,       \* the keys that are down
    latest,     \* the key whose repeats the system sends, or None
    shown,      \* the keys the focused window takes for down
    mods,       \* left_ctrl_down and the other side flags
    down,       \* PAUSE_KEY_DOWN, PTT_KEY_DOWN, HANDSFREE_KEY_DOWN
    swallowed,  \* HotkeyEvaluator.swallowed_keys
    assist,     \* "off"; a word with completions is typed; the popup is open
    paused, suppressed, \* the pause flag; fullscreen_suppressed
    injecting,  \* IS_INJECTING
    todo,       \* events the injection has yet to simulate
    queue,      \* simulated_events
    coming,     \* macOS: simulated events on their way to the callback
    fired,      \* what the last callback set off
    inputs, faults, \* count towards MaxInputs, MaxFaults
    blame,      \* history: <<what went wrong, of which key>>
    shifted,    \* history: held keys during whose hold something changed
    diverged    \* history: why queue is not what is coming, see Divergences

userVars == <<held, latest, inputs>>
stateVars == <<mods, down, swallowed, assist>>
modeVars == <<paused, suppressed>>
injectVars == <<injecting, todo, faults>>
historyVars == <<blame, shifted, diverged>>
vars == <<scenario, userVars, shown, stateVars, modeVars, injectVars, queue, coming, fired,
          historyVars>>

bound == scenario.bound
MaxInputs == scenario.inputs

(* What puts the callback's picture of a key in doubt: its event was taken *)
(* for a simulated one; a simulated one was taken for its event; a click   *)
(* cleared a modifier that was down; it was let go of while paused; the    *)
(* end of a talk left the hands-free flag set, or it or the popup left the *)
(* key among the swallowed; the system refused to release it again.        *)
Causes == {"mistaken", "stray", "cleared", "paused", "skipped", "refused"}

(* A simulated event was refused while others were on their way; one was   *)
(* expired before it came; a key event was taken for one.                  *)
Divergences == {"refused", "late", "mistaken"}

Init ==
    /\ scenario \in Scenarios
    /\ held = {} /\ latest = None /\ shown = {} /\ inputs = 0
    /\ mods = {} /\ down = {} /\ swallowed = {} /\ assist = "off"
    /\ paused = FALSE /\ suppressed = FALSE
    /\ injecting = FALSE /\ todo = <<>> /\ faults = 0
    /\ queue = <<>> /\ coming = <<>>
    /\ fired = {}
    /\ blame = {} /\ shifted = {} /\ diverged = {}

-----------------------------------------------------------------------------
(* Chords *)

(* VoiceHotkeySpec::matches_press, is_pause_chord, the hotkey lookup, with *)
(* the modifiers m down.                                                   *)
Presses(u, e, m) ==
    /\ e.press
    /\ m = bound[u].mods
    /\ IF bound[u].key = None THEN e.key \in bound[u].mods ELSE e.key = bound[u].key

(* VoiceHotkeySpec::matches_release *)
Releases(u, e) == ~e.press /\ e.key \in bound[u].mods \cup {bound[u].key}

(* The window gets the event, or does not. *)
Apply(e, keys) == IF e.press THEN keys \cup {e.key} ELSE keys \ {e.key}
Pass(e) == shown' = Apply(e, shown)
Swallow == UNCHANGED shown

(* The side flags after an event. *)
Track(e) == IF e.key \in Modifiers THEN Apply(e, mods) ELSE mods

EndsTalk(e) == Releases("ptt", e) /\ "ptt" \in down

(* Mutant: under injection the releases are not looked at. *)
LiftedUnlessInjecting(e) ==
    {u \in down : ~injecting /\ \/ u = "pause" /\ ~e.press /\ e.key = bound[u].key
                                \/ u # "pause" /\ Releases(u, e)}

(* The flags a release resets, ahead of every early return; the end of a   *)
(* talk returns before the hands-free flag.                                *)
Lifted(e) ==
    {u \in down : \/ u = "pause" /\ ~e.press /\ e.key = bound[u].key
                  \/ u = "ptt" /\ Releases(u, e)
                  \/ u = "handsfree" /\ Releases(u, e) /\ ~EndsTalk(e)}

-----------------------------------------------------------------------------
(* The stages of the callback, in their order *)

(* Mutant: the release that ends a talk never reaches the window. *)
StopTalkSilently(e) ==
    /\ EndsTalk(e)
    /\ down' = down \ Lifted(e)
    /\ fired' = {"stop"}
    /\ Swallow
    /\ UNCHANGED <<swallowed, assist>>

(* stop_ptt in a thread of its own *)
StopTalk(e) ==
    /\ EndsTalk(e)
    /\ down' = down \ Lifted(e)
    /\ fired' = {"stop"}
    /\ IF e.key \in Modifiers THEN Pass(e) ELSE Swallow
    /\ UNCHANGED <<swallowed, assist>>

(* Mutant: the key is looked up but not removed. *)
ReleaseHotkeyKeeps(e) ==
    /\ IF e.key \in swallowed THEN Swallow ELSE Pass(e)
    /\ fired' = {}
    /\ UNCHANGED <<swallowed, assist>>

(* HotkeyEvaluator::on_key_release *)
ReleaseHotkey(e) ==
    /\ swallowed' = swallowed \ {e.key}
    /\ IF e.key \in swallowed THEN Swallow ELSE Pass(e)
    /\ fired' = {}
    /\ UNCHANGED assist

(* Under injection a release meets nothing but the hotkeys. *)
ReleaseInjecting(e) ==
    /\ ~EndsTalk(e) /\ ~e.press /\ injecting
    /\ down' = down \ Lifted(e)
    /\ ReleaseHotkey(e)

PauseChord(e) ==
    /\ Presses("pause", e, Track(e))
    /\ fired' = {"pause"} \ down
    /\ down' = down \cup {"pause"}
    /\ Swallow
    /\ UNCHANGED <<swallowed, assist>>

(* What is left once the early returns are past *)
Arrives(e) ==
    /\ ~EndsTalk(e)
    /\ e.press \/ ~injecting
    /\ ~Presses("pause", e, Track(e))

PassPaused(e) ==
    /\ Arrives(e) /\ paused
    /\ down' = down \ Lifted(e)
    /\ fired' = {}
    /\ Pass(e)
    /\ UNCHANGED <<swallowed, assist>>

Voices(u, e) ==
    /\ ~suppressed
    /\ Presses(u, e, Track(e))
    /\ u = "handsfree" => ~Presses("ptt", e, Track(e))

VoiceChord(u, e) ==
    /\ Arrives(e) /\ ~paused /\ Voices(u, e)
    /\ fired' = {u} \ down
    /\ down' = down \cup {u}
    /\ IF e.key \in Modifiers THEN Pass(e) ELSE Swallow
    /\ UNCHANGED <<swallowed, assist>>

(* A press that no voice chord takes *)
Typed(e) ==
    /\ Arrives(e) /\ ~paused /\ e.press
    /\ \A u \in {"ptt", "handsfree"} : ~Voices(u, e)

(* Tab cycles the popup, or opens it where a word has completions. *)
Completes(e) == e.key = Tab /\ Track(e) = {} /\ assist # "off"

CompletionKey(e) ==
    /\ Typed(e) /\ Completes(e)
    /\ assist' = "open"
    /\ fired' = {}
    /\ Swallow
    /\ UNCHANGED <<down, swallowed>>

(* HotkeyEvaluator::on_key_press *)
Hotkeys(e) == ~suppressed /\ (e.key \in swallowed \/ Presses("hotkey", e, Track(e)))

(* A Tab with modifiers cancels the popup first. *)
PressHotkey(e) ==
    /\ Typed(e) /\ ~Completes(e) /\ Hotkeys(e)
    /\ fired' = IF e.key \in swallowed THEN {} ELSE {"hotkey"}
    /\ swallowed' = swallowed \cup {e.key}
    /\ assist' = IF assist = "open" /\ e.key = Tab THEN "word" ELSE assist
    /\ Swallow
    /\ UNCHANGED down

(* The key reaches the engine and the window.  Tab ends what was typed, a  *)
(* character may open or close the popup.                                  *)
TypeKey(e) ==
    /\ Typed(e) /\ ~Completes(e) /\ ~Hotkeys(e)
    /\ fired' = {}
    /\ Pass(e)
    /\ IF e.key = Tab THEN assist' = "off"
       ELSE IF e.key \in Modifiers \/ Track(e) # {} THEN UNCHANGED assist
       ELSE assist' \in {"off", "word", "open"}
    /\ UNCHANGED <<down, swallowed>>

Release(e) ==
    /\ Arrives(e) /\ ~paused /\ ~e.press
    /\ down' = down \ Lifted(e)
    /\ IF assist = "open" /\ e.key = Tab
       THEN Swallow /\ fired' = {} /\ UNCHANGED <<swallowed, assist>>
       ELSE ReleaseHotkey(e)

(* All of it, for an event that is not taken for a simulated one *)
Callback(e) ==
    /\ mods' = Track(e)
    /\ \/ StopTalk(e)
       \/ ReleaseInjecting(e)
       \/ PauseChord(e)
       \/ PassPaused(e)
       \/ \E u \in {"ptt", "handsfree"} : VoiceChord(u, e)
       \/ CompletionKey(e)
       \/ PressHotkey(e)
       \/ TypeKey(e)
       \/ Release(e)

-----------------------------------------------------------------------------
(* The filter of simulated events *)

(* consume_simulated_event *)
Expected(e) == queue # <<>> /\ Head(queue) = e

Consume(e) ==
    /\ Expected(e)
    /\ queue' = Tail(queue)
    /\ fired' = {}
    /\ Pass(e)
    /\ UNCHANGED stateVars

Handle(e) ==
    \/ Consume(e)
    \/ /\ ~Expected(e)
       /\ Callback(e)
       /\ UNCHANGED queue

-----------------------------------------------------------------------------
(* The user *)

Input ==
    /\ inputs < MaxInputs
    /\ inputs' = inputs + 1

(* A release that the hotkeys do not see: it ends a talk, or the popup     *)
(* takes it.                                                               *)
Forgets(e) ==
    \/ EndsTalk(e)
    \/ ~e.press /\ ~injecting /\ ~paused /\ assist = "open" /\ e.key = Tab

(* What a key event of the user's leaves of, and adds to, the blame *)
Settles(e) == ~e.press /\ ~Expected(e) /\ (injecting \/ ~paused)

Blames(e) ==
    {c \in {"mistaken", "paused", "skipped"} :
        \/ c = "mistaken" /\ Expected(e)
        \/ /\ c = "paused" /\ ~e.press /\ ~Expected(e)
           /\ ~Settles(e) /\ e.key \in swallowed
        \/ /\ c = "skipped" /\ ~Expected(e)
           /\ \/ EndsTalk(e) /\ "handsfree" \in down /\ Releases("handsfree", e)
              \/ Forgets(e) /\ e.key \in swallowed}

Settled(e) ==
    {b \in blame : b[2] # e.key \/ ~Settles(e) \/ e.key \in shown' \/ coming # <<>>}

(* Something the callback goes by changed while the keys in "keys" are down. *)
Shift(keys) ==
    IF UNCHANGED <<mods, swallowed, assist>> THEN {} ELSE keys

UserEvent(e) ==
    /\ Handle(e)
    /\ blame' = Settled(e) \cup (Blames(e) \X {e.key})
    /\ diverged' = IF Expected(e) /\ coming # <<>> THEN diverged \cup {"mistaken"} ELSE diverged
    /\ UNCHANGED <<scenario, modeVars, injectVars, coming>>

(* A key goes down, or the system repeats the last one that did. *)
PressKey(k) ==
    /\ Input
    /\ k \in held => k = latest
    /\ held' = held \cup {k}
    /\ latest' = k
    /\ UserEvent([key |-> k, press |-> TRUE])
    /\ shifted' = (IF k \in held \cup shown THEN shifted ELSE shifted \ {k}) \cup Shift(held)

ReleaseKey(k) ==
    /\ Input
    /\ k \in held
    /\ held' = held \ {k}
    /\ latest' = IF latest = k THEN None ELSE latest
    /\ UserEvent([key |-> k, press |-> FALSE])
    /\ shifted' = shifted \cup Shift(held')

(* A mouse button: Windows keeps the modifiers that are down for the       *)
(* system, macOS forgets all.                                              *)
Click ==
    /\ "click" \in scenario.switches
    /\ Input
    /\ fired' = {}
    /\ IF paused THEN UNCHANGED <<stateVars, blame>>
       ELSE /\ mods' = IF scenario.platform = "windows" THEN mods \cap shown ELSE {}
            /\ swallowed' = {}
            /\ assist' = "off"
            /\ blame' = blame \cup ({"cleared"} \X ((mods \ mods') \cap held))
            /\ UNCHANGED down
    /\ UNCHANGED <<scenario, held, latest, shown, modeVars, injectVars, queue, coming, diverged>>
    /\ shifted' = shifted \cup Shift(held)

(* The flag of PauseControl; the fullscreen listener's *)
Switch ==
    /\ Input
    /\ \/ "paused" \in scenario.switches /\ paused' = ~paused /\ UNCHANGED suppressed
       \/ "suppressed" \in scenario.switches /\ suppressed' = ~suppressed /\ UNCHANGED paused
    /\ fired' = {}
    /\ shifted' = shifted \cup held
    /\ UNCHANGED <<scenario, held, latest, shown, stateVars, injectVars, queue, coming, blame,
                   diverged>>

-----------------------------------------------------------------------------
(* An injection, and the way of its events *)

InjectUnchanged == UNCHANGED <<scenario, held, latest, stateVars, modeVars>>

Begin ==
    /\ Input
    /\ ~injecting
    /\ injecting' = TRUE
    /\ todo' = scenario.plan
    /\ fired' = {}
    /\ UNCHANGED <<shown, faults, queue, coming, historyVars>>
    /\ InjectUnchanged

End ==
    /\ injecting /\ todo = <<>>
    /\ injecting' = FALSE
    /\ fired' = {}
    /\ UNCHANGED <<inputs, shown, todo, faults, queue, coming, historyVars>>
    /\ InjectUnchanged

(* pre_release_modifiers: Windows lets go only of what is down. *)
Needless(e) ==
    scenario.platform = "windows" /\ ~e.press /\ e.key \in Modifiers \ shown

Skip ==
    /\ todo # <<>> /\ Needless(Head(todo))
    /\ todo' = Tail(todo)
    /\ fired' = {}
    /\ UNCHANGED <<inputs, injecting, shown, faults, queue, coming, historyVars>>
    /\ InjectUnchanged

(* simulate_monitored: the event is queued, then handed to the system *)
Simulate ==
    /\ todo # <<>> /\ ~Needless(Head(todo))
    /\ todo' = Tail(todo)
    /\ queue' = Append(queue, Head(todo))
    /\ fired' = {}
    /\ IF scenario.platform = "windows"
       THEN Pass(Head(todo)) /\ UNCHANGED coming
       ELSE coming' = Append(coming, Head(todo)) /\ UNCHANGED shown
    /\ UNCHANGED <<inputs, injecting, faults, blame, shifted, diverged>>
    /\ InjectUnchanged

(* Mutant: the refused event stays queued. *)
ForgetEvent(e) == queue' = Append(queue, e)

(* simulate_monitored, refused: the entry goes if it is in front *)
TakeBack(e) ==
    queue' = IF Head(Append(queue, e)) = e THEN Tail(Append(queue, e)) ELSE Append(queue, e)

SimulateFails ==
    /\ todo # <<>> /\ ~Needless(Head(todo)) /\ faults < MaxFaults
    /\ faults' = faults + 1
    /\ todo' = Tail(todo)
    /\ TakeBack(Head(todo))
    /\ diverged' = IF queue = <<>> THEN diverged ELSE diverged \cup {"refused"}
    /\ blame' = IF Head(todo).press THEN blame ELSE blame \cup {<<"refused", Head(todo).key>>}
    /\ fired' = {}
    /\ UNCHANGED <<inputs, injecting, shown, coming, shifted>>
    /\ InjectUnchanged

(* macOS: a simulated event reaches the callback *)
Echo ==
    /\ coming # <<>>
    /\ coming' = Tail(coming)
    /\ Handle(Head(coming))
    /\ blame' = IF Expected(Head(coming)) THEN blame
                ELSE blame \cup {<<"stray", Head(coming).key>>}
    /\ diverged' = IF coming' = <<>> /\ queue' = <<>> THEN {} ELSE diverged
    /\ UNCHANGED <<scenario, userVars, modeVars, injectVars>>
    /\ shifted' = shifted \cup Shift(held)

(* prune_expired_simulated_events, which everyone calls before looking at  *)
(* the queue: n entries are older than SIMULATED_EVENT_TTL.                *)
Expire ==
    /\ \E n \in 1 .. Len(queue) : queue' = SubSeq(queue, n + 1, Len(queue))
    /\ diverged' = IF coming # <<>> THEN diverged \cup {"late"}
                   ELSE IF queue' = <<>> THEN {} ELSE diverged
    /\ fired' = {}
    /\ UNCHANGED <<inputs, shown, injectVars, coming, blame, shifted>>
    /\ InjectUnchanged

Next ==
    \/ \E k \in scenario.keys : PressKey(k) \/ ReleaseKey(k)
    \/ Click
    \/ Switch
    \/ Begin
    \/ End
    \/ Skip
    \/ Simulate
    \/ SimulateFails
    \/ Echo
    \/ Expire

Spec == Init /\ [][Next]_vars

-----------------------------------------------------------------------------
(* Properties *)

Blamed(causes, keys) == \E b \in blame : b[1] \in causes /\ b[2] \in keys

(* The chord a fresh press of k completes, by the keys that are down; the  *)
(* completion popup has its key before the hotkeys.                        *)
Due(k) ==
    LET e == [key |-> k, press |-> TRUE]
        Completed(u) == Presses(u, e, (held \cup {k}) \cap Modifiers)
    IN  IF Completed("pause") THEN {"pause"}
        ELSE IF paused \/ suppressed THEN {}
        ELSE IF Completed("ptt") THEN {"ptt"}
        ELSE IF Completed("handsfree") THEN {"handsfree"}
        ELSE IF k = Tab /\ held \cap Modifiers = {} /\ assist # "off" THEN {}
        ELSE IF Completed("hotkey") THEN {"hotkey"} ELSE {}

(* A key that goes down fires the chord it completes, and no other, by the *)
(* keys that are physically down; a repeat fires nothing.                  *)
ChordFires ==
    [][\A k \in held' :
          /\ k \notin held =>
                \/ fired' = Due(k)
                \/ Blamed({"mistaken", "stray", "cleared", "paused", "skipped"}, {k} \cup Modifiers)'
          /\ (held' = held /\ inputs' # inputs /\ k = latest) =>
                \/ fired' = {} \/ k \in shifted
                \/ Blamed({"mistaken", "stray"}, {k})']_vars

(* A flag that is set belongs to a chord that is still held: otherwise the *)
(* next press of the chord is taken for a repeat and does nothing, or a    *)
(* talk goes on without anybody holding its keys.                          *)
Belongs(u) == IF u = "pause" THEN {bound[u].key} ELSE (bound[u].mods \cup {bound[u].key}) \ {None}

FlagsHonest ==
    \A u \in down :
        \/ Belongs(u) \subseteq held
        \/ Blamed({"mistaken", "stray", "skipped"}, Belongs(u))

(* Once everything is delivered, the window holds no key down that the user *)
(* has let go of, whether a hotkey, a talk or the popup took its events,   *)
(* unless one of them was misjudged, or its last release was kept from the *)
(* hotkeys.                                                                *)
NoKeyStuck ==
    (todo = <<>> /\ coming = <<>>) =>
        \A k \in shown \ held :
            k \in shifted \/ Blamed(Causes \ {"cleared"}, {k})

(* A simulated event is taken for what it is. *)
EchoesIgnored == [][coming # <<>> /\ coming' = Tail(coming) =>
                        Expected(Head(coming)) \/ diverged # {}]_vars

TypeOK ==
    /\ scenario \in Scenarios
    /\ held \subseteq Keys /\ latest \in held \cup {None} /\ shown \subseteq Keys
    /\ mods \subseteq Modifiers
    /\ down \subseteq Uses \ {"hotkey"}
    /\ swallowed \subseteq Keys \ Modifiers
    /\ assist \in {"off", "word", "open"}
    /\ paused \in BOOLEAN /\ suppressed \in BOOLEAN /\ injecting \in BOOLEAN
    /\ todo \in Seq(Event) /\ queue \in Seq(Event) /\ coming \in Seq(Event)
    /\ fired \subseteq Uses \cup {"stop"}
    /\ inputs \in 0 .. MaxInputs /\ faults \in 0 .. MaxFaults
    /\ blame \subseteq Causes \X Keys
    /\ shifted \subseteq Keys
    /\ diverged \subseteq Divergences
================================================================================
