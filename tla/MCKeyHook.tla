------------------------------ MODULE MCKeyHook ------------------------------
EXTENDS KeyHook

CONSTANTS ctrl, alt, x, tab

FourKeys == {ctrl, alt, x, tab}
TwoModifiers == {ctrl, alt}

Down(k) == [key |-> k, press |-> TRUE]
Up(k) == [key |-> k, press |-> FALSE]
With(k, ms) == [key |-> k, mods |-> ms]
Unset == With(None, {})

AllUnset == [u \in Uses |-> Unset]

(* A hotkey whose expansion lets go of its modifier, next to a pause chord *)
HotkeyAndPause(p) ==
    [platform |-> p, keys |-> {ctrl, alt, x},
     bound |-> [AllUnset EXCEPT !["hotkey"] = With(x, {ctrl}), !["pause"] = With(x, {alt})],
     plan |-> <<Up(ctrl)>>, switches |-> {"paused", "click"}, inputs |-> 6]

(* Chords of modifiers for the voice, one within the other *)
VoiceChords(p) ==
    [platform |-> p, keys |-> {ctrl, alt},
     bound |-> [AllUnset EXCEPT !["ptt"] = With(None, {ctrl, alt}),
                                !["handsfree"] = With(None, {ctrl})],
     plan |-> <<Up(ctrl)>>, switches |-> {}, inputs |-> 6]

(* A voice key of its own, and an injection that presses it *)
VoiceKey(p) ==
    [platform |-> p, keys |-> {ctrl, x},
     bound |-> [AllUnset EXCEPT !["ptt"] = With(x, {ctrl}), !["handsfree"] = With(x, {})],
     plan |-> <<Down(x), Up(x)>>, switches |-> {"suppressed"}, inputs |-> 6]

(* A hotkey on the completion key *)
TabHotkey(p) ==
    [platform |-> p, keys |-> {ctrl, x, tab},
     bound |-> [AllUnset EXCEPT !["hotkey"] = With(tab, {ctrl})],
     plan |-> <<Down(x), Up(x)>>, switches |-> {}, inputs |-> 6]

(* Releases that the hotkeys do not see: while paused, at the end of a     *)
(* talk, under the popup; the next press finds the key still swallowed.    *)
ReleasedPaused ==
    [platform |-> "windows", keys |-> {x}, bound |-> [AllUnset EXCEPT !["hotkey"] = With(x, {})],
     plan |-> <<>>, switches |-> {"paused", "suppressed"}, inputs |-> 7]

ReleasedTalking ==
    [platform |-> "windows", keys |-> {ctrl, x},
     bound |-> [AllUnset EXCEPT !["hotkey"] = With(x, {ctrl}), !["ptt"] = With(x, {})],
     plan |-> <<>>, switches |-> {"suppressed"}, inputs |-> 8]

ReleasedCompleting ==
    [platform |-> "windows", keys |-> {x, tab},
     bound |-> [AllUnset EXCEPT !["hotkey"] = With(tab, {})],
     plan |-> <<>>, switches |-> {"suppressed"}, inputs |-> 7]

AllSettings ==
    UNION {{HotkeyAndPause(p), VoiceChords(p), VoiceKey(p), TabHotkey(p)}
               : p \in {"windows", "macos"}}
        \cup {ReleasedPaused, ReleasedTalking, ReleasedCompleting}
==============================================================================
