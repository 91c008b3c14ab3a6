----------------------------- MODULE MCVoiceSession -----------------------------
(* Instances of VoiceSession for TLC. *)
EXTENDS VoiceSession, TLC

CONSTANTS t1, t2

TwoThreads   == {t1, t2}

Limits(press, toggle, escape, lose, pause, fault) ==
    [k \in Kinds |-> CASE k = "press"  -> press
                       [] k = "toggle" -> toggle
                       [] k = "escape" -> escape
                       [] k = "lose"   -> lose
                       [] k = "pause"  -> pause
                       [] OTHER        -> fault]

MixLimit     == Limits(2, 1, 1, 1, 1, 1)
TapLimit     == Limits(1, 1, 0, 0, 0, 1)

Swaps == Permutations(Threads)
=============================================================================
