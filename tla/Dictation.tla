------------------------------- MODULE Dictation -------------------------------
(***************************************************************************)
(* What dictation promises: one recording at a time; a recording that is   *)
(* stopped ends in the text of all that was said, in an error, or in       *)
(* nothing; one that is cancelled never ends in text; and an ending is     *)
(* final.  A recording may come to harm on the way, and only then is its   *)
(* text of less, or of more, than was said.                                *)
(* VoiceStream implements this.                                            *)
(***************************************************************************)
EXTENDS Naturals

CONSTANTS Sessions, None, Failed, Skipped

VARIABLES phase,  \* of each recording
          said,   \* how much was said
          result, \* the text, Failed, Skipped, or None as long as there is none
          harmed  \* the recordings that came to harm

vars == <<phase, said, result, harmed>>

Init ==
    /\ phase = [s \in Sessions |-> "new"]
    /\ said = [s \in Sessions |-> 0]
    /\ result = [s \in Sessions |-> None]
    /\ harmed = {}

All(s) == [i \in 1..said[s] |-> <<s, i>>]

Harm == harmed \subseteq harmed'

Goes(s, from, to) ==
    /\ phase[s] = from
    /\ phase' = [phase EXCEPT ![s] = to]

Begin(s) ==
    /\ \A r \in Sessions : phase[r] \in {"new", "cancelled", "ended"}
    /\ Goes(s, "new", "recording")
    /\ UNCHANGED <<said, result, harmed>>

Say(s) ==
    /\ phase[s] = "recording"
    /\ said' = [said EXCEPT ![s] = @ + 1]
    /\ UNCHANGED <<phase, result, harmed>>

Stop(s) ==
    /\ Goes(s, "recording", "stopped")
    /\ UNCHANGED <<said, result, harmed>>

Cancel(s) ==
    /\ Goes(s, "recording", "cancelled")
    /\ UNCHANGED <<said, result, harmed>>

Ends(s, from, with) ==
    /\ Goes(s, from, "ended")
    /\ result' = [result EXCEPT ![s] = with]
    /\ Harm
    /\ UNCHANGED said

(* Too short: the recording ends as it stops. *)
Skip(s) == Ends(s, "recording", Skipped) \/ Ends(s, "stopped", Skipped)

Fail(s) == Ends(s, "stopped", Failed) \/ Ends(s, "cancelled", Failed)

Deliver(s) == Ends(s, "stopped", All(s))

(* The text of a recording that came to harm is anything. *)
Garble(s) == s \in harmed /\ result'[s] \notin {None, Failed, Skipped}
                          /\ Ends(s, "stopped", result'[s])

HarmDone == Harm /\ UNCHANGED <<phase, said, result>>

Next ==
    \/ \E s \in Sessions :
           \/ Begin(s) \/ Say(s) \/ Stop(s) \/ Cancel(s)
           \/ Skip(s) \/ Fail(s) \/ Deliver(s) \/ Garble(s)
    \/ HarmDone

Spec == Init /\ [][Next]_vars
=============================================================================
