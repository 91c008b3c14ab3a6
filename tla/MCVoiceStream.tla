---------------------------- MODULE MCVoiceStream ----------------------------
(* Instances of VoiceStream for TLC. *)
EXTENDS VoiceStream, TLC

CONSTANTS s1, s2

TwoSessions == {s1, s2}
OneSession == {s1}

TwoAndOne == s1 :> 2 @@ s2 :> 1
TwoSamples == s1 :> 2
=============================================================================
