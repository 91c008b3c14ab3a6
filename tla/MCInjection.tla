------------------------------ MODULE MCInjection ------------------------------
(* Instances of Injection for TLC: the jobs of each run. *)
EXTENDS Injection, TLC

CONSTANTS a, b, c

ThreeJobs == {a, b, c}

Job(kind, fast, erase, steps) ==
    [kind |-> kind, fast |-> fast, erase |-> erase, steps |-> steps]

Expand(steps) == Job("expand", FALSE, TRUE, steps)
FastText == Job("expand", TRUE, TRUE, <<"text">>)
Undo     == Job("undo", TRUE, FALSE, <<>>)
Stream   == Job("stream", FALSE, FALSE, <<"text", "text">>)
Lookup   == Job("lookup", FALSE, FALSE, <<"text">>)
Absent   == Job("absent", FALSE, FALSE, <<>>)

(* Between them every kind of job and of step: a mix of the pool's jobs    *)
(* with a stream; and the other steps beside a lookup, with Linux's        *)
(* typing fallback.                                                        *)
Mix ==
    [plan |-> a :> Expand(<<"text", "key", "html">>) @@ b :> Undo @@ c :> Stream,
     pool |-> 2, fallback |-> FALSE, maxAborts |-> 1, maxCopies |-> 2, maxFaults |-> 1]
StepsAndLookup ==
    [plan |-> a :> Expand(<<"delay", "image", "script", "text">>) @@ b :> Lookup
                @@ c :> Absent,
     pool |-> 2, fallback |-> TRUE, maxAborts |-> 2, maxCopies |-> 1, maxFaults |-> 2]
(* One worker: a job that clicks without end, one queued behind, a stream. *)
Endless ==
    [plan |-> a :> Expand(<<"text", "endless">>) @@ b :> Stream @@ c :> FastText,
     pool |-> 1, fallback |-> FALSE, maxAborts |-> 2, maxCopies |-> 1, maxFaults |-> 1]

Mixed == {Mix, StepsAndLookup, Endless}
=============================================================================
