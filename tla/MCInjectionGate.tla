---------------------------- MODULE MCInjectionGate ----------------------------
(* Instances of InjectionGate for TLC. *)
EXTENDS InjectionGate

CONSTANTS t1, t2, s1, s2, s3, v1

TwoThreads == {t1, t2}
ThreeScopes == {s1, s2, s3}
OneView  == {v1}
=============================================================================
