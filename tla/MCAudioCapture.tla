---------------------------- MODULE MCAudioCapture ----------------------------
(* Instances of AudioCapture for TLC. *)
EXTENDS AudioCapture

CONSTANTS h1, h2, d1, d2

TwoHandlers == {h1, h2}
TwoDevices == {d1, d2}
===============================================================================
