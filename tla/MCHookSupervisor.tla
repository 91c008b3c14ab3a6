--------------------------- MODULE MCHookSupervisor ---------------------------
(* Instances of HookSupervisor for TLC. *)
EXTENDS HookSupervisor, TLC

CONSTANTS l1, l2, l3

ThreeListeners == {l1, l2, l3}

=============================================================================
