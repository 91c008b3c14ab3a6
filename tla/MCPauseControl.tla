---------------------------- MODULE MCPauseControl ----------------------------
(* PauseControl with each tray. *)
EXTENDS PauseControl

BothTrays == {"native", "linux"}
LinuxTray == {"linux"}
=============================================================================
