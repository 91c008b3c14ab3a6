------------------------------ MODULE MCFastBuffer ------------------------------
(* Instances of FastBuffer for TLC. *)
EXTENDS FastBuffer

Letter == {"a"}
Blank == {" "}
TheChars == {"a", "!", " "}
=============================================================================
