------------------------------ MODULE MCLogFile ------------------------------
(* Instances of LogFile for TLC. *)
EXTENDS LogFile

MCLens == {1, 4}
=============================================================================
