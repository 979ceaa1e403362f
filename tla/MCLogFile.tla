------------------------------ MODULE MCLogFile ------------------------------
(***************************************************************************)
(* Instances of LogFile for TLC: the daemon and one of its children.       *)
(***************************************************************************)
EXTENDS LogFile

CONSTANTS root, k1

==============================================================================
