------------------------------- MODULE MCChat -------------------------------
(* Instances of Chat for TLC. *)
EXTENDS Chat, TLC

CONSTANTS s1, s2
=============================================================================
