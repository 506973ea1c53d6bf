------------------------------ MODULE MCEngine ------------------------------
(***************************************************************************)
(* A small instance of Engine for TLC: two callers and two threads, one of *)
(* which may still run for a caller that was dropped; a sound credential,  *)
(* and a broken one of a remotely resolved issuer.                         *)
(***************************************************************************)
EXTENDS Engine

CONSTANTS sound, broken

MCSuitesOf == [c \in {sound, broken} |-> {}]
=============================================================================
