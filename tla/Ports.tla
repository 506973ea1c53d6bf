------------------------------- MODULE Ports -------------------------------
(***************************************************************************)
(* What the holder may be told by the host's VcalmLdEngine (ports.rs). It  *)
(* never calls a broken proof sound; a sound one may be outside its        *)
(* validity period, and either call may fail.                              *)
(***************************************************************************)
EXTENDS Credentials

CONSTANT ProofHolds    \* credentials whose issuer proof is sound

DeriveAnswers == {"Derived", "Err"}

EngineAnswers == {"Verified", "ClaimsInvalid", "ProofInvalid", "Unsupported", "Err"}

VerifyAnswers(c) ==
  {"Unsupported", "Err"} \cup
  (IF c \in ProofHolds THEN {"Verified", "ClaimsInvalid"} ELSE {"ProofInvalid"})
=============================================================================
