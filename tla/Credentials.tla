---------------------------- MODULE Credentials ----------------------------
(***************************************************************************)
(* What the holder tells apart about a stored or offered credential: the   *)
(* cryptosuites of its proofs (holder.rs). A proof without a cryptosuite   *)
(* goes by its type, one without either by any other name, and a           *)
(* credential without a proof field names none. An empty list of proofs    *)
(* counts as one of any other name too: no gate tells them apart.          *)
(***************************************************************************)

CONSTANTS
  None,        \* Rust's Option::None, and an unset field
  Credential,  \* credentials, known by their ids
  SuitesOf     \* the cryptosuites named by a credential's proofs

ASSUME CredentialsAssumption == SuitesOf \in [Credential -> SUBSET STRING]

Option(S) == S \cup {None}

SD_BASE_PROOF_CRYPTOSUITES == {"ecdsa-sd-2023", "bbs-2023"}
DERIVABLE_SD_CRYPTOSUITES == {"ecdsa-sd-2023"}

HasSdBaseProof(c) == SuitesOf[c] \cap DERIVABLE_SD_CRYPTOSUITES # {}

HasUnderivableSdBaseProof(c) ==
  SuitesOf[c] \cap (SD_BASE_PROOF_CRYPTOSUITES \ DERIVABLE_SD_CRYPTOSUITES) # {}
=============================================================================
