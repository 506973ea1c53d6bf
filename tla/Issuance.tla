------------------------------ MODULE Issuance ------------------------------
(***************************************************************************)
(* What the holder decides about one offered credential: the envelope and  *)
(* cryptosuite gates and the verification outcome (verify_offered_entry in *)
(* holder.rs), and the slot it is stored under (stable_local_id in         *)
(* issuance.rs).                                                           *)
(***************************************************************************)
EXTENDS Exchange, Ports

CONSTANTS
  Enveloped,    \* those whose type is EnvelopedVerifiableCredential
  Char,         \* characters of an id, an issuer or a serialized credential
  Newline,      \* the character that separates issuer and id in a slot name
  IssuerOf,     \* issuer of a credential as a string, empty when absent
  IdOf,         \* id of a credential as a string, empty when absent
  ContentOf     \* the compact serialization of a credential

\* An issuer is a URI, and compact JSON escapes control characters: neither
\* holds a raw newline. Different credentials serialize differently.
ASSUME IssuanceAssumption ==
  /\ Enveloped \subseteq Credential
  /\ ProofHolds \subseteq Credential
  /\ Newline \in Char
  /\ \A c \in Credential :
       /\ IssuerOf[c] \in Seq(Char \ {Newline})
       /\ IdOf[c] \in Seq(Char)
       /\ ContentOf[c] \in Seq(Char \ {Newline})
  /\ \A c, d \in Credential : ContentOf[c] = ContentOf[d] => c = d

-----------------------------------------------------------------------------
\* Entries that are refused before any cryptography.
Recognized(c) == c \notin Enveloped /\ ~HasUnderivableSdBaseProof(c)

-----------------------------------------------------------------------------
(* The outcome for one entry.                                              *)

EntryOutcomes == {"Valid", "TimeBounded", "ProofInvalid", "Machinery",
                  "Unsupported", "DeriveFailed"}

OutcomeOf(answer) ==
  CASE answer = "Verified"      -> "Valid"
    [] answer = "ClaimsInvalid" -> "TimeBounded"
    [] answer = "ProofInvalid"  -> "ProofInvalid"
    [] answer = "Unsupported"   -> "Unsupported"
    [] answer = "Err"           -> "Machinery"

\* verify_offered_entry: an ecdsa-sd-2023 base proof is verified through a
\* full-reveal derivation, everything else directly.
VerifyOfferedEntry(c, derived, answer) ==
  IF ~Recognized(c) THEN "Unsupported"
  ELSE IF HasSdBaseProof(c) /\ derived = "Err" THEN "DeriveFailed"
  ELSE OutcomeOf(answer)

\* Mutant: a broken proof is treated like an expired credential.
StorableAnyProof == {"Valid", "TimeBounded", "ProofInvalid"}

\* Outcomes accept_offer goes on to store: an expired credential is kept.
StorableOutcomes == {"Valid", "TimeBounded"}

-----------------------------------------------------------------------------
\* Mutant: the issuer is left out of the name.
UnscopedLocalId(c) == IF IdOf[c] # <<>> THEN IdOf[c] ELSE ContentOf[c]

\* The v5 name of a credential's slot; the hash is taken to be injective.
StableLocalId(c) ==
  IF IdOf[c] # <<>> THEN IssuerOf[c] \o <<Newline>> \o IdOf[c] ELSE ContentOf[c]

StableIds == {StableLocalId(c) : c \in Credential}
=============================================================================
