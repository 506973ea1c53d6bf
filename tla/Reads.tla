------------------------------- MODULE Reads -------------------------------
(***************************************************************************)
(* The holder's reads beside its exchange: matched_credentials, which      *)
(* lists the store and gets it entry by entry, and offered_credentials,    *)
(* which verifies an offer entry by entry to preview it. Both work on a    *)
(* copy of what the session held when they began, while the calls of       *)
(* HolderSession go on changing session and store. One reader.             *)
(***************************************************************************)
EXTENDS HolderSession

CONSTANTS
  JsonLd,         \* the credentials that are JSON-LD VCs
  Wanted,         \* by ordinal of a request: the credentials its queries match
  ProvidedLists   \* what a host may hand to provide_credentials

ASSUME ReadsAssumption ==
  /\ JsonLd \subseteq Credential
  /\ Wanted \in [Ordinal -> SUBSET Credential]
  /\ ProvidedLists \subseteq SUBSET Credential

VARIABLES
  provided,  \* provided_credentials, behind its own mutex
  read       \* the read in progress

readVars == <<vars, provided, read>>

\* vpr or offer is the copy it works on, host the list it took from the host.
\* failed and steady are histories: the slots that could not be read, and those
\* that have not changed since they were listed.
IdleRead ==
  [pc |-> "idle", vpr |-> None, host |-> None, todo |-> {}, found |-> {},
   failed |-> {}, steady |-> {}, offer |-> None, verdicts |-> <<>>]

ReadInit == Init /\ provided = None /\ read = IdleRead

Occupied == {s \in StableIds : store[s] # None}

ProvideCredentials(list) ==
  /\ provided' = list
  /\ UNCHANGED <<vars, read>>

-----------------------------------------------------------------------------
(* matched_credentials. Without a request it returns nothing.              *)

BeginMatch ==
  /\ read.pc = "idle" /\ session.vpr # None
  /\ read' = [IdleRead EXCEPT !.pc = "list", !.vpr = session.vpr]
  /\ UNCHANGED <<vars, provided>>

\* Mutant: any stored format is offered for selection.
ShownAnyFormat(creds) == creds \cap Wanted[read.vpr.n]

Shown(creds) == creds \cap JsonLd \cap Wanted[read.vpr.n]

\* What the host provided takes the place of the store, also when it is empty.
MatchProvided ==
  /\ read.pc = "list" /\ provided # None
  /\ read' = [read EXCEPT !.pc = "shown", !.host = provided,
                            !.found = Shown(provided)]
  /\ UNCHANGED <<vars, provided>>

ListIds ==
  /\ read.pc = "list" /\ provided = None
  /\ read' = [read EXCEPT !.pc = "get", !.todo = Occupied, !.steady = Occupied]
  /\ UNCHANGED <<vars, provided>>

ListFails ==
  /\ read.pc = "list" /\ provided = None
  /\ read' = IdleRead
  /\ UNCHANGED <<vars, provided>>

GetEntry(s) ==
  /\ read.pc = "get" /\ s \in read.todo
  /\ read' = [read EXCEPT !.todo = @ \ {s}, !.found = @ \cup {store[s]}]
  /\ UNCHANGED <<vars, provided>>

\* Mutant: an entry that cannot be read ends the enumeration.
GetFailsForAll(s) ==
  /\ read.pc = "get" /\ s \in read.todo
  /\ read' = [read EXCEPT !.todo = {}, !.failed = @ \cup {s}]
  /\ UNCHANGED <<vars, provided>>

\* An entry that cannot be read is left out.
GetFails(s) ==
  /\ read.pc = "get" /\ s \in read.todo
  /\ read' = [read EXCEPT !.todo = @ \ {s}, !.failed = @ \cup {s}]
  /\ UNCHANGED <<vars, provided>>

MatchStored ==
  /\ read.pc = "get" /\ read.todo = {}
  /\ read' = [read EXCEPT !.pc = "shown", !.found = Shown(read.found)]
  /\ UNCHANGED <<vars, provided>>

-----------------------------------------------------------------------------
(* offered_credentials. Without an offer, or with one that holds nothing,  *)
(* it returns nothing.                                                     *)

BeginPreview ==
  /\ read.pc = "idle"
  /\ session.offer # None /\ session.offer.creds # <<>>
  /\ read' = [IdleRead EXCEPT !.pc = "preview", !.offer = session.offer]
  /\ UNCHANGED <<vars, provided>>

\* The hint for one entry.
OfferedValidity(c, derived, answer) ==
  IF c \in Enveloped THEN "Enveloped"
  ELSE LET verified == VerifyOfferedEntry(c, derived, answer) IN
       CASE verified \in {"Valid", "TimeBounded"}         -> verified
         [] verified \in {"ProofInvalid", "DeriveFailed"} -> "ProofInvalid"
         [] verified = "Machinery"                        -> "Unverifiable"
         [] verified = "Unsupported"                      -> "UnsupportedProof"

Unread == Len(read.verdicts) + 1

PreviewOf(c, derived, answer) ==
  /\ answer \in VerifyAnswers(c)
  /\ read' = [read EXCEPT !.verdicts = Append(@, OfferedValidity(c, derived, answer))]

\* Mutant: each entry is taken from the offer the session holds by then.
PreviewEntryOfCurrent(derived, answer) ==
  /\ read.pc = "preview" /\ Unread <= Len(read.offer.creds)
  /\ PreviewOf(IF session.offer # None /\ Unread <= Len(session.offer.creds)
               THEN session.offer.creds[Unread] ELSE read.offer.creds[Unread],
               derived, answer)
  /\ UNCHANGED <<vars, provided>>

\* No failure ends the preview.
PreviewEntry(derived, answer) ==
  /\ read.pc = "preview" /\ Unread <= Len(read.offer.creds)
  /\ PreviewOf(read.offer.creds[Unread], derived, answer)
  /\ UNCHANGED <<vars, provided>>

ShowPreview ==
  /\ read.pc = "preview" /\ Unread > Len(read.offer.creds)
  /\ read' = [read EXCEPT !.pc = "shown"]
  /\ UNCHANGED <<vars, provided>>

\* The read returns, or its future is dropped.
EndRead ==
  /\ read.pc = "shown" \/ (Cancellable /\ read.pc # "idle")
  /\ read' = IdleRead
  /\ UNCHANGED <<vars, provided>>

-----------------------------------------------------------------------------
\* A step of a call, which the reader only notices in what it reads later.
SessionStep ==
  /\ Next
  /\ read' = [read EXCEPT !.steady = {s \in @ : store'[s] = store[s]}]
  /\ UNCHANGED provided

ReadProgress ==
  \/ MatchProvided \/ ListIds \/ ListFails
  \/ \E s \in StableIds : GetEntry(s) \/ GetFails(s)
  \/ MatchStored
  \/ \E derived \in DeriveAnswers, answer \in EngineAnswers : PreviewEntry(derived, answer)
  \/ ShowPreview \/ EndRead

ReadNext ==
  \/ SessionStep
  \/ \E list \in ProvidedLists : ProvideCredentials(list)
  \/ BeginMatch \/ BeginPreview \/ ReadProgress

ReadSpec == ReadInit /\ [][ReadNext]_readVars
-----------------------------------------------------------------------------
(* Properties.                                                             *)

MatchesShown == read.pc = "shown" /\ read.vpr # None

\* "Enumerate swallows" the entries it cannot read, and these only: a
\* credential that lay in its slot from the listing to the end of the read, is
\* asked for and could be read is among the matches, whatever was stored or
\* overwritten in between (holder.rs 861).
NothingOverlooked ==
  MatchesShown =>
    \A s \in read.steady \ read.failed : Shown({store[s]}) \subseteq read.found

\* Whatever is offered for selection is a JSON-LD VC that the request wants,
\* and it comes from the host's list or was proven before it was stored: also
\* what an accept stored a moment ago that goes on to fail.
MatchesAreProven ==
  MatchesShown =>
    /\ read.found \subseteq JsonLd \cap Wanted[read.vpr.n]
    /\ IF read.host = None THEN \A c \in read.found : Proven(c)
       ELSE read.found \subseteq read.host

\* A preview speaks of one offer, though the session may turn to another while
\* it runs: an entry it calls valid or expired is one that accept_offer can
\* store, and one it calls enveloped is.
PreviewIsOfItsOffer ==
  read.offer # None =>
    \A i \in DOMAIN read.verdicts :
      /\ read.verdicts[i] \in {"Valid", "TimeBounded"} => Proven(read.offer.creds[i])
      /\ read.verdicts[i] = "Enveloped" <=> read.offer.creds[i] \in Enveloped
=============================================================================
