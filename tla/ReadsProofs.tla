----------------------------- MODULE ReadsProofs -----------------------------
(***************************************************************************)
(* Proofs about Reads: what a read shows while any number of calls go on   *)
(* changing the session and the store. The reader adds nothing to what the *)
(* session may do, so the invariants of HolderSessionProofs hold beside it.*)
(***************************************************************************)
EXTENDS Reads, HolderSessionProofs

Hints == {"Valid", "TimeBounded", "ProofInvalid", "Unverifiable",
          "UnsupportedProof", "Enveloped"}

ReadState ==
  [pc : {"idle", "list", "get", "shown", "preview"}, vpr : Option(Vpr),
   host : Option(SUBSET Credential), todo : SUBSET StableIds,
   found : SUBSET Credential, failed : SUBSET StableIds,
   steady : SUBSET StableIds, offer : Option(Offer), verdicts : Seq(Hints)]

ReadType ==
  /\ provided \in Option(SUBSET Credential)
  /\ read \in ReadState

\* An enumeration so far: a listed slot is never emptied, and what lay still
\* is yet to be read, was read, or could not be.
Enumerated ==
  /\ read.pc \in {"list", "get"} => read.vpr # None /\ read.host = None
  /\ read.pc = "list" => read.steady = {} /\ read.found = {}
  /\ read.pc = "get" =>
       /\ \A s \in read.todo \cup read.steady : store[s] # None
       /\ \A c \in read.found : Proven(c)
       /\ \A s \in read.steady \ read.failed : s \in read.todo \/ store[s] \in read.found

\* A preview so far.
Previewed ==
  /\ read.pc \in {"idle", "preview"} => read.vpr = None
  /\ read.pc = "preview" => read.offer # None
  /\ read.offer # None => Len(read.verdicts) <= Len(read.offer.creds)

ReadInv ==
  /\ ReadType
  /\ Enumerated
  /\ Previewed
  /\ NothingOverlooked
  /\ MatchesAreProven
  /\ PreviewIsOfItsOffer

-----------------------------------------------------------------------------
(* The reader and the session.                                             *)

\* The reader takes no step of the session's.
THEOREM ReaderIsPassive == ReadSpec => Spec
<1>1. ReadInit => Init
  BY DEF ReadInit
<1>2. [ReadNext]_readVars => [Next]_vars
  BY DEF ReadNext, readVars, vars, SessionStep, ProvideCredentials, BeginMatch,
         BeginPreview, ReadProgress, MatchProvided, ListIds, ListFails, GetEntry,
         GetFails, MatchStored, PreviewEntry, ShowPreview, EndRead
<1> QED BY <1>1, <1>2, PTL DEF ReadSpec, Spec

\* No call empties a slot.
LEMMA SlotsStayFilled ==
  ASSUME IInv, WalletInv, [Next]_vars, NEW s \in StableIds, store[s] # None
  PROVE  store'[s] # None
<1>1. CASE store' = store
  BY <1>1
<1>2. CASE store' # store
  BY <1>2, OnlyStoreEntryStores, StoreKeepsFilled
<1> QED BY <1>1, <1>2

LEMMA IdleReadIsFine == IdleRead \in ReadState
<1>1. <<>> \in Seq(Hints)
  OBVIOUS
<1> QED BY <1>1 DEF IdleRead, ReadState, Option

\* A read that is not in progress shows nothing.
LEMMA IdleReadKeeps ==
  ASSUME provided' \in Option(SUBSET Credential), read' = IdleRead
  PROVE  ReadInv'
<1>1. ReadType'
  BY IdleReadIsFine DEF ReadType
<1>2. read'.pc = "idle" /\ read'.vpr = None /\ read'.offer = None
  BY DEF IdleRead
<1>3. NothingOverlooked' /\ MatchesAreProven'
  BY <1>2 DEF MatchesShown, NothingOverlooked, MatchesAreProven
<1> QED BY <1>1, <1>2, <1>3 DEF ReadInv, Enumerated, Previewed, PreviewIsOfItsOffer

LEMMA SessionKeepsReads ==
  ASSUME IInv, WalletInv, ReadInv, SessionStep
  PROVE  ReadInv'
<1> DEFINE still == {s \in read.steady : store'[s] = store[s]}
<1>1. read \in ReadState /\ provided' = provided /\ Next
  BY DEF ReadInv, ReadType, SessionStep
<1>2. /\ read' = [read EXCEPT !.steady = still] /\ still \subseteq read.steady
      /\ \A s \in still : store'[s] = store[s]
  BY DEF SessionStep
<1> HIDE DEF still
<1>3. /\ read' \in ReadState
      /\ read'.pc = read.pc /\ read'.vpr = read.vpr /\ read'.host = read.host
      /\ read'.todo = read.todo /\ read'.found = read.found
      /\ read'.failed = read.failed /\ read'.offer = read.offer
      /\ read'.verdicts = read.verdicts /\ read'.steady = still
  BY <1>1, <1>2 DEF ReadState
<1>4. \A s \in read.todo \cup read.steady : store[s] # None => store'[s] # None
  BY <1>1, SlotsStayFilled DEF ReadState
<1>5. ReadType' /\ Previewed'
  BY <1>1, <1>3 DEF ReadInv, ReadType, Previewed
<1>6. Enumerated'
  BY <1>2, <1>3, <1>4 DEF ReadInv, Enumerated
<1>7. NothingOverlooked'
  BY <1>2, <1>3 DEF ReadInv, NothingOverlooked, MatchesShown, Shown
<1>8. MatchesAreProven' /\ PreviewIsOfItsOffer'
  BY <1>3 DEF ReadInv, MatchesAreProven, MatchesShown, PreviewIsOfItsOffer
<1> QED BY <1>5, <1>6, <1>7, <1>8 DEF ReadInv

-----------------------------------------------------------------------------
(* matched_credentials.                                                    *)

\* What is shown to the caller comes from what was found.
LEMMA ShownIsWanted ==
  ASSUME NEW creds
  PROVE  Shown(creds) \subseteq creds \cap JsonLd \cap Wanted[read.vpr.n]
BY DEF Shown

LEMMA BeginKeeps ==
  ASSUME IInv, ReadInv, BeginMatch \/ BeginPreview
  PROVE  ReadInv'
<1>1. /\ provided' = provided /\ store' = store /\ session \in ExchangeState
      /\ provided \in Option(SUBSET Credential)
  BY DEF BeginMatch, BeginPreview, vars, IInv, TypeOK, ReadInv, ReadType
<1>2. CASE BeginMatch
  <2> DEFINE r == [IdleRead EXCEPT !.pc = "list", !.vpr = session.vpr]
  <2>1. read' = r /\ session.vpr # None /\ session.vpr \in Option(Vpr)
    BY <1>1, <1>2 DEF BeginMatch, ExchangeState
  <2>2. r \in ReadState
    BY <2>1, IdleReadIsFine DEF ReadState, IdleRead
  <2>3. /\ r.pc = "list" /\ r.vpr = session.vpr /\ r.host = None
        /\ r.steady = {} /\ r.found = {} /\ r.offer = None
    BY DEF IdleRead
  <2> HIDE DEF r
  <2>4. ReadType' /\ Enumerated' /\ Previewed'
    BY <1>1, <2>1, <2>2, <2>3 DEF ReadType, Enumerated, Previewed
  <2>5. NothingOverlooked' /\ MatchesAreProven' /\ PreviewIsOfItsOffer'
    BY <2>1, <2>3 DEF MatchesShown, NothingOverlooked, MatchesAreProven, PreviewIsOfItsOffer
  <2> QED BY <2>4, <2>5 DEF ReadInv
<1>3. CASE BeginPreview
  <2> DEFINE r == [IdleRead EXCEPT !.pc = "preview", !.offer = session.offer]
  <2>1. read' = r /\ session.offer # None /\ session.offer \in Option(Offer)
    BY <1>1, <1>3 DEF BeginPreview, ExchangeState
  <2>2. r \in ReadState
    BY <2>1, IdleReadIsFine DEF ReadState, IdleRead
  <2>3. /\ r.pc = "preview" /\ r.vpr = None /\ r.offer = session.offer
        /\ r.verdicts = <<>>
    BY DEF IdleRead
  <2>4. Len(session.offer.creds) \in Nat
    BY <2>1 DEF Option, Offer
  <2> HIDE DEF r
  <2>5. ReadType' /\ Enumerated' /\ Previewed'
    BY <1>1, <2>1, <2>2, <2>3, <2>4 DEF ReadType, Enumerated, Previewed
  <2>6. NothingOverlooked' /\ MatchesAreProven' /\ PreviewIsOfItsOffer'
    BY <2>1, <2>3 DEF MatchesShown, NothingOverlooked, MatchesAreProven, PreviewIsOfItsOffer
  <2> QED BY <2>5, <2>6 DEF ReadInv
<1> QED BY <1>2, <1>3

LEMMA MatchProvidedKeeps ==
  ASSUME IInv, ReadInv, MatchProvided
  PROVE  ReadInv'
<1>1. /\ read \in ReadState /\ provided \in SUBSET Credential /\ provided' = provided
      /\ store' = store /\ read.pc = "list" /\ provided # None
      /\ read.vpr # None /\ read.steady = {}
  BY DEF MatchProvided, ReadInv, ReadType, Enumerated, Option, vars
<1>2. read' = [read EXCEPT !.pc = "shown", !.host = provided, !.found = Shown(provided)]
  BY DEF MatchProvided
<1>3. Shown(provided) \subseteq provided \cap JsonLd \cap Wanted[read.vpr.n]
  BY ShownIsWanted
<1>4. /\ read'.pc = "shown" /\ read'.host = provided /\ read'.found = Shown(provided)
      /\ read'.vpr = read.vpr /\ read'.steady = {} /\ read'.offer = read.offer
      /\ read'.verdicts = read.verdicts
  BY <1>1, <1>2 DEF ReadState
<1>5. read' \in ReadState
  BY <1>1, <1>2, <1>3 DEF ReadState, Option
<1>6. ReadType' /\ Enumerated' /\ Previewed'
  BY <1>1, <1>4, <1>5 DEF ReadInv, ReadType, Enumerated, Previewed, Option
<1>7. NothingOverlooked'
  BY <1>4 DEF NothingOverlooked
<1>8. MatchesAreProven'
  BY <1>1, <1>3, <1>4 DEF MatchesAreProven
<1>9. PreviewIsOfItsOffer'
  BY <1>4 DEF ReadInv, PreviewIsOfItsOffer
<1> QED BY <1>6, <1>7, <1>8, <1>9 DEF ReadInv

LEMMA ListIdsKeeps ==
  ASSUME IInv, ReadInv, ListIds
  PROVE  ReadInv'
<1>1. /\ read \in ReadState /\ provided' = provided /\ store' = store
      /\ provided \in Option(SUBSET Credential) /\ read.pc = "list"
      /\ read.vpr # None /\ read.host = None /\ read.found = {}
  BY DEF ListIds, ReadInv, ReadType, Enumerated, vars
<1>2. read' = [read EXCEPT !.pc = "get", !.todo = Occupied, !.steady = Occupied]
  BY DEF ListIds
<1>3. Occupied \subseteq StableIds /\ \A s \in Occupied : store[s] # None
  BY DEF Occupied
<1> HIDE DEF Occupied
<1>4. /\ read' \in ReadState /\ read'.pc = "get" /\ read'.vpr = read.vpr
      /\ read'.host = None /\ read'.todo = Occupied /\ read'.steady = Occupied
      /\ read'.found = {} /\ read'.offer = read.offer
      /\ read'.verdicts = read.verdicts
  BY <1>1, <1>2, <1>3 DEF ReadState
<1>5. ReadType' /\ Enumerated' /\ Previewed'
  BY <1>1, <1>3, <1>4 DEF ReadInv, ReadType, Enumerated, Previewed
<1>6. NothingOverlooked' /\ MatchesAreProven' /\ PreviewIsOfItsOffer'
  BY <1>4 DEF ReadInv, MatchesShown, NothingOverlooked, MatchesAreProven,
              PreviewIsOfItsOffer
<1> QED BY <1>5, <1>6 DEF ReadInv

\* A slot is read or cannot be: either way it is dealt with.
LEMMA GetKeeps ==
  ASSUME IInv, WalletInv, ReadInv, NEW s \in StableIds, GetEntry(s) \/ GetFails(s)
  PROVE  ReadInv'
<1>1. /\ read \in ReadState /\ provided' = provided /\ store' = store
      /\ provided \in Option(SUBSET Credential) /\ read.pc = "get"
      /\ s \in read.todo /\ store \in [StableIds -> Option(Credential)]
  BY DEF GetEntry, GetFails, ReadInv, ReadType, vars, IInv, TypeOK
<1>2. store[s] \in Credential /\ Proven(store[s])
  BY <1>1 DEF ReadInv, Enumerated, WalletInv, OnlyProvenStored, Proven, Option
<1>3. /\ read' \in ReadState /\ read'.pc = "get" /\ read'.vpr = read.vpr
      /\ read'.host = read.host /\ read'.todo = read.todo \ {s}
      /\ read'.steady = read.steady /\ read'.offer = read.offer
      /\ read'.verdicts = read.verdicts
      /\ \/ read'.found = read.found \cup {store[s]} /\ read'.failed = read.failed
         \/ read'.found = read.found /\ read'.failed = read.failed \cup {s}
  <2>1. CASE GetEntry(s)
    <3>1. read' = [read EXCEPT !.todo = @ \ {s}, !.found = @ \cup {store[s]}]
      BY <2>1 DEF GetEntry
    <3> QED BY <1>1, <1>2, <3>1 DEF ReadState
  <2>2. CASE GetFails(s)
    <3>1. read' = [read EXCEPT !.todo = @ \ {s}, !.failed = @ \cup {s}]
      BY <2>2 DEF GetFails
    <3> QED BY <1>1, <3>1 DEF ReadState
  <2> QED BY <2>1, <2>2
<1>4. ReadType' /\ Previewed'
  BY <1>1, <1>3 DEF ReadInv, ReadType, Previewed
<1>5. Enumerated'
  BY <1>1, <1>2, <1>3 DEF ReadInv, Enumerated
<1>6. NothingOverlooked' /\ MatchesAreProven' /\ PreviewIsOfItsOffer'
  BY <1>3 DEF ReadInv, MatchesShown, NothingOverlooked, MatchesAreProven,
              PreviewIsOfItsOffer
<1> QED BY <1>4, <1>5, <1>6 DEF ReadInv

LEMMA MatchStoredKeeps ==
  ASSUME IInv, ReadInv, MatchStored
  PROVE  ReadInv'
<1>1. /\ read \in ReadState /\ provided' = provided /\ store' = store
      /\ provided \in Option(SUBSET Credential)
      /\ read.pc = "get" /\ read.todo = {} /\ read.vpr # None /\ read.host = None
  BY DEF MatchStored, ReadInv, ReadType, Enumerated, vars
<1>2. read' = [read EXCEPT !.pc = "shown", !.found = Shown(read.found)]
  BY DEF MatchStored
<1>3. Shown(read.found) \subseteq read.found \cap JsonLd \cap Wanted[read.vpr.n]
  BY ShownIsWanted
<1>4. /\ read' \in ReadState /\ read'.pc = "shown" /\ read'.vpr = read.vpr
      /\ read'.host = None /\ read'.found = Shown(read.found)
      /\ read'.steady = read.steady /\ read'.failed = read.failed
      /\ read'.offer = read.offer /\ read'.verdicts = read.verdicts
  BY <1>1, <1>2, <1>3 DEF ReadState
<1>5. ReadType' /\ Enumerated' /\ Previewed'
  BY <1>1, <1>4 DEF ReadInv, ReadType, Enumerated, Previewed
<1>6. NothingOverlooked'
  <2>1. \A t \in read.steady \ read.failed : store[t] \in read.found
    BY <1>1 DEF ReadInv, Enumerated
  <2> QED BY <1>1, <1>4, <2>1 DEF NothingOverlooked, Shown
<1>7. MatchesAreProven'
  BY <1>1, <1>3, <1>4 DEF ReadInv, Enumerated, MatchesAreProven
<1>8. PreviewIsOfItsOffer'
  BY <1>4 DEF ReadInv, PreviewIsOfItsOffer
<1> QED BY <1>5, <1>6, <1>7, <1>8 DEF ReadInv

-----------------------------------------------------------------------------
(* offered_credentials.                                                    *)

\* The hint tells an entry that can be stored, and an enveloped one.
LEMMA HintIsHonest ==
  ASSUME NEW c \in Credential, NEW derived \in DeriveAnswers,
         NEW answer \in VerifyAnswers(c)
  PROVE  /\ OfferedValidity(c, derived, answer) \in Hints
         /\ OfferedValidity(c, derived, answer) \in {"Valid", "TimeBounded"} => Proven(c)
         /\ OfferedValidity(c, derived, answer) = "Enveloped" <=> c \in Enveloped
<1> DEFINE verified == VerifyOfferedEntry(c, derived, answer)
<1>1. verified \in EntryOutcomes
  BY DEF VerifyOfferedEntry, OutcomeOf, EntryOutcomes, VerifyAnswers
<1>2. verified \in {"Valid", "TimeBounded"} => Proven(c)
  BY StorableIsProven DEF StorableOutcomes
<1> HIDE DEF verified
<1>3. c \notin Enveloped =>
        /\ verified \in {"Valid", "TimeBounded"} =>
             OfferedValidity(c, derived, answer) = verified
        /\ verified \notin {"Valid", "TimeBounded"} =>
             OfferedValidity(c, derived, answer) \in
               {"ProofInvalid", "Unverifiable", "UnsupportedProof"}
  BY <1>1 DEF OfferedValidity, EntryOutcomes, verified
<1>4. c \in Enveloped => OfferedValidity(c, derived, answer) = "Enveloped"
  BY DEF OfferedValidity
<1> QED BY <1>2, <1>3, <1>4 DEF Hints

LEMMA PreviewKeeps ==
  ASSUME IInv, ReadInv, NEW derived \in DeriveAnswers, NEW answer \in EngineAnswers,
         PreviewEntry(derived, answer)
  PROVE  ReadInv'
<1> DEFINE creds == read.offer.creds
           c == creds[Unread]
           hint == OfferedValidity(c, derived, answer)
<1>1. /\ read \in ReadState /\ provided' = provided /\ store' = store
      /\ provided \in Option(SUBSET Credential)
      /\ read.pc = "preview" /\ read.vpr = None /\ read.offer # None
      /\ Unread <= Len(creds) /\ answer \in VerifyAnswers(c)
  BY DEF PreviewEntry, PreviewOf, ReadInv, ReadType, Previewed, vars
<1>2. creds \in Seq(Credential) /\ read.verdicts \in Seq(Hints)
  BY <1>1 DEF ReadState, Option, Offer
<1>3. Unread = Len(read.verdicts) + 1 /\ Unread \in 1..Len(creds)
  BY <1>1, <1>2 DEF Unread
<1>4. c \in Credential
  BY <1>2, <1>3
<1>5. /\ hint \in Hints
      /\ hint \in {"Valid", "TimeBounded"} => Proven(c)
      /\ hint = "Enveloped" <=> c \in Enveloped
  BY <1>1, <1>4, HintIsHonest
<1>6. read' = [read EXCEPT !.verdicts = Append(read.verdicts, hint)]
  BY DEF PreviewEntry, PreviewOf
<1> HIDE DEF hint
<1>7. /\ read' \in ReadState /\ read'.pc = "preview" /\ read'.vpr = None
      /\ read'.offer = read.offer /\ read'.verdicts = Append(read.verdicts, hint)
  <2>1. Append(read.verdicts, hint) \in Seq(Hints)
    BY <1>2, <1>5
  <2> QED BY <1>1, <1>6, <2>1 DEF ReadState
<1>8. ReadType' /\ Enumerated' /\ Previewed'
  <2>1. Len(read'.verdicts) <= Len(creds)
    BY <1>2, <1>3, <1>7
  <2> QED BY <1>1, <1>7, <2>1 DEF ReadType, Enumerated, Previewed
<1>9. NothingOverlooked' /\ MatchesAreProven'
  BY <1>7 DEF MatchesShown, NothingOverlooked, MatchesAreProven
<1>10. PreviewIsOfItsOffer'
  <2>1. ASSUME NEW i \in DOMAIN read'.verdicts
        PROVE  /\ read'.verdicts[i] \in {"Valid", "TimeBounded"} => Proven(creds[i])
               /\ read'.verdicts[i] = "Enveloped" <=> creds[i] \in Enveloped
    <3>1. CASE i = Unread
      <4>1. read'.verdicts[i] = hint
        BY <1>2, <1>3, <1>7, <3>1
      <4> QED BY <1>5, <3>1, <4>1
    <3>2. CASE i # Unread
      <4>1. i \in DOMAIN read.verdicts /\ read'.verdicts[i] = read.verdicts[i]
        BY <1>2, <1>3, <1>7, <3>2
      <4> QED BY <1>1, <4>1 DEF ReadInv, PreviewIsOfItsOffer
    <3> QED BY <3>1, <3>2
  <2> QED BY <1>7, <2>1 DEF PreviewIsOfItsOffer
<1> QED BY <1>8, <1>9, <1>10 DEF ReadInv

LEMMA ShowKeeps ==
  ASSUME IInv, ReadInv, ShowPreview
  PROVE  ReadInv'
<1>1. /\ read \in ReadState /\ provided' = provided /\ store' = store
      /\ provided \in Option(SUBSET Credential) /\ read.vpr = None
      /\ read' = [read EXCEPT !.pc = "shown"]
  BY DEF ShowPreview, ReadInv, ReadType, Previewed, vars
<1>2. /\ read' \in ReadState /\ read'.pc = "shown" /\ read'.vpr = None
      /\ read'.offer = read.offer /\ read'.verdicts = read.verdicts
  BY <1>1 DEF ReadState
<1>3. ReadType' /\ Enumerated' /\ Previewed'
  BY <1>1, <1>2 DEF ReadInv, ReadType, Enumerated, Previewed
<1>4. NothingOverlooked' /\ MatchesAreProven' /\ PreviewIsOfItsOffer'
  BY <1>2 DEF ReadInv, MatchesShown, NothingOverlooked, MatchesAreProven,
              PreviewIsOfItsOffer
<1> QED BY <1>3, <1>4 DEF ReadInv

-----------------------------------------------------------------------------
LEMMA ProvideKeeps ==
  ASSUME IInv, ReadInv, NEW list \in ProvidedLists, ProvideCredentials(list)
  PROVE  ReadInv'
<1>1. /\ provided' \in Option(SUBSET Credential) /\ read' = read /\ store' = store
  BY ReadsAssumption DEF ProvideCredentials, vars, Option
<1> QED BY <1>1 DEF ReadInv, ReadType, Enumerated, Previewed, NothingOverlooked,
                    MatchesShown, Shown, MatchesAreProven, PreviewIsOfItsOffer

LEMMA ReadNextKeeps ==
  ASSUME IInv, WalletInv, ReadInv, [ReadNext]_readVars
  PROVE  ReadInv'
<1>1. CASE UNCHANGED readVars
  BY <1>1 DEF readVars, vars, ReadInv, ReadType, Enumerated, Previewed,
              NothingOverlooked, MatchesShown, Shown, MatchesAreProven,
              PreviewIsOfItsOffer
<1>2. CASE ListFails \/ EndRead
  BY <1>2, IdleReadKeeps DEF ListFails, EndRead, ReadInv, ReadType
<1>3. CASE ReadProgress
  BY <1>2, <1>3, MatchProvidedKeeps, ListIdsKeeps, GetKeeps, MatchStoredKeeps,
     PreviewKeeps, ShowKeeps DEF ReadProgress
<1> QED BY <1>1, <1>3, SessionKeepsReads, ProvideKeeps, BeginKeeps DEF ReadNext

\* What a read has gathered so far (matched_credentials, offered_credentials).
THEOREM ReadInvariant == ReadSpec => []ReadInv
<1>1. ReadInit => ReadInv
  <2> SUFFICES ASSUME ReadInit PROVE ReadInv
    OBVIOUS
  <2>1. ReadType
    BY IdleReadIsFine DEF ReadInit, ReadType, Option
  <2>2. read.pc = "idle" /\ read.vpr = None /\ read.offer = None
    BY DEF ReadInit, IdleRead
  <2> QED BY <2>1, <2>2 DEF ReadInv, Enumerated, Previewed, MatchesShown,
          NothingOverlooked, MatchesAreProven, PreviewIsOfItsOffer
<1>2. IInv /\ WalletInv /\ ReadInv /\ [ReadNext]_readVars => ReadInv'
  BY ReadNextKeeps
<1> QED BY <1>1, <1>2, ReaderIsPassive, SessionInvariant, WalletInvariant, PTL
        DEF ReadSpec

\* Enumeration loses no entry but those it could not read.
THEOREM EnumerationIsComplete == ReadSpec => []NothingOverlooked
<1>1. ReadInv => NothingOverlooked
  BY DEF ReadInv
<1> QED BY <1>1, ReadInvariant, PTL

\* What is shown for selection was asked for, and proven before it was stored
\* unless the host provided it.
THEOREM ShownIsProven == ReadSpec => []MatchesAreProven
<1>1. ReadInv => MatchesAreProven
  BY DEF ReadInv
<1> QED BY <1>1, ReadInvariant, PTL

\* A preview speaks of the one offer it was taken from.
THEOREM PreviewIsFaithful == ReadSpec => []PreviewIsOfItsOffer
<1>1. ReadInv => PreviewIsOfItsOffer
  BY DEF ReadInv
<1> QED BY <1>1, ReadInvariant, PTL
=============================================================================
