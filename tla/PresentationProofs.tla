------------------------- MODULE PresentationProofs -------------------------
(***************************************************************************)
(* Proofs about Groups and Presentation, for any credentials, requests,    *)
(* selections and consents.                                                *)
(***************************************************************************)
EXTENDS Presentation, TLAPS, WellFoundedInduction

\* Before the group is resolved nothing has been gathered.
Untouched ==
  /\ todo = {} /\ present = {} /\ out = {}
  /\ paths = [c \in Credential |-> {}]
  /\ named = [c \in Credential |-> FALSE]

\* The queries that c answers and that have been gathered.
Gathered(c) == Asking(c) \ todo

\* What gathering has accumulated, and that nothing required was deselected.
Accumulated ==
  /\ todo \subseteq {i \in Group : IsExample(i)}
  /\ \A c \in Credential : paths[c] = UNION {Kept(i) : i \in Gathered(c)}
  /\ \A c \in Credential : named[c] <=> \E i \in Gathered(c) : NamesSubject(i)
  /\ \A i \in Group \ todo : IsExample(i) => ~RefusesSelection(i)

\* An entry is what its credential's gates call for.
EntryFor(c) == IF UsesDerivation(c) THEN DerivedEntry(c) ELSE EmbeddedEntry(c)

IInv ==
  /\ TypeOK
  /\ pc = "negotiate" => Untouched
  /\ pc = "gather" =>
       /\ out = {}
       /\ Accumulated
       /\ present = {c \in Credential : Gathered(c) # {}}
  /\ pc \in {"embed", "sign"} \/ out # {} =>
       /\ todo = {}
       /\ Accumulated
       /\ present = {c \in Credential : Gathered(c) # {} /\ ~LosesSubject(c)}
       /\ \A e \in out : e = EntryFor(e.cred)

-----------------------------------------------------------------------------
(* Group resolution.                                                       *)

\* A nonempty set of query indices has a least element.
LEMMA LeastIndex ==
  ASSUME NEW S \in SUBSET Nat, S # {}
  PROVE  \E i \in S : \A j \in S : i <= j
<1> DEFINE R == OpToRel(<, Nat)
<1>1. IsWellFoundedOn(R, Nat)
  BY NatLessThanWellFounded
<1>2. PICK i \in S : \A j \in S : <<j, i>> \notin R
  BY <1>1, WFMin
<1>3. ASSUME NEW j \in S PROVE i <= j
  <2>1. ~(j < i)
    BY <1>2 DEF OpToRel
  <2> QED BY <2>1
<1> QED BY <1>3

\* Of several groups of a request, one was seen first.
LEMMA FirstSeenType ==
  ASSUME NEW queries \in Seq(Query),
         NEW groups \in SUBSET PartitionGroups(queries), groups # {}
  PROVE  FirstSeen(groups) \in groups
<1> DEFINE S == UNION groups
<1>1. \A g \in groups : g # {} /\ g \subseteq DOMAIN queries
  BY DEF PartitionGroups, Members
<1>2. S \in SUBSET Nat /\ S # {}
  BY <1>1
<1>3. PICK i \in S : \A j \in S : i <= j
  BY <1>2, LeastIndex
<1>4. PICK g \in groups : i \in g
  OBVIOUS
<1>5. \E k \in g : \A h \in groups : \A j \in h : k <= j
  BY <1>3, <1>4
<1> QED
  BY <1>5 DEF FirstSeen

\* The selected group is satisfiable; it is none only when no group is, and it
\* brings a credential whenever some satisfiable group does.
THEOREM SelectionIsSound ==
  ASSUME NEW queries \in Seq(Query), NEW creds
  PROVE  LET g == SelectedGroup(queries, creds)
             satisfiable == SatisfiableGroups(queries, creds) IN
         /\ IF satisfiable = {} THEN g = {} ELSE g \in satisfiable
         /\ (\E h \in satisfiable : BringsCredential(queries, h, creds))
              => BringsCredential(queries, g, creds)
<1> DEFINE satisfiable == SatisfiableGroups(queries, creds)
           bringing == {g \in satisfiable : BringsCredential(queries, g, creds)}
<1>1. satisfiable \in SUBSET PartitionGroups(queries)
  BY DEF SatisfiableGroups
<1>2. CASE bringing # {}
  <2>1. FirstSeen(bringing) \in bringing
    BY <1>1, <1>2, FirstSeenType
  <2> QED
    BY <1>2, <2>1 DEF SelectedGroup
<1>3. CASE bringing = {} /\ satisfiable # {}
  <2>1. FirstSeen(satisfiable) \in satisfiable
    BY <1>1, <1>3, FirstSeenType
  <2> QED
    BY <1>3, <2>1 DEF SelectedGroup
<1>4. CASE satisfiable = {}
  BY <1>4 DEF SelectedGroup
<1> QED BY <1>2, <1>3, <1>4

-----------------------------------------------------------------------------
(* The data of one call.                                                   *)

\* The chosen group consists of indices of the request.
LEMMA GroupType ==
  ASSUME vpr \in Requests
  PROVE  /\ Group \subseteq DOMAIN vpr.query
         /\ \A i \in Group : vpr.query[i] \in Query
<1>1. vpr.query \in Seq(Query)
  BY PresentationAssumption DEF Vpr
<1>2. Group \subseteq DOMAIN vpr.query
  <2>1. Group = {} \/ Group \in PartitionGroups(vpr.query)
    BY <1>1, SelectionIsSound DEF Group, SatisfiableGroups
  <2> QED
    BY <2>1 DEF PartitionGroups, Members
<1> QED
  BY <1>1, <1>2

\* What a query of the group contributes has the right type.
LEMMA QueryType ==
  ASSUME vpr \in Requests, selected \in Selections, NEW i \in Group
  PROVE  /\ Named(i) \subseteq Path
         /\ Kept(i) \subseteq Named(i)
         /\ AnsweredBy(i) \subseteq selected \cap JsonLd
         /\ AnsweredBy(i) \subseteq Credential
<1>1. vpr.query[i] \in Query
  BY GroupType
<1>2. Named(i) \subseteq Path
  BY <1>1 DEF Named, Query, Alternative
<1> QED
  BY <1>2, PresentationAssumption DEF Kept, AnsweredBy, Matched

\* Both forms of an entry are entries.
LEMMA EntryType ==
  ASSUME NEW c \in Credential, paths \in [Credential -> SUBSET Path]
  PROVE  /\ DerivedEntry(c) \in Entry /\ DerivedEntry(c).cred = c
         /\ EmbeddedEntry(c) \in Entry /\ EmbeddedEntry(c).cred = c
<1>1. WholeSubject \in Path
  BY PresentationAssumption
<1>2. SuitesOf[c] \subseteq STRING
  BY CredentialsAssumption
<1> QED
  BY <1>1, <1>2 DEF DerivedEntry, EmbeddedEntry, Entry

-----------------------------------------------------------------------------
(* The induction.                                                          *)

LEMMA InitIInv == Init => IInv
<1> SUFFICES ASSUME Init PROVE IInv
  OBVIOUS
<1>1. Untouched
  BY DEF Init, Untouched
<1>2. TypeOK
  BY DEF Init, TypeOK, Option
<1> QED
  BY <1>1, <1>2 DEF Init, IInv, Untouched

\* Finishing keeps what has been built.
LEMMA FinishIInv ==
  ASSUME IInv, NEW kind \in Results, Finish(kind)
  PROVE  IInv'
<1>1. TypeOK'
  BY DEF IInv, TypeOK, Finish, inputs, Option, Group
<1>2. (pc \in {"embed", "sign"} \/ out # {})' => out # {}
  BY DEF Finish
<1>3. out # {} =>
       (/\ todo = {}
        /\ Accumulated
        /\ present = {c \in Credential : Gathered(c) # {} /\ ~LosesSubject(c)}
        /\ \A e \in out : e = EntryFor(e.cred))'
  BY DEF IInv, Finish, inputs, Accumulated, Gathered, Asking, Group, IsExample,
     AnsweredBy, Kept, Named, Consented, NamesSubject, RefusesSelection,
     LosesSubject, UsesDerivation, EntryFor, DerivedEntry, EmbeddedEntry
<1> QED
  BY <1>1, <1>2, <1>3 DEF IInv, Finish

\* While the inputs stand, what a query asks and yields stands.
LEMMA SameInputs ==
  ASSUME UNCHANGED inputs
  PROVE  /\ Group' = Group
         /\ \A i : /\ IsExample(i)' = IsExample(i)
                  /\ AnsweredBy(i)' = AnsweredBy(i)
                  /\ Named(i)' = Named(i)
                  /\ Kept(i)' = Kept(i)
                  /\ NamesSubject(i)' = NamesSubject(i)
                  /\ RefusesSelection(i)' = RefusesSelection(i)
         /\ \A c : /\ Asking(c)' = Asking(c)
                  /\ UsesDerivation(c)' = UsesDerivation(c)
BY DEF inputs, Group, IsExample, AnsweredBy, Named, Kept, Consented,
   NamesSubject, RefusesSelection, Asking, UsesDerivation

\* With everything still to do, nothing is accumulated.
LEMMA ResolveIInv ==
  ASSUME IInv, ResolveGroups
  PROVE  IInv'
<1>1. pc = "negotiate" /\ Untouched /\ UNCHANGED inputs
  BY DEF ResolveGroups, IInv
<1>2. \A c : Gathered(c)' = {}
  BY <1>1, SameInputs DEF Gathered, Asking, ResolveGroups
<1>3. Accumulated'
  BY <1>1, <1>2, SameInputs DEF Accumulated, ResolveGroups, Untouched
<1>4. out' = {} /\ present' = {} /\ pc' = "gather"
  BY <1>1 DEF ResolveGroups, Untouched
<1>5. TypeOK'
  BY <1>1, <1>4, SameInputs DEF IInv, TypeOK, ResolveGroups, inputs, Untouched
<1> QED
  BY <1>2, <1>3, <1>4, <1>5 DEF IInv

\* A gathered query adds what is kept of it to the credentials that answer it.
LEMMA GatherIInv ==
  ASSUME IInv, NEW i \in todo, GatherQuery(i)
  PROVE  IInv'
<1>1. /\ pc = "gather" /\ pc' = "gather" /\ out = {} /\ out' = {}
      /\ Accumulated /\ UNCHANGED inputs /\ TypeOK
      /\ todo' = todo \ {i}
      /\ i \in Group /\ IsExample(i) /\ ~RefusesSelection(i)
  BY DEF GatherQuery, NextQuery, IInv, Accumulated
<1>2. /\ Named(i) \subseteq Path /\ Kept(i) \subseteq Path
      /\ AnsweredBy(i) \subseteq selected \cap JsonLd
      /\ AnsweredBy(i) \subseteq Credential
  BY <1>1, QueryType DEF TypeOK
<1>3. ASSUME NEW c \in Credential
      PROVE  Gathered(c)' = IF c \in AnsweredBy(i) THEN Gathered(c) \cup {i}
                            ELSE Gathered(c)
  BY <1>1, SameInputs DEF Gathered, Asking
<1>4. \A c \in Credential : paths'[c] = UNION {Kept(j)' : j \in Gathered(c)'}
  <2> SUFFICES ASSUME NEW c \in Credential
               PROVE  paths'[c] = UNION {Kept(j) : j \in Gathered(c)'}
    BY <1>1, SameInputs
  <2>1. paths[c] = UNION {Kept(j) : j \in Gathered(c)}
    BY <1>1 DEF Accumulated
  <2>2. CASE c \in AnsweredBy(i)
    <3>1. paths'[c] = paths[c] \cup Kept(i)
      BY <2>2 DEF GatherQuery
    <3> QED
      BY <1>3, <2>1, <2>2, <3>1
  <2>3. CASE c \notin AnsweredBy(i)
    BY <1>3, <2>1, <2>3 DEF GatherQuery
  <2> QED BY <2>2, <2>3
<1>5. \A c \in Credential :
        named'[c] <=> \E j \in Gathered(c)' : NamesSubject(j)'
  <2> SUFFICES ASSUME NEW c \in Credential
               PROVE  named'[c] <=> \E j \in Gathered(c)' : NamesSubject(j)
    BY <1>1, SameInputs
  <2>1. named[c] <=> \E j \in Gathered(c) : NamesSubject(j)
    BY <1>1 DEF Accumulated
  <2>2. named'[c] <=> (named[c] \/ (c \in AnsweredBy(i) /\ NamesSubject(i)))
    BY DEF GatherQuery
  <2> QED
    BY <1>3, <2>1, <2>2
<1>6. Accumulated'
  <2>1. \A j \in (Group \ todo)' : IsExample(j)' => ~RefusesSelection(j)'
    BY <1>1, SameInputs DEF Accumulated
  <2>2. (todo \subseteq {j \in Group : IsExample(j)})'
    BY <1>1, SameInputs DEF Accumulated
  <2> QED
    BY <1>4, <1>5, <2>1, <2>2 DEF Accumulated
<1>7. present' = {c \in Credential : Gathered(c)' # {}}
  <2>1. present = {c \in Credential : Gathered(c) # {}}
    BY <1>1 DEF IInv
  <2>2. present' = present \cup AnsweredBy(i)
    BY DEF GatherQuery
  <2> QED
    BY <1>2, <1>3, <2>1, <2>2
<1>8. TypeOK'
  <2>1. paths' \in [Credential -> SUBSET Path]
    BY <1>1, <1>2 DEF TypeOK, GatherQuery
  <2>2. named' \in [Credential -> BOOLEAN]
    BY <1>1 DEF TypeOK, GatherQuery
  <2>3. present' \subseteq selected' \cap JsonLd
    BY <1>1, <1>2 DEF TypeOK, GatherQuery, inputs
  <2>4. todo' \subseteq Group'
    BY <1>1, SameInputs DEF TypeOK
  <2> QED
    BY <1>1, <2>1, <2>2, <2>3, <2>4 DEF TypeOK, GatherQuery, inputs
<1> QED
  BY <1>1, <1>6, <1>7, <1>8 DEF IInv

\* Dropping leaves the credentials that keep a part of their subject.
LEMMA DropIInv ==
  ASSUME IInv, DropDeselected
  PROVE  IInv'
<1>1. /\ pc = "gather" /\ pc' = "embed" /\ out = {} /\ out' = {}
      /\ todo = {} /\ todo' = {}
      /\ Accumulated /\ UNCHANGED inputs /\ TypeOK
      /\ UNCHANGED <<paths, named, result>>
      /\ present' = {c \in present : ~LosesSubject(c)}
      /\ present = {c \in Credential : Gathered(c) # {}}
  BY DEF DropDeselected, IInv
<1>2. \A c : Gathered(c)' = Gathered(c) /\ LosesSubject(c)' = LosesSubject(c)
  BY <1>1, SameInputs DEF Gathered, LosesSubject
<1>3. Accumulated'
  BY <1>1, <1>2, SameInputs DEF Accumulated
<1>4. TypeOK'
  BY <1>1, SameInputs DEF TypeOK, inputs
<1> QED
  BY <1>1, <1>2, <1>3, <1>4 DEF IInv

\* A step that adds the entry of a credential that has none yet.
LEMMA AddEntryIInv ==
  ASSUME IInv, pc = "embed", NEW c \in Rest, out' = out \cup {EntryFor(c)},
         UNCHANGED <<inputs, pc, todo, present, paths, named, result>>
  PROVE  IInv'
<1>1. TypeOK /\ c \in present /\ c \in Credential /\ \A e \in out : e.cred # c
  BY PresentationAssumption DEF IInv, TypeOK, Rest
<1>2. EntryFor(c) \in Entry /\ EntryFor(c).cred = c
  BY <1>1, EntryType DEF TypeOK, EntryFor
<1>3. TypeOK'
  BY <1>1, <1>2, SameInputs DEF TypeOK, inputs
<1>4. \A d : EntryFor(d)' = EntryFor(d)
  BY SameInputs DEF EntryFor, DerivedEntry, EmbeddedEntry
<1>5. \A d : Gathered(d)' = Gathered(d) /\ LosesSubject(d)' = LosesSubject(d)
  BY SameInputs DEF Gathered, LosesSubject
<1>6. Accumulated'
  BY <1>5, SameInputs DEF IInv, Accumulated
<1>7. \A e \in out' : e = EntryFor(e.cred)'
  BY <1>2, <1>4 DEF IInv
<1> QED
  BY <1>3, <1>5, <1>6, <1>7 DEF IInv

\* A step that only moves on from embedding to signing, or nowhere.
LEMMA MoveOnIInv ==
  ASSUME IInv,
         UNCHANGED <<inputs, todo, present, paths, named, out, result>>,
         pc' = pc \/ (pc = "embed" /\ pc' = "sign")
  PROVE  IInv'
<1>1. TypeOK'
  BY SameInputs DEF IInv, TypeOK, inputs
<1>2. /\ \A d : /\ EntryFor(d)' = EntryFor(d)
               /\ Gathered(d)' = Gathered(d)
               /\ LosesSubject(d)' = LosesSubject(d)
      /\ Untouched' = Untouched
  BY SameInputs DEF EntryFor, DerivedEntry, EmbeddedEntry, Gathered,
     LosesSubject, Untouched
<1>3. Accumulated' = Accumulated
  BY <1>2, SameInputs DEF Accumulated
<1> QED
  BY <1>1, <1>2, <1>3 DEF IInv

LEMMA NextIInv == IInv /\ [Next]_vars => IInv'
<1> SUFFICES ASSUME IInv, [Next]_vars PROVE IInv'
  OBVIOUS
<1>1. CASE Negotiate
  <2>1. CASE RefuseSuites
    BY <2>1, FinishIInv DEF RefuseSuites, Results
  <2>2. CASE RefuseMethods
    BY <2>2, FinishIInv DEF RefuseMethods, Results
  <2>3. CASE ResolveGroups
    BY <2>3, ResolveIInv
  <2> QED BY <1>1, <2>1, <2>2, <2>3 DEF Negotiate
<1>2. CASE Gather
  <2>1. PICK i \in todo : RefuseDeselected(i) \/ GatherQuery(i)
    BY <1>2 DEF Gather
  <2>2. CASE RefuseDeselected(i)
    BY <2>2, FinishIInv DEF RefuseDeselected, Results
  <2>3. CASE GatherQuery(i)
    BY <2>3, GatherIInv
  <2> QED BY <2>1, <2>2, <2>3
<1>3. CASE DropDeselected
  BY <1>3, DropIInv
<1>4. CASE Embed
  <2>1. PICK c \in present : \/ DeriveCredential(c) \/ DeriveFails(c)
                            \/ EmbedCredential(c) \/ RefuseProofs(c)
    BY <1>4 DEF Embed
  <2>2. CASE DeriveCredential(c)
    <3>1. EntryFor(c) = DerivedEntry(c)
      BY <2>2 DEF DeriveCredential, EntryFor
    <3> QED
      BY <2>2, <3>1, AddEntryIInv DEF DeriveCredential
  <2>3. CASE EmbedCredential(c)
    <3>1. EntryFor(c) = EmbeddedEntry(c)
      BY <2>3 DEF EmbedCredential, EntryFor
    <3> QED
      BY <2>3, <3>1, AddEntryIInv DEF EmbedCredential
  <2>4. CASE DeriveFails(c) \/ RefuseProofs(c)
    BY <2>4, FinishIInv DEF DeriveFails, RefuseProofs, Results
  <2> QED BY <2>1, <2>2, <2>3, <2>4
<1>5. CASE Conclude
  <2>1. CASE RefuseMix \/ DecodeFails
    BY <2>1, FinishIInv DEF RefuseMix, DecodeFails, Results
  <2>2. CASE BuildPresentation
    BY <2>2, MoveOnIInv DEF BuildPresentation
  <2> QED BY <1>5, <2>1, <2>2 DEF Conclude
<1>6. CASE Sign
  BY <1>6, FinishIInv DEF Sign, SignPresentation, SigningFails, Results
<1>7. CASE UNCHANGED vars
  BY <1>7, MoveOnIInv DEF vars, inputs
<1> QED
  BY <1>1, <1>2, <1>3, <1>4, <1>5, <1>6, <1>7 DEF Next

\* What build_and_sign_vp has gathered so far, at every step of its loops.
THEOREM Induction == Spec => []IInv
BY InitIInv, NextIInv, PTL DEF Spec

-----------------------------------------------------------------------------
(* What follows from the invariant.                                        *)

\* What is known of an entry of the presentation.
LEMMA EntryFacts ==
  ASSUME IInv, NEW e \in out
  PROVE  /\ e = EntryFor(e.cred)
         /\ e.cred \in Credential
         /\ Asking(e.cred) # {}
         /\ ~LosesSubject(e.cred)
         /\ paths[e.cred] = UNION {Kept(i) : i \in Asking(e.cred)}
         /\ named[e.cred] <=> \E i \in Asking(e.cred) : NamesSubject(i)
         /\ \A i \in Asking(e.cred) : ~RefusesSelection(i)
<1>1. /\ todo = {} /\ Accumulated /\ TypeOK
      /\ present = {c \in Credential : Gathered(c) # {} /\ ~LosesSubject(c)}
      /\ e = EntryFor(e.cred)
  BY DEF IInv
<1>2. e.cred \in present
  BY <1>1 DEF TypeOK
<1>3. Gathered(e.cred) = Asking(e.cred)
  BY <1>1 DEF Gathered
<1>4. \A i \in Asking(e.cred) : i \in Group \ todo /\ IsExample(i)
  BY <1>1 DEF Asking
<1> QED
  BY <1>1, <1>2, <1>3, <1>4 DEF Accumulated

\* An entry is derived exactly when both gates hold for its credential.
LEMMA DerivedFacts ==
  ASSUME IInv, NEW e \in out
  PROVE  /\ e.derived <=> UsesDerivation(e.cred)
         /\ e.derived =>
              /\ e.reveals = paths[e.cred] \cup
                    (IF named[e.cred] THEN {} ELSE {WholeSubject})
              /\ e.proofs = {}
         /\ ~e.derived =>
              /\ e.reveals = Path
              /\ e.proofs = SuitesOf[e.cred] \cap PRESENTABLE_PROOFS
BY EntryFacts DEF EntryFor, DerivedEntry, EmbeddedEntry

\* The state of a call is well typed and nothing is presented twice or unasked.
THEOREM PresentationTypeCorrect == Spec => []TypeOK
<1>1. IInv => TypeOK
  BY DEF IInv
<1> QED BY <1>1, Induction, PTL

\* A derivation never reveals more than was named and consented to.
THEOREM ConsentIsRespected == Spec => []DisclosesOnlyConsented
<1>1. IInv => DisclosesOnlyConsented
  <2> SUFFICES ASSUME IInv, NEW e \in out, e.derived, NEW p \in e.reveals
               PROVE  \/ \E i \in Asking(e.cred) : p \in Named(i) /\ Consented(i, p)
                      \/ /\ p = WholeSubject
                         /\ \A i \in Asking(e.cred) : ~NamesSubject(i)
    BY DEF DisclosesOnlyConsented
  <2>1. CASE p \in paths[e.cred]
    BY <2>1, EntryFacts DEF Kept
  <2>2. CASE p \notin paths[e.cred]
    BY <2>2, EntryFacts, DerivedFacts
  <2> QED BY <2>1, <2>2
<1> QED BY <1>1, Induction, PTL

\* The verifier gets all that a required query names of every credential.
THEOREM RequirementIsMet == Spec => []RequiredIsDisclosed
<1>1. IInv => RequiredIsDisclosed
  <2> SUFFICES ASSUME IInv, NEW e \in out
               PROVE  /\ Asking(e.cred) # {}
                      /\ \A i \in Asking(e.cred) :
                           vpr.query[i].required => Named(i) \subseteq e.reveals
    BY DEF RequiredIsDisclosed
  <2>1. ASSUME NEW i \in Asking(e.cred), vpr.query[i].required
        PROVE  Named(i) \subseteq e.reveals
    <3>1. Kept(i) = Named(i)
      BY <2>1, EntryFacts DEF RefusesSelection
    <3>2. Kept(i) \subseteq paths[e.cred]
      BY EntryFacts
    <3>3. Named(i) \subseteq Path
      BY QueryType DEF IInv, TypeOK, Asking
    <3> QED
      BY <3>1, <3>2, <3>3, DerivedFacts
  <2> QED BY <2>1, EntryFacts
<1> QED BY <1>1, Induction, PTL

\* A derived credential has a subject.
THEOREM SubjectIsKept == Spec => []DerivedKeepsSubject
<1>1. IInv => DerivedKeepsSubject
  <2> SUFFICES ASSUME IInv, NEW e \in out, e.derived
               PROVE  e.reveals \cap SubjectPath # {}
    BY DEF DerivedKeepsSubject
  <2>1. named[e.cred] => paths[e.cred] \cap SubjectPath # {}
    BY EntryFacts, DerivedFacts DEF LosesSubject
  <2> QED
    BY <2>1, DerivedFacts, PresentationAssumption
<1> QED BY <1>1, Induction, PTL

\* Base proofs never leave, and selective disclosure never falls back to full.
THEOREM DisclosureNeverWidens == Spec => []NeverWidens
<1>1. PRESENTABLE_PROOFS \cap SD_BASE_PROOF_CRYPTOSUITES = {}
  BY DEF PRESENTABLE_PROOFS, SD_BASE_PROOF_CRYPTOSUITES
<1>2. IInv => NeverWidens
  <2> SUFFICES ASSUME IInv, NEW e \in out
               PROVE  /\ e.proofs \cap SD_BASE_PROOF_CRYPTOSUITES = {}
                      /\ "ecdsa-sd-2023" \in ListedSuites(vpr) /\ HasSdBaseProof(e.cred)
                           => e.derived
    BY DEF NeverWidens
  <2> QED
    BY <1>1, DerivedFacts DEF UsesDerivation, ListsSdSuite
<1> QED BY <1>2, Induction, PTL

\* A group that needs no credential never displaces one that brings one.
THEOREM NothingEclipsesACredential == Spec => []CredentialNotEclipsed
<1>1. IInv => CredentialNotEclipsed
  <2> SUFFICES ASSUME IInv, pc = "gather", todo = {},
                      NEW g \in SatisfiableGroups(vpr.query, selected),
                      BringsCredential(vpr.query, g, selected)
               PROVE  present # {}
    BY DEF CredentialNotEclipsed
  <2>1. TypeOK /\ present = {c \in Credential : Gathered(c) # {}}
    BY DEF IInv
  <2>2. vpr.query \in Seq(Query)
    BY <2>1, PresentationAssumption DEF TypeOK, Vpr
  <2>3. BringsCredential(vpr.query, Group, selected)
    BY <2>2, SelectionIsSound DEF Group
  <2>4. PICK i \in Group : IsExample(i) /\ AnsweredBy(i) # {}
    BY <2>3 DEF BringsCredential, IsExample, Satisfiable, AnsweredBy
  <2>5. PICK c \in AnsweredBy(i) : TRUE
    BY <2>4
  <2>6. c \in Credential /\ i \in Gathered(c)
    BY <2>1, <2>4, <2>5, QueryType DEF Gathered, Asking, TypeOK
  <2> QED BY <2>1, <2>6
<1> QED BY <1>1, Induction, PTL

\* The screen lists a field exactly when its query names it.
LEMMA ListedFields ==
  /\ \A i \in ExampleQueries : \A p \in Named(i) :
       \E f \in RequestedFields : f.path = p /\ f.query_index = i
  /\ \A f \in RequestedFields : f.path \in Named(f.query_index)
<1>1. ASSUME NEW i \in ExampleQueries, NEW p \in Named(i)
      PROVE  \E f \in RequestedFields : f.path = p /\ f.query_index = i
  <2> DEFINE f == [query_index |-> i, path |-> p, required |-> vpr.query[i].required]
  <2>1. f \in FieldsNamedBy(vpr.query[i].alternatives, i)
    BY <1>1 DEF FieldsNamedBy, Named
  <2>2. f \in RequestedFields
    BY <1>1, <2>1 DEF RequestedFields
  <2> QED BY <2>2
<1>2. ASSUME NEW f \in RequestedFields
      PROVE  f.path \in Named(f.query_index)
  <2>1. PICK i \in ExampleQueries : f \in FieldsNamedBy(vpr.query[i].alternatives, i)
    BY DEF RequestedFields
  <2>2. f.query_index = i /\ f.path \in Named(i)
    BY <2>1 DEF FieldsNamedBy, Named
  <2> QED BY <2>2
<1> QED BY <1>1, <1>2

\* What the screen leaves out is the whole subject and nothing else.
THEOREM OnlySubjectIsUnlisted == Spec => []ScreenOmitsOnlySubject
<1>1. ASSUME IInv, NEW e \in out
      PROVE  e.derived = UsesDerivation(e.cred)
  <2>1. e.derived \in BOOLEAN
    BY <1>1 DEF IInv, TypeOK, Entry
  <2>2. UsesDerivation(e.cred) \in BOOLEAN
    BY DEF UsesDerivation, ListsSdSuite, HasSdBaseProof
  <2> QED BY <1>1, <2>1, <2>2, DerivedFacts
<1>2. IInv => FlagsAreKept
  <2> SUFFICES ASSUME IInv, NEW e \in out, NEW i \in ExampleQueries,
                      NEW m \in MatchesShown(i), m.cred = e.cred
               PROVE  m.selective = e.derived
    BY DEF FlagsAreKept
  <2>1. m.selective = UsesDerivation(m.cred)
    BY DEF MatchesShown, UsesDerivation
  <2> QED BY <1>1, <2>1
<1>3. ASSUME IInv, NEW e \in out, e.derived
      PROVE  /\ e.reveals \subseteq Listed(e.cred) \cup {WholeSubject}
             /\ WholeSubject \in e.reveals \ Listed(e.cred) =>
                  /\ \A f \in RequestedFields :
                       f.query_index \in Asking(e.cred) => f.path \notin SubjectPath
                  /\ e.reveals \cap SubjectPath = {WholeSubject}
  <2>1. Asking(e.cred) \subseteq ExampleQueries
    BY <1>3, GroupType DEF IInv, TypeOK, Asking, ExampleQueries
  <2>2. ASSUME NEW p \in paths[e.cred]
        PROVE  p \in Listed(e.cred)
    <3>1. PICK i \in Asking(e.cred) : p \in Named(i)
      BY <1>3, <2>2, EntryFacts DEF Kept
    <3>2. PICK f \in RequestedFields : f.path = p /\ f.query_index = i
      BY <2>1, <3>1, ListedFields
    <3>3. \E m \in MatchesShown(i) : m.cred = e.cred
      <4> DEFINE m == [cred |-> e.cred,
                       selective |-> ListsSdSuite(vpr) /\ HasSdBaseProof(e.cred)]
      <4>1. m \in MatchesShown(i)
        BY <3>1, Zenon DEF Asking, MatchesShown
      <4>2. m.cred = e.cred
        OBVIOUS
      <4> QED BY <4>1, <4>2
    <3> QED BY <3>2, <3>3 DEF Listed
  <2>3. e.reveals = paths[e.cred] \cup (IF named[e.cred] THEN {} ELSE {WholeSubject})
    BY <1>3, DerivedFacts
  <2>4. ASSUME ~named[e.cred]
        PROVE  /\ \A i \in Asking(e.cred) : Named(i) \cap SubjectPath = {}
               /\ paths[e.cred] \cap SubjectPath = {}
    <3>1. \A i \in Asking(e.cred) : Named(i) \cap SubjectPath = {}
      BY <1>3, <2>4, EntryFacts DEF NamesSubject
    <3>2. paths[e.cred] \subseteq UNION {Named(i) : i \in Asking(e.cred)}
      BY <1>3, EntryFacts DEF Kept
    <3> QED BY <3>1, <3>2
  <2>5. ASSUME WholeSubject \in e.reveals, WholeSubject \notin Listed(e.cred)
        PROVE  ~named[e.cred]
    BY <2>2, <2>3, <2>5
  <2>6. ASSUME ~named[e.cred]
        PROVE  /\ \A f \in RequestedFields :
                    f.query_index \in Asking(e.cred) => f.path \notin SubjectPath
               /\ e.reveals \cap SubjectPath = {WholeSubject}
    BY <2>3, <2>4, <2>6, ListedFields, PresentationAssumption
  <2>7. e.reveals \subseteq Listed(e.cred) \cup {WholeSubject}
    BY <2>2, <2>3
  <2> QED BY <2>5, <2>6, <2>7
<1>4. IInv => ScreenOmitsOnlySubject
  BY <1>2, <1>3 DEF ScreenOmitsOnlySubject
<1> QED BY <1>4, Induction, PTL
=============================================================================
