---------------------------- MODULE Presentation ----------------------------
(***************************************************************************)
(* build_and_sign_vp (holder.rs): from a request, the credentials the user *)
(* selected and the fields the user consented to disclose, to a signed     *)
(* verifiable presentation or an error. It runs on copies of its           *)
(* arguments, one call at a time, between BeginSubmit and SignVp of        *)
(* HolderSession. One step stands for one query gathered, or for one       *)
(* credential derived or embedded; the host's engine and signer may fail.  *)
(***************************************************************************)
EXTENDS Groups

CONSTANTS
  SubjectPath,   \* the paths at or below credentialSubject
  WholeSubject,  \* the path credentialSubject itself
  VersionOf,     \* the VCDM version of a credential
  Requests,      \* the requests a verifier may send
  Selections,    \* values of selected_credentials
  Consents       \* values of selected_fields: paths by query index

ASSUME PresentationAssumption ==
  /\ SubjectPath \subseteq Path
  /\ WholeSubject \in SubjectPath
  /\ VersionOf \in [Credential -> {1, 2}]
  /\ Requests \subseteq Vpr
  /\ Selections \subseteq SUBSET Credential
  /\ \A f \in Consents : f \in [DOMAIN f -> SUBSET Path]

VARIABLES
  vpr,       \* the request to answer
  selected,  \* selected_credentials
  fields,    \* selected_fields
  pc,        \* where build_and_sign_vp stands
  todo,      \* queries of the chosen group not gathered yet
  present,   \* the credentials to present
  paths,     \* present_paths, by credential
  named,     \* present_named_subject, by credential
  out,       \* presented_json: the entries of the presentation
  result     \* what is returned; "Signed" returns out in a signed VP

inputs == <<vpr, selected, fields>>
vars == <<vpr, selected, fields, pc, todo, present, paths, named, out, result>>

-----------------------------------------------------------------------------
(* Negotiation.                                                            *)

QueriesOf(v) == {v.query[i] : i \in DOMAIN v.query}

\* acceptedCryptosuites at any of its three placements.
ListedSuites(v) ==
  v.suites
  \cup UNION {q.suites : q \in QueriesOf(v)}
  \cup UNION {UNION {alt.suites : alt \in q.alternatives} : q \in QueriesOf(v)}

\* Mutant: the gate only reads the list at the top of the request.
ListsSdSuiteOnTop(v) == "ecdsa-sd-2023" \in v.suites

\* vpr_lists_sd_suite, the first of the two gates of selective disclosure.
ListsSdSuite(v) == "ecdsa-sd-2023" \in ListedSuites(v)

UnsupportedSuites(v) ==
  /\ ListedSuites(v) # {}
  /\ ListedSuites(v) \cap {"ecdsa-rdfc-2019", "ecdsa-sd-2023"} = {}

ListedMethods(v) == UNION {q.methods : q \in QueriesOf(v)}

UnsupportedMethods(v) == ListedMethods(v) # {} /\ "key" \notin ListedMethods(v)

-----------------------------------------------------------------------------
(* What a query names and what is left of it after the user's selection.   *)

Group == SelectedGroup(vpr.query, selected)

IsExample(i) == vpr.query[i].kind = "QueryByExample"

\* The credentials that answer query i.
AnsweredBy(i) == Matched(vpr.query[i], selected)

\* Across all credentialQuery alternatives of the query.
Named(i) == UNION {alt.names : alt \in vpr.query[i].alternatives}

NamesSubject(i) == Named(i) \cap SubjectPath # {}

\* A missing index means no narrowing; only subject paths narrow.
Consented(i, p) == (i \in DOMAIN fields /\ p \in SubjectPath) => p \in fields[i]

\* Mutant: consent to a path is taken from any query.
KeptByAnyConsent(i) ==
  {p \in Named(i) : Consented(i, p) \/ \E j \in DOMAIN fields : p \in fields[j]}

Kept(i) == {p \in Named(i) : Consented(i, p)}

\* Mutant: only a required query with nothing left is refused.
RefusedWhenEmpty(i) == vpr.query[i].required /\ Named(i) # {} /\ Kept(i) = {}

\* A required query may not lose a subject path.
RefusesSelection(i) == vpr.query[i].required /\ Kept(i) # Named(i)

-----------------------------------------------------------------------------
(* The screen on which the user selects and consents: the results of       *)
(* matched_credentials and of requested_fields, over every query of the    *)
(* request and not only those of the group that will be chosen.            *)

ExampleQueries == {i \in DOMAIN vpr.query : IsExample(i)}

\* Each match with its selective_disclosure flag.
MatchesShown(i) ==
  {[cred |-> c, selective |-> ListsSdSuite(vpr) /\ HasSdBaseProof(c)] : c \in AnsweredBy(i)}

FieldsNamedBy(alternatives, i) ==
  {[query_index |-> i, path |-> p, required |-> vpr.query[i].required] :
     p \in UNION {alt.names : alt \in alternatives}}

\* Mutant: the screen lists the fields of one alternative of each query.
RequestedFieldsOfOne ==
  UNION {FieldsNamedBy({CHOOSE alt \in vpr.query[i].alternatives : TRUE}, i) :
           i \in ExampleQueries}

RequestedFields ==
  UNION {FieldsNamedBy(vpr.query[i].alternatives, i) : i \in ExampleQueries}

-----------------------------------------------------------------------------
(* Entries of the presentation.                                            *)

PRESENTABLE_PROOFS ==
  {"ecdsa-rdfc-2019", "eddsa-rdfc-2022", "ecdsa-jcs-2019", "eddsa-jcs-2022",
   "Ed25519Signature2020", "Ed25519Signature2018"}

Entry == [cred : Credential, derived : BOOLEAN, reveals : SUBSET Path,
          proofs : SUBSET STRING]

\* What derive_selective_disclosure returns for the pointers it is given: the
\* engine is trusted to leave the stored proofs out. The whole subject is asked
\* for when no query named any part of it.
DerivedEntry(c) ==
  [cred |-> c, derived |-> TRUE, proofs |-> {},
   reveals |-> paths[c] \cup (IF named[c] THEN {} ELSE {WholeSubject})]

\* retain_presentable_proofs: the whole credential with its allowlisted proofs.
EmbeddedEntry(c) ==
  [cred |-> c, derived |-> FALSE, reveals |-> Path,
   proofs |-> SuitesOf[c] \cap PRESENTABLE_PROOFS]

\* A credential that has proofs, none of them allowlisted.
NoPresentableProof(c) ==
  SuitesOf[c] # {} /\ SuitesOf[c] \cap PRESENTABLE_PROOFS = {}

\* Both gates hold.
UsesDerivation(c) == ListsSdSuite(vpr) /\ HasSdBaseProof(c)

\* Mutant: a credential is dropped only when nothing at all is left of it.
NothingLeft(c) == UsesDerivation(c) /\ named[c] /\ paths[c] = {}

\* Every subject field its queries named was deselected: a derived credential
\* would have no credentialSubject.
LosesSubject(c) ==
  UsesDerivation(c) /\ named[c] /\ paths[c] \cap SubjectPath = {}

-----------------------------------------------------------------------------
Init ==
  /\ vpr \in Requests
  /\ selected \in Selections
  /\ fields \in Consents
  /\ pc = "negotiate"
  /\ todo = {}
  /\ present = {}
  /\ paths = [c \in Credential |-> {}]
  /\ named = [c \in Credential |-> FALSE]
  /\ out = {}
  /\ result = None

Finish(kind) ==
  /\ pc' = "done"
  /\ result' = kind
  /\ UNCHANGED <<inputs, todo, present, paths, named, out>>

RefuseSuites ==
  /\ pc = "negotiate"
  /\ UnsupportedSuites(vpr)
  /\ Finish("NoAcceptedCryptosuite")

RefuseMethods ==
  /\ pc = "negotiate"
  /\ ~UnsupportedSuites(vpr)
  /\ UnsupportedMethods(vpr)
  /\ Finish("NoAcceptedDidMethod")

\* Without a satisfiable group nothing is gathered and the call goes on.
ResolveGroups ==
  /\ pc = "negotiate"
  /\ ~UnsupportedSuites(vpr)
  /\ ~UnsupportedMethods(vpr)
  /\ pc' = "gather"
  /\ todo' = {i \in Group : IsExample(i)}
  /\ UNCHANGED <<inputs, present, paths, named, out, result>>

\* Queries are gathered in their order.
NextQuery(i) == pc = "gather" /\ i \in todo /\ \A j \in todo : i <= j

RefuseDeselected(i) ==
  /\ NextQuery(i)
  /\ RefusesSelection(i)
  /\ Finish("RequiredFieldsDeselected")

\* A credential that answers several queries merges what they name.
GatherQuery(i) ==
  /\ NextQuery(i)
  /\ ~RefusesSelection(i)
  /\ todo' = todo \ {i}
  /\ present' = present \cup AnsweredBy(i)
  /\ paths' = [c \in Credential |->
       IF c \in AnsweredBy(i) THEN paths[c] \cup Kept(i) ELSE paths[c]]
  /\ named' = [c \in Credential |->
       named[c] \/ (c \in AnsweredBy(i) /\ NamesSubject(i))]
  /\ UNCHANGED <<inputs, pc, out, result>>

DropDeselected ==
  /\ pc = "gather"
  /\ todo = {}
  /\ pc' = "embed"
  /\ present' = {c \in present : ~LosesSubject(c)}
  /\ UNCHANGED <<inputs, todo, paths, named, out, result>>

\* Credentials not in the presentation yet. Their order only decides which of
\* several failures is reported, and is left open.
Rest == present \ {e.cred : e \in out}

DeriveCredential(c) ==
  /\ pc = "embed"
  /\ c \in Rest
  /\ UsesDerivation(c)
  /\ out' = out \cup {DerivedEntry(c)}
  /\ UNCHANGED <<inputs, pc, todo, present, paths, named, result>>

DeriveFails(c) ==
  /\ pc = "embed"
  /\ c \in Rest
  /\ UsesDerivation(c)
  /\ Finish("SdDeriveFailed")

EmbedCredential(c) ==
  /\ pc = "embed"
  /\ c \in Rest
  /\ ~UsesDerivation(c)
  /\ ~NoPresentableProof(c)
  /\ out' = out \cup {EmbeddedEntry(c)}
  /\ UNCHANGED <<inputs, pc, todo, present, paths, named, result>>

RefuseProofs(c) ==
  /\ pc = "embed"
  /\ c \in Rest
  /\ ~UsesDerivation(c)
  /\ NoPresentableProof(c)
  /\ Finish("NoPresentableProof")

MixesVersions == {VersionOf[e.cred] : e \in out} = {1, 2}

RefuseMix ==
  /\ pc = "embed"
  /\ Rest = {}
  /\ MixesVersions
  /\ Finish("MixedCredentialVersions")

\* A body or a derived credential that does not decode as a credential.
DecodeFails ==
  /\ pc = "embed"
  /\ Rest = {}
  /\ out # {}
  /\ Finish("Deserialization")

BuildPresentation ==
  /\ pc = "embed"
  /\ Rest = {}
  /\ ~MixesVersions
  /\ pc' = "sign"
  /\ UNCHANGED <<inputs, todo, present, paths, named, out, result>>

SignPresentation == pc = "sign" /\ Finish("Signed")

SigningFails == pc = "sign" /\ Finish("PresentationError")

Negotiate == RefuseSuites \/ RefuseMethods \/ ResolveGroups
Gather == \E i \in todo : RefuseDeselected(i) \/ GatherQuery(i)
Embed == \E c \in present :
  \/ DeriveCredential(c) \/ DeriveFails(c)
  \/ EmbedCredential(c) \/ RefuseProofs(c)
Conclude == RefuseMix \/ DecodeFails \/ BuildPresentation
Sign == SignPresentation \/ SigningFails

Next == Negotiate \/ Gather \/ DropDeselected \/ Embed \/ Conclude \/ Sign

Spec == Init /\ [][Next]_vars

-----------------------------------------------------------------------------
(* Properties.                                                             *)

Results == {"NoAcceptedCryptosuite", "NoAcceptedDidMethod",
            "RequiredFieldsDeselected", "SdDeriveFailed", "NoPresentableProof",
            "MixedCredentialVersions", "Deserialization", "PresentationError",
            "Signed"}

\* Types; what is presented was selected, is a JSON-LD VC and appears once.
TypeOK ==
  /\ vpr \in Requests
  /\ selected \in Selections
  /\ fields \in Consents
  /\ pc \in {"negotiate", "gather", "embed", "sign", "done"}
  /\ todo \subseteq Group
  /\ present \subseteq selected \cap JsonLd
  /\ paths \in [Credential -> SUBSET Path]
  /\ named \in [Credential -> BOOLEAN]
  /\ out \subseteq Entry
  /\ {e.cred : e \in out} \subseteq present
  /\ \A e, f \in out : e.cred = f.cred => e = f
  /\ result \in Option(Results)

\* The queries of the chosen group that credential c answers.
Asking(c) == {i \in Group : IsExample(i) /\ c \in AnsweredBy(i)}

\* Nothing is derived that was not asked of this very credential and
\* consented to for the query that asks it; the whole subject goes only when
\* no query it answers names a part of it. A field deselected in one query is
\* not revealed because another credential's query names it.
DisclosesOnlyConsented ==
  \A e \in out : e.derived =>
    \A p \in e.reveals :
      \/ \E i \in Asking(e.cred) : p \in Named(i) /\ Consented(i, p)
      \/ /\ p = WholeSubject
         /\ \A i \in Asking(e.cred) : ~NamesSubject(i)

\* Every credential in the presentation answers a query of the chosen group,
\* and reveals all that a required query it answers names: a user's choice
\* never makes the verifier receive less than it requires of a credential.
RequiredIsDisclosed ==
  \A e \in out :
    /\ Asking(e.cred) # {}
    /\ \A i \in Asking(e.cred) :
         vpr.query[i].required => Named(i) \subseteq e.reveals

\* A derived credential always keeps a part of its subject, without which it
\* would not be a valid credential, whatever mix of queries and selections
\* it comes from.
DerivedKeepsSubject ==
  \A e \in out : e.derived => e.reveals \cap SubjectPath # {}

\* Holder-secret base proofs stay in the wallet, and a request for selective
\* disclosure, wherever in the request it stands, never gets a credential
\* whole that it could get in part: not after a failed derivation either.
NeverWidens ==
  \A e \in out :
    /\ e.proofs \cap SD_BASE_PROOF_CRYPTOSUITES = {}
    /\ "ecdsa-sd-2023" \in ListedSuites(vpr) /\ HasSdBaseProof(e.cred) => e.derived

\* The fields the screen lists for the queries that show credential c.
Listed(c) ==
  {f.path : f \in {shown \in RequestedFields :
                     \E m \in MatchesShown(shown.query_index) : m.cred = c}}

\* A credential shown as selectively disclosed is derived, and one shown
\* without that flag goes whole.
FlagsAreKept ==
  \A e \in out : \A i \in ExampleQueries : \A m \in MatchesShown(i) :
    m.cred = e.cred => m.selective = e.derived

\* What the screen leaves out is the whole subject and nothing else: the flags
\* are kept, and a derived credential reveals only fields listed for a query
\* that shows it, with one exception. When none of the queries it answers in
\* the chosen group lists a subject field, its whole subject goes unlisted
\* (holder.rs 1103-1108): in the place of a selection, never on top of one.
ScreenOmitsOnlySubject ==
  /\ FlagsAreKept
  /\ \A e \in out : e.derived =>
       /\ e.reveals \subseteq Listed(e.cred) \cup {WholeSubject}
       /\ WholeSubject \in e.reveals \ Listed(e.cred) =>
            /\ \A f \in RequestedFields :
                 f.query_index \in Asking(e.cred) => f.path \notin SubjectPath
            /\ e.reveals \cap SubjectPath = {WholeSubject}

\* Claimed: the flag lets the screen say "honestly whether presenting shares
\* only the requested fields or the entire credential" (holder.rs 1270-1272).
\* Not so: a flagged credential may go with its whole subject, of which the
\* screen lists nothing, or only what a query of another group names.
ScreenWasHonest ==
  /\ FlagsAreKept
  /\ \A e \in out : e.derived => e.reveals \subseteq Listed(e.cred)

\* When some satisfiable group has a credential to present, an alternative
\* that needs none, such as a leading DIDAuthentication, never takes its place:
\* gathering ends with a credential in hand.
CredentialNotEclipsed ==
  (pc = "gather" /\ todo = {}
     /\ \E g \in SatisfiableGroups(vpr.query, selected) :
          BringsCredential(vpr.query, g, selected))
  => present # {}

\* Claimed: an AND-group is answered wholly, every required query of it by a
\* credential in the signed presentation.
RequiredQueriesAnswered ==
  result = "Signed" =>
    \A i \in Group : IsExample(i) /\ vpr.query[i].required =>
      \E e \in out : e.cred \in AnsweredBy(i)
=============================================================================
