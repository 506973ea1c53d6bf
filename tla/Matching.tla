------------------------------ MODULE Matching ------------------------------
(***************************************************************************)
(* QueryByExample on JSON documents (matching.rs), and the fields an       *)
(* example names: their dotted paths and the selective pointers made of    *)
(* them (holder.rs).                                                       *)
(*                                                                         *)
(* The matcher is a pure function of JSON values; the actions are the ways *)
(* its inputs change from one request to the next.                         *)
(***************************************************************************)
EXTENDS JsonValues

CONSTANTS
  Examples,      \* examples a query may carry, or None
  IssuerFilters, \* sequences of accepted issuer entries
  Documents,     \* stored credentials
  Segments       \* the pieces of a key split at its dots

AnyValue == Leaf("")

StructuralKeys == {"type", "@context"}

\* An entry of acceptedIssuers or trustedIssuer; a bare string is its id.
IssuerEntry == [id : STRING \cup {None}, issuer : STRING \cup {None},
                recognizedIn : BOOLEAN]

ASSUME MatchingAssumption ==
  /\ \A f \in IssuerFilters : ToSet(f) \subseteq IssuerEntry
  /\ Documents \subseteq Values
  /\ Examples \subseteq Values \cup {None}
  /\ Segments \in [Names -> Seq(Names) \ {<<>>}]
  /\ \A k \in StructuralKeys \cap Names : Segments[k] = <<k>>

VARIABLES
  example,   \* CredentialQuery: the example, and acceptedIssuers followed
  accepted,  \*   by trustedIssuer
  have       \* the stored credential it is compared with

vars == <<example, accepted, have>>

-----------------------------------------------------------------------------
(* The matcher.                                                            *)

\* Mutant: an array is compared like any other value with the elements of an
\* array, so that all it asks for has to be in one of them.
SubsetOfOne[p \in Pairs] ==
  LET w == p[1]
      h == p[2]
  IN  \/ w = AnyValue
      \/ IsObject(w) /\ IsObject(h) /\
           \A k \in Keys(w) : k \in Keys(h) /\ SubsetOfOne[<<w.object[k], h.object[k]>>]
      \/ IsArray(h) /\ \E he \in Elements(h) : SubsetOfOne[<<w, he>>]
      \/ IsArray(w) /\ ~IsArray(h) /\ \A we \in Elements(w) : SubsetOfOne[<<we, h>>]
      \/ IsLeaf(w) /\ w = h

ValueIsSubsetOfOne(w, h) == SubsetOfOne[<<w, h>>]

\* value_is_subset: the empty string asks for presence, an object for its
\* keys, an array for each of its elements somewhere, anything else for itself;
\* a document's array offers its elements, any other value itself.
Subset[p \in Pairs] ==
  LET w == p[1]
      h == p[2]
  IN  \/ w = AnyValue
      \/ IsObject(w) /\ IsObject(h) /\
           \A k \in Keys(w) : k \in Keys(h) /\ Subset[<<w.object[k], h.object[k]>>]
      \/ ~IsArray(w) /\ IsArray(h) /\ \E he \in Elements(h) : Subset[<<w, he>>]
      \/ IsArray(w) /\ \A we \in Elements(w) : \E he \in Elements(h) : Subset[<<we, he>>]
      \/ IsLeaf(w) /\ w = h

ValueIsSubset(w, h) == Subset[<<w, h>>]

\* type and @context: literally, one or many.
ArraySubset(w, h) == Elements(w) \subseteq Elements(h)

\* Mutant: an absent property counts as null everywhere.
ExampleHoldsUnasked(ex, vc) ==
  /\ \A k \in StructuralKeys \cap Keys(ex) : ArraySubset(ex.object[k], Get(vc, k))
  /\ \A k \in Keys(ex) \ StructuralKeys : ValueIsSubset(ex.object[k], Get(vc, k))

\* The credentialSubject may be absent, which counts as null; of any other
\* property the example names, presence is asked first.
ExampleHolds(ex, vc) ==
  /\ \A k \in StructuralKeys \cap Keys(ex) : ArraySubset(ex.object[k], Get(vc, k))
  /\ "credentialSubject" \in Keys(ex) =>
       ValueIsSubset(ex.object["credentialSubject"], Get(vc, "credentialSubject"))
  /\ \A k \in Keys(ex) \ (StructuralKeys \cup {"credentialSubject"}) :
       k \in Keys(vc) /\ ValueIsSubset(ex.object[k], vc.object[k])

StringOrNone(t) == IF IsLeaf(t) THEN t.leaf ELSE None

\* The issuer of a credential: a string, or the id of an object.
VcIssuer(vc) ==
  LET issuer == Get(vc, "issuer")
  IN  StringOrNone(IF IsObject(issuer) THEN Get(issuer, "id") ELSE issuer)

\* recognizedIn is not resolved.
AcceptedIssuerValue(entry) ==
  IF entry.recognizedIn THEN None
  ELSE IF entry.id # None THEN entry.id ELSE entry.issuer

\* Mutant: acceptedIssuers and trustedIssuer both have to accept.
IssuerAcceptedByAll(filter, vc) ==
  \A entry \in ToSet(filter) : AcceptedIssuerValue(entry) = VcIssuer(vc)

IssuerAccepted(filter, vc) ==
  \/ filter = <<>>
  \/ /\ VcIssuer(vc) # None
     /\ \E entry \in ToSet(filter) : AcceptedIssuerValue(entry) = VcIssuer(vc)

ExampleMatches(ex, filter, vc) ==
  (ex # None => ExampleHolds(ex, vc)) /\ IssuerAccepted(filter, vc)

-----------------------------------------------------------------------------
(* The fields an example names.                                            *)

\* The paths of a value below a prefix, as keys: an object is opened, anything
\* else ends a path.
CollectSubjectPaths(prefix, t) ==
  {prefix \o n[1] : n \in {m \in Opened[t] : ~IsObject(m[2])}}

\* Mutant: only the subject's fields are collected.
ExampleFieldPathsOfSubject(ex) ==
  {<<k>> : k \in StructuralKeys \cap Keys(ex)} \cup
  UNION {CollectSubjectPaths(<<k>>, ex.object[k]) :
           k \in Keys(ex) \cap {"credentialSubject"}}

ExampleFieldPaths(ex) ==
  {<<k>> : k \in StructuralKeys \cap Keys(ex)} \cup
  UNION {CollectSubjectPaths(<<k>>, ex.object[k]) : k \in Keys(ex) \ StructuralKeys}

\* A path becomes a string with a dot between keys, which dotted_to_pointer
\* splits again: a dot within a key is one too. Escaping is undone by whoever
\* reads the pointer.
DottedToPointer(path) ==
  FlattenSeq([i \in DOMAIN path |-> Segments[path[i]]])

SelectivePointersFromPaths(paths) ==
  {ptr \in {DottedToPointer(p) : p \in paths} : Head(ptr) \notin StructuralKeys}

-----------------------------------------------------------------------------
(* How the two sides change.                                               *)

\* g says all that h says, and may say more: an object more keys, an array more
\* elements, and one may become many.
Extends[p \in Pairs] ==
  LET h == p[1]
      g == p[2]
  IN  \/ h = g
      \/ IsObject(h) /\ IsObject(g) /\
           \A k \in Keys(h) : k \in Keys(g) /\ Extends[<<h.object[k], g.object[k]>>]
      \/ IsArray(g) /\ \A he \in Elements(h) : \E ge \in Elements(g) : Extends[<<he, ge>>]

\* v asks for no more than w: any value for a given one, fewer keys, fewer
\* elements.
Relaxes[p \in Pairs] ==
  LET w == p[1]
      v == p[2]
  IN  \/ v = AnyValue
      \/ v = w
      \/ IsObject(w) /\ IsObject(v) /\
           \A k \in Keys(v) : k \in Keys(w) /\ Relaxes[<<w.object[k], v.object[k]>>]
      \/ IsArray(w) /\ IsArray(v) /\
           \A ve \in Items(v) : \E we \in Items(w) : Relaxes[<<we, ve>>]

\* Of a credential and the same one re-issued with more in it.
SaysMore(vc, new) ==
  /\ \A k \in Keys(vc) :
       /\ k \in Keys(new)
       /\ IF k \in StructuralKeys THEN ArraySubset(vc.object[k], new.object[k])
                                  ELSE Extends[<<vc.object[k], new.object[k]>>]
  /\ VcIssuer(vc) # None => VcIssuer(new) = VcIssuer(vc)

\* Of an example and one that asks for less.
AsksLess(ex, new) ==
  \A k \in Keys(new) :
    /\ k \in Keys(ex)
    /\ IF k \in StructuralKeys THEN ArraySubset(new.object[k], ex.object[k])
                               ELSE Relaxes[<<ex.object[k], new.object[k]>>]

Init ==
  /\ example \in Examples
  /\ accepted \in IssuerFilters
  /\ have \in Documents

\* The credential is re-issued with more in it.
Reissue ==
  /\ have' \in {d \in Documents : SaysMore(have, d)}
  /\ UNCHANGED <<example, accepted>>

\* The verifier asks for less, or trusts more issuers.
AskForLess ==
  /\ example # None
  /\ example' \in {e \in Examples : e # None => AsksLess(example, e)}
  /\ UNCHANGED <<accepted, have>>

TrustMore ==
  /\ accepted # <<>>
  /\ accepted' \in {f \in IssuerFilters : f # <<>> => ToSet(accepted) \subseteq ToSet(f)}
  /\ UNCHANGED <<example, have>>

Next == Reissue \/ AskForLess \/ TrustMore

Spec == Init /\ [][Next]_vars
-----------------------------------------------------------------------------
(* Properties.                                                             *)

Matches == ExampleMatches(example, accepted, have)

\* What a value says: each of its leaves, at its place.
Facts(t) == {n \in Within[t] : IsLeaf(n[2])}

\* A value says so too, or has something there if any value will do.
Found(fact, t) ==
  IF fact[2] = AnyValue THEN \E n \in Within[t] : n[1] = fact[1] ELSE fact \in Within[t]

OtherKeys(ex) == Keys(ex) \ StructuralKeys

\* "Every named field required" (matching.rs 108): whatever a matched example
\* says of the subject and of other properties, the credential says too, at
\* the same place. An absent credentialSubject is the exception: it says null.
NamedClaimsArePresent ==
  Matches /\ example # None =>
    \A k \in OtherKeys(example) :
      /\ k \in Keys(have) \/ k = "credentialSubject"
      /\ \A fact \in Facts(example.object[k]) : Found(fact, Get(have, k))

\* A key that counts as null when it is absent is not absent any more, and the
\* example, which asks for something there, can have been content with null.
NullNoMore ==
  \E k \in (StructuralKeys \cup {"credentialSubject"}) \cap Keys(example) :
    k \in Keys(have') \ Keys(have) /\ example.object[k] # AnyValue

\* A credential that matches goes on to match when it is re-issued with more in
\* it, when the verifier asks for less, and when it trusts more issuers:
\* one-or-many, any-value and the two issuer lists never work against each
\* other.
MoreNeverMatchesLess ==
  [][Matches => Matches' \/ (example # None /\ NullNoMore)]_vars

\* An example copied from a credential, as a verifier who has seen one would
\* write it, matches that credential, arrays in any shape included.
OwnExampleMatches == ExampleMatches(have, <<>>, have)

\* A pointer names a node of a document.
Resolves(ptr, t) == \E n \in Opened[t] : n[1] = ptr

NamedPaths == {p \in ExampleFieldPaths(example) : Head(p) \notin StructuralKeys}

Pointers == SelectivePointersFromPaths(ExampleFieldPaths(example))

SubjectIsThere == "credentialSubject" \in Keys(example) => "credentialSubject" \in Keys(have)

\* Pointers "naming EXACTLY the QBE-requested fields" (holder.rs 1747): those
\* of a matched example are the paths it names, and the credential has
\* something there.
PointersNameFields ==
  Matches /\ example # None /\ SubjectIsThere =>
    Pointers = NamedPaths /\ \A ptr \in Pointers : Resolves(ptr, have)

\* No array between the root of a document and the end of a path, and no dot in
\* a key of it.
Plain(path, t) ==
  /\ \A i \in DOMAIN path : Segments[path[i]] = <<path[i]>>
  /\ \A n \in Opened[t] : IsArray(n[2]) => ~IsStrictPrefix(n[1], path)

\* For a credential whose named fields lie outside arrays and have no dots in
\* their keys, the pointers of a match are exact: none dangles, and every field
\* the example names is within what one of them reveals.
PlainPointersAreExact ==
  (/\ Matches /\ example # None /\ SubjectIsThere
   /\ \A p \in NamedPaths : Plain(p, have))
  =>
    /\ \A ptr \in Pointers : Resolves(ptr, have)
    /\ \A k \in OtherKeys(example) : \A fact \in Facts(example.object[k]) :
         \E ptr \in Pointers : IsPrefix(ptr, <<k>> \o fact[1])
=============================================================================
