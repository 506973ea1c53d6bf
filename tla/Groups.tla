------------------------------- MODULE Groups -------------------------------
(***************************************************************************)
(* The queries of a verifiablePresentationRequest and the resolution of    *)
(* their AND/OR grouping (matching.rs): which group of queries the holder  *)
(* answers, given the credentials the user selected.                       *)
(*                                                                         *)
(* A credentialQuery alternative is reduced to the credentials its example *)
(* and issuer filter match, the fields its example names and its own       *)
(* acceptedCryptosuites. An absent acceptedMethods or acceptedCryptosuites *)
(* is the empty list, which every reader of it treats alike.               *)
(***************************************************************************)
EXTENDS Credentials, Naturals, Sequences

CONSTANTS
  GroupName,  \* values of a query's group
  Path,       \* example field paths other than type and @context
  JsonLd      \* the credentials that are JSON-LD VCs, the presentable ones

ASSUME GroupsAssumption == JsonLd \subseteq Credential

Alternative == [matches : SUBSET Credential, names : SUBSET Path,
                suites : SUBSET STRING]

Query == [kind : {"QueryByExample", "DIDAuthentication", "Unknown"},
          group : Option(GroupName), required : BOOLEAN,
          alternatives : SUBSET Alternative,
          methods : SUBSET STRING, suites : SUBSET STRING]

Vpr == [query : Seq(Query), suites : SUBSET STRING]

-----------------------------------------------------------------------------
(* Which queries can be satisfied.                                         *)

\* Mutant: a credential of any format answers a query.
MatchedAnyFormat(query, creds) ==
  {c \in creds : \E alt \in query.alternatives : c \in alt.matches}

\* The credentials among creds that answer the query.
Matched(query, creds) ==
  {c \in creds \cap JsonLd : \E alt \in query.alternatives : c \in alt.matches}

\* didauth_constraints_supported: this holder authenticates with did:key and
\* signs with ecdsa-rdfc-2019.
DidAuthSupported(query) ==
  /\ query.methods # {} => "key" \in query.methods
  /\ query.suites # {} => "ecdsa-rdfc-2019" \in query.suites

Satisfiable(query, creds) ==
  \/ query.kind = "QueryByExample" /\ Matched(query, creds) # {}
  \/ query.kind = "DIDAuthentication" /\ DidAuthSupported(query)

-----------------------------------------------------------------------------
(* Groups of queries, as sets of indices into the request.                 *)

\* The AND-group that query i is a member of; without a group, i alone.
Members(queries, i) ==
  {j \in DOMAIN queries :
     j = i \/ (queries[i].group # None /\ queries[j].group = queries[i].group)}

PartitionGroups(queries) == {Members(queries, i) : i \in DOMAIN queries}

\* Optional members never block their group.
GroupIsSatisfiable(queries, group, creds) ==
  \A i \in group : queries[i].required => Satisfiable(queries[i], creds)

SatisfiableGroups(queries, creds) ==
  {g \in PartitionGroups(queries) : GroupIsSatisfiable(queries, g, creds)}

\* Those that have a credential to present.
BringsCredential(queries, group, creds) ==
  \E i \in group :
    queries[i].kind = "QueryByExample" /\ Satisfiable(queries[i], creds)

\* The group that was seen first.
FirstSeen(groups) ==
  CHOOSE g \in groups : \E i \in g : \A h \in groups : \A j \in h : i <= j

\* Mutant: the first satisfiable group wins, whatever it brings.
FirstSatisfiable(queries, creds) ==
  LET satisfiable == SatisfiableGroups(queries, creds) IN
  IF satisfiable = {} THEN {} ELSE FirstSeen(satisfiable)

\* resolve_groups: the first satisfiable group that brings a credential, or
\* else the first satisfiable one; {} when no group is satisfiable.
SelectedGroup(queries, creds) ==
  LET satisfiable == SatisfiableGroups(queries, creds)
      bringing == {g \in satisfiable : BringsCredential(queries, g, creds)} IN
  IF bringing # {} THEN FirstSeen(bringing)
  ELSE IF satisfiable # {} THEN FirstSeen(satisfiable)
  ELSE {}
=============================================================================
