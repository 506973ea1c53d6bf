----------------------------- MODULE JsonValues -----------------------------
(***************************************************************************)
(* The JSON documents that examples and credentials are (serde_json).      *)
(*                                                                         *)
(* A JSON value is a record whose one field says what it is: a leaf, an    *)
(* array or an object. Values is any set of them that has the parts of its *)
(* members too, and Depth how far each of them nests: recursion is over    *)
(* Values and goes down in Depth.                                          *)
(***************************************************************************)
EXTENDS SequencesExt

CONSTANTS
  None,    \* Rust's Option::None, and JSON's null
  Names,   \* keys of objects
  Values,  \* JSON values
  Depth    \* how deep each of them nests

Leaf(v) == [leaf |-> v]
Array(s) == [array |-> s]
Object(f) == [object |-> f]

IsLeaf(t) == DOMAIN t = {"leaf"}
IsArray(t) == DOMAIN t = {"array"}
IsObject(t) == DOMAIN t = {"object"}

Null == Leaf(None)

Keys(t) == IF IsObject(t) THEN DOMAIN t.object ELSE {}

\* Value::get, with null for an absent key.
Get(t, k) == IF k \in Keys(t) THEN t.object[k] ELSE Null

Items(t) == IF IsArray(t) THEN ToSet(t.array) ELSE {}

\* One or many: an array's elements, and of any other value itself.
Elements(t) == IF IsArray(t) THEN Items(t) ELSE {t}

Parts(t) == Items(t) \cup {t.object[k] : k \in Keys(t)}

ASSUME NoneAssumption == None # ""

ASSUME JsonAssumption ==
  /\ Null \in Values
  /\ \A t \in Values :
       \/ IsLeaf(t)
       \/ IsArray(t) /\ t.array \in Seq(Values)
       \/ IsObject(t) /\ Keys(t) \subseteq Names /\ t.object \in [Keys(t) -> Values]
  /\ Depth \in [Values -> Nat]
  /\ \A t \in Values : \A u \in Parts(t) : Depth[u] < Depth[t]

Pairs == Values \X Values

\* A node of a document: the keys on the way to it, and its value.
Under(k, nodes) == {<<<<k>> \o n[1], n[2]>> : n \in nodes}

\* The nodes reached through objects: what a JSON pointer can name.
Opened[t \in Values] ==
  {<<<<>>, t>>} \cup UNION {Under(k, Opened[t.object[k]]) : k \in Keys(t)}

\* The nodes of a document, whatever arrays lie in between.
Within[t \in Values] ==
  {<<<<>>, t>>}
  \cup (UNION {Within[u] : u \in Items(t)})
  \cup (UNION {Under(k, Within[t.object[k]]) : k \in Keys(t)})
=============================================================================
