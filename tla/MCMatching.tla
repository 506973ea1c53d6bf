---------------------------- MODULE MCMatching ----------------------------
(***************************************************************************)
(* Small instances of Matching for TLC: a credential with one subject, one *)
(* with two, one with a nested claim and one without a subject; examples   *)
(* that ask for values and presence, one and many, at each place; and the  *)
(* same with one thing more or one thing less.                             *)
(***************************************************************************)
EXTENDS Matching

Obj1(k, v) == Object([x \in {k} |-> v])
Obj2(k, v, l, u) == Object([x \in {k, l} |-> IF x = k THEN v ELSE u])
With(t, k, v) == Object([x \in Keys(t) \cup {k} |-> IF x = k THEN v ELSE t.object[x]])
Without(t, k) == Object([x \in Keys(t) \ {k} |-> t.object[x]])

MCNames == {"type", "credentialSubject", "issuer", "id", "status", "name", "a", "b", "a.b"}

MCSegments == [k \in MCNames |-> IF k = "a.b" THEN <<"a", "b">> ELSE <<k>>]

Ada == Leaf("Ada")
Bob == Leaf("Bob")
Types == Array(<<Leaf("VC"), Leaf("Degree")>>)

Subjects == {
  Obj1("name", Ada),
  Obj2("name", Array(<<Ada, Leaf("Lovelace")>>), "a", Obj1("b", Leaf("1"))),
  Array(<<Obj1("name", Ada), Obj2("name", Bob, "a", Leaf("1"))>>)}

\* Each of them again, with a key more, and the first as one of several.
MoreSubjects ==
  Subjects \cup
  {Obj2("name", Ada, "a", Obj1("b", Leaf("1"))), Obj2("name", Ada, "a.b", Leaf("1")),
   Array(<<Obj1("name", Ada)>>),
   Array(<<Obj2("name", Ada, "a", Obj1("b", Leaf("1"))), Obj2("name", Bob, "a", Leaf("1"))>>),
   Obj1("a", Array(<<Array(<<Leaf("1"), Ada>>), Leaf("1")>>))}

Bare == Obj2("type", Leaf("Degree"), "a", Array(<<>>))

MCDocuments ==
  {Object([x \in {"type", "credentialSubject", "issuer", "status"} |->
     CASE x = "type" -> Types [] x = "credentialSubject" -> s
       [] x = "issuer" -> i [] x = "status" -> Leaf("ok")]) :
     s \in MoreSubjects, i \in {Leaf("A"), Obj1("id", Leaf("B"))}}
  \cup {Bare, With(Bare, "credentialSubject", Obj1("name", Ada)),
        With(Bare, "credentialSubject", Array(<<>>)),
        With(Bare, "a", Array(<<Leaf("1")>>)), Obj1("a", Array(<<>>))}

AskedSubjects ==
  {AnyValue, Null, Array(<<AnyValue>>), Obj1("name", AnyValue), Obj1("name", Ada),
   Obj1("name", Array(<<Leaf("Lovelace"), Ada>>)), Obj1("name", Array(<<Ada>>)),
   Obj2("name", Bob, "a", Leaf("1")), Obj1("a", Obj1("b", Leaf("1"))),
   Array(<<Obj1("name", Bob), Obj1("name", Ada)>>), Array(<<Obj1("name", AnyValue)>>),
   Obj1("a", Array(<<Array(<<Ada>>), Leaf("1")>>)), Obj1("a.b", Leaf("1"))}

MCExamples ==
  {None, Obj1("status", Leaf("ok")), Obj1("status", AnyValue), Obj1("type", Null),
   Obj2("type", Leaf("Degree"), "status", AnyValue)}
  \cup {Obj1("credentialSubject", s) : s \in AskedSubjects}
  \cup {Obj2("type", t, "credentialSubject", s) :
     t \in {Leaf("Degree"), Array(<<Leaf("Degree"), Leaf("VC")>>)}, s \in AskedSubjects}

Trust(id, issuer, r) == [id |-> id, issuer |-> issuer, recognizedIn |-> r]

MCIssuerFilters ==
  {<<>>, <<Trust("A", None, FALSE)>>, <<Trust(None, "B", FALSE)>>,
   <<Trust("A", None, TRUE)>>, <<Trust("A", None, TRUE), Trust("B", "A", FALSE)>>,
   <<Trust("A", None, FALSE), Trust(None, "B", FALSE)>>}

RECURSIVE AllParts(_)
AllParts(t) == {t} \cup UNION {AllParts(u) : u \in Parts(t)}

MCValues ==
  {Null} \cup UNION {AllParts(t) : t \in MCDocuments \cup (MCExamples \ {None})}

RECURSIVE Nesting(_)
Nesting(t) ==
  IF Parts(t) = {} THEN 0 ELSE 1 + Max({Nesting(u) : u \in Parts(t)})

MCDepth == [t \in MCValues |-> Nesting(t)]
=============================================================================
