--------------------------- MODULE MCPresentation ---------------------------
(***************************************************************************)
(* A small instance of Presentation for TLC: a credential for each gate    *)
(* (base holds only selective-disclosure material, dual also a plain       *)
(* proof, first is a VCDM 1.1 credential, odd has an unknown proof, bare   *)
(* none, mdoc is no JSON-LD VC), and every request of one or two queries   *)
(* from a list that has a query for each branch, two also behind a leading *)
(* DIDAuthentication.                                                      *)
(***************************************************************************)
EXTENDS Presentation, TLC

CONSTANTS base, dual, first, odd, bare, mdoc, g, name, age, whole, status

MCCredential == {base, dual, first, odd, bare, mdoc}

MCSuitesOf == [c \in MCCredential |->
  CASE c = base  -> {"ecdsa-sd-2023"}
    [] c = dual  -> {"ecdsa-sd-2023", "ecdsa-rdfc-2019"}
    [] c = first -> {"ecdsa-rdfc-2019"}
    [] c = odd   -> {"X-2030"}
    [] OTHER     -> {}]

MCVersionOf == [c \in MCCredential |-> IF c = first THEN 1 ELSE 2]

Alt(matches, names) == [matches |-> matches, names |-> names, suites |-> {}]

Example(group, required, alternatives) ==
  [kind |-> "QueryByExample", group |-> group, required |-> required,
   alternatives |-> alternatives, methods |-> {}, suites |-> {}]

\* Alternatives: type only; a subject field and a status; two context variants
\* of which one asks for selective disclosure; the whole subject; the odd ones;
\* and one that nothing matches.
Examples ==
  { {Alt({base, dual, mdoc}, {})},
    {Alt({base, dual}, {name, status})},
    {[Alt({dual}, {age}) EXCEPT !.suites = {"ecdsa-sd-2023"}], Alt({first}, {name})},
    {Alt({base}, {whole})},
    {Alt({odd, bare}, {status})},
    {Alt({}, {name})} }

Auth(group, methods, suites) ==
  [kind |-> "DIDAuthentication", group |-> group, required |-> TRUE,
   alternatives |-> {}, methods |-> methods, suites |-> suites]

Grouped ==
  {Example(g, required, a) : required \in BOOLEAN, a \in Examples}
  \cup {Auth(g, {"web"}, {}),
        [Auth(g, {}, {}) EXCEPT !.kind = "Unknown", !.required = FALSE]}

Alone ==
  {Example(None, TRUE, a) : a \in Examples}
  \cup {Auth(None, {}, {}), Auth(None, {"key", "web"}, {"X-2030"})}

MCRequests ==
  {[query |-> q, suites |-> s] :
     q \in {<<a>> : a \in Alone} \cup (Alone \X Alone) \cup (Grouped \X Grouped)
           \cup {<<Auth(None, {}, {}), a, b>> :
                   a \in {q \in Grouped : q.required},
                   b \in {q \in Grouped : ~q.required}},
     s \in {{}, {"ecdsa-sd-2023", "bbs-2023"}}}

MCSelections == {{c, d} : c, d \in MCCredential} \cup {{}}

MCConsents ==
  {<<>>, <<{}>>, <<{name}>>, <<{name}, {}>>, <<{name, age}, {name, age}>>,
   2 :> {}, 2 :> {age, whole}, 3 :> {status}}

DeselectedConsents == {<<>>, 2 :> {}, 2 :> {name}}

\* Two queries of a group ask for one credential; the first, which is required,
\* names no field, and all that the optional second one names is deselected.
AnsweredRequests ==
  {[query |-> <<Example(g, TRUE, {Alt({base}, {})}),
                Example(g, FALSE, {Alt({base}, names)})>>,
    suites |-> {"ecdsa-sd-2023"}] : names \in SUBSET {name, age}}
=============================================================================
