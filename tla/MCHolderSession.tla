--------------------------- MODULE MCHolderSession ---------------------------
(***************************************************************************)
(* Small instances of HolderSession for TLC. Two exchange URLs on two      *)
(* hosts; credentials chosen so that each gate of accept_offer has one:    *)
(* good and twin share issuer and id (twin is a re-issue, still            *)
(* selective-disclosure base material), rival has the same id from another *)
(* issuer, plain has no id, forged has a broken proof, enveloped and bbs   *)
(* are refused by format.                                                  *)
(***************************************************************************)
EXTENDS HolderSession, TLC

CONSTANTS e1, e2, h1, h2, c1, c2,
          good, twin, rival, plain, forged, enveloped, bbs

MCHostOf == [e \in Exchange |-> IF e = e1 THEN h1 ELSE h2]

MCCredential == {good, twin, rival, plain, forged, enveloped, bbs}

MCSuitesOf == [c \in MCCredential |->
  CASE c = twin -> {"ecdsa-sd-2023"}
    [] c = bbs  -> {"bbs-2023", "ecdsa-rdfc-2019"}
    [] OTHER    -> {"ecdsa-rdfc-2019"}]

MCNewline == "\n"

MCChar == {MCNewline, "a", "b", "x", "y", "1", "2", "3", "4", "5", "6", "7"}

MCIssuerOf == [c \in MCCredential |->
  CASE c = rival -> <<"b">> [] c = plain -> <<>> [] OTHER -> <<"a">>]

\* An id may hold a newline; an issuer may not.
MCIdOf == [c \in MCCredential |->
  CASE c = plain -> <<>>
    [] c \in {good, twin, rival} -> <<"x">>
    [] c = forged -> <<"y">>
    [] OTHER -> <<"\n", "x">>]

MCContentOf == (good :> <<"1">>) @@ (twin :> <<"2">>) @@ (rival :> <<"3">>)
            @@ (plain :> <<"4">>) @@ (forged :> <<"5">>)
            @@ (enveloped :> <<"6">>) @@ (bbs :> <<"7">>)

-----------------------------------------------------------------------------
(* Reply shapes. *)

Nothing == [status |-> "2xx", body |-> "parsed", creds |-> None, vpr |-> FALSE,
            domain |-> None, redirect |-> "none", ref |-> FALSE]

Failures ==
  {[Nothing EXCEPT !.status = "4xx", !.body = b] : b \in {"empty", "parsed", "garbage"}}
  \cup {[Nothing EXCEPT !.status = "other"], [Nothing EXCEPT !.body = "garbage"],
        [Nothing EXCEPT !.body = "empty"]}

Plain(domains, redirects, refs) ==
  {[Nothing EXCEPT !.vpr = TRUE, !.domain = d, !.redirect = r, !.ref = f] :
      d \in domains, r \in redirects, f \in refs}
  \cup {[Nothing EXCEPT !.redirect = r, !.ref = f] : r \in redirects, f \in refs}

Offers(lists, vprs, redirects, refs) ==
  {[Nothing EXCEPT !.creds = l, !.vpr = v, !.redirect = r, !.ref = f] :
      l \in lists, v \in vprs, r \in redirects, f \in refs}

\* One call at a time, every combination of properties in a message.
SequentialShapes ==
  Failures
  \cup Plain({None, h1}, {"none", "valid", "malformed"}, BOOLEAN)
  \cup Offers({<<good>>}, BOOLEAN, {"none", "valid", "malformed"}, BOOLEAN)

\* What an offer may contain.
IssuanceShapes ==
  {[Nothing EXCEPT !.status = "other"]}
  \cup Offers({<<>>, <<good>>, <<twin, rival>>, <<plain, good, twin>>,
               <<good, forged>>, <<rival, enveloped>>, <<plain, bbs>>},
              {FALSE}, {"none"}, {FALSE})

\* Two calls in progress.
OverlapShapes ==
  {[Nothing EXCEPT !.status = "other"],
   [Nothing EXCEPT !.vpr = TRUE, !.ref = TRUE, !.domain = h1],
   [Nothing EXCEPT !.creds = <<twin>>],
   [Nothing EXCEPT !.creds = <<twin>>, !.vpr = TRUE, !.redirect = "valid"]}

\* A few shapes, for liveness.
ReturnShapes ==
  {[Nothing EXCEPT !.status = "other"], [Nothing EXCEPT !.vpr = TRUE],
   [Nothing EXCEPT !.creds = <<good, forged>>]}

\* Calls are interchangeable: no definition tells them apart.
CallSymmetry == Permutations(Call)
=============================================================================
