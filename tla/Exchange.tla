------------------------------ MODULE Exchange ------------------------------
(***************************************************************************)
(* The vcapi messages a server sends and classify(), the pure function     *)
(* that turns one HTTP reply into the step the caller sees (exchange.rs).  *)
(*                                                                         *)
(* A payload is reduced to who sent it and when: every request, offer,     *)
(* redirect and referenceId carries the exchange it comes from and the     *)
(* ordinal n of the reply that brought it.                                 *)
(***************************************************************************)
EXTENDS Credentials, Naturals, Sequences

CONSTANTS
  Exchange,    \* the exchange URLs a server may be reached at
  Host,        \* host names
  MaxReplies   \* bound on the replies one behaviour may contain

ASSUME MaxRepliesAssumption == MaxReplies \in Nat

Ordinal == 1..MaxReplies

\* A referenceId.
Reference == [from : Exchange, n : Ordinal]

\* A verifiablePresentationRequest: what matters is whose it is and the
\* domain it asks the holder to bind the answer to.
Vpr == [from : Exchange, n : Ordinal, domain : Option(Host)]

\* A redirectUrl, which Url::parse accepts or not.
RedirectUrl == [from : Exchange, n : Ordinal, valid : BOOLEAN]

\* An offered verifiablePresentation. creds = <<>> stands for every envelope
\* that extract_offered_vcs refuses; bundled and redirects say whether the
\* message also carried a request and a usable redirect.
Offer == [from : Exchange, n : Ordinal, creds : Seq(Credential),
          bundled : BOOLEAN, redirects : BOOLEAN]

VcapiMessage == [vp : Option(Offer), vpr : Option(Vpr),
                 redirect : Option(RedirectUrl), ref : Option(Reference)]

DefaultMessage == [vp |-> None, vpr |-> None, redirect |-> None, ref |-> None]

\* status "other" is 5xx and everything that is neither 2xx nor 4xx. A body is
\* "empty", "parsed" (it deserializes as the type its status calls for:
\* VcapiMessage on 2xx, ProblemDetails on 4xx) or "garbage".
Reply == [status : {"2xx", "4xx", "other"},
          body : {"empty", "parsed", "garbage"}, msg : VcapiMessage]

OkKinds == {"Request", "Offer", "Redirect", "Complete", "Problem"}
ErrKinds == {"Deserialization", "MalformedProblemDetails", "ServerError"}

\* What classify returns: Ok(step) or Err(kind), in one shape.
StepResult == [kind : OkKinds \cup ErrKinds, vcs : Option(Offer),
               vpr : Option(Vpr), redirect : Option(RedirectUrl)]

Bare(kind) == [kind |-> kind, vcs |-> None, vpr |-> None, redirect |-> None]

-----------------------------------------------------------------------------
\* The lazily parsed redirect: a malformed one counts as absent here.
ParsedRedirect(m) ==
  IF m.redirect # None /\ m.redirect.valid THEN m.redirect ELSE None

\* Mutant: a malformed redirect always fails the message.
RedirectRefusedAlways(m) == m.redirect # None /\ ~m.redirect.valid

\* A malformed redirect fails the message unless an offer rides along.
RedirectRefused(m) ==
  /\ m.redirect # None
  /\ ~m.redirect.valid
  /\ m.vp = None

\* First match wins: Offer, then Redirect, then Request, then Complete.
ClassifyMessage(m) ==
  LET redirect == ParsedRedirect(m) IN
  CASE RedirectRefused(m) -> Bare("Deserialization")
    [] m.vp # None ->
         [kind |-> "Offer", vcs |-> m.vp, vpr |-> m.vpr, redirect |-> redirect]
    [] m.vp = None /\ redirect # None ->
         [Bare("Redirect") EXCEPT !.redirect = redirect]
    [] m.vp = None /\ m.redirect = None /\ m.vpr # None ->
         [Bare("Request") EXCEPT !.vpr = m.vpr]
    [] m.vp = None /\ m.redirect = None /\ m.vpr = None -> Bare("Complete")

\* The message of a 2xx body; an empty body is the default message.
MessageOf(reply) ==
  IF reply.body = "empty" THEN DefaultMessage ELSE reply.msg

Classify(reply) ==
  CASE reply.status = "2xx" /\ reply.body = "garbage" -> Bare("Deserialization")
    [] reply.status = "2xx" /\ reply.body # "garbage" ->
         ClassifyMessage(MessageOf(reply))
    [] reply.status = "4xx" /\ reply.body = "garbage" ->
         Bare("MalformedProblemDetails")
    [] reply.status = "4xx" /\ reply.body # "garbage" -> Bare("Problem")
    [] reply.status = "other" -> Bare("ServerError")
=============================================================================
