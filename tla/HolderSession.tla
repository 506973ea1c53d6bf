---------------------------- MODULE HolderSession ----------------------------
(***************************************************************************)
(* The session of one VcalmHolder (holder.rs): start_exchange,             *)
(* submit_presentation, accept_offer, reject_offer and the post_message    *)
(* they share, against one server per exchange URL.                        *)
(*                                                                         *)
(* The methods are async and take &self on a shared Arc, so calls may      *)
(* overlap. A call runs without interruption between two awaits, and holds *)
(* the state mutex for one such stretch only: each action below is one     *)
(* stretch, and call[c] carries the locals that survive to the next one.   *)
(***************************************************************************)
EXTENDS Issuance

CONSTANTS
  Call,         \* calls that may be in progress at once; one = sequential use
  HostOf,       \* host of an exchange URL
  ReplyShapes,  \* the kinds of reply a server may give
  Cancellable   \* whether a caller may drop the future of a call

ASSUME SessionAssumption ==
  /\ None \notin Exchange \cup Host \cup Credential \cup Offer \cup Vpr
                 \cup RedirectUrl \cup Reference \cup Reply
  /\ HostOf \in [Exchange -> Host]
  /\ ReplyShapes \subseteq
       [status : {"2xx", "4xx", "other"}, body : {"empty", "parsed", "garbage"},
        creds : Option(Seq(Credential)), vpr : BOOLEAN, domain : Option(Host),
        redirect : {"none", "valid", "malformed"}, ref : BOOLEAN]
  /\ Cancellable \in BOOLEAN

VARIABLES
  session,  \* ExchangeState, behind the mutex
  store,    \* the credential store, a credential or None per slot
  call,     \* the calls in progress
  replies,  \* number of replies the servers have given
  outcome,  \* what the last call to finish returned
  pending   \* history: the offer last captured and not yet resolved

vars == <<session, store, call, replies, outcome, pending>>

Ops == {"none", "start", "submit", "accept", "reject"}

PCs == {"idle", "resolve", "sign", "verify", "store", "advance",
        "post", "wire", "reply", "capture", "restore"}

\* auth names the exchange the bearer token was supplied for.
ExchangeState ==
  [url : Option(Exchange), vpr : Option(Vpr), ref : Option(Reference),
   auth : Option(Exchange), offer : Option(Offer), next : Option(Vpr),
   redirect : Option(RedirectUrl)]

DefaultState ==
  [url |-> None, vpr |-> None, ref |-> None, auth |-> None,
   offer |-> None, next |-> None, redirect |-> None]

\* url, auth, ref and vp describe the request in flight; offer, next and
\* redirect are what accept_offer or reject_offer took from the session; k is
\* the entry being verified or stored.
CallState ==
  [pc : PCs, op : Ops, url : Option(Exchange), auth : Option(Exchange),
   ref : Option(Reference), vp : Option(Vpr), allow : BOOLEAN,
   offer : Option(Offer), next : Option(Vpr), redirect : Option(RedirectUrl),
   k : Nat, reply : Option(Reply)]

IdleCall ==
  [pc |-> "idle", op |-> "none", url |-> None, auth |-> None, ref |-> None,
   vp |-> None, allow |-> FALSE, offer |-> None, next |-> None,
   redirect |-> None, k |-> 0, reply |-> None]

\* answer is what classify made of the call's reply, asked the request the
\* caller was last handed.
Outcomes ==
  [op : Ops, kind : OkKinds \cup {"none", "Err", "Cancelled"},
   answer : OkKinds \cup ErrKinds \cup {"none"}, asked : Option(Vpr)]

TypeOK ==
  /\ session \in ExchangeState
  /\ store \in [StableIds -> Option(Credential)]
  /\ call \in [Call -> CallState]
  /\ replies \in 0..MaxReplies
  /\ outcome \in Outcomes
  /\ pending \in Option(Offer)

\* new_session: no exchange yet.
Init ==
  /\ session = DefaultState
  /\ store = [s \in StableIds |-> None]
  /\ call = [c \in Call |-> IdleCall]
  /\ replies = 0
  /\ outcome = [op |-> "none", kind |-> "none", answer |-> "none", asked |-> None]
  /\ pending = None

-----------------------------------------------------------------------------
(* How a call begins, ends and moves on.                                   *)

\* The call ends in its first stretch, leaving no trace.
Refuse(op) ==
  /\ outcome' = [outcome EXCEPT !.op = op, !.kind = "Err", !.answer = "none"]
  /\ UNCHANGED call

Goto(c, pc) == call' = [call EXCEPT ![c].pc = pc]

Consumes(c) == call[c].op \in {"accept", "reject"}

\* The call returns to its caller, without a request to answer or with one.
Return(c, kind, answer) ==
  /\ call' = [call EXCEPT ![c] = IdleCall]
  /\ outcome' = [outcome EXCEPT !.op = call[c].op, !.kind = kind, !.answer = answer]

ReturnAsking(c, kind, vpr, answer) ==
  /\ call' = [call EXCEPT ![c] = IdleCall]
  /\ outcome' = [op |-> call[c].op, kind |-> kind, answer |-> answer, asked |-> vpr]

\* post_message returned Err(kind) to the operation that posted:
\* accept_offer reports an unparsable 4xx as completion, and both offer
\* operations put the offer back before they return any other error.
Fail(c, err) ==
  \/ /\ call[c].op = "accept" /\ err = "MalformedProblemDetails"
     /\ Return(c, "Complete", err)
  \/ /\ Consumes(c) /\ ~(call[c].op = "accept" /\ err = "MalformedProblemDetails")
     /\ Goto(c, "restore")
     /\ UNCHANGED outcome
  \/ /\ ~Consumes(c)
     /\ Return(c, "Err", err)

\* post_message returned Ok(step): accept_offer reports a problem reply to the
\* advance as completion, every other step goes to the caller as it is.
StepFor(c, kind) ==
  IF call[c].op = "accept" /\ kind = "Problem" THEN "Complete" ELSE kind

\* An Ok accept or reject resolves the offer it consumed.
Resolved(c) ==
  IF Consumes(c) /\ pending = call[c].offer THEN None ELSE pending

-----------------------------------------------------------------------------
(* start_exchange                                                          *)

\* The caller names an exchange and may supply a token for it.
StartExchange(c, u, auth) ==
  /\ call[c].pc = "idle"
  /\ call' = [call EXCEPT ![c] =
       [IdleCall EXCEPT !.pc = "resolve", !.op = "start", !.url = u, !.auth = auth]]
  /\ UNCHANGED <<session, store, replies, outcome, pending>>

\* The URL is refused, or discovery fails: the session is not touched.
ResolveFails(c) ==
  /\ call[c].pc = "resolve"
  /\ Return(c, "Err", "none")
  /\ UNCHANGED <<session, store, replies, pending>>

\* Mutants: the reset forgets to forget, carries a token over, or leaves the
\* channel to be filled in later.
FreshStateBleeds(u, auth) == [session EXCEPT !.url = u, !.auth = auth]
FreshStateKeepsToken(u, auth) ==
  [DefaultState EXCEPT !.url = u, !.auth = IF auth = None THEN session.auth ELSE auth]
FreshStateNoChannel(u, auth) == [DefaultState EXCEPT !.auth = auth]

FreshState(u, auth) == [DefaultState EXCEPT !.url = u, !.auth = auth]

ResetSession(c) ==
  /\ call[c].pc = "resolve"
  /\ session' = FreshState(call[c].url, call[c].auth)
  /\ pending' = None
  /\ Goto(c, "post")
  /\ UNCHANGED <<store, replies, outcome>>

-----------------------------------------------------------------------------
(* submit_presentation                                                     *)

\* Mutant: the domain is not compared.
DomainUnchecked(vpr, u) == FALSE

DomainMismatch(vpr, u) ==
  u # None /\ vpr.domain # None /\ vpr.domain # HostOf[u]

\* Reads the request and the channel under one lock; refuses a foreign domain
\* unless the caller allows it.
BeginSubmit(c, allow) ==
  /\ call[c].pc = "idle"
  /\ IF session.vpr = None \/ (DomainMismatch(session.vpr, session.url) /\ ~allow)
     THEN Refuse("submit")
     ELSE /\ call' = [call EXCEPT ![c] =
               [IdleCall EXCEPT !.pc = "sign", !.op = "submit",
                                !.vp = session.vpr, !.allow = allow]]
          /\ UNCHANGED outcome
  /\ UNCHANGED <<session, store, replies, pending>>

\* build_and_sign_vp on the big-stack thread.
SignVp(c) ==
  /\ call[c].pc = "sign"
  /\ Goto(c, "post")
  /\ UNCHANGED <<session, store, replies, outcome, pending>>

SignFails(c) ==
  /\ call[c].pc = "sign"
  /\ Return(c, "Err", "none")
  /\ UNCHANGED <<session, store, replies, pending>>

-----------------------------------------------------------------------------
(* accept_offer                                                            *)

\* Copies the offer and its companions; the session keeps them. An envelope
\* without usable credentials is refused.
BeginAccept(c) ==
  /\ call[c].pc = "idle"
  /\ IF session.offer = None \/ session.offer.creds = <<>>
     THEN Refuse("accept")
     ELSE /\ call' = [call EXCEPT ![c] =
               [IdleCall EXCEPT !.pc = "verify", !.op = "accept", !.k = 1,
                                !.offer = session.offer, !.next = session.next,
                                !.redirect = session.redirect]]
          /\ UNCHANGED outcome
  /\ UNCHANGED <<session, store, replies, pending>>

Entries(c) == call[c].offer.creds

\* Mutants: the loops stop after one entry, or one entry early.
NextEntryFirstOnly(c, phase) == call' = [call EXCEPT ![c].k = 1, ![c].pc = phase]
NextEntryShort(c, phase) ==
  IF call[c].k + 1 < Len(Entries(c))
  THEN call' = [call EXCEPT ![c].k = @ + 1]
  ELSE call' = [call EXCEPT ![c].k = 1, ![c].pc = phase]

\* After entry k comes entry k + 1, or the next phase.
NextEntry(c, phase) ==
  IF call[c].k < Len(Entries(c))
  THEN call' = [call EXCEPT ![c].k = @ + 1]
  ELSE call' = [call EXCEPT ![c].k = 1, ![c].pc = phase]

\* One iteration of the verify loop; any outcome that is not storable ends
\* the call before anything is stored.
VerifyEntry(c, derived, answer) ==
  /\ call[c].pc = "verify"
  /\ answer \in VerifyAnswers(Entries(c)[call[c].k])
  /\ IF VerifyOfferedEntry(Entries(c)[call[c].k], derived, answer) \in StorableOutcomes
     THEN NextEntry(c, "store") /\ UNCHANGED outcome
     ELSE Return(c, "Err", "none")
  /\ UNCHANGED <<session, store, replies, pending>>

\* One iteration of the store loop: an occupied slot is overwritten.
StoreEntry(c) ==
  /\ call[c].pc = "store"
  /\ LET cred == Entries(c)[call[c].k]
     IN  store' = [store EXCEPT ![StableLocalId(cred)] = cred]
  /\ NextEntry(c, "advance")
  /\ UNCHANGED <<session, replies, outcome, pending>>

\* store.add fails, or the holder has no store: what was stored stays.
StoreFails(c) ==
  /\ call[c].pc = "store"
  /\ Return(c, "Err", "none")
  /\ UNCHANGED <<session, store, replies, pending>>

\* Mutants: the companions stay behind; the whole offer does.
ClearNothing(s) == s
ClearOfferOnly(s) == [s EXCEPT !.offer = None]

ClearOffer(s) == [s EXCEPT !.offer = None, !.next = None, !.redirect = None]

\* The offer bundled a request: it becomes the current one, without a POST.
AdvanceWithRequest(c) ==
  /\ call[c].pc = "advance"
  /\ call[c].next # None
  /\ session' = [ClearOffer(session) EXCEPT !.vpr = call[c].next]
  /\ pending' = Resolved(c)
  /\ ReturnAsking(c, "Request", call[c].next, "none")
  /\ UNCHANGED <<store, replies>>

\* The offer came with a redirect: it ends the exchange, without a POST.
AdvanceWithRedirect(c) ==
  /\ call[c].pc = "advance"
  /\ call[c].next = None /\ call[c].redirect # None
  /\ session' = ClearOffer(session)
  /\ pending' = Resolved(c)
  /\ Return(c, "Redirect", "none")
  /\ UNCHANGED <<store, replies>>

\* Otherwise the offer is cleared first and an empty message posted.
AdvanceByPost(c) ==
  /\ call[c].pc = "advance"
  /\ call[c].next = None /\ call[c].redirect = None
  /\ session' = ClearOffer(session)
  /\ Goto(c, "post")
  /\ UNCHANGED <<store, replies, outcome, pending>>

-----------------------------------------------------------------------------
(* reject_offer                                                            *)

\* Takes the offer and drops its companions, then posts an empty message.
BeginReject(c) ==
  /\ call[c].pc = "idle"
  /\ IF session.offer = None
     THEN Refuse("reject") /\ UNCHANGED session
     ELSE /\ call' = [call EXCEPT ![c] =
               [IdleCall EXCEPT !.pc = "post", !.op = "reject",
                                !.offer = session.offer]]
          /\ session' = ClearOffer(session)
          /\ UNCHANGED outcome
  /\ UNCHANGED <<store, replies, pending>>

-----------------------------------------------------------------------------
(* post_message                                                            *)

\* Takes channel, token and referenceId under one lock.
PostSnapshot(c) ==
  /\ call[c].pc = "post"
  /\ IF session.url = None
     THEN Fail(c, "none")
     ELSE /\ call' = [call EXCEPT ![c].pc = "wire", ![c].url = session.url,
                                  ![c].auth = session.auth, ![c].ref = session.ref]
          /\ UNCHANGED outcome
  /\ UNCHANGED <<session, store, replies, pending>>

\* The n-th reply, of the given shape, from the server at u.
MakeReply(shape, u, n) ==
  LET tag == [from |-> u, n |-> n]
      vp == [from |-> u, n |-> n, creds |-> shape.creds, bundled |-> shape.vpr,
             redirects |-> shape.redirect = "valid"]
      vpr == [from |-> u, n |-> n, domain |-> shape.domain]
      redirect == [from |-> u, n |-> n, valid |-> shape.redirect = "valid"]
  IN [status |-> shape.status, body |-> shape.body,
      msg |-> [vp |-> IF shape.creds = None THEN None ELSE vp,
               vpr |-> IF shape.vpr THEN vpr ELSE None,
               redirect |-> IF shape.redirect = "none" THEN None ELSE redirect,
               ref |-> IF shape.ref THEN tag ELSE None]]

\* The server answers the request on the wire as it pleases.
ServerReplies(c, shape) ==
  /\ call[c].pc = "wire"
  /\ replies < MaxReplies
  /\ replies' = replies + 1
  /\ call' = [call EXCEPT ![c].pc = "reply",
                          ![c].reply = MakeReply(shape, call[c].url, replies + 1)]
  /\ UNCHANGED <<session, store, outcome, pending>>

\* Mutant: a failed request is sent again.
NetworkFailsRetries(c) ==
  /\ call[c].pc = "wire"
  /\ Goto(c, "post")
  /\ UNCHANGED <<session, store, replies, outcome, pending>>

\* Connection error, 30 s timeout, or a body that is too large or not UTF-8.
\* There are no retries.
NetworkFails(c) ==
  /\ call[c].pc = "wire"
  /\ Fail(c, "none")
  /\ UNCHANGED <<session, store, replies, pending>>

\* Mutant: a reply without a referenceId leaves the old one.
TakeReferenceIfAny(s, reply) ==
  IF reply.status = "2xx" /\ MessageOf(reply).ref # None
  THEN [s EXCEPT !.ref = MessageOf(reply).ref] ELSE s

\* A 2xx sets or clears the referenceId to echo next.
TakeReference(s, reply) ==
  IF reply.status = "2xx" THEN [s EXCEPT !.ref = MessageOf(reply).ref] ELSE s

\* Classify the reply and take its referenceId.
RecordReference(c) ==
  /\ call[c].pc = "reply"
  /\ LET reply == call[c].reply
         kind == Classify(reply).kind
     IN \/ /\ kind \in ErrKinds
           /\ Fail(c, kind)
           /\ session' = session
           /\ pending' = IF call[c].op = "accept" /\ kind = "MalformedProblemDetails"
                         THEN Resolved(c) ELSE pending
        \/ /\ kind \in OkKinds
           /\ session' = TakeReference(session, reply)
           /\ IF kind \in {"Request", "Offer"}
              THEN Goto(c, "capture") /\ UNCHANGED <<outcome, pending>>
              ELSE /\ Return(c, StepFor(c, kind), kind)
                   /\ pending' = Resolved(c)
  /\ UNCHANGED <<store, replies>>

\* Mutant: the first request of an exchange sticks.
FirstVpr(old, new) == IF old # None THEN old ELSE new

\* The request to answer next: a step without one leaves the last.
LatestVpr(old, new) == IF new # None THEN new ELSE old

\* Mutant: an offer's companions change places.
CapturedSwapped(s, step) ==
  LET asked == [s EXCEPT !.vpr = LatestVpr(s.vpr, step.vpr)] IN
  IF step.kind = "Offer"
  THEN [asked EXCEPT !.offer = step.vcs, !.next = step.redirect, !.redirect = step.vpr]
  ELSE asked

\* Under a second lock, a request or an offer enters the session.
Captured(s, step) ==
  LET asked == [s EXCEPT !.vpr = LatestVpr(s.vpr, step.vpr)] IN
  IF step.kind = "Offer"
  THEN [asked EXCEPT !.offer = step.vcs, !.next = step.vpr, !.redirect = step.redirect]
  ELSE asked

CaptureStep(c) ==
  /\ call[c].pc = "capture"
  /\ LET step == Classify(call[c].reply)
     IN /\ session' = Captured(session, step)
        /\ pending' = IF step.kind = "Offer" THEN step.vcs ELSE Resolved(c)
        /\ IF step.vpr # None
           THEN ReturnAsking(c, step.kind, step.vpr, step.kind)
           ELSE Return(c, step.kind, step.kind)
  /\ UNCHANGED <<store, replies>>

\* Mutant: nothing is put back.
PutBackNothing(s, c) == s

\* The advance failed: the consumed offer returns unless another took its
\* place. accept_offer clears the companions, reject_offer leaves them alone.
PutBack(s, c) ==
  IF call[c].op = "accept"
  THEN [s EXCEPT !.offer = call[c].offer, !.next = None, !.redirect = None]
  ELSE [s EXCEPT !.offer = call[c].offer]

RestoreOffer(c) ==
  /\ call[c].pc = "restore"
  /\ session' = IF session.offer = None THEN PutBack(session, c) ELSE session
  /\ Return(c, "Err", "none")
  /\ UNCHANGED <<store, replies, pending>>

-----------------------------------------------------------------------------
\* The caller drops the future at an await: the rest of the call never runs.
Cancel(c) ==
  /\ Cancellable
  /\ call[c].pc # "idle"
  /\ Return(c, "Cancelled", "none")
  /\ UNCHANGED <<session, store, replies, pending>>

Begin(c) ==
  \/ \E u \in Exchange : \E auth \in {None, u} : StartExchange(c, u, auth)
  \/ \E allow \in BOOLEAN : BeginSubmit(c, allow)
  \/ BeginAccept(c)
  \/ BeginReject(c)

\* A call in progress takes its next step, whatever the ports and the server
\* make of it.
Progress(c) ==
  \/ ResolveFails(c)
  \/ ResetSession(c)
  \/ SignVp(c)
  \/ SignFails(c)
  \/ \E derived \in DeriveAnswers : \E answer \in EngineAnswers :
       VerifyEntry(c, derived, answer)
  \/ StoreEntry(c)
  \/ StoreFails(c)
  \/ AdvanceWithRequest(c)
  \/ AdvanceWithRedirect(c)
  \/ AdvanceByPost(c)
  \/ PostSnapshot(c)
  \/ \E shape \in ReplyShapes : ServerReplies(c, shape)
  \/ NetworkFails(c)
  \/ RecordReference(c)
  \/ CaptureStep(c)
  \/ RestoreOffer(c)

Next == \E c \in Call : Begin(c) \/ Progress(c) \/ Cancel(c)

Spec == Init /\ [][Next]_vars

FairSpec == Spec /\ \A c \in Call : WF_vars(Progress(c))

\* A caller that starts an exchange when no other call is in progress, and makes
\* no other until the session is that of the new exchange. Otherwise its calls
\* overlap as they please.
RestartsAlone ==
  \A c, d \in Call : call[c].pc = "resolve" /\ d # c => call[d].pc = "idle"

CalmSpec == Init /\ [][Next /\ RestartsAlone']_vars
-----------------------------------------------------------------------------
(* Properties of every interleaving.                                       *)

\* A bundled request or redirect never outlives or predates the offer it came
\* with: a later accept_offer would otherwise follow the wrong one
\* (holder.rs 50-55, the three fields live under one lock but change in six
\* places).
CompanionsBelongToOffer ==
  /\ session.offer = None => session.next = None /\ session.redirect = None
  /\ session.next # None => session.next.n = session.offer.n
  /\ session.redirect # None => session.redirect.n = session.offer.n

\* A bearer token travels only to the exchange it was supplied for, also when
\* calls of two exchanges overlap (post_message takes channel and token under
\* one lock, start_exchange replaces both under one lock).
BearerStaysOnItsExchange ==
  \A c \in Call : call[c].auth \in {None, call[c].url}

\* post_message never meets a session without a channel: its SessionState
\* error is unreachable, because nothing to respond to exists before the first
\* start_exchange.
PostingNeedsExchange ==
  \A c \in Call : call[c].pc \notin {"idle", "resolve"} => session.url # None

\* What the wallet holds was stored under its own slot, and only after the
\* issuer's proof was found sound.
OnlyProvenStored ==
  \A s \in StableIds : store[s] # None =>
    /\ store[s] \in ProofHolds
    /\ Recognized(store[s])
    /\ StableLocalId(store[s]) = s

Proven(cred) == cred \in ProofHolds /\ Recognized(cred)

\* "Atomic: verification runs over all entries FIRST": no credential of an
\* offer is stored unless every credential of that offer is proven, and only
\* accept_offer stores.
AtomicAccept ==
  [][store' # store =>
       \E c \in Call :
         /\ call[c].op = "accept"
         /\ \A i \in DOMAIN Entries(c) : Proven(Entries(c)[i])]_vars

\* Once accept_offer advances the exchange, every credential of the offer has
\* its slot filled with a credential of the same issuer: the server never
\* learns of an acceptance the wallet has not recorded.
StoredBeforeAdvance ==
  \A c \in Call :
    call[c].op = "accept" /\ call[c].pc \notin {"verify", "store"} =>
      \A i \in DOMAIN Entries(c) :
        LET held == store[StableLocalId(Entries(c)[i])]
        IN  held # None /\ IssuerOf[held] = IssuerOf[Entries(c)[i]]

\* A credential is never overwritten by another issuer's: slots are scoped by
\* issuer (issuance.rs 93-98).
IssuersKeepTheirSlots ==
  [][\A s \in StableIds :
       store[s] # None =>
         store'[s] # None /\ IssuerOf[store'[s]] = IssuerOf[store[s]]]_vars

\* A combined message loses nothing on its way to the session: an offer keeps
\* its credentials, its request and its usable redirect (exchange.rs 327-335).
OffersKeepTheirParts ==
  \A c \in Call :
    LET reply == call[c].reply IN
    (/\ call[c].pc \in {"reply", "capture"}
     /\ reply.status = "2xx" /\ reply.body = "parsed" /\ reply.msg.vp # None)
    => LET step == Classify(reply) IN
       /\ step.vcs = reply.msg.vp
       /\ step.vpr = reply.msg.vpr
       /\ step.redirect # None <=> step.vcs.redirects

-----------------------------------------------------------------------------
(* Properties of sequential use: one call at a time, none dropped.         *)

Quiet == \A c \in Call : call[c].pc = "idle"

\* "A previous exchange's referenceId, last VPR, or pending Offer must never
\* bleed into a new exchange" (holder.rs 208-210).
SessionNeverBleeds ==
  \A item \in {session.vpr, session.ref, session.offer, session.next,
               session.redirect} :
    item # None => item.from = session.url

\* A presentation is sent to the server that asked for it, and to the domain
\* it named unless the caller allowed the mismatch (section 3.4.3.2).
AnswersItsAsker ==
  \A c \in Call : call[c].pc = "wire" /\ call[c].vp # None =>
    /\ call[c].vp.from = call[c].url
    /\ call[c].vp.domain \in {None, HostOf[call[c].url]} \/ call[c].allow

\* Between calls the session holds exactly the offer still to be resolved: it
\* survives a failed accept or reject, and a resolved one never comes back
\* (holder.rs 42-45).
OfferIsPending == Quiet => session.offer = pending

\* The offer as the caller sees it: while accept_offer or reject_offer posts,
\* the one it took, though the session has let go of it.
HeldOffer ==
  LET posting == {c \in Call : Consumes(c) /\
        call[c].pc \in {"post", "wire", "reply", "capture", "restore"}}
  IN  IF posting = {} THEN session.offer ELSE call[CHOOSE c \in posting : TRUE].offer

Contract == INSTANCE OfferContract WITH
  held <- HeldOffer, given <- replies,
  open <- \E c \in Call : call[c].reply # None,
  told <- [op |-> outcome.op, kind |-> outcome.kind]

\* The session implements the contract of an offer: "cleared only after a
\* SUCCESSFUL advance" (holder.rs 495), restored on a failed one, replaced
\* by the offer of the reply in hand only, and never resurrected by a reply or
\* a restore that comes after it was settled.
HonoursOfferContract == Contract!Spec

\* Claimed: between calls an unresolved offer still has the request and the
\* redirect its message carried (holder.rs 52-55, exchange.rs 294-296).
CompanionsSurvive ==
  Quiet /\ session.offer # None =>
    /\ session.offer.bundled => session.next # None
    /\ session.offer.redirects => session.redirect # None

\* Claimed: last_vpr is "the most recent verifiable-presentation-request the
\* server asked for" (holder.rs 36), and within an exchange it never goes back.
\* Not so: accept_offer makes the request of its offer current, however old.
VprNeverRegresses ==
  [][session.vpr # None /\ session'.vpr # None /\ session'.url = session.url
       => session'.vpr.n >= session.vpr.n]_vars

\* Claimed: "A server problem reply on the advance is surfaced truthfully as
\* StepResult::Problem" (holder.rs 497-499). Not so: it becomes Complete.
ProblemIsSurfaced ==
  outcome.op = "accept" /\ outcome.answer = "Problem" => outcome.kind = "Problem"

\* The request a presentation answers is the one the caller was last handed,
\* as a step or with an offer: its choice of credentials and of fields, keyed
\* by query index, was made for that one.
PresentsWhatWasAsked ==
  \A c \in Call : call[c].op = "submit" => call[c].vp = outcome.asked

\* The last call returned upon a 2xx reply.
ReplySucceeded == outcome.answer \in OkKinds \ {"Problem"}

\* A message echoes the referenceId of the last reply or none: what an earlier
\* reply of the exchange sent is not echoed after the server stopped sending it
\* (holder.rs 1217-1220). A failed reply in between leaves it.
EchoesLatestReference ==
  \A c \in Call : call[c].pc = "wire" /\ ReplySucceeded /\ call[c].ref # None =>
    call[c].ref.n = replies

\* Every call returns, whether the server answers, fails or stays silent: then
\* the client's 30 s timeout answers.
EveryCallReturns ==
  \A c \in Call : call[c].pc # "idle" ~> call[c].pc = "idle"
=============================================================================
