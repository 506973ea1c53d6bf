--------------------------- MODULE SequentialProofs ---------------------------
(***************************************************************************)
(* Proofs about one VcalmHolder, for any exchanges, credentials and reply  *)
(* shapes. Whose the session's items are is settled for calls that overlap,*)
(* are dropped and begin again in any way, but for an exchange started     *)
(* while another call is in progress (CalmSpec). Which request is answered *)
(* needs one call at a time, and that an offer is held until it is settled *)
(* also needs calls to run to their end.                                   *)
(***************************************************************************)
EXTENDS HolderSessionProofs

\* Sequential use.
OneCall == \A c, d \in Call : c = d

\* Everything a message carries comes from the exchange at u.
AllFrom(items, u) == \A item \in items : item # None => item.from = u

ReplyFrom(reply, u) ==
  AllFrom({reply.msg.vp, reply.msg.vpr, reply.msg.redirect, reply.msg.ref}, u)

\* The locals of a call are of the session's exchange, and a presentation
\* answers the request its caller was last handed, if it makes one call at a
\* time.
LocalSource(r, u, asked) ==
  /\ AllFrom({r.vp, r.offer, r.next, r.redirect}, u)
  /\ r.pc \in {"idle", "resolve"} =>
       r.vp = None /\ r.offer = None /\ r.next = None /\ r.redirect = None
  /\ r.pc \in InPost => r.url = u
  /\ r.pc \in {"reply", "capture"} => ReplyFrom(r.reply, u)
  /\ r.vp # None => r.vp.domain \in {None, HostOf[u]} \/ r.allow
  /\ OneCall /\ r.op = "submit" => r.vp = asked

\* The request a caller would answer is the one it was last handed.
CurrentIsAsked == session.vpr # None => session.vpr = outcome.asked

SourceInv ==
  /\ SessionNeverBleeds
  /\ CurrentIsAsked
  /\ \A c \in Call : LocalSource(call[c], session.url, outcome.asked)

Posting == {"post", "wire", "reply", "capture", "restore"}

LetGo(r) == r.op \in {"accept", "reject"} /\ r.pc \in Posting

\* Who holds the offer still to be resolved, the one that is due: the session,
\* until the advance of accept_offer or reject_offer takes it away. A reply in
\* hand is the last one given.
LocalOffer(r, offer, due, n) ==
  /\ r.pc \in {"verify", "store", "advance"} => r.op = "accept" /\ r.offer = offer
  /\ r.pc \in {"resolve", "sign"} => r.op \in {"start", "submit"}
  /\ LetGo(r) => offer = None /\ r.offer = due /\ due # None
  /\ ~LetGo(r) => offer = due
  /\ r.pc = "restore" => LetGo(r)
  /\ r.reply # None =>
       /\ r.pc \in {"reply", "capture", "restore"}
       /\ r.reply.msg.vp # None => r.reply.msg.vp.n = n

OfferInv ==
  /\ Call = {} => session.offer = pending
  /\ \A c \in Call : LocalOffer(call[c], session.offer, pending, replies)

\* An offer knows whether its message carried a usable redirect.
PartsWhole(reply) ==
  reply.msg.vp # None =>
    (reply.msg.vp.redirects <=>
       reply.msg.redirect # None /\ reply.msg.redirect.valid)

WholeReplies ==
  \A c \in Call : call[c].pc \in {"reply", "capture"} => PartsWhole(call[c].reply)
-----------------------------------------------------------------------------
(* What a call's first stretch leaves.                                     *)

Starting(u, auth) ==
  [IdleCall EXCEPT !.pc = "resolve", !.op = "start", !.url = u, !.auth = auth]

Submitting(allow) ==
  [IdleCall EXCEPT !.pc = "sign", !.op = "submit", !.vp = session.vpr, !.allow = allow]

Accepting ==
  [IdleCall EXCEPT !.pc = "verify", !.op = "accept", !.k = 1, !.offer = session.offer,
                   !.next = session.next, !.redirect = session.redirect]

Rejecting ==
  [IdleCall EXCEPT !.pc = "post", !.op = "reject", !.offer = session.offer]

LEMMA BeginSteps ==
  ASSUME NEW c \in Call, Begin(c)
  PROVE  /\ call[c].pc = "idle" /\ UNCHANGED <<store, replies, pending>>
         /\ \/ /\ \E op \in {"submit", "accept", "reject"} : Refuse(op)
               /\ call' = call /\ session' = session
            \/ /\ session' = session /\ outcome' = outcome
               /\ \E u \in Exchange : \E auth \in {None, u} :
                    call' = [call EXCEPT ![c] = Starting(u, auth)]
            \/ /\ session' = session /\ outcome' = outcome /\ session.vpr # None
               /\ \E allow \in BOOLEAN :
                    /\ DomainMismatch(session.vpr, session.url) => allow
                    /\ call' = [call EXCEPT ![c] = Submitting(allow)]
            \/ /\ session' = session /\ outcome' = outcome /\ session.offer # None
               /\ call' = [call EXCEPT ![c] = Accepting]
            \/ /\ session' = ClearOffer(session) /\ outcome' = outcome
               /\ session.offer # None
               /\ call' = [call EXCEPT ![c] = Rejecting]
<1>1. CASE \E u \in Exchange : \E auth \in {None, u} : StartExchange(c, u, auth)
  BY <1>1 DEF StartExchange, Starting
<1>2. CASE \E allow \in BOOLEAN : BeginSubmit(c, allow)
  BY <1>2 DEF BeginSubmit, Refuse, Submitting
<1>3. CASE BeginAccept(c)
  BY <1>3 DEF BeginAccept, Refuse, Accepting
<1>4. CASE BeginReject(c)
  BY <1>4 DEF BeginReject, Refuse, Rejecting
<1> QED BY <1>1, <1>2, <1>3, <1>4 DEF Begin

\* What a call carries along when only its place in the code changes.
SameLocals(r, old) ==
  /\ r.vp = old.vp /\ r.offer = old.offer /\ r.next = old.next
  /\ r.redirect = old.redirect /\ r.url = old.url /\ r.reply = old.reply
  /\ r.allow = old.allow /\ r.op = old.op

LEMMA GotoKeepsLocals ==
  ASSUME NEW old \in CallState, NEW pc \in PCs
  PROVE  /\ [old EXCEPT !.pc = pc].pc = pc
         /\ SameLocals([old EXCEPT !.pc = pc], old)
BY DEF CallState, SameLocals

\* The next entry of a loop, or the next phase, leaves them alone.
LEMMA NextEntryLocals ==
  ASSUME IInv, NEW c \in Call, NEW phase, NextEntry(c, phase)
  PROVE  \E r : /\ call' = [call EXCEPT ![c] = r]
                /\ SameLocals(r, call[c]) /\ r.pc \in {call[c].pc, phase}
<1>1. call[c] \in CallState /\ call \in [Call -> CallState]
  BY DEF IInv, TypeOK
<1>2. CASE call[c].k < Len(Entries(c))
  <2> DEFINE r == [call[c] EXCEPT !.k = @ + 1]
  <2>1. call' = [call EXCEPT ![c] = r]
    BY <1>1, <1>2 DEF NextEntry
  <2>2. SameLocals(r, call[c]) /\ r.pc = call[c].pc
    BY <1>1 DEF SameLocals, CallState
  <2> QED BY <2>1, <2>2
<1>3. CASE ~(call[c].k < Len(Entries(c)))
  <2> DEFINE r == [call[c] EXCEPT !.k = 1, !.pc = phase]
  <2>1. call' = [call EXCEPT ![c] = r]
    BY <1>1, <1>3 DEF NextEntry
  <2>2. SameLocals(r, call[c]) /\ r.pc = phase
    BY <1>1 DEF SameLocals, CallState
  <2> QED BY <2>1, <2>2
<1> QED BY <1>2, <1>3

-----------------------------------------------------------------------------
(* A combined message keeps its parts, with any number of calls.           *)

LEMMA WholeMove ==
  ASSUME IInv, WholeReplies, NEW c \in Call, NEW r,
         call' = [call EXCEPT ![c] = r],
         r.pc \in {"reply", "capture"} => PartsWhole(r.reply)
  PROVE  WholeReplies'
<1>1. \A d \in Call : call'[d] = IF d = c THEN r ELSE call[d]
  BY DEF IInv, TypeOK
<1> QED BY <1>1 DEF WholeReplies

LEMMA WholeIdle ==
  ASSUME IInv, WholeReplies, NEW c \in Call, call' = [call EXCEPT ![c] = IdleCall]
  PROVE  WholeReplies'
<1>1. IdleCall.pc = "idle"
  BY DEF IdleCall
<1> QED BY <1>1, WholeMove

LEMMA WholeGoto ==
  ASSUME IInv, WholeReplies, NEW c \in Call, NEW pc, Goto(c, pc),
         pc \in {"reply", "capture"} => call[c].pc \in {"reply", "capture"}
  PROVE  WholeReplies'
<1> DEFINE r == [call[c] EXCEPT !.pc = pc]
<1>1. call[c] \in CallState
  BY DEF IInv, TypeOK
<1>2. r.pc = pc /\ r.reply = call[c].reply
  BY <1>1 DEF CallState
<1>3. call' = [call EXCEPT ![c] = r]
  BY DEF Goto
<1> HIDE DEF r
<1> QED BY <1>2, <1>3, WholeMove DEF WholeReplies

LEMMA WholeFail ==
  ASSUME IInv, WholeReplies, NEW c \in Call, NEW err, Fail(c, err)
  PROVE  WholeReplies'
BY WholeIdle, WholeGoto DEF Fail, Return

\* The first stretches leave no reply.
LEMMA WholeBegin ==
  ASSUME IInv, WholeReplies, NEW c \in Call, Begin(c)
  PROVE  WholeReplies'
<1>1. CASE call' = call
  BY <1>1 DEF WholeReplies
<1>2. ASSUME NEW r, call' = [call EXCEPT ![c] = r],
             r.pc \in {"resolve", "sign", "verify", "post"}
      PROVE  WholeReplies'
  BY <1>2, WholeMove
<1>3. /\ \A u, auth : Starting(u, auth).pc = "resolve"
      /\ \A allow : Submitting(allow).pc = "sign"
      /\ Accepting.pc = "verify" /\ Rejecting.pc = "post"
  BY DEF Starting, Submitting, Accepting, Rejecting, IdleCall
<1> QED BY <1>1, <1>2, <1>3, BeginSteps

LEMMA WholeProgress ==
  ASSUME IInv, WholeReplies, NEW c \in Call, Progress(c)
  PROVE  WholeReplies'
<1>1. call[c] \in CallState
  BY DEF IInv, TypeOK
<1>2. CASE \/ ResolveFails(c) \/ SignFails(c) \/ StoreFails(c)
           \/ AdvanceWithRequest(c) \/ AdvanceWithRedirect(c)
           \/ CaptureStep(c) \/ RestoreOffer(c)
  <2>1. call' = [call EXCEPT ![c] = IdleCall]
    BY <1>2 DEF ResolveFails, SignFails, StoreFails, AdvanceWithRequest,
                AdvanceWithRedirect, CaptureStep, RestoreOffer, Return, ReturnAsking
  <2> QED BY <2>1, WholeIdle
<1>3. CASE ResetSession(c) \/ SignVp(c) \/ AdvanceByPost(c)
  BY <1>3, WholeGoto DEF ResetSession, SignVp, AdvanceByPost
<1>4. ASSUME NEW phase \in {"store", "advance"}, NextEntry(c, phase),
             call[c].pc \in {"verify", "store"}
      PROVE  WholeReplies'
  BY <1>4, NextEntryLocals, WholeMove
<1>5. ASSUME NEW derived \in DeriveAnswers, NEW answer \in EngineAnswers,
             VerifyEntry(c, derived, answer)
      PROVE  WholeReplies'
  BY <1>4, <1>5, WholeIdle DEF VerifyEntry, Return
<1>6. CASE StoreEntry(c)
  BY <1>4, <1>6 DEF StoreEntry
<1>7. CASE PostSnapshot(c)
  <2>1. CASE Fail(c, "none")
    BY <2>1, WholeFail
  <2>2. CASE call' = [call EXCEPT ![c].pc = "wire", ![c].url = session.url,
                                  ![c].auth = session.auth, ![c].ref = session.ref]
    <3> DEFINE r == [call[c] EXCEPT !.pc = "wire", !.url = session.url,
                                    !.auth = session.auth, !.ref = session.ref]
    <3>1. call' = [call EXCEPT ![c] = r] /\ r.pc = "wire"
      BY <1>1, <2>2 DEF IInv, TypeOK, CallState
    <3> HIDE DEF r
    <3> QED BY <3>1, WholeMove
  <2> QED BY <1>7, <2>1, <2>2 DEF PostSnapshot
<1>8. ASSUME NEW shape \in ReplyShapes, ServerReplies(c, shape)
      PROVE  WholeReplies'
  <2> DEFINE reply == MakeReply(shape, call[c].url, replies + 1)
             r == [call[c] EXCEPT !.pc = "reply", !.reply = reply]
  <2>1. call' = [call EXCEPT ![c] = r] /\ r.reply = reply
    BY <1>1, <1>8 DEF ServerReplies, CallState
  <2>2. PartsWhole(reply)
    <3>1. call[c].url \in Exchange /\ replies + 1 \in Ordinal
      <4>1. call[c].url \in Exchange
        BY <1>1, <1>8 DEF ServerReplies, IInv, CallShape, LocalShape, InPost, CallState, Option
      <4>2. replies \in 0..MaxReplies /\ replies < MaxReplies
        BY <1>8 DEF ServerReplies, IInv, TypeOK
      <4> QED BY <4>1, <4>2, MaxRepliesAssumption DEF Ordinal
    <3>2. [from |-> call[c].url, n |-> replies + 1,
            valid |-> shape.redirect = "valid"] # None
      <4> DEFINE made == [from |-> call[c].url, n |-> replies + 1,
                          valid |-> shape.redirect = "valid"]
      <4>1. made \in RedirectUrl
        BY <3>1 DEF RedirectUrl
      <4>2. None \notin RedirectUrl
        BY SessionAssumption
      <4> QED BY <4>1, <4>2
    <3>3. /\ reply.msg.redirect # None <=> shape.redirect # "none"
          /\ reply.msg.redirect # None =>
               (reply.msg.redirect.valid <=> shape.redirect = "valid")
      BY <3>2 DEF MakeReply
    <3>4. reply.msg.vp # None =>
            (reply.msg.vp.redirects <=> shape.redirect = "valid")
      BY DEF MakeReply
    <3> HIDE DEF reply
    <3> QED BY <3>3, <3>4 DEF PartsWhole
  <2> HIDE DEF reply, r
  <2> QED BY <2>1, <2>2, WholeMove
<1>9. CASE NetworkFails(c)
  BY <1>9, WholeFail DEF NetworkFails
<1>10. CASE RecordReference(c)
  <2>1. \/ \E err \in ErrKinds : Fail(c, err)
        \/ Goto(c, "capture")
        \/ call' = [call EXCEPT ![c] = IdleCall]
    BY <1>10 DEF RecordReference, Return
  <2>2. call[c].pc = "reply"
    BY <1>10 DEF RecordReference
  <2> QED BY <2>1, <2>2, WholeFail, WholeGoto, WholeIdle
<1> QED BY <1>2, <1>3, <1>5, <1>6, <1>7, <1>8, <1>9, <1>10 DEF Progress

\* An offer keeps its credentials, its request and its usable redirect on its
\* way from the reply to the session, however many calls there are.
THEOREM PartsAreKept == Spec => []OffersKeepTheirParts
<1>1. Init => WholeReplies
  BY DEF Init, IdleCall, WholeReplies
<1>2. IInv /\ WholeReplies /\ [Next]_vars => WholeReplies'
  <2>1. ASSUME IInv, WholeReplies, NEW c \in Call, Cancel(c) PROVE WholeReplies'
    BY <2>1, WholeIdle DEF Cancel, Return
  <2>2. ASSUME WholeReplies, UNCHANGED vars PROVE WholeReplies'
    BY <2>2 DEF vars, WholeReplies
  <2> QED BY <2>1, <2>2, WholeBegin, WholeProgress DEF Next
<1>3. IInv /\ WholeReplies => OffersKeepTheirParts
  <2> SUFFICES ASSUME IInv, WholeReplies, NEW c \in Call,
                      call[c].pc \in {"reply", "capture"},
                      call[c].reply.status = "2xx", call[c].reply.body = "parsed",
                      call[c].reply.msg.vp # None
               PROVE  LET reply == call[c].reply
                          step == Classify(reply) IN
                      /\ step.vcs = reply.msg.vp
                      /\ step.vpr = reply.msg.vpr
                      /\ step.redirect # None <=> step.vcs.redirects
    BY DEF OffersKeepTheirParts
  <2> DEFINE reply == call[c].reply
             m == reply.msg
  <2>1. reply \in Reply /\ PartsWhole(reply)
    BY DEF IInv, TypeOK, CallShape, LocalShape, CallState, Option, WholeReplies
  <2>2. m \in VcapiMessage
    BY <2>1 DEF Reply
  <2>3. Classify(reply) = [kind |-> "Offer", vcs |-> m.vp, vpr |-> m.vpr,
                           redirect |-> ParsedRedirect(m)]
    BY DEF Classify, ClassifyMessage, MessageOf, RedirectRefused
  <2>4. m.vp \in Offer /\ m.redirect \in Option(RedirectUrl)
    BY <2>2 DEF VcapiMessage, Option
  <2>5. ParsedRedirect(m) # None <=> m.redirect # None /\ m.redirect.valid
    BY DEF ParsedRedirect
  <2> HIDE DEF m
  <2> QED BY <2>1, <2>3, <2>5 DEF PartsWhole, m
<1> QED BY <1>1, <1>2, <1>3, SessionInvariant, PTL DEF Spec
-----------------------------------------------------------------------------
(* Whose the session's items are, and which request is current.            *)

\* A classified reply brings nothing but what its message carried.
LEMMA ClassifyParts ==
  ASSUME NEW reply \in Reply
  PROVE  /\ Classify(reply).vcs \in {None, reply.msg.vp}
         /\ Classify(reply).vpr \in {None, reply.msg.vpr}
         /\ Classify(reply).redirect \in {None, reply.msg.redirect}
         /\ MessageOf(reply).ref \in {None, reply.msg.ref}
<1> DEFINE m == MessageOf(reply)
<1>1. /\ m.vp \in {None, reply.msg.vp} /\ m.vpr \in {None, reply.msg.vpr}
      /\ m.redirect \in {None, reply.msg.redirect} /\ m.ref \in {None, reply.msg.ref}
  BY DEF MessageOf, DefaultMessage
<1>2. m \in VcapiMessage
  BY DEF MessageOf, Reply, DefaultMessage, VcapiMessage, Option
<1>3. /\ ClassifyMessage(m).vcs \in {None, m.vp}
      /\ ClassifyMessage(m).vpr \in {None, m.vpr}
      /\ ClassifyMessage(m).redirect \in {None, m.redirect}
  <2> HIDE DEF m
  <2> DEFINE step == ClassifyMessage(m)
  <2>1. \/ step = Bare("Deserialization") \/ step = Bare("Complete")
        \/ step = [kind |-> "Offer", vcs |-> m.vp, vpr |-> m.vpr,
                   redirect |-> ParsedRedirect(m)]
        \/ step = [Bare("Redirect") EXCEPT !.redirect = ParsedRedirect(m)]
        \/ step = [Bare("Request") EXCEPT !.vpr = m.vpr]
    <3>1. m.redirect = None \/ m.redirect.valid \/ m.vp # None \/ RedirectRefused(m)
      <4>1. m.redirect \in Option(RedirectUrl)
        BY <1>2 DEF VcapiMessage
      <4> QED BY <4>1 DEF RedirectRefused, Option, RedirectUrl
    <3> QED BY <3>1 DEF ClassifyMessage, RedirectRefused, ParsedRedirect
  <2>2. ParsedRedirect(m) \in {None, m.redirect}
    BY DEF ParsedRedirect
  <2> HIDE DEF step
  <2>3. CASE step = Bare("Deserialization") \/ step = Bare("Complete")
    BY <2>3 DEF Bare, step
  <2>4. CASE step = [kind |-> "Offer", vcs |-> m.vp, vpr |-> m.vpr,
                     redirect |-> ParsedRedirect(m)]
    BY <2>2, <2>4 DEF step
  <2>5. CASE step = [Bare("Redirect") EXCEPT !.redirect = ParsedRedirect(m)]
    BY <2>2, <2>5 DEF step, Bare
  <2>6. CASE step = [Bare("Request") EXCEPT !.vpr = m.vpr]
    BY <2>6 DEF step, Bare
  <2> QED BY <2>1, <2>3, <2>4, <2>5, <2>6
<1>4. CASE reply.status = "2xx" /\ reply.body # "garbage"
  <2>1. Classify(reply) = ClassifyMessage(m)
    BY <1>4 DEF Classify
  <2> QED BY <1>1, <1>3, <2>1
<1>5. CASE ~(reply.status = "2xx" /\ reply.body # "garbage")
  <2>1. \E kind \in ErrKinds \cup {"Problem"} : Classify(reply) = Bare(kind)
    <3>1. reply.status \in {"2xx", "4xx", "other"}
      BY DEF Reply
    <3> QED BY <1>5, <3>1 DEF Classify, ErrKinds
  <2> QED BY <1>1, <2>1 DEF Bare
<1> QED BY <1>4, <1>5

\* The calls that stay as they are know no other exchange than the session's:
\* it is the one it was, or they are at rest.
OthersKeepSource(c) ==
  session'.url = session.url \/ \A d \in Call : d # c => call[d].pc = "idle"

\* A call changes: what it becomes decides.
LEMMA SourceMove ==
  ASSUME IInv, SourceInv, NEW c \in Call, NEW r, call' = [call EXCEPT ![c] = r],
         SessionNeverBleeds', CurrentIsAsked', OthersKeepSource(c),
         LocalSource(r, session'.url, outcome'.asked)
  PROVE  SourceInv'
<1>1. \A d \in Call : call'[d] = IF d = c THEN r ELSE call[d]
  BY DEF IInv, TypeOK
<1>2. ASSUME NEW d \in Call, d # c
      PROVE  LocalSource(call[d], session'.url, outcome'.asked)
  <2>1. ~OneCall /\ LocalSource(call[d], session.url, outcome.asked)
    BY <1>2 DEF OneCall, SourceInv
  <2>2. CASE session'.url = session.url
    BY <2>1, <2>2 DEF LocalSource
  <2>3. CASE call[d].pc = "idle"
    <3> HIDE DEF OneCall
    <3> QED BY <2>1, <2>3 DEF LocalSource, AllFrom, InPost
  <2> QED BY <1>2, <2>2, <2>3 DEF OthersKeepSource
<1> QED BY <1>1, <1>2 DEF SourceInv

LEMMA SourceIdle ==
  ASSUME IInv, SourceInv, NEW c \in Call, call' = [call EXCEPT ![c] = IdleCall],
         SessionNeverBleeds', CurrentIsAsked', session'.url = session.url
  PROVE  SourceInv'
<1>1. LocalSource(IdleCall, session'.url, outcome'.asked)
  BY DEF IdleCall, LocalSource, AllFrom, InPost
<1> QED BY <1>1, SourceMove DEF OthersKeepSource

\* The call moves on with its locals, in the same exchange.
LEMMA SourceGoto ==
  ASSUME IInv, SourceInv, NEW c \in Call, NEW r,
         SameLocals(r, call[c]),
         call' = [call EXCEPT ![c] = r],
         r.pc \notin {"idle", "resolve"},
         r.pc \in InPost => r.pc = "capture" /\ call[c].pc = "reply",
         session'.url = session.url \/ call[c].pc = "resolve",
         OthersKeepSource(c), outcome'.asked = outcome.asked,
         SessionNeverBleeds', CurrentIsAsked'
  PROVE  SourceInv'
<1>1. call[c] \in CallState /\ LocalSource(call[c], session.url, outcome.asked)
  BY DEF IInv, TypeOK, SourceInv
<1>2. LocalSource(r, session'.url, outcome'.asked)
  <2>1. CASE session'.url = session.url
    BY <1>1, <2>1 DEF LocalSource, InPost, SameLocals
  <2>2. CASE call[c].pc = "resolve"
    <3>1. /\ r.vp = None /\ r.offer = None /\ r.next = None /\ r.redirect = None
          /\ r.pc \notin InPost /\ (OneCall /\ r.op = "submit" => r.vp = outcome.asked)
      BY <1>1, <2>2 DEF LocalSource, SameLocals
    <3> QED BY <3>1 DEF LocalSource, AllFrom, InPost
  <2> QED BY <2>1, <2>2
<1> QED BY <1>2, SourceMove

\* The session keeps whose it is when nothing but items of its own exchange
\* enters it, and the request is left alone.
LEMMA SessionKeepsSource ==
  ASSUME SessionNeverBleeds, CurrentIsAsked, session'.url = session.url,
         session'.vpr = session.vpr, outcome'.asked = outcome.asked,
         AllFrom({session'.ref, session'.offer, session'.next, session'.redirect},
                 session.url)
  PROVE  SessionNeverBleeds' /\ CurrentIsAsked'
BY DEF SessionNeverBleeds, CurrentIsAsked, AllFrom

\* Progress that leaves what the session holds alone, or clears the offer.
LEMMA ClearKeepsSource ==
  ASSUME IInv, SourceInv, session' = session \/ session' = ClearOffer(session),
         outcome'.asked = outcome.asked
  PROVE  SessionNeverBleeds' /\ CurrentIsAsked' /\ session'.url = session.url
<1>1. session \in ExchangeState
  BY DEF IInv, TypeOK
<1>2. /\ session'.url = session.url /\ session'.vpr = session.vpr
      /\ session'.ref = session.ref
      /\ session'.offer \in {None, session.offer}
      /\ session'.next \in {None, session.next}
      /\ session'.redirect \in {None, session.redirect}
  BY <1>1 DEF ClearOffer, ExchangeState
<1>3. AllFrom({session'.ref, session'.offer, session'.next, session'.redirect},
              session.url)
  BY <1>2 DEF SourceInv, SessionNeverBleeds, AllFrom
<1> QED BY <1>2, <1>3, SessionKeepsSource DEF SourceInv

LEMMA SourceBegin ==
  ASSUME IInv, SourceInv, NEW c \in Call, Begin(c)
  PROVE  SourceInv'
<1>1. session \in ExchangeState /\ outcome \in Outcomes
  BY DEF IInv, TypeOK
<1>2. outcome'.asked = outcome.asked
  BY <1>1, BeginSteps DEF Refuse, Outcomes
<1>3. session' = session \/ session' = ClearOffer(session)
  BY BeginSteps
<1>4. SessionNeverBleeds' /\ CurrentIsAsked' /\ session'.url = session.url
  BY <1>2, <1>3, ClearKeepsSource
<1>10. OthersKeepSource(c)
  BY <1>4 DEF OthersKeepSource
<1>5. CASE call' = call /\ session' = session
  BY <1>2, <1>4, <1>5 DEF SourceInv
<1>6. ASSUME NEW u \in Exchange, NEW auth \in {None, u},
             call' = [call EXCEPT ![c] = Starting(u, auth)]
      PROVE  SourceInv'
  <2>1. LocalSource(Starting(u, auth), session'.url, outcome'.asked)
    BY DEF Starting, IdleCall, LocalSource, AllFrom, InPost
  <2> QED BY <1>4, <1>6, <1>10, <2>1, SourceMove
<1>7. ASSUME session' = session, session.vpr # None, NEW allow \in BOOLEAN,
             DomainMismatch(session.vpr, session.url) => allow,
             call' = [call EXCEPT ![c] = Submitting(allow)]
      PROVE  SourceInv'
  <2>1. session.vpr.from = session.url /\ session.vpr = outcome.asked
    BY <1>7 DEF SourceInv, SessionNeverBleeds, CurrentIsAsked
  <2>2. session.vpr.domain \in {None, HostOf[session.url]} \/ allow
    BY <1>7 DEF DomainMismatch, IInv, SessionShape
  <2>3. LocalSource(Submitting(allow), session.url, outcome.asked)
    BY <2>1, <2>2 DEF Submitting, IdleCall, LocalSource, AllFrom, InPost
  <2> QED BY <1>2, <1>4, <1>7, <1>10, <2>3, SourceMove
<1>8. ASSUME session' = session, call' = [call EXCEPT ![c] = Accepting]
      PROVE  SourceInv'
  <2>1. LocalSource(Accepting, session.url, outcome.asked)
    BY DEF Accepting, IdleCall, LocalSource, AllFrom, InPost, SourceInv, SessionNeverBleeds
  <2> QED BY <1>2, <1>4, <1>8, <1>10, <2>1, SourceMove
<1>9. ASSUME session' = ClearOffer(session), call' = [call EXCEPT ![c] = Rejecting]
      PROVE  SourceInv'
  <2>1. session'.url = session.url
    BY <1>1, <1>9 DEF ClearOffer, ExchangeState
  <2>2. LocalSource(Rejecting, session.url, outcome.asked)
    BY DEF Rejecting, IdleCall, LocalSource, AllFrom, InPost, SourceInv, SessionNeverBleeds
  <2> QED BY <1>2, <1>4, <1>9, <1>10, <2>1, <2>2, SourceMove
<1> QED BY <1>5, <1>6, <1>7, <1>8, <1>9, BeginSteps

\* A return without a request leaves the one last asked.
LEMMA ReturnKeepsAsked ==
  ASSUME IInv, NEW c \in Call, NEW kind, NEW answer, Return(c, kind, answer)
  PROVE  outcome'.asked = outcome.asked
BY DEF IInv, TypeOK, Outcomes, Return

LEMMA SourceFail ==
  ASSUME IInv, SourceInv, NEW c \in Call, NEW err, Fail(c, err),
         session' = session
  PROVE  SourceInv'
<1>1. call[c] \in CallState
  BY DEF IInv, TypeOK
<1>2. outcome'.asked = outcome.asked
  BY ReturnKeepsAsked DEF Fail
<1>3. SessionNeverBleeds' /\ CurrentIsAsked' /\ session'.url = session.url
  BY <1>2, ClearKeepsSource
<1>4. CASE call' = [call EXCEPT ![c] = IdleCall]
  BY <1>3, <1>4, SourceIdle
<1>5. CASE Goto(c, "restore")
  <2> DEFINE r == [call[c] EXCEPT !.pc = "restore"]
  <2>1. call' = [call EXCEPT ![c] = r]
    BY <1>5 DEF Goto
  <2>2. SameLocals(r, call[c]) /\ r.pc = "restore"
    BY <1>1, GotoKeepsLocals DEF PCs
  <2> HIDE DEF r
  <2>3. r.pc \notin {"idle", "resolve"}
    BY <2>2
  <2>4. r.pc \in InPost => r.pc = "capture" /\ call[c].pc = "reply"
    BY <2>2 DEF InPost
  <2>5. OthersKeepSource(c)
    BY <1>3 DEF OthersKeepSource
  <2> QED BY <1>2, <1>3, <2>1, <2>2, <2>3, <2>4, <2>5, SourceGoto
<1> QED BY <1>4, <1>5 DEF Fail, Return

\* start_exchange forgets, submit_presentation signs, and accept_offer goes
\* through its entries.
LEMMA SourcePrepare ==
  ASSUME IInv, RestartsAlone, SourceInv, NEW c \in Call,
         \/ ResolveFails(c) \/ SignFails(c) \/ StoreFails(c) \/ Cancel(c)
         \/ ResetSession(c) \/ SignVp(c) \/ AdvanceByPost(c)
         \/ \E derived \in DeriveAnswers : \E answer \in EngineAnswers :
              VerifyEntry(c, derived, answer)
         \/ StoreEntry(c)
  PROVE  SourceInv'
<1>1. call[c] \in CallState /\ call \in [Call -> CallState]
  BY DEF IInv, TypeOK
<1>2. ASSUME Return(c, "Err", "none") \/ Return(c, "Cancelled", "none"),
             session' = session
      PROVE  SourceInv'
  <2>1. outcome'.asked = outcome.asked /\ call' = [call EXCEPT ![c] = IdleCall]
    BY <1>2, ReturnKeepsAsked DEF Return
  <2> QED BY <1>2, <2>1, ClearKeepsSource, SourceIdle
<1>3. CASE ResolveFails(c) \/ SignFails(c) \/ StoreFails(c) \/ Cancel(c)
  BY <1>2, <1>3 DEF ResolveFails, SignFails, StoreFails, Cancel
<1>4. ASSUME session' = session \/ session' = ClearOffer(session),
             outcome' = outcome,
             NEW r, call' = [call EXCEPT ![c] = r], SameLocals(r, call[c]),
             r.pc \in {"verify", "store", "advance", "post"}
      PROVE  SourceInv'
  <2>1. SessionNeverBleeds' /\ CurrentIsAsked' /\ session'.url = session.url
    BY <1>4, ClearKeepsSource
  <2>2. r.pc \notin {"idle", "resolve"}
    BY <1>4
  <2>3. outcome'.asked = outcome.asked
    BY <1>4
  <2>4. r.pc \in InPost => r.pc = "capture" /\ call[c].pc = "reply"
    BY <1>4 DEF InPost
  <2>5. OthersKeepSource(c)
    BY <2>1 DEF OthersKeepSource
  <2> QED BY <1>4, <2>1, <2>2, <2>3, <2>4, <2>5, SourceGoto
<1>5. CASE ResetSession(c)
  <2> DEFINE r == [call[c] EXCEPT !.pc = "post"]
  <2>1. call' = [call EXCEPT ![c] = r] /\ outcome' = outcome /\ call[c].pc = "resolve"
    BY <1>5 DEF ResetSession, Goto
  <2>2. SameLocals(r, call[c]) /\ r.pc = "post"
    BY <1>1, GotoKeepsLocals DEF PCs
  <2>3. /\ session'.vpr = None /\ session'.ref = None /\ session'.offer = None
        /\ session'.next = None /\ session'.redirect = None
    BY <1>5 DEF ResetSession, FreshState, DefaultState
  <2>4. SessionNeverBleeds' /\ CurrentIsAsked'
    BY <2>3 DEF SessionNeverBleeds, CurrentIsAsked
  <2>5. OthersKeepSource(c)
    BY <2>1 DEF RestartsAlone, OthersKeepSource
  <2> HIDE DEF r
  <2>6. r.pc \notin {"idle", "resolve"}
    BY <2>2
  <2>7. r.pc \in InPost => r.pc = "capture" /\ call[c].pc = "reply"
    BY <2>2 DEF InPost
  <2> QED BY <2>1, <2>2, <2>4, <2>5, <2>6, <2>7, SourceGoto
<1>6. CASE SignVp(c) \/ AdvanceByPost(c)
  <2> DEFINE r == [call[c] EXCEPT !.pc = "post"]
  <2>1. call' = [call EXCEPT ![c] = r] /\ outcome' = outcome
    BY <1>6 DEF SignVp, AdvanceByPost, Goto
  <2>2. SameLocals(r, call[c]) /\ r.pc = "post"
    BY <1>1, GotoKeepsLocals DEF PCs
  <2> HIDE DEF r
  <2> QED BY <1>4, <1>6, <2>1, <2>2 DEF SignVp, AdvanceByPost
<1>7. ASSUME NEW phase \in {"store", "advance"}, NextEntry(c, phase),
             call[c].pc \in {"verify", "store"}, session' = session,
             outcome' = outcome
      PROVE  SourceInv'
  BY <1>4, <1>7, NextEntryLocals
<1>8. ASSUME NEW derived \in DeriveAnswers, NEW answer \in EngineAnswers,
             VerifyEntry(c, derived, answer)
      PROVE  SourceInv'
  BY <1>2, <1>7, <1>8 DEF VerifyEntry
<1>9. CASE StoreEntry(c)
  BY <1>7, <1>9 DEF StoreEntry
<1> QED BY <1>3, <1>5, <1>6, <1>8, <1>9

\* The request and its reply.
LEMMA SourceWire ==
  ASSUME IInv, SourceInv, NEW c \in Call,
         \/ PostSnapshot(c)
         \/ \E shape \in ReplyShapes : ServerReplies(c, shape)
         \/ NetworkFails(c)
  PROVE  SourceInv'
<1>1. /\ call[c] \in CallState /\ call \in [Call -> CallState]
      /\ LocalSource(call[c], session.url, outcome.asked)
  BY DEF IInv, TypeOK, SourceInv
<1>2. session' = session
  BY DEF PostSnapshot, ServerReplies, NetworkFails
<1>3. CASE Fail(c, "none")
  BY <1>2, <1>3, SourceFail
<1>4. ASSUME outcome' = outcome, NEW r, call' = [call EXCEPT ![c] = r],
             LocalSource(r, session.url, outcome.asked)
      PROVE  SourceInv'
  BY <1>2, <1>4, ClearKeepsSource, SourceMove DEF OthersKeepSource
<1>5. CASE PostSnapshot(c) /\ ~Fail(c, "none")
  <2> DEFINE r == [call[c] EXCEPT !.pc = "wire", !.url = session.url,
                                  !.auth = session.auth, !.ref = session.ref]
  <2>1. call' = [call EXCEPT ![c] = r] /\ outcome' = outcome
    BY <1>1, <1>5 DEF PostSnapshot
  <2>2. /\ r.vp = call[c].vp /\ r.offer = call[c].offer /\ r.next = call[c].next
        /\ r.redirect = call[c].redirect /\ r.allow = call[c].allow
        /\ r.op = call[c].op /\ r.pc = "wire" /\ r.url = session.url
    BY <1>1 DEF CallState
  <2> HIDE DEF r
  <2>3. LocalSource(r, session.url, outcome.asked)
    BY <1>1, <2>2 DEF LocalSource
  <2> QED BY <1>4, <2>1, <2>3
<1>6. ASSUME NEW shape \in ReplyShapes, ServerReplies(c, shape)
      PROVE  SourceInv'
  <2> DEFINE reply == MakeReply(shape, call[c].url, replies + 1)
             r == [call[c] EXCEPT !.pc = "reply", !.reply = reply]
  <2>1. call' = [call EXCEPT ![c] = r] /\ outcome' = outcome /\ call[c].pc = "wire"
    BY <1>6 DEF ServerReplies
  <2>2. ReplyFrom(reply, call[c].url)
    BY DEF MakeReply, ReplyFrom, AllFrom
  <2> HIDE DEF reply
  <2>3. /\ r.vp = call[c].vp /\ r.offer = call[c].offer /\ r.next = call[c].next
        /\ r.redirect = call[c].redirect /\ r.allow = call[c].allow
        /\ r.op = call[c].op /\ r.pc = "reply" /\ r.url = call[c].url
        /\ r.reply = reply
    BY <1>1 DEF CallState
  <2> HIDE DEF r
  <2>4. LocalSource(r, session.url, outcome.asked)
    BY <1>1, <2>1, <2>2, <2>3 DEF LocalSource, InPost
  <2> QED BY <1>4, <2>1, <2>4
<1> QED BY <1>3, <1>5, <1>6 DEF NetworkFails

\* The referenceId of the reply enters the session.
LEMMA SourceRecord ==
  ASSUME IInv, SourceInv, NEW c \in Call, RecordReference(c)
  PROVE  SourceInv'
<1> DEFINE reply == call[c].reply
<1>1. /\ call[c] \in CallState /\ session \in ExchangeState
      /\ call[c].pc = "reply" /\ LocalShape(call[c])
      /\ LocalSource(call[c], session.url, outcome.asked)
  BY DEF IInv, TypeOK, CallShape, SourceInv, RecordReference
<1>2. reply \in Reply /\ ReplyFrom(reply, session.url)
  BY <1>1 DEF LocalShape, LocalSource, CallState, Option
<1>3. CASE session' = session /\ \E err \in ErrKinds : Fail(c, err)
  BY <1>3, SourceFail
<1>4. CASE /\ session' = session \/ session' = [session EXCEPT !.ref = MessageOf(reply).ref]
           /\ \/ Goto(c, "capture") /\ UNCHANGED outcome
              \/ \E kind, answer : Return(c, kind, answer)
  <2>1. outcome'.asked = outcome.asked
    BY <1>4, ReturnKeepsAsked
  <2>2. /\ session'.url = session.url /\ session'.vpr = session.vpr
        /\ session'.ref \in {session.ref, MessageOf(reply).ref}
        /\ session'.offer = session.offer /\ session'.next = session.next
        /\ session'.redirect = session.redirect
    BY <1>1, <1>4 DEF ExchangeState
  <2>3. AllFrom({session'.ref, session'.offer, session'.next, session'.redirect},
                session.url)
    BY <1>2, <2>2, ClassifyParts DEF SourceInv, SessionNeverBleeds, AllFrom, ReplyFrom
  <2>4. SessionNeverBleeds' /\ CurrentIsAsked'
    BY <2>1, <2>2, <2>3, SessionKeepsSource DEF SourceInv
  <2>5. CASE Goto(c, "capture")
    <3> DEFINE r == [call[c] EXCEPT !.pc = "capture"]
    <3>1. call' = [call EXCEPT ![c] = r]
      BY <2>5 DEF Goto
    <3>2. SameLocals(r, call[c]) /\ r.pc = "capture"
      BY <1>1, GotoKeepsLocals DEF PCs
    <3> HIDE DEF r
    <3>3. r.pc \notin {"idle", "resolve"}
      BY <3>2
    <3>4. r.pc \in InPost => r.pc = "capture" /\ call[c].pc = "reply"
      BY <1>1, <3>2
    <3>5. OthersKeepSource(c)
      BY <2>2 DEF OthersKeepSource
    <3> QED BY <2>1, <2>2, <2>4, <3>1, <3>2, <3>3, <3>4, <3>5, SourceGoto
  <2>6. CASE call' = [call EXCEPT ![c] = IdleCall]
    BY <2>2, <2>4, <2>6, SourceIdle
  <2> QED BY <1>4, <2>5, <2>6 DEF Return
<1> QED BY <1>3, <1>4 DEF RecordReference, TakeReference

\* The request or the offer of the reply enters the session, and the caller is
\* handed that same request.
LEMMA SourceCapture ==
  ASSUME IInv, SourceInv, NEW c \in Call, CaptureStep(c)
  PROVE  SourceInv'
<1> DEFINE reply == call[c].reply
           step == Classify(reply)
<1>1. /\ call[c] \in CallState /\ session \in ExchangeState
      /\ call[c].pc = "capture" /\ LocalShape(call[c])
      /\ LocalSource(call[c], session.url, outcome.asked)
  BY DEF IInv, TypeOK, CallShape, SourceInv, CaptureStep
<1>2. reply \in Reply /\ ReplyFrom(reply, session.url)
  BY <1>1 DEF LocalShape, LocalSource, CallState, Option
<1>3. AllFrom({step.vcs, step.vpr, step.redirect}, session.url)
  BY <1>2, ClassifyParts DEF AllFrom, ReplyFrom
<1>4. /\ session' = Captured(session, step)
      /\ step.vpr # None => outcome'.asked = step.vpr
      /\ step.vpr = None => Return(c, step.kind, step.kind)
      /\ call' = [call EXCEPT ![c] = IdleCall]
  <2>1. /\ session' = Captured(session, step)
        /\ IF step.vpr # None
           THEN ReturnAsking(c, step.kind, step.vpr, step.kind)
           ELSE Return(c, step.kind, step.kind)
    BY DEF CaptureStep
  <2> HIDE DEF step
  <2> QED BY <2>1 DEF ReturnAsking, Return
<1>5. step.vpr = None => outcome'.asked = outcome.asked
  BY <1>4, ReturnKeepsAsked
<1> HIDE DEF step
<1>6. /\ session'.url = session.url /\ session'.ref = session.ref
      /\ session'.vpr = LatestVpr(session.vpr, step.vpr)
      /\ session'.offer \in {session.offer, step.vcs}
      /\ session'.next \in {session.next, step.vpr}
      /\ session'.redirect \in {session.redirect, step.redirect}
  BY <1>1, <1>4 DEF Captured, ExchangeState
<1>7. SessionNeverBleeds'
  BY <1>3, <1>6 DEF SourceInv, SessionNeverBleeds, AllFrom, LatestVpr
<1>8. CurrentIsAsked'
  BY <1>4, <1>5, <1>6 DEF SourceInv, CurrentIsAsked, LatestVpr
<1> QED BY <1>4, <1>6, <1>7, <1>8, SourceIdle

\* The ways an accepted offer ends without a POST, and the failed advance.
LEMMA SourceSettle ==
  ASSUME IInv, SourceInv, NEW c \in Call,
         AdvanceWithRequest(c) \/ AdvanceWithRedirect(c) \/ RestoreOffer(c)
  PROVE  SourceInv'
<1>1. /\ call[c] \in CallState /\ session \in ExchangeState
      /\ LocalSource(call[c], session.url, outcome.asked)
      /\ call' = [call EXCEPT ![c] = IdleCall]
  BY DEF IInv, TypeOK, SourceInv, AdvanceWithRequest, AdvanceWithRedirect,
         RestoreOffer, Return, ReturnAsking
<1>2. CASE AdvanceWithRequest(c)
  <2>1. /\ session'.url = session.url /\ session'.vpr = call[c].next
        /\ session'.ref = session.ref /\ session'.offer = None
        /\ session'.next = None /\ session'.redirect = None
        /\ outcome'.asked = call[c].next
    BY <1>1, <1>2 DEF AdvanceWithRequest, ReturnAsking, ClearOffer, ExchangeState
  <2>2. SessionNeverBleeds' /\ CurrentIsAsked'
    BY <1>1, <2>1
    DEF SourceInv, SessionNeverBleeds, CurrentIsAsked, LocalSource, AllFrom
  <2> QED BY <1>1, <2>1, <2>2, SourceIdle
<1>3. CASE AdvanceWithRedirect(c)
  <2>1. outcome'.asked = outcome.asked
    BY <1>3, ReturnKeepsAsked DEF AdvanceWithRedirect
  <2> QED BY <1>1, <1>3, <2>1, ClearKeepsSource, SourceIdle DEF AdvanceWithRedirect
<1>4. CASE RestoreOffer(c)
  <2>1. outcome'.asked = outcome.asked
    BY <1>4, ReturnKeepsAsked DEF RestoreOffer
  <2>2. /\ session'.url = session.url /\ session'.vpr = session.vpr
        /\ session'.ref = session.ref
        /\ session'.offer \in {session.offer, call[c].offer}
        /\ session'.next \in {None, session.next}
        /\ session'.redirect \in {None, session.redirect}
    BY <1>1, <1>4 DEF RestoreOffer, PutBack, ExchangeState
  <2>3. AllFrom({session'.ref, session'.offer, session'.next, session'.redirect},
                session.url)
    BY <1>1, <2>2 DEF SourceInv, SessionNeverBleeds, AllFrom, LocalSource
  <2> QED BY <1>1, <2>1, <2>2, <2>3, SessionKeepsSource, SourceIdle DEF SourceInv
<1> QED BY <1>2, <1>3, <1>4

LEMMA SourceNext ==
  ASSUME IInv, RestartsAlone, SourceInv, [Next]_vars
  PROVE  SourceInv'
<1>1. CASE UNCHANGED vars
  BY <1>1 DEF vars, SourceInv, SessionNeverBleeds, CurrentIsAsked
<1>2. ASSUME NEW c \in Call, Progress(c) PROVE SourceInv'
  BY <1>2, SourcePrepare, SourceWire, SourceRecord, SourceCapture, SourceSettle
  DEF Progress
<1>3. ASSUME NEW c \in Call, Cancel(c) PROVE SourceInv'
  BY <1>3, SourcePrepare
<1> QED BY <1>1, <1>2, <1>3, SourceBegin DEF Next

\* A caller that restarts alone makes steps of the session, and none that
\* leaves two calls where only a start may be.
LEMMA CalmIsASession == CalmSpec => Spec /\ []RestartsAlone
<1>1. Init => RestartsAlone
  BY DEF Init, RestartsAlone, IdleCall
<1>2. RestartsAlone /\ [Next /\ RestartsAlone']_vars => RestartsAlone'
  BY DEF RestartsAlone, vars
<1>3. [Next /\ RestartsAlone']_vars => [Next]_vars
  OBVIOUS
<1> QED BY <1>1, <1>2, <1>3, PTL DEF CalmSpec, Spec

\* A caller that makes one call at a time restarts alone.
THEOREM OneCallIsCalm ==
  ASSUME OneCall
  PROVE  Spec => CalmSpec
<1>1. [Next]_vars => [Next /\ RestartsAlone']_vars
  BY DEF OneCall, RestartsAlone
<1> QED BY <1>1, PTL DEF CalmSpec, Spec

\* While calls overlap but for restarts, the session and the calls in progress
\* know no item of another exchange, and the current request is the one the
\* caller was last handed.
THEOREM SourceInvariant == CalmSpec => []SourceInv
<1>1. Init => SourceInv
  BY DEF Init, DefaultState, IdleCall, SourceInv, SessionNeverBleeds,
         CurrentIsAsked, LocalSource, AllFrom, InPost
<1>2. IInv /\ RestartsAlone /\ SourceInv /\ [Next]_vars => SourceInv'
  BY SourceNext
<1> QED BY <1>1, <1>2, CalmIsASession, SessionInvariant, PTL DEF Spec

\* Nothing of a previous exchange bleeds into a new one, with any number of
\* calls, unless an exchange is started while one of them is in progress.
THEOREM SessionIsClean == CalmSpec => []SessionNeverBleeds
<1>1. SourceInv => SessionNeverBleeds
  BY DEF SourceInv
<1> QED BY <1>1, SourceInvariant, PTL

\* Under the same condition a presentation is sent to the server and the domain
\* that asked for it.
THEOREM AskerIsAnswered == CalmSpec => []AnswersItsAsker
<1>1. SourceInv => AnswersItsAsker
  BY DEF SourceInv, LocalSource, AllFrom, InPost, AnswersItsAsker
<1> QED BY <1>1, SourceInvariant, PTL

\* One call at a time, the request answered is the one the caller was last
\* handed.
THEOREM AskedIsPresented ==
  ASSUME OneCall
  PROVE  Spec => []PresentsWhatWasAsked
<1>1. SourceInv => PresentsWhatWasAsked
  <2> HIDE DEF OneCall
  <2> QED BY DEF SourceInv, LocalSource, PresentsWhatWasAsked
<1> QED BY <1>1, OneCallIsCalm, SourceInvariant, PTL
-----------------------------------------------------------------------------
(* The referenceId to echo is that of the last reply.                      *)

\* An item of the n-th reply, or none.
Latest(item, n) == item # None => item.n = n

\* What the session would echo is of the last reply: once that reply is taken,
\* and while the outcome of the last call says that it succeeded.
LocalEcho(r, ref, n, succeeded) ==
  /\ r.pc \in {"reply", "capture"} => Latest(r.reply.msg.ref, n)
  /\ r.pc = "capture" => Latest(ref, n)
  /\ succeeded /\ r.pc \notin {"reply", "capture", "restore"} => Latest(ref, n)
  /\ succeeded /\ r.pc = "wire" => Latest(r.ref, n)

EchoInv ==
  \A c \in Call : LocalEcho(call[c], session.ref, replies, ReplySucceeded)

\* The only call changes: what it becomes decides.
LEMMA EchoMove ==
  ASSUME OneCall, IInv, NEW c \in Call, NEW r, call' = [call EXCEPT ![c] = r],
         LocalEcho(r, session'.ref, replies', ReplySucceeded')
  PROVE  EchoInv'
<1>1. \A d \in Call : d = c /\ call'[d] = r
  BY DEF IInv, TypeOK, OneCall
<1> QED BY <1>1 DEF EchoInv

\* A call that returns without having read a 2xx reply promises nothing.
LEMMA EchoReturn ==
  ASSUME OneCall, IInv, NEW c \in Call, call' = [call EXCEPT ![c] = IdleCall],
         outcome'.answer \notin OkKinds \ {"Problem"}
  PROVE  EchoInv'
<1>1. LocalEcho(IdleCall, session'.ref, replies', ReplySucceeded')
  BY DEF LocalEcho, IdleCall, ReplySucceeded
<1> QED BY <1>1, EchoMove

\* The answer a return reports.
LEMMA ReturnAnswers ==
  ASSUME IInv, NEW c \in Call, NEW kind, NEW answer, Return(c, kind, answer)
  PROVE  outcome'.answer = answer /\ call' = [call EXCEPT ![c] = IdleCall]
BY DEF Return, IInv, TypeOK, Outcomes

LEMMA EchoFail ==
  ASSUME OneCall, IInv, EchoInv, NEW c \in Call, NEW err \in ErrKinds \cup {"none"},
         Fail(c, err), UNCHANGED <<session, replies>>
  PROVE  EchoInv'
<1>1. err \notin OkKinds
  BY DEF ErrKinds, OkKinds
<1>2. ASSUME NEW kind, Return(c, kind, err) PROVE EchoInv'
  <2>1. outcome'.answer = err /\ call' = [call EXCEPT ![c] = IdleCall]
    BY <1>2, ReturnAnswers
  <2> QED BY <1>1, <2>1, EchoReturn
<1>3. CASE Goto(c, "restore")
  <2> DEFINE r == [call[c] EXCEPT !.pc = "restore"]
  <2>1. call' = [call EXCEPT ![c] = r] /\ r.pc = "restore"
    BY <1>3, GotoKeepsLocals DEF Goto, IInv, TypeOK, PCs
  <2> HIDE DEF r
  <2>2. LocalEcho(r, session'.ref, replies', ReplySucceeded')
    BY <2>1 DEF LocalEcho
  <2> QED BY <2>1, <2>2, EchoMove
<1> QED BY <1>2, <1>3 DEF Fail

\* Away from a reply nothing but a reset touches the referenceId.
LEMMA EchoGoto ==
  ASSUME OneCall, IInv, EchoInv, NEW c \in Call, NEW r,
         call' = [call EXCEPT ![c] = r], UNCHANGED <<replies, outcome>>,
         r.pc \notin {"reply", "capture", "restore"},
         call[c].pc \notin {"reply", "capture", "restore"},
         session'.ref \in {None, session.ref},
         r.pc = "wire" => r.ref = session.ref
  PROVE  EchoInv'
<1>1. LocalEcho(call[c], session.ref, replies, ReplySucceeded)
  BY DEF EchoInv
<1>2. ReplySucceeded' = ReplySucceeded
  BY DEF ReplySucceeded
<1>3. LocalEcho(r, session'.ref, replies', ReplySucceeded)
  BY <1>1 DEF LocalEcho, Latest
<1> QED BY <1>2, <1>3, EchoMove

LEMMA EchoBegin ==
  ASSUME OneCall, IInv, EchoInv, NEW c \in Call, Begin(c)
  PROVE  EchoInv'
<1>1. /\ call[c].pc = "idle" /\ replies' = replies /\ session \in ExchangeState
      /\ outcome \in Outcomes
  BY BeginSteps DEF IInv, TypeOK
<1>2. session'.ref = session.ref
  BY <1>1, BeginSteps DEF ClearOffer, ExchangeState
<1>3. CASE call' = call /\ \E op \in {"submit", "accept", "reject"} : Refuse(op)
  <2>1. ~ReplySucceeded'
    BY <1>1, <1>3 DEF Refuse, Outcomes, ReplySucceeded, OkKinds
  <2>2. \A d \in Call : call[d].pc = "idle"
    BY <1>1 DEF OneCall
  <2> QED BY <1>3, <2>1, <2>2 DEF EchoInv, LocalEcho
<1>4. ASSUME NEW r, call' = [call EXCEPT ![c] = r], outcome' = outcome,
             r.pc \in {"resolve", "sign", "verify", "post"}
      PROVE  EchoInv'
  <2>1. r.pc \notin {"reply", "capture", "restore"} /\ (r.pc = "wire" => r.ref = session.ref)
    BY <1>4
  <2> QED BY <1>1, <1>2, <1>4, <2>1, EchoGoto
<1>5. /\ \A u, auth : Starting(u, auth).pc = "resolve"
      /\ \A allow : Submitting(allow).pc = "sign"
      /\ Accepting.pc = "verify" /\ Rejecting.pc = "post"
  BY DEF Starting, Submitting, Accepting, Rejecting, IdleCall
<1> QED BY <1>3, <1>4, <1>5, BeginSteps

\* The steps before the request.
LEMMA EchoPrepare ==
  ASSUME OneCall, IInv, EchoInv, NEW c \in Call,
         \/ ResolveFails(c) \/ SignFails(c) \/ StoreFails(c) \/ Cancel(c)
         \/ AdvanceWithRequest(c) \/ AdvanceWithRedirect(c) \/ RestoreOffer(c)
         \/ ResetSession(c) \/ SignVp(c) \/ AdvanceByPost(c)
         \/ \E derived \in DeriveAnswers : \E answer \in EngineAnswers :
              VerifyEntry(c, derived, answer)
         \/ StoreEntry(c)
  PROVE  EchoInv'
<1>1. call[c] \in CallState /\ call \in [Call -> CallState] /\ session \in ExchangeState
  BY DEF IInv, TypeOK
<1>2. ASSUME NEW kind, Return(c, kind, "none") PROVE EchoInv'
  <2>1. outcome'.answer = "none" /\ call' = [call EXCEPT ![c] = IdleCall]
    BY <1>2, ReturnAnswers
  <2> QED BY <2>1, EchoReturn DEF OkKinds
<1>3. CASE ResolveFails(c) \/ SignFails(c) \/ StoreFails(c) \/ Cancel(c)
           \/ AdvanceWithRedirect(c) \/ RestoreOffer(c)
  BY <1>2, <1>3
  DEF ResolveFails, SignFails, StoreFails, Cancel, AdvanceWithRedirect, RestoreOffer
<1>4. CASE AdvanceWithRequest(c)
  <2>1. outcome'.answer = "none" /\ call' = [call EXCEPT ![c] = IdleCall]
    BY <1>4 DEF AdvanceWithRequest, ReturnAsking
  <2> QED BY <2>1, EchoReturn DEF OkKinds
<1>5. ASSUME NEW r, call' = [call EXCEPT ![c] = r], UNCHANGED <<replies, outcome>>,
             r.pc \in {"post", "verify", "store", "advance"},
             call[c].pc \in {"resolve", "sign", "verify", "store", "advance"},
             session'.ref \in {None, session.ref}
      PROVE  EchoInv'
  <2>1. /\ r.pc \notin {"reply", "capture", "restore"}
        /\ call[c].pc \notin {"reply", "capture", "restore"}
        /\ r.pc = "wire" => r.ref = session.ref
    BY <1>5
  <2> QED BY <1>5, <2>1, EchoGoto
<1>6. CASE ResetSession(c) \/ SignVp(c) \/ AdvanceByPost(c)
  <2> DEFINE r == [call[c] EXCEPT !.pc = "post"]
  <2>1. call' = [call EXCEPT ![c] = r] /\ r.pc = "post"
    BY <1>1, <1>6, GotoKeepsLocals DEF ResetSession, SignVp, AdvanceByPost, Goto, PCs
  <2> HIDE DEF r
  <2>2. session'.ref \in {None, session.ref}
    BY <1>1, <1>6 DEF ResetSession, SignVp, AdvanceByPost, FreshState, DefaultState,
                      ClearOffer, ExchangeState
  <2> QED BY <1>5, <1>6, <2>1, <2>2 DEF ResetSession, SignVp, AdvanceByPost
<1>7. ASSUME NEW phase \in {"store", "advance"}, NextEntry(c, phase),
             call[c].pc \in {"verify", "store"}, UNCHANGED <<session, replies, outcome>>
      PROVE  EchoInv'
  BY <1>5, <1>7, NextEntryLocals
<1>8. ASSUME NEW derived \in DeriveAnswers, NEW answer \in EngineAnswers,
             VerifyEntry(c, derived, answer)
      PROVE  EchoInv'
  BY <1>2, <1>7, <1>8 DEF VerifyEntry
<1>9. CASE StoreEntry(c)
  BY <1>7, <1>9 DEF StoreEntry
<1> QED BY <1>3, <1>4, <1>6, <1>8, <1>9

\* The request and its reply.
LEMMA EchoWire ==
  ASSUME OneCall, IInv, EchoInv, NEW c \in Call,
         \/ PostSnapshot(c)
         \/ \E shape \in ReplyShapes : ServerReplies(c, shape)
         \/ NetworkFails(c)
  PROVE  EchoInv'
<1>1. call[c] \in CallState /\ call \in [Call -> CallState]
  BY DEF IInv, TypeOK
<1>2. CASE Fail(c, "none") /\ UNCHANGED <<session, replies>>
  BY <1>2, EchoFail
<1>3. CASE PostSnapshot(c) /\ ~Fail(c, "none")
  <2> DEFINE r == [call[c] EXCEPT !.pc = "wire", !.url = session.url,
                                  !.auth = session.auth, !.ref = session.ref]
  <2>1. /\ call' = [call EXCEPT ![c] = r] /\ UNCHANGED <<session, replies, outcome>>
        /\ call[c].pc = "post"
    BY <1>1, <1>3 DEF PostSnapshot
  <2>2. r.pc = "wire" /\ r.ref = session.ref
    BY <1>1 DEF CallState
  <2> HIDE DEF r
  <2>3. /\ r.pc \notin {"reply", "capture", "restore"}
        /\ call[c].pc \notin {"reply", "capture", "restore"}
    BY <2>1, <2>2
  <2> QED BY <2>1, <2>2, <2>3, EchoGoto
<1>4. ASSUME NEW shape \in ReplyShapes, ServerReplies(c, shape)
      PROVE  EchoInv'
  <2> DEFINE reply == MakeReply(shape, call[c].url, replies + 1)
             r == [call[c] EXCEPT !.pc = "reply", !.reply = reply]
  <2>1. call' = [call EXCEPT ![c] = r] /\ replies' = replies + 1
    BY <1>4 DEF ServerReplies
  <2>2. Latest(reply.msg.ref, replies + 1)
    BY DEF MakeReply, Latest
  <2> HIDE DEF reply
  <2>3. r.pc = "reply" /\ r.reply = reply
    BY <1>1 DEF CallState
  <2> HIDE DEF r
  <2>4. LocalEcho(r, session'.ref, replies', ReplySucceeded')
    BY <2>1, <2>2, <2>3 DEF LocalEcho
  <2> QED BY <2>1, <2>4, EchoMove
<1> QED BY <1>2, <1>3, <1>4 DEF PostSnapshot, NetworkFails

\* A 2xx reply leaves its own referenceId or none; only a 2xx reply makes
\* another outcome than a problem or an error.
LEMMA EchoRecord ==
  ASSUME OneCall, IInv, EchoInv, NEW c \in Call, RecordReference(c)
  PROVE  EchoInv'
<1> DEFINE reply == call[c].reply
           kind == Classify(reply).kind
<1>1. /\ call[c] \in CallState /\ session \in ExchangeState /\ replies' = replies
      /\ call[c].pc = "reply" /\ LocalShape(call[c])
      /\ LocalEcho(call[c], session.ref, replies, ReplySucceeded)
  BY DEF IInv, TypeOK, CallShape, EchoInv, RecordReference
<1>2. reply \in Reply /\ Latest(reply.msg.ref, replies)
  BY <1>1 DEF LocalShape, LocalEcho, CallState, Option
<1>3. CASE kind \in ErrKinds /\ Fail(c, kind) /\ session' = session
  BY <1>1, <1>3, EchoFail
<1>4. CASE /\ kind \in OkKinds
           /\ session' = TakeReference(session, reply)
           /\ \/ Goto(c, "capture") /\ kind \in {"Request", "Offer"}
              \/ Return(c, StepFor(c, kind), kind)
  <2>1. kind # "Problem" => reply.status = "2xx"
    <3>1. reply.status \in {"2xx", "4xx", "other"}
      BY <1>2 DEF Reply
    <3>2. reply.status # "2xx" => kind \in {"Problem", "MalformedProblemDetails", "ServerError"}
      BY <3>1 DEF Classify, Bare
    <3>3. {"MalformedProblemDetails", "ServerError"} \cap OkKinds = {}
      BY DEF OkKinds
    <3> QED BY <1>4, <3>2, <3>3
  <2>2. kind # "Problem" => Latest(session'.ref, replies)
    BY <1>1, <1>2, <1>4, <2>1, ClassifyParts DEF TakeReference, ExchangeState, Latest
  <2> HIDE DEF kind
  <2>3. CASE Goto(c, "capture") /\ kind \in {"Request", "Offer"}
    <3> DEFINE r == [call[c] EXCEPT !.pc = "capture"]
    <3>1. /\ call' = [call EXCEPT ![c] = r]
          /\ SameLocals(r, call[c]) /\ r.pc = "capture"
      BY <1>1, <2>3, GotoKeepsLocals DEF Goto, PCs
    <3> HIDE DEF r
    <3>2. LocalEcho(r, session'.ref, replies', ReplySucceeded')
      BY <1>1, <1>2, <2>2, <2>3, <3>1 DEF LocalEcho, SameLocals
    <3> QED BY <3>1, <3>2, EchoMove
  <2>4. CASE Return(c, StepFor(c, kind), kind)
    <3>1. outcome'.answer = kind /\ call' = [call EXCEPT ![c] = IdleCall]
      BY <2>4, ReturnAnswers
    <3>2. LocalEcho(IdleCall, session'.ref, replies', ReplySucceeded')
      BY <1>1, <2>2, <3>1 DEF LocalEcho, IdleCall, ReplySucceeded
    <3> QED BY <3>1, <3>2, EchoMove
  <2> QED BY <1>4, <2>3, <2>4
<1> QED BY <1>3, <1>4 DEF RecordReference

LEMMA EchoCapture ==
  ASSUME OneCall, IInv, EchoInv, NEW c \in Call, CaptureStep(c)
  PROVE  EchoInv'
<1> DEFINE step == Classify(call[c].reply)
<1>1. /\ session \in ExchangeState /\ replies' = replies
      /\ session' = Captured(session, step)
      /\ Latest(session.ref, replies)
  BY DEF IInv, TypeOK, EchoInv, LocalEcho, CaptureStep
<1>2. call' = [call EXCEPT ![c] = IdleCall]
  BY DEF CaptureStep, Return, ReturnAsking
<1> HIDE DEF step
<1>3. session'.ref = session.ref
  BY <1>1 DEF Captured, ExchangeState
<1>4. LocalEcho(IdleCall, session'.ref, replies', ReplySucceeded')
  BY <1>1, <1>3 DEF LocalEcho, IdleCall
<1> QED BY <1>2, <1>4, EchoMove

\* One call at a time, a message echoes the referenceId of the last reply or
\* none, also when calls are dropped.
THEOREM ReferenceIsLatest ==
  ASSUME OneCall
  PROVE  Spec => []EchoesLatestReference
<1>1. Init => EchoInv
  BY DEF Init, DefaultState, IdleCall, EchoInv, LocalEcho, Latest
<1>2. IInv /\ EchoInv /\ [Next]_vars => EchoInv'
  <2>1. ASSUME IInv, EchoInv, UNCHANGED vars PROVE EchoInv'
    BY <2>1 DEF vars, EchoInv, ReplySucceeded
  <2>2. ASSUME IInv, EchoInv, NEW c \in Call, Progress(c) PROVE EchoInv'
    BY <2>2, EchoPrepare, EchoWire, EchoRecord, EchoCapture DEF Progress
  <2>3. ASSUME IInv, EchoInv, NEW c \in Call, Cancel(c) PROVE EchoInv'
    BY <2>3, EchoPrepare
  <2> QED BY <2>1, <2>2, <2>3, EchoBegin DEF Next
<1>3. EchoInv => EchoesLatestReference
  BY DEF EchoInv, LocalEcho, Latest, EchoesLatestReference
<1> QED BY <1>1, <1>2, <1>3, SessionInvariant, PTL DEF Spec

-----------------------------------------------------------------------------
(* An offer is held until it is settled.                                   *)

\* Whether a call has a reply in hand.
InHand == \E c \in Call : call[c].reply # None

\* The contract, kept by the history variable; the session and the locals of
\* the call hold the offer it names (HeldIsPending).
Due == INSTANCE OfferContract WITH
  held <- pending, given <- replies, open <- InHand,
  told <- [op |-> outcome.op, kind |-> outcome.kind]

DueStep == [Due!Next]_Due!contractVars

LEMMA HeldIsPending ==
  ASSUME OfferInv
  PROVE  HeldOffer = pending
<1> DEFINE posting == {c \in Call : Consumes(c) /\
             call[c].pc \in {"post", "wire", "reply", "capture", "restore"}}
<1>1. \A c \in Call : c \in posting <=> LetGo(call[c])
  BY DEF Consumes, LetGo, Posting
<1>2. CASE posting = {}
  BY <1>1, <1>2 DEF HeldOffer, OfferInv, LocalOffer
<1>3. CASE posting # {}
  <2>1. (CHOOSE c \in posting : TRUE) \in posting
    BY <1>3
  <2>2. \A c \in posting : call[c].offer = pending
    BY <1>1 DEF OfferInv, LocalOffer
  <2> HIDE DEF posting
  <2>3. HeldOffer = call[CHOOSE c \in posting : TRUE].offer
    BY <1>3 DEF HeldOffer, posting
  <2> QED BY <2>1, <2>2, <2>3
<1> QED BY <1>2, <1>3

\* The only call changes: what it becomes decides.
LEMMA OfferMove ==
  ASSUME OneCall, IInv, NEW c \in Call, NEW r, call' = [call EXCEPT ![c] = r],
         LocalOffer(r, session'.offer, pending', replies')
  PROVE  /\ OfferInv'
         /\ InHand <=> call[c].reply # None
         /\ InHand' <=> r.reply # None
<1>1. \A d \in Call : d = c /\ call'[d] = r
  BY DEF IInv, TypeOK, OneCall
<1>2. OfferInv'
  BY <1>1 DEF OfferInv
<1> QED BY <1>1, <1>2 DEF InHand

\* It moves on, and the caller notices nothing.
LEMMA OfferGoto ==
  ASSUME OneCall, IInv, OfferInv, NEW c \in Call, NEW r,
         call' = [call EXCEPT ![c] = r],
         LocalOffer(r, session'.offer, pending, replies),
         r.reply # None <=> call[c].reply # None,
         UNCHANGED <<pending, replies, outcome>>
  PROVE  OfferInv' /\ DueStep
<1>1. OfferInv' /\ (InHand' <=> InHand)
  BY OfferMove
<1>2. InHand' = InHand
  BY <1>1 DEF InHand
<1>3. Due!contractVars' = Due!contractVars
  BY <1>2 DEF Due!contractVars
<1> QED BY <1>1, <1>3 DEF DueStep

\* The call returns, and the offer is kept, settled or replaced.
LEMMA OfferReturn ==
  ASSUME OneCall, IInv, OfferInv, NEW c \in Call,
         call' = [call EXCEPT ![c] = IdleCall], replies' = replies,
         session'.offer = pending',
         \/ Due!Keep
         \/ Due!Settle
         \/ /\ call[c].reply # None /\ pending' # None
            /\ pending'.n = replies /\ outcome'.kind = "Offer"
  PROVE  OfferInv' /\ DueStep
<1>1. LocalOffer(IdleCall, session'.offer, pending', replies') /\ IdleCall.reply = None
  BY DEF LocalOffer, IdleCall, LetGo, Posting
<1>2. OfferInv' /\ ~InHand' /\ (InHand <=> call[c].reply # None)
  BY <1>1, OfferMove
<1> QED BY <1>2 DEF DueStep, Due!Next, Due!ReturnToCaller, Due!Capture

\* An error settles nothing.
LEMMA OfferError ==
  ASSUME OneCall, IInv, OfferInv, NEW c \in Call, NEW answer,
         Return(c, "Err", answer), UNCHANGED <<pending, replies>>,
         session'.offer = pending
  PROVE  OfferInv' /\ DueStep
<1>1. outcome'.kind = "Err" /\ call' = [call EXCEPT ![c] = IdleCall]
  BY DEF Return, IInv, TypeOK, Outcomes
<1>2. "Err" \notin OkKinds
  BY DEF OkKinds
<1>3. Due!Keep
  BY <1>1, <1>2 DEF Due!Keep, Due!Settled
<1> QED BY <1>1, <1>3, OfferReturn

\* Success settles the offer of accept_offer and reject_offer, and leaves that
\* of the other operations.
LEMMA OfferSuccess ==
  ASSUME OneCall, IInv, OfferInv, NEW c \in Call,
         call' = [call EXCEPT ![c] = IdleCall],
         outcome'.op = call[c].op, outcome'.kind \in OkKinds,
         pending' = Resolved(c), replies' = replies,
         Consumes(c) => session'.offer = None /\ call[c].offer = pending /\ pending # None,
         ~Consumes(c) => session'.offer = session.offer
  PROVE  OfferInv' /\ DueStep
<1>1. LocalOffer(call[c], session.offer, pending, replies)
  BY DEF OfferInv
<1>2. CASE Consumes(c)
  <2>1. pending' = None /\ session'.offer = None
    BY <1>2 DEF Resolved
  <2>2. Due!Settle
    BY <1>2, <2>1 DEF Due!Settle, Due!Settled, Consumes
  <2> QED BY <2>1, <2>2, OfferReturn
<1>3. CASE ~Consumes(c)
  <2>1. pending' = pending /\ session'.offer = pending
    BY <1>1, <1>3 DEF Resolved, LocalOffer, LetGo, Consumes
  <2>2. Due!Keep
    BY <1>3, <2>1 DEF Due!Keep, Due!Settled, Consumes
  <2> QED BY <2>1, <2>2, OfferReturn
<1> QED BY <1>2, <1>3

LEMMA OfferBegin ==
  ASSUME OneCall, IInv, OfferInv, NEW c \in Call, Begin(c)
  PROVE  OfferInv' /\ DueStep
<1>1. /\ LocalOffer(call[c], session.offer, pending, replies)
      /\ call[c].pc = "idle" /\ UNCHANGED <<pending, replies>>
      /\ session \in ExchangeState
  BY BeginSteps DEF OfferInv, IInv, TypeOK
<1>2. call[c].reply = None /\ session.offer = pending
  BY <1>1 DEF LocalOffer, LetGo, Posting
<1>3. CASE /\ \E op \in {"submit", "accept", "reject"} : Refuse(op)
           /\ call' = call /\ session' = session
  <2>1. outcome'.kind = "Err"
    BY <1>3 DEF Refuse, IInv, TypeOK, Outcomes
  <2>2. Due!Keep
    BY <1>1, <2>1 DEF Due!Keep, Due!Settled, OkKinds
  <2>3. OfferInv' /\ (InHand' => InHand)
    BY <1>1, <1>3 DEF OfferInv, InHand
  <2> QED BY <1>1, <2>2, <2>3 DEF DueStep, Due!Next, Due!ReturnToCaller
<1>4. ASSUME NEW u, NEW auth, session' = session, outcome' = outcome,
             call' = [call EXCEPT ![c] = Starting(u, auth)]
      PROVE  OfferInv' /\ DueStep
  <2>1. /\ LocalOffer(Starting(u, auth), session.offer, pending, replies)
        /\ Starting(u, auth).reply = None
    BY <1>2 DEF Starting, IdleCall, LocalOffer, LetGo, Posting
  <2> QED BY <1>1, <1>2, <1>4, <2>1, OfferGoto
<1>5. ASSUME NEW allow, session' = session, outcome' = outcome,
             call' = [call EXCEPT ![c] = Submitting(allow)]
      PROVE  OfferInv' /\ DueStep
  <2>1. /\ LocalOffer(Submitting(allow), session.offer, pending, replies)
        /\ Submitting(allow).reply = None
    BY <1>2 DEF Submitting, IdleCall, LocalOffer, LetGo, Posting
  <2> QED BY <1>1, <1>2, <1>5, <2>1, OfferGoto
<1>6. CASE session' = session /\ outcome' = outcome /\ call' = [call EXCEPT ![c] = Accepting]
  <2>1. /\ LocalOffer(Accepting, session.offer, pending, replies)
        /\ Accepting.reply = None
    BY <1>2 DEF Accepting, IdleCall, LocalOffer, LetGo, Posting
  <2> QED BY <1>1, <1>2, <1>6, <2>1, OfferGoto
<1>7. CASE /\ session' = ClearOffer(session) /\ outcome' = outcome
           /\ session.offer # None /\ call' = [call EXCEPT ![c] = Rejecting]
  <2>1. session'.offer = None
    BY <1>1, <1>7 DEF ClearOffer, ExchangeState
  <2>2. /\ LocalOffer(Rejecting, session'.offer, pending, replies)
        /\ Rejecting.reply = None
    BY <1>2, <1>7, <2>1 DEF Rejecting, IdleCall, LocalOffer, LetGo, Posting
  <2> QED BY <1>1, <1>2, <1>7, <2>2, OfferGoto
<1> QED BY <1>3, <1>4, <1>5, <1>6, <1>7, BeginSteps

\* The call moves on to pc without a word to its caller.
LEMMA OfferPlace ==
  ASSUME OneCall, IInv, OfferInv, NEW c \in Call, NEW pc \in PCs, Goto(c, pc),
         LocalOffer([call[c] EXCEPT !.pc = pc], session'.offer, pending, replies),
         UNCHANGED <<pending, replies, outcome>>
  PROVE  OfferInv' /\ DueStep
<1> DEFINE r == [call[c] EXCEPT !.pc = pc]
<1>1. call' = [call EXCEPT ![c] = r]
  BY DEF Goto
<1>2. call[c] \in CallState
  BY DEF IInv, TypeOK
<1>3. r.reply = call[c].reply
  BY <1>2, GotoKeepsLocals DEF SameLocals
<1> QED BY <1>1, <1>3, OfferGoto

LEMMA OfferFail ==
  ASSUME OneCall, IInv, OfferInv, NEW c \in Call, NEW err, Fail(c, err),
         call[c].pc \in {"post", "wire", "reply"}, session' = session,
         replies' = replies,
         pending' = IF call[c].op = "accept" /\ err = "MalformedProblemDetails"
                    THEN Resolved(c) ELSE pending
  PROVE  OfferInv' /\ DueStep
<1>1. /\ LocalOffer(call[c], session.offer, pending, replies)
      /\ call[c] \in CallState /\ outcome \in Outcomes
  BY DEF OfferInv, IInv, TypeOK
<1>2. LetGo(call[c]) <=> Consumes(c)
  BY DEF LetGo, Consumes, Posting
<1>3. CASE /\ call[c].op = "accept" /\ err = "MalformedProblemDetails"
           /\ Return(c, "Complete", err)
  <2>1. /\ call' = [call EXCEPT ![c] = IdleCall]
        /\ outcome'.op = call[c].op /\ outcome'.kind = "Complete"
    BY <1>1, <1>3 DEF Return, Outcomes
  <2> QED BY <1>1, <1>2, <1>3, <2>1, OfferSuccess DEF LocalOffer, Consumes, OkKinds
<1>4. CASE /\ Consumes(c) /\ Goto(c, "restore") /\ UNCHANGED <<outcome, pending>>
  <2> DEFINE r == [call[c] EXCEPT !.pc = "restore"]
  <2>1. r.pc = "restore" /\ SameLocals(r, call[c])
    BY <1>1, GotoKeepsLocals DEF PCs
  <2> HIDE DEF r
  <2>2. LocalOffer(r, session.offer, pending, replies)
    BY <1>1, <1>2, <1>4, <2>1 DEF LocalOffer, LetGo, SameLocals, Consumes, Posting
  <2> QED BY <1>4, <2>2, OfferPlace DEF PCs, r
<1>5. CASE ~Consumes(c) /\ Return(c, "Err", err) /\ UNCHANGED pending
  <2>1. session.offer = pending
    BY <1>1, <1>2, <1>5 DEF LocalOffer
  <2> QED BY <1>5, <2>1, OfferError
<1> QED BY <1>3, <1>4, <1>5 DEF Fail, Consumes

\* start_exchange and submit_presentation up to the POST, and the entries of
\* accept_offer.
LEMMA OfferPrepare ==
  ASSUME OneCall, IInv, OfferInv, NEW c \in Call,
         \/ ResolveFails(c) \/ SignFails(c) \/ StoreFails(c)
         \/ ResetSession(c) \/ SignVp(c)
         \/ \E derived \in DeriveAnswers : \E answer \in EngineAnswers :
              VerifyEntry(c, derived, answer)
         \/ StoreEntry(c)
  PROVE  OfferInv' /\ DueStep
<1>1. /\ LocalOffer(call[c], session.offer, pending, replies)
      /\ call[c] \in CallState /\ call \in [Call -> CallState]
  BY DEF OfferInv, IInv, TypeOK
<1>2. /\ call[c].pc \in {"resolve", "sign", "verify", "store"}
      /\ replies' = replies
  BY DEF ResolveFails, SignFails, StoreFails, ResetSession, SignVp, VerifyEntry, StoreEntry
<1>3. call[c].reply = None /\ session.offer = pending
  BY <1>1, <1>2 DEF LocalOffer, LetGo, Posting
<1>4. ASSUME Return(c, "Err", "none"), session' = session, pending' = pending
      PROVE  OfferInv' /\ DueStep
  BY <1>2, <1>3, <1>4, OfferError
<1>5. CASE ResolveFails(c) \/ SignFails(c) \/ StoreFails(c)
  BY <1>4, <1>5 DEF ResolveFails, SignFails, StoreFails
<1>6. CASE ResetSession(c)
  <2> DEFINE r == [call[c] EXCEPT !.pc = "post"]
  <2>1. SameLocals(r, call[c]) /\ r.pc = "post"
    BY <1>1, GotoKeepsLocals DEF PCs
  <2>2. call' = [call EXCEPT ![c] = r] /\ call[c].pc = "resolve"
    BY <1>6 DEF ResetSession, Goto
  <2>3. session'.offer = None /\ pending' = None /\ outcome' = outcome
    BY <1>6 DEF ResetSession, FreshState, DefaultState
  <2> HIDE DEF r
  <2>4. LocalOffer(r, session'.offer, pending', replies') /\ r.reply = None
    BY <1>1, <1>3, <2>1, <2>2, <2>3 DEF LocalOffer, LetGo, Posting, SameLocals
  <2>5. OfferInv' /\ ~InHand /\ ~InHand'
    BY <1>3, <2>2, <2>4, OfferMove
  <2>6. InHand' = InHand
    BY <2>5 DEF InHand
  <2> QED BY <1>2, <2>3, <2>5, <2>6 DEF DueStep, Due!Next, Due!BeginExchange
<1>7. CASE SignVp(c)
  <2> DEFINE r == [call[c] EXCEPT !.pc = "post"]
  <2>1. SameLocals(r, call[c]) /\ r.pc = "post" /\ call[c].pc = "sign"
    BY <1>1, <1>7, GotoKeepsLocals DEF PCs, SignVp
  <2> HIDE DEF r
  <2>2. LocalOffer(r, session.offer, pending, replies)
    BY <1>1, <1>3, <2>1 DEF LocalOffer, LetGo, Posting, SameLocals
  <2> QED BY <1>7, <2>2, OfferPlace DEF SignVp, PCs, r
<1>8. ASSUME NEW phase \in {"store", "advance"}, NextEntry(c, phase),
             call[c].pc \in {"verify", "store"},
             UNCHANGED <<session, outcome, pending>>
      PROVE  OfferInv' /\ DueStep
  <2>1. PICK r : /\ call' = [call EXCEPT ![c] = r] /\ SameLocals(r, call[c])
                 /\ r.pc \in {"verify", "store", "advance"}
    BY <1>8, NextEntryLocals
  <2>2. LocalOffer(r, session.offer, pending, replies) /\ r.reply = None
    BY <1>1, <1>3, <1>8, <2>1 DEF LocalOffer, LetGo, Posting, SameLocals
  <2> QED BY <1>2, <1>3, <1>8, <2>1, <2>2, OfferGoto
<1>9. ASSUME NEW derived \in DeriveAnswers, NEW answer \in EngineAnswers,
             VerifyEntry(c, derived, answer)
      PROVE  OfferInv' /\ DueStep
  BY <1>4, <1>8, <1>9 DEF VerifyEntry
<1>10. CASE StoreEntry(c)
  BY <1>8, <1>10 DEF StoreEntry
<1> QED BY <1>5, <1>6, <1>7, <1>9, <1>10

\* The advance of accept_offer, and the return of an offer it could not advance.
LEMMA OfferAdvance ==
  ASSUME OneCall, IInv, OfferInv, NEW c \in Call,
         \/ AdvanceWithRequest(c) \/ AdvanceWithRedirect(c)
         \/ AdvanceByPost(c) \/ RestoreOffer(c)
  PROVE  OfferInv' /\ DueStep
<1>1. /\ LocalOffer(call[c], session.offer, pending, replies)
      /\ call[c] \in CallState /\ session \in ExchangeState
      /\ LocalShape(call[c]) /\ replies' = replies
  BY DEF OfferInv, IInv, TypeOK, CallShape, AdvanceWithRequest, AdvanceWithRedirect,
         AdvanceByPost, RestoreOffer
<1>2. ASSUME call[c].pc = "advance"
      PROVE  /\ call[c].op = "accept" /\ call[c].offer = pending /\ pending # None
             /\ call[c].reply = None
  BY <1>1, <1>2 DEF LocalOffer, LetGo, Posting, LocalShape
<1>3. CASE AdvanceWithRequest(c) \/ AdvanceWithRedirect(c)
  <2>1. /\ call' = [call EXCEPT ![c] = IdleCall] /\ call[c].pc = "advance"
        /\ outcome'.op = call[c].op /\ outcome'.kind \in {"Request", "Redirect"}
        /\ pending' = Resolved(c)
    <3>1. CASE AdvanceWithRequest(c)
      BY <3>1 DEF AdvanceWithRequest, ReturnAsking
    <3>2. CASE AdvanceWithRedirect(c)
      BY <3>2 DEF AdvanceWithRedirect, Return, IInv, TypeOK, Outcomes
    <3> QED BY <1>3, <3>1, <3>2
  <2>2. session'.offer = None
    BY <1>1, <1>3 DEF AdvanceWithRequest, AdvanceWithRedirect, ClearOffer, ExchangeState
  <2> QED BY <1>1, <1>2, <2>1, <2>2, OfferSuccess DEF Consumes, OkKinds
<1>4. CASE AdvanceByPost(c)
  <2> DEFINE r == [call[c] EXCEPT !.pc = "post"]
  <2>1. SameLocals(r, call[c]) /\ r.pc = "post" /\ call[c].pc = "advance"
    BY <1>1, <1>4, GotoKeepsLocals DEF PCs, AdvanceByPost
  <2>2. session'.offer = None
    BY <1>1, <1>4 DEF AdvanceByPost, ClearOffer, ExchangeState
  <2> HIDE DEF r
  <2>3. LocalOffer(r, session'.offer, pending, replies)
    BY <1>2, <2>1, <2>2 DEF LocalOffer, LetGo, Posting, SameLocals
  <2> QED BY <1>4, <2>3, OfferPlace DEF AdvanceByPost, PCs, r
<1>5. CASE RestoreOffer(c)
  <2>1. session.offer = None /\ call[c].offer = pending
    BY <1>1, <1>5 DEF LocalOffer, RestoreOffer
  <2>2. session'.offer = pending
    BY <1>1, <1>5, <2>1 DEF RestoreOffer, PutBack, ExchangeState
  <2> QED BY <1>5, <2>2, OfferError DEF RestoreOffer
<1> QED BY <1>3, <1>4, <1>5

\* The request and its reply.
LEMMA OfferWire ==
  ASSUME OneCall, IInv, OfferInv, NEW c \in Call,
         \/ PostSnapshot(c)
         \/ \E shape \in ReplyShapes : ServerReplies(c, shape)
         \/ NetworkFails(c)
  PROVE  OfferInv' /\ DueStep
<1>1. /\ LocalOffer(call[c], session.offer, pending, replies)
      /\ call[c] \in CallState /\ call \in [Call -> CallState]
      /\ session' = session /\ pending' = pending /\ call[c].pc \in {"post", "wire"}
  BY DEF OfferInv, IInv, TypeOK, PostSnapshot, ServerReplies, NetworkFails
<1>2. call[c].reply = None
  BY <1>1 DEF LocalOffer
<1>3. CASE Fail(c, "none") /\ replies' = replies
  BY <1>1, <1>3, OfferFail
<1>4. CASE PostSnapshot(c) /\ ~Fail(c, "none")
  <2> DEFINE r == [call[c] EXCEPT !.pc = "wire", !.url = session.url,
                                  !.auth = session.auth, !.ref = session.ref]
  <2>1. /\ call' = [call EXCEPT ![c] = r] /\ call[c].pc = "post"
        /\ outcome' = outcome /\ replies' = replies
    BY <1>1, <1>4 DEF PostSnapshot
  <2>2. /\ r.pc = "wire" /\ r.op = call[c].op /\ r.offer = call[c].offer
        /\ r.reply = call[c].reply
    BY <1>1 DEF CallState
  <2> HIDE DEF r
  <2>3. LocalOffer(r, session.offer, pending, replies)
    BY <1>1, <1>2, <2>1, <2>2 DEF LocalOffer, LetGo, Posting
  <2> QED BY <1>1, <2>1, <2>2, <2>3, OfferGoto
<1>5. ASSUME NEW shape \in ReplyShapes, ServerReplies(c, shape)
      PROVE  OfferInv' /\ DueStep
  <2> DEFINE reply == MakeReply(shape, call[c].url, replies + 1)
             r == [call[c] EXCEPT !.pc = "reply", !.reply = reply]
  <2>1. /\ call' = [call EXCEPT ![c] = r] /\ call[c].pc = "wire"
        /\ outcome' = outcome /\ replies' = replies + 1
    BY <1>5 DEF ServerReplies
  <2>2. reply.msg.vp # None => reply.msg.vp.n = replies + 1
    BY DEF MakeReply
  <2>3. reply # None
    <3>1. call[c].url \in Exchange
      BY <1>1, <2>1 DEF IInv, CallShape, LocalShape, InPost, CallState, Option
    <3>2. replies + 1 \in Ordinal
      <4>1. replies \in 0..MaxReplies /\ replies < MaxReplies
        BY <1>5 DEF ServerReplies, IInv, TypeOK
      <4> QED BY <4>1, MaxRepliesAssumption DEF Ordinal
    <3>3. reply \in Reply
      BY <3>1, <3>2, MakeReplyType
    <3> HIDE DEF reply
    <3> QED BY <3>3, SessionAssumption
  <2> HIDE DEF reply
  <2>4. /\ r.pc = "reply" /\ r.op = call[c].op /\ r.offer = call[c].offer
        /\ r.reply = reply
    BY <1>1 DEF CallState
  <2> HIDE DEF r
  <2>5. LocalOffer(r, session'.offer, pending', replies')
    BY <1>1, <2>1, <2>2, <2>4 DEF LocalOffer, LetGo, Posting
  <2>6. OfferInv' /\ ~InHand /\ InHand'
    BY <1>2, <2>1, <2>3, <2>4, <2>5, OfferMove
  <2>7. Due!GiveReply
    BY <1>1, <2>1, <2>6 DEF Due!GiveReply, InHand
  <2> QED BY <2>6, <2>7 DEF DueStep, Due!Next
<1> QED BY <1>3, <1>4, <1>5 DEF PostSnapshot, NetworkFails

\* The reply is classified: an error leaves the offer due, success settles it.
LEMMA OfferRecord ==
  ASSUME OneCall, IInv, OfferInv, NEW c \in Call, RecordReference(c)
  PROVE  OfferInv' /\ DueStep
<1> DEFINE reply == call[c].reply
           kind == Classify(reply).kind
<1>1. /\ LocalOffer(call[c], session.offer, pending, replies)
      /\ call[c] \in CallState /\ session \in ExchangeState
      /\ call[c].pc = "reply" /\ replies' = replies
  BY DEF OfferInv, IInv, TypeOK, RecordReference
<1>2. session'.offer = session.offer
  BY <1>1 DEF RecordReference, TakeReference, ExchangeState
<1>3. CASE /\ kind \in ErrKinds /\ Fail(c, kind) /\ session' = session
           /\ pending' = IF call[c].op = "accept" /\ kind = "MalformedProblemDetails"
                         THEN Resolved(c) ELSE pending
  BY <1>1, <1>3, OfferFail
<1>4. CASE Goto(c, "capture") /\ UNCHANGED <<outcome, pending>>
  <2> DEFINE r == [call[c] EXCEPT !.pc = "capture"]
  <2>1. SameLocals(r, call[c]) /\ r.pc = "capture"
    BY <1>1, GotoKeepsLocals DEF PCs
  <2> HIDE DEF r
  <2>2. LocalOffer(r, session'.offer, pending, replies)
    BY <1>1, <1>2, <2>1 DEF LocalOffer, LetGo, Posting, SameLocals
  <2> QED BY <1>1, <1>4, <2>2, OfferPlace DEF PCs, r
<1>5. CASE /\ kind \in OkKinds /\ Return(c, StepFor(c, kind), kind)
           /\ pending' = Resolved(c)
  <2>1. /\ outcome'.op = call[c].op /\ outcome'.kind = StepFor(c, kind)
        /\ call' = [call EXCEPT ![c] = IdleCall]
    BY <1>5 DEF Return, IInv, TypeOK, Outcomes
  <2>2. StepFor(c, kind) \in OkKinds
    BY <1>5 DEF StepFor, OkKinds
  <2> QED BY <1>1, <1>2, <1>5, <2>1, <2>2, OfferSuccess
       DEF LocalOffer, LetGo, Posting, Consumes
<1> QED BY <1>3, <1>4, <1>5 DEF RecordReference

\* A request settles the offer of the call; a new offer takes its place.
LEMMA OfferCapture ==
  ASSUME OneCall, IInv, OfferInv, NEW c \in Call, CaptureStep(c)
  PROVE  OfferInv' /\ DueStep
<1> DEFINE reply == call[c].reply
           step == Classify(reply)
<1>1. /\ LocalOffer(call[c], session.offer, pending, replies)
      /\ call[c] \in CallState /\ session \in ExchangeState /\ outcome \in Outcomes
      /\ LocalShape(call[c]) /\ call[c].pc = "capture" /\ replies' = replies
  BY DEF OfferInv, IInv, TypeOK, CallShape, CaptureStep
<1>2. /\ reply \in Reply /\ reply # None /\ step.kind \in {"Request", "Offer"}
  BY <1>1 DEF LocalShape, CallState, Option
<1>3. step.kind = "Offer" => step.vcs # None /\ step.vcs.n = replies
  BY <1>1, <1>2, ClassifyParts, ClassifyType DEF LocalOffer
<1>4. /\ session' = Captured(session, step)
      /\ pending' = IF step.kind = "Offer" THEN step.vcs ELSE Resolved(c)
      /\ \/ ReturnAsking(c, step.kind, step.vpr, step.kind)
         \/ Return(c, step.kind, step.kind)
  BY DEF CaptureStep
<1> HIDE DEF step
<1>5. /\ call' = [call EXCEPT ![c] = IdleCall]
      /\ outcome'.op = call[c].op /\ outcome'.kind = step.kind
  <2>1. CASE ReturnAsking(c, step.kind, step.vpr, step.kind)
    BY <2>1 DEF ReturnAsking
  <2>2. CASE Return(c, step.kind, step.kind)
    BY <1>1, <2>2 DEF Return, Outcomes
  <2> QED BY <1>4, <2>1, <2>2
<1>6. session'.offer = IF step.kind = "Offer" THEN step.vcs ELSE session.offer
  BY <1>1, <1>4 DEF Captured, ExchangeState
<1>7. CASE step.kind = "Offer"
  BY <1>1, <1>2, <1>3, <1>4, <1>5, <1>6, <1>7, OfferReturn
<1>8. CASE step.kind = "Request"
  BY <1>1, <1>4, <1>5, <1>6, <1>8, OfferSuccess
  DEF LocalOffer, LetGo, Posting, Consumes, OkKinds
<1> QED BY <1>2, <1>7, <1>8

LEMMA OfferNext ==
  ASSUME OneCall, ~Cancellable, IInv, OfferInv, [Next]_vars
  PROVE  OfferInv' /\ DueStep
<1>1. CASE UNCHANGED vars
  <2>1. OfferInv' /\ InHand' = InHand
    BY <1>1 DEF vars, OfferInv, InHand
  <2>2. Due!contractVars' = Due!contractVars
    BY <1>1, <2>1 DEF vars, Due!contractVars
  <2> QED BY <2>1, <2>2 DEF DueStep
<1>2. ASSUME NEW c \in Call, Progress(c) PROVE OfferInv' /\ DueStep
  BY <1>2, OfferPrepare, OfferAdvance, OfferWire, OfferRecord, OfferCapture
  DEF Progress
<1>3. ASSUME NEW c \in Call PROVE ~Cancel(c)
  BY DEF Cancel
<1> QED BY <1>1, <1>2, <1>3, OfferBegin DEF Next

LEMMA OfferInit == Init => OfferInv /\ Due!Init
<1> SUFFICES ASSUME Init PROVE OfferInv /\ Due!Init
  OBVIOUS
<1>1. \A c \in Call : call[c] = IdleCall
  BY DEF Init
<1>2. OfferInv
  BY <1>1 DEF Init, DefaultState, OfferInv, LocalOffer, IdleCall, LetGo, Posting
<1>3. InHand = FALSE
  BY <1>1 DEF InHand, IdleCall
<1> QED BY <1>2, <1>3 DEF Init, Due!Init

\* Every call running to its end, what the session and the call hold is the
\* offer still due.
THEOREM OfferInvariant ==
  ASSUME OneCall, ~Cancellable
  PROVE  Spec => []OfferInv
<1>1. IInv /\ OfferInv /\ [Next]_vars => OfferInv'
  BY OfferNext
<1> QED BY <1>1, OfferInit, SessionInvariant, PTL DEF Spec

\* Between calls the session holds exactly the offer still to be resolved.
THEOREM OfferStays ==
  ASSUME OneCall, ~Cancellable
  PROVE  Spec => []OfferIsPending
<1>1. OfferInv => OfferIsPending
  <2> SUFFICES ASSUME OfferInv, Quiet PROVE session.offer = pending
    BY DEF OfferIsPending
  <2>1. \A c \in Call : ~LetGo(call[c])
    BY DEF Quiet, LetGo, Posting
  <2> QED BY <2>1 DEF OfferInv, LocalOffer
<1> QED BY <1>1, OfferInvariant, PTL

\* The session implements the contract of an offer.
THEOREM OfferContractHonoured ==
  ASSUME OneCall, ~Cancellable
  PROVE  Spec => HonoursOfferContract
<1>1. Init => Contract!Init
  <2> SUFFICES ASSUME Init PROVE Contract!Init
    OBVIOUS
  <2>1. Due!Init /\ HeldOffer = pending
    BY OfferInit, HeldIsPending
  <2> QED BY <2>1 DEF Due!Init, Contract!Init, InHand
<1>2. OfferInv => HeldOffer = pending
  BY HeldIsPending
<1>3. OfferInv' => (HeldOffer = pending)'
  BY <1>2, PTL
<1>4. IInv /\ OfferInv /\ [Next]_vars => [Contract!Next]_Contract!contractVars
  <2> SUFFICES ASSUME IInv, OfferInv, [Next]_vars
               PROVE  [Contract!Next]_Contract!contractVars
    OBVIOUS
  <2>1. OfferInv' /\ DueStep
    BY OfferNext
  <2>2. HeldOffer = pending /\ HeldOffer' = pending'
    BY <1>2, <1>3, <2>1
  <2>3. CASE Due!contractVars' = Due!contractVars
    BY <2>2, <2>3 DEF Due!contractVars, Contract!contractVars, InHand
  <2>4. CASE Due!GiveReply
    BY <2>2, <2>4 DEF Due!GiveReply, Contract!Next, Contract!GiveReply, InHand
  <2>5. CASE Due!ReturnToCaller
    BY <2>2, <2>5 DEF Due!ReturnToCaller, Due!Keep, Due!Settle, Due!Capture, Due!Settled,
       Contract!Next, Contract!ReturnToCaller, Contract!Keep, Contract!Settle,
       Contract!Capture, Contract!Settled, InHand
  <2>6. CASE Due!BeginExchange
    BY <2>2, <2>6 DEF Due!BeginExchange, Contract!Next, Contract!BeginExchange, InHand
  <2> QED BY <2>1, <2>3, <2>4, <2>5, <2>6 DEF DueStep, Due!Next
<1> QED BY <1>1, <1>4, OfferInvariant, SessionInvariant, PTL
        DEF Spec, HonoursOfferContract, Contract!Spec
=============================================================================
