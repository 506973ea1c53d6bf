------------------------- MODULE HolderSessionProofs -------------------------
(***************************************************************************)
(* Proofs about HolderSession, for any number of overlapping calls, any    *)
(* exchanges, credentials and reply shapes, with and without cancellation. *)
(*                                                                         *)
(* The induction carries, besides the type of the state, what the locals   *)
(* of a call are worth at each point of its progress (LocalShape), and     *)
(* what the session may hold (SessionShape).                               *)
(***************************************************************************)
EXTENDS HolderSession, TLAPS

\* The parts of one message share its ordinal.
PartsAgree(vp, vpr, redirect) ==
  vp # None =>
    /\ vpr # None => vpr.n = vp.n
    /\ redirect # None => redirect.n = vp.n

ReplyAgrees(reply) ==
  PartsAgree(reply.msg.vp, reply.msg.vpr, reply.msg.redirect)

InPost == {"wire", "reply", "capture"}

\* What a call's locals hold at each of its steps.
LocalShape(r) ==
  /\ r.auth \in {None, r.url}
  /\ r.pc = "resolve" => r.url # None
  /\ r.pc \in InPost => r.url # None
  /\ r.pc \in {"verify", "store"} =>
       /\ r.op = "accept"
       /\ r.k \in 1..Len(r.offer.creds)
  /\ r.op = "accept" => r.offer # None
  /\ r.pc \in {"reply", "capture"} => r.reply # None /\ ReplyAgrees(r.reply)
  /\ r.pc = "capture" => Classify(r.reply).kind \in {"Request", "Offer"}

CallShape == \A c \in Call : LocalShape(call[c])

\* A session without an exchange holds nothing, so no call is past its start.
SessionShape ==
  /\ session.auth \in {None, session.url}
  /\ session.url = None => session.offer = None /\ session.vpr = None

IInv ==
  /\ TypeOK
  /\ CallShape
  /\ SessionShape
  /\ CompanionsBelongToOffer
  /\ PostingNeedsExchange

-----------------------------------------------------------------------------
(* classify().                                                             *)

\* ClassifyMessage returns a StepResult, and an offer keeps the parts of its
\* message.
LEMMA ClassifyMessageType ==
  ASSUME NEW m \in VcapiMessage
  PROVE  /\ ClassifyMessage(m) \in StepResult
         /\ ClassifyMessage(m).kind \in
              {"Deserialization", "Offer", "Redirect", "Request", "Complete"}
         /\ ClassifyMessage(m).kind = "Offer" =>
              /\ ClassifyMessage(m).vcs = m.vp
              /\ m.vp # None
              /\ ClassifyMessage(m).vpr = m.vpr
              /\ ClassifyMessage(m).redirect \in {None, m.redirect}
         /\ ClassifyMessage(m).kind = "Request" =>
              ClassifyMessage(m).vpr # None
<1> DEFINE redirect == ParsedRedirect(m)
<1>1. /\ m.vp \in Option(Offer) /\ m.vpr \in Option(Vpr)
      /\ m.redirect \in Option(RedirectUrl)
  BY DEF VcapiMessage
<1>2. redirect \in {None, m.redirect}
  BY DEF ParsedRedirect
<1>3. CASE RedirectRefused(m)
  <2>1. ClassifyMessage(m) = Bare("Deserialization")
    BY <1>3 DEF ClassifyMessage, RedirectRefused, ParsedRedirect
  <2> QED
    BY <2>1 DEF Bare, StepResult, ErrKinds, Option
<1>4. CASE ~RedirectRefused(m) /\ m.vp # None
  <2>1. ClassifyMessage(m) =
          [kind |-> "Offer", vcs |-> m.vp, vpr |-> m.vpr, redirect |-> redirect]
    BY <1>4 DEF ClassifyMessage, RedirectRefused
  <2> QED
    BY <1>1, <1>2, <1>4, <2>1 DEF StepResult, OkKinds, Option
<1>5. CASE ~RedirectRefused(m) /\ m.vp = None /\ redirect # None
  <2>1. ClassifyMessage(m) = [Bare("Redirect") EXCEPT !.redirect = redirect]
    BY <1>5, <1>2 DEF ClassifyMessage, RedirectRefused
  <2> QED
    BY <1>1, <1>2, <1>5, <2>1 DEF StepResult, OkKinds, Option, Bare
<1>6. CASE ~RedirectRefused(m) /\ m.vp = None /\ redirect = None
  <2>1. m.redirect = None
    BY <1>1, <1>6 DEF RedirectRefused, ParsedRedirect, Option, RedirectUrl
  <2>2. CASE m.vpr # None
    <3>1. ClassifyMessage(m) = [Bare("Request") EXCEPT !.vpr = m.vpr]
      BY <1>6, <2>1, <2>2 DEF ClassifyMessage, RedirectRefused, ParsedRedirect
    <3> QED
      BY <1>1, <2>2, <3>1 DEF StepResult, OkKinds, Option, Bare
  <2>3. CASE m.vpr = None
    <3>1. ClassifyMessage(m) = Bare("Complete")
      BY <1>6, <2>1, <2>3 DEF ClassifyMessage, RedirectRefused, ParsedRedirect
    <3> QED
      BY <1>1, <2>3, <3>1 DEF StepResult, OkKinds, Option, Bare
  <2> QED BY <2>2, <2>3
<1> QED BY <1>3, <1>4, <1>5, <1>6

\* Every reply is classified, only a 2xx yields an offer or a request, and an
\* offer comes with the companions of its own message.
LEMMA ClassifyType ==
  ASSUME NEW reply \in Reply
  PROVE  /\ Classify(reply) \in StepResult
         /\ Classify(reply).kind = "Offer" =>
              /\ Classify(reply).vcs # None
              /\ ReplyAgrees(reply) =>
                   PartsAgree(Classify(reply).vcs, Classify(reply).vpr,
                              Classify(reply).redirect)
         /\ Classify(reply).kind = "Request" => Classify(reply).vpr # None
<1>1. MessageOf(reply) \in VcapiMessage
  BY DEF MessageOf, Reply, DefaultMessage, VcapiMessage, Option
<1>2. CASE reply.status = "2xx" /\ reply.body # "garbage"
  <2>1. Classify(reply) = ClassifyMessage(MessageOf(reply))
    BY <1>2 DEF Classify
  <2>2. CASE reply.body = "empty"
    BY <1>1, <2>1, <2>2, ClassifyMessageType DEF MessageOf, DefaultMessage
  <2>3. CASE reply.body # "empty"
    <3>1. MessageOf(reply) = reply.msg
      BY <2>3 DEF MessageOf
    <3> QED
      BY <1>1, <2>1, <3>1, ClassifyMessageType DEF ReplyAgrees, PartsAgree
  <2> QED BY <2>2, <2>3
<1>3. CASE ~(reply.status = "2xx" /\ reply.body # "garbage")
  <2>1. \E kind \in ErrKinds \cup {"Problem"} : Classify(reply) = Bare(kind)
    <3>1. reply.status \in {"2xx", "4xx", "other"}
      BY DEF Reply
    <3> QED
      BY <1>3, <3>1 DEF Classify, ErrKinds
  <2> QED BY <2>1 DEF Bare, StepResult, OkKinds, ErrKinds, Option
<1> QED BY <1>2, <1>3

\* A server's reply is a Reply whose parts agree.
LEMMA MakeReplyType ==
  ASSUME NEW shape \in ReplyShapes, NEW u \in Exchange, NEW n \in Ordinal
  PROVE  MakeReply(shape, u, n) \in Reply /\ ReplyAgrees(MakeReply(shape, u, n))
<1>1. /\ shape.status \in {"2xx", "4xx", "other"}
      /\ shape.body \in {"empty", "parsed", "garbage"}
      /\ shape.creds \in Option(Seq(Credential))
      /\ shape.vpr \in BOOLEAN
      /\ shape.domain \in Option(Host)
  BY SessionAssumption
<1>2. shape.creds # None => shape.creds \in Seq(Credential)
  BY <1>1 DEF Option
<1>3. MakeReply(shape, u, n) \in Reply
  BY <1>1, <1>2 DEF MakeReply, Reply, VcapiMessage, Option, Offer, Vpr,
                    RedirectUrl, Reference
<1>4. ReplyAgrees(MakeReply(shape, u, n))
  BY DEF MakeReply, ReplyAgrees, PartsAgree
<1> QED BY <1>3, <1>4
-----------------------------------------------------------------------------
(* One call changes, the others stay as they are.                          *)

\* Replacing the locals of one call keeps type and shape of all of them.
LEMMA UpdateCall ==
  ASSUME call \in [Call -> CallState], CallShape, PostingNeedsExchange,
         NEW c \in Call, NEW r \in CallState, LocalShape(r),
         call' = [call EXCEPT ![c] = r],
         session.url # None => session'.url # None,
         r.pc \notin {"idle", "resolve"} => session'.url # None
  PROVE  /\ call' \in [Call -> CallState]
         /\ CallShape'
         /\ PostingNeedsExchange'
<1>1. \A d \in Call : call'[d] = IF d = c THEN r ELSE call[d]
  OBVIOUS
<1>2. call' \in [Call -> CallState]
  OBVIOUS
<1>3. ASSUME NEW d \in Call PROVE LocalShape(call'[d])
  BY <1>1 DEF CallShape
<1>4. PostingNeedsExchange'
  BY <1>1 DEF PostingNeedsExchange
<1> QED BY <1>2, <1>3, <1>4 DEF CallShape

\* A call that is not in progress has the shape of one.
LEMMA IdleIsFine == IdleCall \in CallState /\ LocalShape(IdleCall)
<1>1. IdleCall \in CallState
  BY DEF IdleCall, CallState, PCs, Ops, Option
<1>2. LocalShape(IdleCall)
  BY DEF IdleCall, LocalShape, InPost
<1> QED BY <1>1, <1>2

Kinds == OkKinds \cup {"none", "Err", "Cancelled"}
Answers == OkKinds \cup ErrKinds \cup {"none"}

\* A call that returns leaves every call well-shaped (every Ok and Err).
LEMMA ReturnStep ==
  ASSUME IInv, NEW c \in Call, NEW kind \in Kinds, NEW answer \in Answers,
         Return(c, kind, answer), session.url # None => session'.url # None
  PROVE  /\ call' \in [Call -> CallState]
         /\ CallShape'
         /\ PostingNeedsExchange'
         /\ outcome' \in Outcomes
<1>1. call' = [call EXCEPT ![c] = IdleCall] /\ IdleCall.pc = "idle"
  BY DEF Return, IdleCall
<1>2. call \in [Call -> CallState] /\ outcome \in Outcomes
  BY DEF IInv, TypeOK
<1>3. call[c].op \in Ops
  BY <1>2 DEF CallState
<1>4. outcome' \in Outcomes
  BY <1>2, <1>3 DEF Return, Outcomes, Kinds, Answers
<1> QED BY <1>1, <1>2, <1>4, UpdateCall, IdleIsFine DEF IInv

\* So does a call that returns a request, which becomes the one last asked.
LEMMA ReturnAskingStep ==
  ASSUME IInv, NEW c \in Call, NEW kind \in Kinds, NEW vpr \in Option(Vpr),
         NEW answer \in Answers,
         ReturnAsking(c, kind, vpr, answer), session.url # None => session'.url # None
  PROVE  /\ call' \in [Call -> CallState]
         /\ CallShape'
         /\ PostingNeedsExchange'
         /\ outcome' \in Outcomes
<1>1. call' = [call EXCEPT ![c] = IdleCall] /\ IdleCall.pc = "idle"
  BY DEF ReturnAsking, IdleCall
<1>2. call \in [Call -> CallState]
  BY DEF IInv, TypeOK
<1>3. call[c].op \in Ops
  BY <1>2 DEF CallState
<1>4. outcome' \in Outcomes
  BY <1>3 DEF ReturnAsking, Outcomes, Kinds, Answers
<1> QED BY <1>1, <1>2, <1>4, UpdateCall, IdleIsFine DEF IInv

\* A call that moves on without a change of its locals keeps its shape, when
\* the next step asks nothing more of them.
LEMMA GotoStep ==
  ASSUME IInv, NEW c \in Call,
         NEW pc \in {"advance", "post", "capture", "restore"},
         Goto(c, pc), session.url # None => session'.url # None,
         session'.url # None,
         pc = "capture" =>
           /\ call[c].pc = "reply"
           /\ Classify(call[c].reply).kind \in {"Request", "Offer"}
  PROVE  /\ call' \in [Call -> CallState]
         /\ CallShape'
         /\ PostingNeedsExchange'
<1> DEFINE r == [call[c] EXCEPT !.pc = pc]
<1>1. call \in [Call -> CallState] /\ call[c] \in CallState /\ LocalShape(call[c])
  BY DEF IInv, TypeOK, CallShape
<1>2. call' = [call EXCEPT ![c] = r]
  BY DEF Goto
<1>3. r \in CallState
  BY <1>1 DEF CallState, PCs
<1>4. LocalShape(r)
  BY <1>1 DEF LocalShape, CallState, InPost
<1> HIDE DEF r
<1> QED BY <1>1, <1>2, <1>3, <1>4, UpdateCall DEF IInv

\* post_message's Err, as the three operations take it, keeps the shape.
LEMMA FailStep ==
  ASSUME IInv, NEW c \in Call, NEW err \in ErrKinds \cup {"none"}, Fail(c, err),
         session' = session, session.url # None
  PROVE  /\ call' \in [Call -> CallState]
         /\ CallShape'
         /\ PostingNeedsExchange'
         /\ outcome' \in Outcomes
<1>1. CASE Return(c, "Complete", err)
  BY <1>1, ReturnStep DEF Kinds, Answers, OkKinds
<1>2. CASE Goto(c, "restore") /\ UNCHANGED outcome
  <2>1. outcome' \in Outcomes
    BY <1>2 DEF IInv, TypeOK
  <2> QED BY <1>2, <2>1, GotoStep
<1>3. CASE Return(c, "Err", err)
  BY <1>3, ReturnStep DEF Kinds, Answers
<1> QED BY <1>1, <1>2, <1>3 DEF Fail
-----------------------------------------------------------------------------
(* The parts of the state an action changes, action by action.             *)

\* new_session establishes the invariant.
LEMMA InitShape == Init => IInv
<1> SUFFICES ASSUME Init PROVE IInv
  OBVIOUS
<1>1. TypeOK
  <2>1. session \in ExchangeState
    BY DEF Init, DefaultState, ExchangeState, Option
  <2>2. store \in [StableIds -> Option(Credential)]
    BY DEF Init, Option
  <2>3. call \in [Call -> CallState]
    BY IdleIsFine DEF Init
  <2>4. replies \in 0..MaxReplies
    BY MaxRepliesAssumption DEF Init
  <2>5. outcome \in Outcomes /\ pending \in Option(Offer)
    BY DEF Init, Outcomes, Ops, Option
  <2> QED BY <2>1, <2>2, <2>3, <2>4, <2>5 DEF TypeOK
<1>2. CallShape
  BY IdleIsFine DEF Init, CallShape
<1>3. SessionShape /\ CompanionsBelongToOffer
  BY DEF Init, DefaultState, SessionShape, CompanionsBelongToOffer
<1>4. PostingNeedsExchange
  BY DEF Init, IdleCall, PostingNeedsExchange
<1> QED BY <1>1, <1>2, <1>3, <1>4 DEF IInv

\* Actions that leave the session alone.
LEMMA QuietStep ==
  ASSUME IInv, UNCHANGED <<session, pending>>, store' \in [StableIds -> Option(Credential)],
         replies' \in 0..MaxReplies, outcome' \in Outcomes,
         call' \in [Call -> CallState], CallShape', PostingNeedsExchange'
  PROVE  IInv'
<1>1. session' \in ExchangeState /\ pending' \in Option(Offer)
  BY DEF IInv, TypeOK
<1>2. TypeOK'
  BY <1>1 DEF TypeOK
<1>3. SessionShape' /\ CompanionsBelongToOffer'
  BY DEF IInv, SessionShape, CompanionsBelongToOffer
<1> QED BY <1>2, <1>3 DEF IInv

\* The first stretch of every operation keeps the invariant.
LEMMA BeginShape ==
  ASSUME IInv, NEW c \in Call, Begin(c)
  PROVE  IInv'
<1>1. /\ session \in ExchangeState /\ call \in [Call -> CallState]
      /\ call[c] \in CallState /\ outcome \in Outcomes /\ replies \in 0..MaxReplies
      /\ store \in [StableIds -> Option(Credential)] /\ pending \in Option(Offer)
  BY DEF IInv, TypeOK
<1>2. ASSUME NEW op \in Ops, Refuse(op)
      PROVE  call' = call /\ outcome' \in Outcomes
  BY <1>1, <1>2 DEF Refuse, Outcomes
<1>3. ASSUME session' = session, call' = call
      PROVE  call' \in [Call -> CallState] /\ CallShape' /\ PostingNeedsExchange'
  BY <1>1, <1>3 DEF IInv, CallShape, PostingNeedsExchange
<1>4. ASSUME NEW u \in Exchange, NEW auth \in {None, u}, StartExchange(c, u, auth)
      PROVE  IInv'
  <2> DEFINE r == [IdleCall EXCEPT !.pc = "resolve", !.op = "start",
                                   !.url = u, !.auth = auth]
  <2>1. call' = [call EXCEPT ![c] = r] /\ r.pc = "resolve"
    BY <1>4 DEF StartExchange, IdleCall
  <2>2. r \in CallState
    BY DEF IdleCall, CallState, PCs, Ops, Option
  <2>3. LocalShape(r)
    BY SessionAssumption DEF IdleCall, LocalShape, InPost
  <2> HIDE DEF r
  <2>4. call' \in [Call -> CallState] /\ CallShape' /\ PostingNeedsExchange'
    BY <1>1, <1>4, <2>1, <2>2, <2>3, UpdateCall DEF IInv, StartExchange
  <2> QED BY <1>1, <1>4, <2>4, QuietStep DEF StartExchange
<1>5. ASSUME NEW allow \in BOOLEAN, BeginSubmit(c, allow)
      PROVE  IInv'
  <2>1. UNCHANGED <<session, store, replies, pending>>
    BY <1>5 DEF BeginSubmit
  <2>2. CASE Refuse("submit")
    BY <1>1, <1>2, <1>3, <2>1, <2>2, QuietStep DEF Ops
  <2>3. CASE /\ session.vpr # None
             /\ call' = [call EXCEPT ![c] =
                  [IdleCall EXCEPT !.pc = "sign", !.op = "submit",
                                   !.vp = session.vpr, !.allow = allow]]
             /\ UNCHANGED outcome
    <3> DEFINE r == [IdleCall EXCEPT !.pc = "sign", !.op = "submit",
                                     !.vp = session.vpr, !.allow = allow]
    <3>1. r \in CallState
      BY <1>1 DEF IdleCall, CallState, PCs, Ops, Option, ExchangeState
    <3>2. LocalShape(r)
      BY DEF IdleCall, LocalShape, InPost
    <3>3. call' = [call EXCEPT ![c] = r]
      BY <2>3
    <3> HIDE DEF r
    <3>4. session.url # None
      BY <2>3 DEF IInv, SessionShape
    <3>5. call' \in [Call -> CallState] /\ CallShape' /\ PostingNeedsExchange'
      BY <1>1, <2>1, <3>1, <3>2, <3>3, <3>4, UpdateCall DEF IInv
    <3> QED BY <1>1, <2>1, <2>3, <3>5, QuietStep
  <2> QED BY <1>5, <2>2, <2>3 DEF BeginSubmit
<1>6. ASSUME BeginAccept(c)
      PROVE  IInv'
  <2>1. UNCHANGED <<session, store, replies, pending>>
    BY <1>6 DEF BeginAccept
  <2>2. CASE Refuse("accept")
    BY <1>1, <1>2, <1>3, <2>1, <2>2, QuietStep DEF Ops
  <2>3. CASE /\ session.offer # None /\ session.offer.creds # <<>>
             /\ call' = [call EXCEPT ![c] =
                  [IdleCall EXCEPT !.pc = "verify", !.op = "accept", !.k = 1,
                                   !.offer = session.offer, !.next = session.next,
                                   !.redirect = session.redirect]]
             /\ UNCHANGED outcome
    <3> DEFINE r == [IdleCall EXCEPT !.pc = "verify", !.op = "accept", !.k = 1,
                                     !.offer = session.offer, !.next = session.next,
                                     !.redirect = session.redirect]
    <3>1. r \in CallState
      BY <1>1 DEF IdleCall, CallState, PCs, Ops, Option, ExchangeState
    <3>2. session.offer.creds \in Seq(Credential)
      BY <1>1, <2>3 DEF ExchangeState, Option, Offer
    <3>3. 1 \in 1..Len(session.offer.creds)
      BY <2>3, <3>2
    <3>4. LocalShape(r)
      BY <2>3, <3>3 DEF IdleCall, LocalShape, InPost
    <3>5. call' = [call EXCEPT ![c] = r]
      BY <2>3
    <3> HIDE DEF r
    <3>6. session.url # None
      BY <2>3 DEF IInv, SessionShape
    <3>7. call' \in [Call -> CallState] /\ CallShape' /\ PostingNeedsExchange'
      BY <1>1, <2>1, <3>1, <3>4, <3>5, <3>6, UpdateCall DEF IInv
    <3> QED BY <1>1, <2>1, <2>3, <3>7, QuietStep
  <2> QED BY <1>6, <2>2, <2>3 DEF BeginAccept
<1>7. ASSUME BeginReject(c)
      PROVE  IInv'
  <2>1. UNCHANGED <<store, replies, pending>>
    BY <1>7 DEF BeginReject
  <2>2. CASE Refuse("reject") /\ UNCHANGED session
    BY <1>1, <1>2, <1>3, <2>1, <2>2, QuietStep DEF Ops
  <2>3. CASE /\ session.offer # None
             /\ call' = [call EXCEPT ![c] =
                  [IdleCall EXCEPT !.pc = "post", !.op = "reject",
                                   !.offer = session.offer]]
             /\ session' = ClearOffer(session)
             /\ UNCHANGED outcome
    <3> DEFINE r == [IdleCall EXCEPT !.pc = "post", !.op = "reject",
                                     !.offer = session.offer]
    <3>1. r \in CallState
      BY <1>1 DEF IdleCall, CallState, PCs, Ops, Option, ExchangeState
    <3>2. LocalShape(r)
      BY DEF IdleCall, LocalShape, InPost
    <3>3. call' = [call EXCEPT ![c] = r]
      BY <2>3
    <3> HIDE DEF r
    <3>4. session' \in ExchangeState /\ session'.url = session.url /\ session.url # None
      BY <1>1, <2>3 DEF IInv, SessionShape, ClearOffer, ExchangeState, Option
    <3>5. call' \in [Call -> CallState] /\ CallShape' /\ PostingNeedsExchange'
      BY <1>1, <3>1, <3>2, <3>3, <3>4, UpdateCall DEF IInv
    <3>6. SessionShape' /\ CompanionsBelongToOffer'
      BY <1>1, <2>3 DEF IInv, SessionShape, CompanionsBelongToOffer, ClearOffer, ExchangeState
    <3>7. TypeOK'
      BY <1>1, <2>1, <2>3, <3>4, <3>5 DEF TypeOK
    <3> QED BY <3>5, <3>6, <3>7 DEF IInv
  <2> QED BY <1>7, <2>2, <2>3 DEF BeginReject
<1> QED BY <1>4, <1>5, <1>6, <1>7 DEF Begin
\* start_exchange and submit_presentation on their way to the POST.
LEMMA PrepareShape ==
  ASSUME IInv, NEW c \in Call,
         ResolveFails(c) \/ ResetSession(c) \/ SignVp(c) \/ SignFails(c)
  PROVE  IInv'
<1>1. /\ session \in ExchangeState /\ call \in [Call -> CallState]
      /\ call[c] \in CallState /\ outcome \in Outcomes /\ replies \in 0..MaxReplies
      /\ store \in [StableIds -> Option(Credential)] /\ pending \in Option(Offer)
      /\ LocalShape(call[c])
  BY DEF IInv, TypeOK, CallShape
<1>2. CASE ResolveFails(c) \/ SignFails(c)
  <2>1. /\ Return(c, "Err", "none")
        /\ UNCHANGED <<session, store, replies, pending>>
    BY <1>2 DEF ResolveFails, SignFails
  <2> QED BY <1>1, <2>1, ReturnStep, QuietStep DEF Kinds, Answers
<1>3. CASE ResetSession(c)
  <2>1. call[c].url \in Exchange /\ call[c].url # None /\ call[c].auth \in {None, call[c].url}
    BY <1>1, <1>3 DEF ResetSession, LocalShape, CallState, Option
  <2>2. session' = FreshState(call[c].url, call[c].auth)
    BY <1>3 DEF ResetSession
  <2>3. session' \in ExchangeState /\ session'.url # None
    BY <2>1, <2>2 DEF FreshState, DefaultState, ExchangeState, Option
  <2>4. SessionShape' /\ CompanionsBelongToOffer'
    BY <2>1, <2>2 DEF FreshState, DefaultState, SessionShape, CompanionsBelongToOffer
  <2>5. call' \in [Call -> CallState] /\ CallShape' /\ PostingNeedsExchange'
    BY <1>3, <2>3, GotoStep DEF ResetSession
  <2>6. TypeOK'
    BY <1>1, <1>3, <2>3, <2>5 DEF ResetSession, TypeOK, Option
  <2> QED BY <2>4, <2>5, <2>6 DEF IInv
<1>4. CASE SignVp(c)
  <2>1. session.url # None
    BY <1>4 DEF SignVp, IInv, PostingNeedsExchange
  <2>2. call' \in [Call -> CallState] /\ CallShape' /\ PostingNeedsExchange'
    BY <1>4, <2>1, GotoStep DEF SignVp
  <2> QED BY <1>1, <1>4, <2>2, QuietStep DEF SignVp
<1> QED BY <1>2, <1>3, <1>4

\* The next entry of a loop, or the next phase.
LEMMA NextEntryStep ==
  ASSUME IInv, NEW c \in Call, NEW phase \in {"store", "advance"},
         call[c].pc \in {"verify", "store"}, NextEntry(c, phase), session' = session
  PROVE  /\ call' \in [Call -> CallState]
         /\ CallShape'
         /\ PostingNeedsExchange'
<1>1. /\ call \in [Call -> CallState] /\ call[c] \in CallState
      /\ LocalShape(call[c]) /\ session.url # None
  BY DEF IInv, TypeOK, CallShape, PostingNeedsExchange
<1>2. /\ call[c].offer # None /\ call[c].op = "accept"
      /\ call[c].k \in 1..Len(Entries(c))
      /\ Entries(c) \in Seq(Credential)
  BY <1>1 DEF LocalShape, CallState, Option, Offer, Entries
<1>3. Len(Entries(c)) \in Nat
  BY <1>2
<1>4. CASE call[c].k < Len(Entries(c))
  <2> DEFINE r == [call[c] EXCEPT !.k = call[c].k + 1]
  <2>1. call' = [call EXCEPT ![c] = r]
    BY <1>4 DEF NextEntry
  <2>2. r \in CallState
    BY <1>1, <1>2, <1>3 DEF CallState
  <2>3. r.offer = call[c].offer /\ r.k \in 1..Len(r.offer.creds)
    BY <1>1, <1>2, <1>3, <1>4 DEF Entries, CallState
  <2>4. LocalShape(r)
    BY <1>1, <1>2, <2>3 DEF LocalShape, CallState, InPost
  <2> HIDE DEF r
  <2> QED BY <1>1, <2>1, <2>2, <2>4, UpdateCall DEF IInv
<1>5. CASE ~(call[c].k < Len(Entries(c)))
  <2> DEFINE r == [call[c] EXCEPT !.k = 1, !.pc = phase]
  <2>1. call' = [call EXCEPT ![c] = r]
    BY <1>1, <1>5 DEF NextEntry
  <2>2. r \in CallState
    BY <1>1 DEF CallState, PCs
  <2>3. r.offer = call[c].offer /\ r.k \in 1..Len(r.offer.creds)
    BY <1>1, <1>2, <1>3 DEF Entries, CallState
  <2>4. LocalShape(r)
    BY <1>1, <1>2, <2>3 DEF LocalShape, CallState, InPost
  <2> HIDE DEF r
  <2> QED BY <1>1, <2>1, <2>2, <2>4, UpdateCall DEF IInv
<1> QED BY <1>4, <1>5

\* accept_offer up to its advance.
LEMMA EntriesShape ==
  ASSUME IInv, NEW c \in Call,
         \/ \E derived \in DeriveAnswers : \E answer \in EngineAnswers :
              VerifyEntry(c, derived, answer)
         \/ StoreEntry(c)
         \/ StoreFails(c)
  PROVE  IInv'
<1>1. /\ call \in [Call -> CallState] /\ call[c] \in CallState
      /\ outcome \in Outcomes /\ replies \in 0..MaxReplies
      /\ store \in [StableIds -> Option(Credential)] /\ LocalShape(call[c])
  BY DEF IInv, TypeOK, CallShape
<1>2. ASSUME NEW derived \in DeriveAnswers, NEW answer \in EngineAnswers,
             VerifyEntry(c, derived, answer)
      PROVE  IInv'
  <2>1. call[c].pc = "verify" /\ UNCHANGED <<session, store, replies, pending>>
    BY <1>2 DEF VerifyEntry
  <2>2. CASE NextEntry(c, "store") /\ UNCHANGED outcome
    BY <1>1, <2>1, <2>2, NextEntryStep, QuietStep
  <2>3. CASE Return(c, "Err", "none")
    BY <1>1, <2>1, <2>3, ReturnStep, QuietStep DEF Kinds, Answers
  <2> QED BY <1>2, <2>2, <2>3 DEF VerifyEntry
<1>3. CASE StoreEntry(c)
  <2>1. Entries(c)[call[c].k] \in Credential
    BY <1>1, <1>3 DEF StoreEntry, LocalShape, CallState, Option, Offer, Entries
  <2>2. store' \in [StableIds -> Option(Credential)]
    BY <1>1, <1>3, <2>1 DEF StoreEntry, Option
  <2>3. call' \in [Call -> CallState] /\ CallShape' /\ PostingNeedsExchange'
    BY <1>3, NextEntryStep DEF StoreEntry
  <2> QED BY <1>1, <1>3, <2>2, <2>3, QuietStep DEF StoreEntry
<1>4. CASE StoreFails(c)
  <2>1. /\ Return(c, "Err", "none")
        /\ UNCHANGED <<session, store, replies, pending>>
    BY <1>4 DEF StoreFails
  <2> QED BY <1>1, <2>1, ReturnStep, QuietStep DEF Kinds, Answers
<1> QED BY <1>2, <1>3, <1>4

\* accept_offer's three ways to advance.
LEMMA AdvanceShape ==
  ASSUME IInv, NEW c \in Call,
         AdvanceWithRequest(c) \/ AdvanceWithRedirect(c) \/ AdvanceByPost(c)
  PROVE  IInv'
<1>1. /\ session \in ExchangeState /\ call \in [Call -> CallState]
      /\ call[c] \in CallState /\ outcome \in Outcomes /\ replies \in 0..MaxReplies
      /\ store \in [StableIds -> Option(Credential)] /\ pending \in Option(Offer)
      /\ session.url # None
  BY DEF IInv, TypeOK, PostingNeedsExchange, AdvanceWithRequest,
         AdvanceWithRedirect, AdvanceByPost
<1>2. pending' \in Option(Offer)
  BY <1>1 DEF AdvanceWithRequest, AdvanceWithRedirect, AdvanceByPost, Resolved, Option
<1>3. /\ session' \in ExchangeState /\ session'.url = session.url
      /\ session'.auth = session.auth
      /\ session'.offer = None /\ session'.next = None /\ session'.redirect = None
  BY <1>1 DEF AdvanceWithRequest, AdvanceWithRedirect, AdvanceByPost, ClearOffer,
              ExchangeState, CallState, Option
<1>4. SessionShape' /\ CompanionsBelongToOffer'
  BY <1>1, <1>3 DEF IInv, SessionShape, CompanionsBelongToOffer
<1>5. /\ call' \in [Call -> CallState] /\ CallShape' /\ PostingNeedsExchange'
      /\ outcome' \in Outcomes
  <2>1. CASE AdvanceWithRequest(c)
    <3>1. call[c].next \in Option(Vpr)
      BY <1>1 DEF CallState
    <3> QED BY <1>1, <1>3, <2>1, <3>1, ReturnAskingStep
         DEF AdvanceWithRequest, Answers, Kinds, OkKinds
  <2>2. CASE AdvanceWithRedirect(c)
    BY <1>1, <1>3, <2>2, ReturnStep DEF AdvanceWithRedirect, Answers, Kinds, OkKinds
  <2>3. CASE AdvanceByPost(c)
    BY <1>1, <1>3, <2>3, GotoStep DEF AdvanceByPost
  <2> QED BY <2>1, <2>2, <2>3
<1>6. TypeOK'
  BY <1>1, <1>2, <1>3, <1>5 DEF TypeOK, AdvanceWithRequest, AdvanceWithRedirect,
                                AdvanceByPost
<1> QED BY <1>4, <1>5, <1>6 DEF IInv

\* The request on the wire.
LEMMA WireShape ==
  ASSUME IInv, NEW c \in Call,
         \/ PostSnapshot(c)
         \/ \E shape \in ReplyShapes : ServerReplies(c, shape)
         \/ NetworkFails(c)
  PROVE  IInv'
<1>1. /\ session \in ExchangeState /\ call \in [Call -> CallState]
      /\ call[c] \in CallState /\ outcome \in Outcomes /\ replies \in 0..MaxReplies
      /\ store \in [StableIds -> Option(Credential)] /\ pending \in Option(Offer)
      /\ LocalShape(call[c]) /\ session.url # None
  BY DEF IInv, TypeOK, CallShape, PostingNeedsExchange, PostSnapshot,
         ServerReplies, NetworkFails
<1>2. CASE PostSnapshot(c)
  <2> DEFINE r == [call[c] EXCEPT !.pc = "wire", !.url = session.url,
                                  !.auth = session.auth, !.ref = session.ref]
  <2>1. /\ call' = [call EXCEPT ![c] = r] /\ UNCHANGED outcome
        /\ UNCHANGED <<session, store, replies, pending>>
    BY <1>1, <1>2 DEF PostSnapshot
  <2>2. r \in CallState
    BY <1>1 DEF CallState, PCs, ExchangeState
  <2>3. LocalShape(r)
    BY <1>1 DEF IInv, SessionShape, LocalShape, CallState, InPost
  <2> HIDE DEF r
  <2>4. call' \in [Call -> CallState] /\ CallShape' /\ PostingNeedsExchange'
    BY <1>1, <2>1, <2>2, <2>3, UpdateCall DEF IInv
  <2> QED BY <1>1, <2>1, <2>4, QuietStep
<1>3. ASSUME NEW shape \in ReplyShapes, ServerReplies(c, shape)
      PROVE  IInv'
  <2> DEFINE reply == MakeReply(shape, call[c].url, replies + 1)
             r == [call[c] EXCEPT !.pc = "reply", !.reply = reply]
  <2>1. call[c].url \in Exchange
    BY <1>1, <1>3 DEF ServerReplies, LocalShape, InPost, CallState, Option
  <2>2. replies + 1 \in Ordinal
    <3>1. replies < MaxReplies
      BY <1>3 DEF ServerReplies
    <3> QED BY <1>1, <3>1, MaxRepliesAssumption DEF Ordinal
  <2>3. reply \in Reply /\ ReplyAgrees(reply)
    BY <2>1, <2>2, MakeReplyType
  <2> HIDE DEF reply
  <2>4. reply # None
    BY <2>3, SessionAssumption
  <2>5. r \in CallState
    BY <1>1, <2>3 DEF CallState, PCs, Option
  <2>6. LocalShape(r)
    BY <1>1, <1>3, <2>3, <2>4 DEF ServerReplies, LocalShape, CallState, InPost
  <2>7. call' = [call EXCEPT ![c] = r]
    BY <1>3 DEF ServerReplies, reply
  <2> HIDE DEF r
  <2>8. call' \in [Call -> CallState] /\ CallShape' /\ PostingNeedsExchange'
    BY <1>1, <1>3, <2>5, <2>6, <2>7, UpdateCall DEF IInv, ServerReplies
  <2>9. replies' \in 0..MaxReplies
    BY <1>3, <2>2 DEF ServerReplies, Ordinal
  <2> QED BY <1>1, <1>3, <2>8, <2>9, QuietStep DEF ServerReplies
<1>4. CASE NetworkFails(c)
  BY <1>1, <1>4, FailStep, QuietStep DEF NetworkFails
<1> QED BY <1>2, <1>3, <1>4
\* The reply is classified and its effects enter the session.
LEMMA RecordShape ==
  ASSUME IInv, NEW c \in Call, RecordReference(c)
  PROVE  IInv'
<1> DEFINE reply == call[c].reply
           step == Classify(reply)
           kind == step.kind
<1>1. /\ session \in ExchangeState /\ call \in [Call -> CallState]
      /\ call[c] \in CallState /\ outcome \in Outcomes /\ replies \in 0..MaxReplies
      /\ store \in [StableIds -> Option(Credential)] /\ pending \in Option(Offer)
      /\ LocalShape(call[c]) /\ session.url # None
  BY DEF IInv, TypeOK, CallShape, PostingNeedsExchange, RecordReference
<1>2. reply \in Reply
  BY <1>1 DEF LocalShape, CallState, Option, RecordReference
<1>3. step \in StepResult
  BY <1>2, ClassifyType
<1>4. kind \in OkKinds \cup ErrKinds
  BY <1>3 DEF StepResult
<1>5. Resolved(c) \in Option(Offer) /\ pending' \in {pending, Resolved(c)}
  BY <1>1 DEF Resolved, Option, RecordReference
<1>6. store' = store /\ replies' = replies /\ call[c].pc = "reply"
  BY DEF RecordReference
<1>7. CASE kind \in ErrKinds
  <2>1. Fail(c, kind) /\ session' = session
    BY <1>7 DEF RecordReference, ErrKinds, OkKinds
  <2>2. /\ call' \in [Call -> CallState] /\ CallShape' /\ PostingNeedsExchange'
        /\ outcome' \in Outcomes
    BY <1>1, <1>7, <2>1, FailStep
  <2>3. TypeOK'
    BY <1>1, <1>5, <1>6, <2>1, <2>2 DEF TypeOK
  <2>4. SessionShape' /\ CompanionsBelongToOffer'
    BY <2>1 DEF IInv, SessionShape, CompanionsBelongToOffer
  <2> QED BY <2>2, <2>3, <2>4 DEF IInv
<1>8. CASE kind \in OkKinds
  <2>1. /\ session' = IF reply.status = "2xx"
                      THEN [session EXCEPT !.ref = MessageOf(reply).ref]
                      ELSE session
        /\ \/ kind \in {"Request", "Offer"} /\ Goto(c, "capture") /\ UNCHANGED outcome
           \/ Return(c, StepFor(c, kind), kind)
    BY <1>8 DEF RecordReference, TakeReference, ErrKinds, OkKinds
  <2>2. MessageOf(reply).ref \in Option(Reference)
    BY <1>2 DEF MessageOf, Reply, VcapiMessage, DefaultMessage, Option
  <2>3. /\ session' \in ExchangeState
        /\ session'.url = session.url /\ session'.auth = session.auth
        /\ session'.offer = session.offer /\ session'.vpr = session.vpr
        /\ session'.next = session.next /\ session'.redirect = session.redirect
    BY <1>1, <2>1, <2>2 DEF ExchangeState
  <2>4. SessionShape' /\ CompanionsBelongToOffer'
    BY <2>3 DEF IInv, SessionShape, CompanionsBelongToOffer
  <2>5. /\ call' \in [Call -> CallState] /\ CallShape' /\ PostingNeedsExchange'
        /\ outcome' \in Outcomes
    <3>1. CASE kind \in {"Request", "Offer"} /\ Goto(c, "capture") /\ UNCHANGED outcome
      BY <1>1, <1>6, <2>3, <3>1, GotoStep
    <3>2. CASE Return(c, StepFor(c, kind), kind)
      <4>1. StepFor(c, kind) \in Kinds /\ kind \in Answers
        BY <1>8 DEF StepFor, Kinds, Answers, OkKinds
      <4> QED BY <1>1, <2>3, <3>2, <4>1, ReturnStep
    <3> QED BY <2>1, <3>1, <3>2
  <2>6. TypeOK'
    BY <1>1, <1>5, <1>6, <2>3, <2>5 DEF TypeOK
  <2> QED BY <2>4, <2>5, <2>6 DEF IInv
<1> QED BY <1>4, <1>7, <1>8

\* Capturing a request or an offer keeps the invariant: an offer's companions
\* are those of its own message.
LEMMA CaptureShape ==
  ASSUME IInv, NEW c \in Call, CaptureStep(c)
  PROVE  IInv'
<1> DEFINE reply == call[c].reply
           step == Classify(reply)
<1>1. /\ session \in ExchangeState /\ call \in [Call -> CallState]
      /\ call[c] \in CallState /\ outcome \in Outcomes /\ replies \in 0..MaxReplies
      /\ store \in [StableIds -> Option(Credential)] /\ pending \in Option(Offer)
      /\ LocalShape(call[c]) /\ session.url # None
  BY DEF IInv, TypeOK, CallShape, PostingNeedsExchange, CaptureStep
<1>2. /\ reply \in Reply /\ ReplyAgrees(reply)
      /\ step.kind \in {"Request", "Offer"}
  BY <1>1 DEF LocalShape, CallState, Option, CaptureStep
<1>3. /\ step \in StepResult
      /\ step.kind = "Offer" =>
           step.vcs # None /\ PartsAgree(step.vcs, step.vpr, step.redirect)
  BY <1>2, ClassifyType
<1>4. /\ step.vcs \in Option(Offer) /\ step.vpr \in Option(Vpr)
      /\ step.redirect \in Option(RedirectUrl)
  BY <1>3 DEF StepResult
<1>5. /\ session' = Captured(session, step)
      /\ pending' = IF step.kind = "Offer" THEN step.vcs ELSE Resolved(c)
      /\ \/ ReturnAsking(c, step.kind, step.vpr, step.kind)
         \/ Return(c, step.kind, step.kind)
      /\ store' = store /\ replies' = replies
  BY DEF CaptureStep
<1> HIDE DEF step, reply
<1>6. LatestVpr(session.vpr, step.vpr) \in Option(Vpr)
  BY <1>1, <1>4 DEF LatestVpr, ExchangeState
<1>7. /\ session' \in ExchangeState
      /\ session'.url = session.url /\ session'.auth = session.auth
  BY <1>1, <1>4, <1>5, <1>6 DEF Captured, ExchangeState
<1>8. CompanionsBelongToOffer'
  <2>1. CASE step.kind = "Offer"
    <3>1. /\ session'.offer = step.vcs /\ session'.next = step.vpr
          /\ session'.redirect = step.redirect
      BY <1>1, <1>5, <2>1 DEF Captured, ExchangeState
    <3> QED BY <1>3, <2>1, <3>1 DEF CompanionsBelongToOffer, PartsAgree
  <2>2. CASE step.kind # "Offer"
    <3>1. /\ session'.offer = session.offer /\ session'.next = session.next
          /\ session'.redirect = session.redirect
      BY <1>1, <1>5, <2>2 DEF Captured, ExchangeState
    <3> QED BY <3>1 DEF IInv, CompanionsBelongToOffer
  <2> QED BY <2>1, <2>2
<1>9. SessionShape'
  BY <1>1, <1>7 DEF IInv, SessionShape
<1>10. /\ call' \in [Call -> CallState] /\ CallShape' /\ PostingNeedsExchange'
       /\ outcome' \in Outcomes
  <2>1. step.kind \in Answers /\ step.kind \in Kinds
    BY <1>2 DEF step, Answers, Kinds, OkKinds
  <2> QED BY <1>1, <1>4, <1>5, <1>7, <2>1, ReturnStep, ReturnAskingStep
<1>11. pending' \in Option(Offer)
  BY <1>1, <1>4, <1>5 DEF Resolved, Option
<1>12. TypeOK'
  BY <1>1, <1>5, <1>7, <1>10, <1>11 DEF TypeOK
<1> QED BY <1>8, <1>9, <1>10, <1>12 DEF IInv

\* The failed advance puts its offer back; companions another offer left
\* behind cannot be there.
LEMMA RestoreShape ==
  ASSUME IInv, NEW c \in Call, RestoreOffer(c)
  PROVE  IInv'
<1>1. /\ session \in ExchangeState /\ call \in [Call -> CallState]
      /\ call[c] \in CallState /\ outcome \in Outcomes /\ replies \in 0..MaxReplies
      /\ store \in [StableIds -> Option(Credential)] /\ pending \in Option(Offer)
      /\ session.url # None
  BY DEF IInv, TypeOK, PostingNeedsExchange, RestoreOffer
<1>2. /\ session' \in ExchangeState
      /\ session'.url = session.url /\ session'.auth = session.auth
  BY <1>1 DEF RestoreOffer, PutBack, ExchangeState, CallState, Option
<1>3. CompanionsBelongToOffer'
  <2>1. CASE session.offer = None
    <3>1. session.next = None /\ session.redirect = None
      BY <2>1 DEF IInv, CompanionsBelongToOffer
    <3>2. session'.next = None /\ session'.redirect = None
      BY <1>1, <2>1, <3>1 DEF RestoreOffer, PutBack, ExchangeState
    <3> QED BY <3>2 DEF CompanionsBelongToOffer
  <2>2. CASE session.offer # None
    BY <2>2 DEF IInv, RestoreOffer, CompanionsBelongToOffer
  <2> QED BY <2>1, <2>2
<1>4. SessionShape'
  BY <1>1, <1>2 DEF IInv, SessionShape
<1>5. /\ call' \in [Call -> CallState] /\ CallShape' /\ PostingNeedsExchange'
      /\ outcome' \in Outcomes
  BY <1>1, <1>2, ReturnStep DEF RestoreOffer, Kinds, Answers
<1>6. TypeOK'
  BY <1>1, <1>2, <1>5 DEF TypeOK, RestoreOffer
<1> QED BY <1>3, <1>4, <1>5, <1>6 DEF IInv

\* Dropping a call keeps the invariant.
LEMMA CancelShape ==
  ASSUME IInv, NEW c \in Call, Cancel(c)
  PROVE  IInv'
<1>1. /\ Return(c, "Cancelled", "none")
      /\ UNCHANGED <<session, store, replies, pending>>
  BY DEF Cancel
<1>2. replies \in 0..MaxReplies /\ store \in [StableIds -> Option(Credential)]
  BY DEF IInv, TypeOK
<1> QED BY <1>1, <1>2, ReturnStep, QuietStep DEF Kinds, Answers

\* So does a step in which nothing changes.
LEMMA StutterShape ==
  ASSUME IInv, UNCHANGED vars
  PROVE  IInv'
BY DEF vars, IInv, TypeOK, CallShape, SessionShape, CompanionsBelongToOffer,
       PostingNeedsExchange

\* Every step keeps the invariant.
LEMMA NextShape ==
  ASSUME IInv, [Next]_vars
  PROVE  IInv'
<1>1. ASSUME NEW c \in Call, Progress(c) PROVE IInv'
  BY <1>1, PrepareShape, EntriesShape, AdvanceShape, WireShape, RecordShape,
     CaptureShape, RestoreShape DEF Progress
<1> QED BY <1>1, BeginShape, CancelShape, StutterShape DEF Next

-----------------------------------------------------------------------------
(* The theorems about the session.                                         *)

\* IInv holds in every behaviour: its parts follow.
THEOREM SessionInvariant == Spec => []IInv
<1>1. Init => IInv
  BY InitShape
<1>2. IInv /\ [Next]_vars => IInv'
  BY NextShape
<1> QED BY <1>1, <1>2, PTL DEF Spec

\* Every variable keeps its type (new_session to the last call).
THEOREM TypeCorrect == Spec => []TypeOK
<1>1. IInv => TypeOK
  BY DEF IInv
<1> QED BY <1>1, SessionInvariant, PTL

\* A bundled request or redirect stays with the offer it came with, whatever
\* calls overlap or are dropped.
THEOREM CompanionsStay == Spec => []CompanionsBelongToOffer
<1>1. IInv => CompanionsBelongToOffer
  BY DEF IInv
<1> QED BY <1>1, SessionInvariant, PTL

\* A bearer token travels only to the exchange it was supplied for.
THEOREM BearerStays == Spec => []BearerStaysOnItsExchange
<1>1. IInv => BearerStaysOnItsExchange
  BY DEF IInv, CallShape, LocalShape, BearerStaysOnItsExchange
<1> QED BY <1>1, SessionInvariant, PTL

\* post_message always finds a channel.
THEOREM ChannelIsThere == Spec => []PostingNeedsExchange
<1>1. IInv => PostingNeedsExchange
  BY DEF IInv
<1> QED BY <1>1, SessionInvariant, PTL
-----------------------------------------------------------------------------
(* Slots are scoped by issuer.                                             *)

\* The name of a credential that has an id, taken apart.
LEMMA NamedSlot ==
  ASSUME NEW c \in Credential, IdOf[c] # <<>>
  PROVE  /\ StableLocalId(c) \in Seq(Char)
         /\ Len(StableLocalId(c)) >= Len(IssuerOf[c]) + 1
         /\ \A i \in 1..Len(IssuerOf[c]) : StableLocalId(c)[i] = IssuerOf[c][i]
         /\ StableLocalId(c)[Len(IssuerOf[c]) + 1] = Newline
<1> DEFINE s == IssuerOf[c]
           t == IdOf[c]
<1>1. s \in Seq(Char) /\ t \in Seq(Char) /\ Newline \in Char
  BY IssuanceAssumption
<1>2. StableLocalId(c) = (s \o <<Newline>>) \o t
  BY DEF StableLocalId
<1> HIDE DEF s, t
<1>3. /\ s \o <<Newline>> \in Seq(Char)
      /\ Len(s \o <<Newline>>) = Len(s) + 1
      /\ \A i \in 1..Len(s) : (s \o <<Newline>>)[i] = s[i]
      /\ (s \o <<Newline>>)[Len(s) + 1] = Newline
  BY <1>1
<1>4. \A u \in Seq(Char) :
        /\ u \o t \in Seq(Char)
        /\ Len(u \o t) = Len(u) + Len(t)
        /\ \A i \in 1..Len(u) : (u \o t)[i] = u[i]
  BY <1>1
<1>5. Len(s) \in Nat /\ Len(t) \in Nat
  BY <1>1
<1> QED BY <1>2, <1>3, <1>4, <1>5 DEF s

\* The issuers of two named credentials with one slot agree up to the shorter
\* one, which the newline of the name ends.
LEMMA IssuerNotLonger ==
  ASSUME NEW c \in Credential, NEW d \in Credential,
         IdOf[c] # <<>>, IdOf[d] # <<>>, StableLocalId(c) = StableLocalId(d)
  PROVE  Len(IssuerOf[c]) <= Len(IssuerOf[d])
<1>1. /\ IssuerOf[c] \in Seq(Char \ {Newline})
      /\ IssuerOf[d] \in Seq(Char \ {Newline})
  BY IssuanceAssumption
<1>2. Len(IssuerOf[c]) \in Nat /\ Len(IssuerOf[d]) \in Nat
  BY <1>1
<1> SUFFICES ASSUME Len(IssuerOf[d]) < Len(IssuerOf[c])
             PROVE  FALSE
  BY <1>2
<1>3. Len(IssuerOf[d]) + 1 \in 1..Len(IssuerOf[c])
  BY <1>2
<1>4. IssuerOf[c][Len(IssuerOf[d]) + 1] = Newline
  BY <1>3, NamedSlot
<1> QED BY <1>1, <1>3, <1>4

\* stable_local_id: a slot belongs to one issuer.
THEOREM SlotsAreScoped ==
  ASSUME NEW c \in Credential, NEW d \in Credential,
         StableLocalId(c) = StableLocalId(d)
  PROVE  IssuerOf[c] = IssuerOf[d]
<1>1. CASE IdOf[c] # <<>> /\ IdOf[d] # <<>>
  <2>1. /\ IssuerOf[c] \in Seq(Char \ {Newline})
        /\ IssuerOf[d] \in Seq(Char \ {Newline})
    BY IssuanceAssumption
  <2>2. Len(IssuerOf[c]) = Len(IssuerOf[d])
    BY <1>1, <2>1, IssuerNotLonger
  <2>3. \A i \in 1..Len(IssuerOf[c]) : IssuerOf[c][i] = IssuerOf[d][i]
    BY <1>1, <2>2, NamedSlot
  <2> QED BY <2>1, <2>2, <2>3
<1>2. CASE IdOf[c] = <<>> /\ IdOf[d] = <<>>
  BY <1>2, IssuanceAssumption DEF StableLocalId
<1>3. ASSUME NEW a \in Credential, NEW b \in Credential,
             IdOf[a] # <<>>, IdOf[b] = <<>>
      PROVE  StableLocalId(a) # StableLocalId(b)
  <2> DEFINE n == Len(IssuerOf[a]) + 1
  <2>1. IssuerOf[a] \in Seq(Char) /\ ContentOf[b] \in Seq(Char \ {Newline})
    BY IssuanceAssumption
  <2>2. StableLocalId(b) = ContentOf[b]
    BY <1>3 DEF StableLocalId
  <2>3. n \in Nat /\ n >= 1 /\ n <= Len(StableLocalId(a)) /\ StableLocalId(a)[n] = Newline
    BY <1>3, <2>1, NamedSlot
  <2>4. ASSUME StableLocalId(a) = ContentOf[b] PROVE FALSE
    <3>1. n \in 1..Len(ContentOf[b]) /\ ContentOf[b][n] = Newline
      BY <2>1, <2>3, <2>4
    <3> HIDE DEF n
    <3> QED BY <2>1, <3>1
  <2> QED BY <2>2, <2>4
<1> QED BY <1>1, <1>2, <1>3
-----------------------------------------------------------------------------
(* The wallet.                                                             *)

\* What an accept call has verified so far: entries below k while it
\* verifies, all of them while it stores.
Verified(r) ==
  /\ r.pc = "verify" => \A i \in 1..(r.k - 1) : Proven(r.offer.creds[i])
  /\ r.pc = "store" => \A i \in 1..Len(r.offer.creds) : Proven(r.offer.creds[i])

\* The slot of a credential is taken, by a credential of its issuer.
Filled(wallet, cred) ==
  /\ wallet[StableLocalId(cred)] # None
  /\ IssuerOf[wallet[StableLocalId(cred)]] = IssuerOf[cred]

\* What an accept call has stored so far.
Stored(r) ==
  /\ r.pc = "store" => \A i \in 1..(r.k - 1) : Filled(store, r.offer.creds[i])
  /\ r.op = "accept" /\ r.pc \notin {"verify", "store"} =>
       \A i \in DOMAIN r.offer.creds : Filled(store, r.offer.creds[i])

WalletInv ==
  /\ OnlyProvenStored
  /\ \A c \in Call : Verified(call[c]) /\ Stored(call[c])

\* Only a proven entry passes the verify loop.
LEMMA StorableIsProven ==
  ASSUME NEW cred \in Credential, NEW derived, NEW answer \in VerifyAnswers(cred),
         VerifyOfferedEntry(cred, derived, answer) \in StorableOutcomes
  PROVE  Proven(cred)
<1>1. Recognized(cred) /\ OutcomeOf(answer) \in StorableOutcomes
  BY DEF VerifyOfferedEntry, StorableOutcomes
<1>2. answer # "ProofInvalid"
  BY <1>1 DEF OutcomeOf, StorableOutcomes
<1>3. answer \notin {"Unsupported", "Err"}
  BY <1>1 DEF OutcomeOf, StorableOutcomes
<1> QED BY <1>1, <1>2, <1>3 DEF VerifyAnswers, Proven

\* What the session invariant says of a call's offer.
LEMMA EntriesOfCall ==
  ASSUME IInv, NEW c \in Call, call[c].op = "accept"
  PROVE  /\ Entries(c) \in Seq(Credential)
         /\ Entries(c) = call[c].offer.creds
         /\ DOMAIN Entries(c) = 1..Len(Entries(c))
         /\ Len(Entries(c)) \in Nat
         /\ \A i \in 1..Len(Entries(c)) : Entries(c)[i] \in Credential
<1>1. call[c] \in CallState /\ LocalShape(call[c])
  BY DEF IInv, TypeOK, CallShape
<1>2. call[c].offer \in Offer
  BY <1>1 DEF LocalShape, CallState, Option
<1>3. Entries(c) \in Seq(Credential) /\ Entries(c) = call[c].offer.creds
  BY <1>2 DEF Entries, Offer
<1> HIDE DEF Entries
<1> QED BY <1>3

\* Every action but the entries' loops leaves the store alone, and moves a
\* call only to steps where its obligations are those it already had.
LEMMA WalletFrame ==
  ASSUME IInv, WalletInv, store' = store, NEW c \in Call, NEW r,
         call' = [call EXCEPT ![c] = r],
         Verified(r), Stored(r)
  PROVE  WalletInv'
<1>1. call \in [Call -> CallState]
  BY DEF IInv, TypeOK
<1>2. ASSUME NEW d \in Call
      PROVE  Verified(call'[d]) /\ Stored(call'[d])
    BY <1>1 DEF WalletInv
<1>3. (\A d \in Call : Verified(call[d]) /\ Stored(call[d]))'
  BY <1>2 DEF Verified, Stored, Filled
<1>4. OnlyProvenStored'
  BY DEF WalletInv, OnlyProvenStored
<1> QED BY <1>3, <1>4 DEF WalletInv

\* A call that is not in progress has nothing to show for its entries.
LEMMA IdleWallet == Verified(IdleCall) /\ Stored(IdleCall)
BY DEF IdleCall, Verified, Stored

\* A call that returns keeps the wallet invariant.
LEMMA ReturnWallet ==
  ASSUME IInv, WalletInv, store' = store, NEW c \in Call,
         call' = [call EXCEPT ![c] = IdleCall]
  PROVE  WalletInv'
BY IdleWallet, WalletFrame

\* A call that is past its loops, or has none, keeps that status.
LEMMA MoveWallet ==
  ASSUME IInv, WalletInv, store' = store, NEW c \in Call, NEW r,
         call' = [call EXCEPT ![c] = r],
         r.op = call[c].op, r.offer = call[c].offer,
         r.pc \notin {"verify", "store"}, call[c].pc \notin {"verify", "store"}
  PROVE  WalletInv'
<1>1. Verified(r) /\ Stored(r)
  BY DEF WalletInv, Verified, Stored
<1> QED BY <1>1, WalletFrame

\* The first stretch of every operation keeps it: accept_offer starts with no
\* entry verified and none stored.
LEMMA BeginWallet ==
  ASSUME IInv, WalletInv, NEW c \in Call, Begin(c)
  PROVE  WalletInv'
<1>1. call \in [Call -> CallState] /\ call[c] \in CallState /\ LocalShape(call[c])
  BY DEF IInv, TypeOK, CallShape
<1>2. ASSUME call' = call, store' = store
      PROVE  WalletInv'
  BY <1>2 DEF WalletInv, OnlyProvenStored, Verified, Stored, Filled
<1>3. ASSUME NEW u \in Exchange, NEW auth \in {None, u}, StartExchange(c, u, auth)
      PROVE  WalletInv'
  <2> DEFINE r == [IdleCall EXCEPT !.pc = "resolve", !.op = "start",
                                   !.url = u, !.auth = auth]
  <2>1. call' = [call EXCEPT ![c] = r] /\ store' = store
    BY <1>3 DEF StartExchange
  <2>2. Verified(r) /\ Stored(r)
    BY DEF IdleCall, Verified, Stored
  <2> HIDE DEF r
  <2> QED BY <2>1, <2>2, WalletFrame
<1>4. ASSUME NEW allow \in BOOLEAN, BeginSubmit(c, allow)
      PROVE  WalletInv'
  <2> DEFINE r == [IdleCall EXCEPT !.pc = "sign", !.op = "submit",
                                   !.vp = session.vpr, !.allow = allow]
  <2>1. (call' = call \/ call' = [call EXCEPT ![c] = r]) /\ store' = store
    BY <1>4 DEF BeginSubmit, Refuse
  <2>2. Verified(r) /\ Stored(r)
    BY DEF IdleCall, Verified, Stored
  <2> HIDE DEF r
  <2> QED BY <1>2, <2>1, <2>2, WalletFrame
<1>5. ASSUME BeginAccept(c)
      PROVE  WalletInv'
  <2> DEFINE r == [IdleCall EXCEPT !.pc = "verify", !.op = "accept", !.k = 1,
                                   !.offer = session.offer, !.next = session.next,
                                   !.redirect = session.redirect]
  <2>1. (call' = call \/ call' = [call EXCEPT ![c] = r]) /\ store' = store
    BY <1>5 DEF BeginAccept, Refuse
  <2>2. Verified(r) /\ Stored(r)
    BY DEF IdleCall, Verified, Stored
  <2> HIDE DEF r
  <2> QED BY <1>2, <2>1, <2>2, WalletFrame
<1>6. ASSUME BeginReject(c)
      PROVE  WalletInv'
  <2> DEFINE r == [IdleCall EXCEPT !.pc = "post", !.op = "reject",
                                   !.offer = session.offer]
  <2>1. (call' = call \/ call' = [call EXCEPT ![c] = r]) /\ store' = store
    BY <1>6 DEF BeginReject, Refuse
  <2>2. Verified(r) /\ Stored(r)
    BY DEF IdleCall, Verified, Stored
  <2> HIDE DEF r
  <2> QED BY <1>2, <2>1, <2>2, WalletFrame
<1> QED BY <1>3, <1>4, <1>5, <1>6 DEF Begin

\* One more entry is verified, or all of them are.
LEMMA VerifyWallet ==
  ASSUME IInv, WalletInv, NEW c \in Call,
         NEW derived \in DeriveAnswers, NEW answer \in EngineAnswers,
         VerifyEntry(c, derived, answer)
  PROVE  WalletInv'
<1> DEFINE k == call[c].k
<1>1. /\ call[c] \in CallState /\ LocalShape(call[c]) /\ Verified(call[c])
      /\ call[c].pc = "verify" /\ store' = store
  BY DEF IInv, TypeOK, CallShape, WalletInv, VerifyEntry
<1>2. call[c].op = "accept" /\ k \in 1..Len(Entries(c))
  BY <1>1 DEF LocalShape, Entries
<1>3. Entries(c)[k] \in Credential /\ Len(Entries(c)) \in Nat
  BY <1>2, EntriesOfCall
<1>4. \A i \in 1..(k - 1) : Proven(Entries(c)[i])
  BY <1>1 DEF Verified, Entries
<1>5. CASE Return(c, "Err", "none")
  BY <1>1, <1>5, ReturnWallet DEF Return
<1>6. CASE /\ VerifyOfferedEntry(Entries(c)[k], derived, answer) \in StorableOutcomes
           /\ NextEntry(c, "store")
  <2>1. Proven(Entries(c)[k])
    <3>1. answer \in VerifyAnswers(Entries(c)[k])
      BY DEF VerifyEntry
    <3> QED BY <1>3, <1>6, <3>1, StorableIsProven
  <2>2. \A i \in 1..k : Proven(Entries(c)[i])
    BY <1>2, <1>3, <1>4, <2>1
  <2>3. CASE k < Len(Entries(c))
    <3> DEFINE r == [call[c] EXCEPT !.k = k + 1]
    <3>1. call' = [call EXCEPT ![c] = r]
      BY <1>6, <2>3 DEF NextEntry
    <3>2. r.pc = "verify" /\ r.k = k + 1 /\ r.offer.creds = Entries(c)
      BY <1>1 DEF CallState, Entries
    <3> HIDE DEF r
    <3>3. Verified(r) /\ Stored(r)
      BY <1>2, <1>3, <2>2, <3>2 DEF Verified, Stored
    <3> QED BY <1>1, <3>1, <3>3, WalletFrame
  <2>4. CASE ~(k < Len(Entries(c)))
    <3> DEFINE r == [call[c] EXCEPT !.k = 1, !.pc = "store"]
    <3>1. call' = [call EXCEPT ![c] = r]
      BY <1>1, <1>6, <2>4 DEF NextEntry
    <3>2. r.pc = "store" /\ r.k = 1 /\ r.offer.creds = Entries(c)
      BY <1>1 DEF CallState, Entries
    <3> HIDE DEF r
    <3>3. k = Len(Entries(c))
      BY <1>2, <1>3, <2>4
    <3>4. Verified(r) /\ Stored(r)
      BY <2>2, <3>2, <3>3 DEF Verified, Stored
    <3> QED BY <1>1, <3>1, <3>4, WalletFrame
  <2> QED BY <2>3, <2>4
<1> QED BY <1>5, <1>6 DEF VerifyEntry

\* Storing an entry fills its slot and empties or reassigns no other issuer's.
LEMMA StoreKeepsFilled ==
  ASSUME IInv, WalletInv, NEW c \in Call, StoreEntry(c)
  PROVE  /\ OnlyProvenStored'
         /\ \A cred \in Credential : Filled(store, cred) => Filled(store', cred)
         /\ Filled(store', Entries(c)[call[c].k])
         /\ Entries(c)[call[c].k] \in Credential
         /\ \A s \in StableIds :
              store[s] # None =>
                store'[s] # None /\ IssuerOf[store'[s]] = IssuerOf[store[s]]
<1> DEFINE new == Entries(c)[call[c].k]
           slot == StableLocalId(new)
<1>1. /\ call[c].op = "accept" /\ call[c].pc = "store"
      /\ call[c].k \in 1..Len(Entries(c)) /\ Verified(call[c])
  BY DEF IInv, CallShape, LocalShape, StoreEntry, WalletInv, Entries
<1>2. new \in Credential /\ Proven(new)
  BY <1>1, EntriesOfCall DEF Verified
<1>3. slot \in StableIds /\ new # None
  BY <1>2, SessionAssumption DEF StableIds
<1>4. store \in [StableIds -> Option(Credential)] /\ store' = [store EXCEPT ![slot] = new]
  BY DEF IInv, TypeOK, StoreEntry
<1> HIDE DEF new, slot
<1>5. /\ store'[slot] = new
      /\ \A s \in StableIds : s # slot => store'[s] = store[s]
  BY <1>3, <1>4
<1>6. StableLocalId(new) = slot
  BY DEF slot
<1>7. ASSUME NEW s \in StableIds
      PROVE  store[s] # None => store[s] \in Credential /\ StableLocalId(store[s]) = s
  BY <1>4 DEF WalletInv, OnlyProvenStored, Option
<1>8. ASSUME NEW s \in StableIds, store[s] # None
      PROVE  store'[s] # None /\ IssuerOf[store'[s]] = IssuerOf[store[s]]
  <2>1. CASE s = slot
    <3>1. StableLocalId(store[s]) = StableLocalId(new)
      BY <1>6, <1>7, <1>8, <2>1
    <3> QED BY <1>2, <1>3, <1>5, <1>7, <1>8, <2>1, <3>1, SlotsAreScoped
  <2>2. CASE s # slot
    BY <1>5, <1>8, <2>2
  <2> QED BY <2>1, <2>2
<1>9. OnlyProvenStored'
  <2>1. ASSUME NEW s \in StableIds, store'[s] # None
        PROVE  store'[s] \in ProofHolds /\ Recognized(store'[s])
               /\ StableLocalId(store'[s]) = s
    <3>1. CASE s = slot
      BY <1>2, <1>5, <1>6, <3>1 DEF Proven
    <3>2. CASE s # slot
      BY <1>5, <2>1, <3>2 DEF WalletInv, OnlyProvenStored
    <3> QED BY <3>1, <3>2
  <2> QED BY <2>1 DEF OnlyProvenStored
<1>10. ASSUME NEW cred \in Credential, Filled(store, cred)
       PROVE  Filled(store', cred)
  <2>1. StableLocalId(cred) \in StableIds
    BY DEF StableIds
  <2> QED BY <1>8, <1>10, <2>1 DEF Filled
<1>11. Filled(store', new)
  BY <1>3, <1>5, <1>6 DEF Filled
<1> QED BY <1>2, <1>8, <1>9, <1>10, <1>11 DEF new

LEMMA StoreWallet ==
  ASSUME IInv, WalletInv, NEW c \in Call, StoreEntry(c)
  PROVE  WalletInv'
<1> DEFINE k == call[c].k
<1>1. /\ call \in [Call -> CallState] /\ call[c] \in CallState
      /\ call[c].op = "accept" /\ call[c].pc = "store"
      /\ k \in 1..Len(Entries(c)) /\ Verified(call[c]) /\ Stored(call[c])
      /\ NextEntry(c, "advance")
  BY DEF IInv, TypeOK, CallShape, LocalShape, StoreEntry, WalletInv, Entries
<1>2. /\ Entries(c) = call[c].offer.creds /\ Len(Entries(c)) \in Nat
      /\ DOMAIN Entries(c) = 1..Len(Entries(c))
      /\ \A i \in 1..Len(Entries(c)) : Entries(c)[i] \in Credential
  BY <1>1, EntriesOfCall
<1>3. \A cred \in Credential : Filled(store, cred) => Filled(store', cred)
  BY StoreKeepsFilled
<1>4. ASSUME NEW i \in 1..k
      PROVE  Filled(store', Entries(c)[i])
  <2>1. CASE i = k
    BY <2>1, StoreKeepsFilled
  <2>2. CASE i # k
    <3>1. Filled(store, Entries(c)[i]) /\ Entries(c)[i] \in Credential
      BY <1>1, <1>2, <2>2 DEF Stored
    <3> QED BY <1>3, <3>1
  <2> QED BY <2>1, <2>2
<1>5. ASSUME NEW d \in Call, d # c
      PROVE  (Verified(call[d]) /\ Stored(call[d]))'
  <2>1. call'[d] = call[d]
    BY <1>1, <1>5 DEF NextEntry
  <2>2. Verified(call[d]) /\ Stored(call[d])
    BY DEF WalletInv
  <2>3. (call[d].op = "accept" => \A i \in DOMAIN call[d].offer.creds :
          call[d].offer.creds[i] \in Credential)
    BY EntriesOfCall
  <2>4. call[d].pc = "store" => /\ call[d].op = "accept"
                                /\ call[d].k \in 1..Len(Entries(d))
    BY DEF IInv, CallShape, LocalShape, Entries
  <2>5. call[d].pc = "store" => \A i \in 1..(call[d].k - 1) :
          call[d].offer.creds[i] \in Credential
    BY <2>4, EntriesOfCall
  <2> QED BY <1>3, <2>1, <2>2, <2>3, <2>5 DEF Verified, Stored
<1>6. (Verified(call[c]) /\ Stored(call[c]))'
  <2>1. CASE k < Len(Entries(c))
    <3>1. /\ call'[c].pc = "store" /\ call'[c].k = k + 1
          /\ call'[c].offer.creds = Entries(c) /\ call'[c].op = "accept"
      BY <1>1, <1>2, <2>1 DEF NextEntry, CallState
    <3> QED BY <1>1, <1>2, <1>4, <3>1 DEF Verified, Stored
  <2>2. CASE ~(k < Len(Entries(c)))
    <3>1. /\ call'[c].pc = "advance"
          /\ call'[c].offer.creds = Entries(c) /\ call'[c].op = "accept"
      BY <1>1, <1>2, <2>2 DEF NextEntry, CallState
    <3>2. k = Len(Entries(c))
      BY <1>1, <1>2, <2>2
    <3> QED BY <1>2, <1>4, <3>1, <3>2 DEF Verified, Stored
  <2> QED BY <2>1, <2>2
<1> QED BY <1>5, <1>6, StoreKeepsFilled DEF WalletInv
\* post_message's error paths.
LEMMA FailWallet ==
  ASSUME IInv, WalletInv, NEW c \in Call, NEW err, Fail(c, err), store' = store,
         call[c].pc \notin {"verify", "store"}
  PROVE  WalletInv'
<1>1. call[c] \in CallState
  BY DEF IInv, TypeOK
<1>2. CASE call' = [call EXCEPT ![c] = IdleCall]
  BY <1>2, ReturnWallet
<1>3. CASE Goto(c, "restore")
  <2> DEFINE r == [call[c] EXCEPT !.pc = "restore"]
  <2>1. call' = [call EXCEPT ![c] = r]
    BY <1>3 DEF Goto
  <2>2. r.pc = "restore" /\ r.op = call[c].op /\ r.offer = call[c].offer
    BY <1>1 DEF CallState
  <2> HIDE DEF r
  <2> QED BY <2>1, <2>2, MoveWallet
<1> QED BY <1>2, <1>3 DEF Fail, Return

LEMMA ProgressWallet ==
  ASSUME IInv, WalletInv, NEW c \in Call, Progress(c)
  PROVE  WalletInv'
<1>1. call[c] \in CallState
  BY DEF IInv, TypeOK
<1>2. CASE \/ ResolveFails(c) \/ SignFails(c) \/ StoreFails(c)
           \/ AdvanceWithRequest(c) \/ AdvanceWithRedirect(c)
           \/ CaptureStep(c) \/ RestoreOffer(c)
  <2>1. store' = store /\ call' = [call EXCEPT ![c] = IdleCall]
    BY <1>2 DEF ResolveFails, SignFails, StoreFails, AdvanceWithRequest,
                AdvanceWithRedirect, CaptureStep, RestoreOffer, Return,
                ReturnAsking
  <2> QED BY <2>1, ReturnWallet
<1>3. ASSUME NEW pc \in {"post", "capture"}, Goto(c, pc), store' = store,
             call[c].pc \notin {"verify", "store"}
      PROVE  WalletInv'
  <2> DEFINE r == [call[c] EXCEPT !.pc = pc]
  <2>1. call' = [call EXCEPT ![c] = r]
    BY <1>3 DEF Goto
  <2>2. r.pc = pc /\ r.op = call[c].op /\ r.offer = call[c].offer
    BY <1>1 DEF CallState
  <2> HIDE DEF r
  <2> QED BY <1>3, <2>1, <2>2, MoveWallet
<1>4. CASE ResetSession(c) \/ SignVp(c) \/ AdvanceByPost(c)
  BY <1>3, <1>4 DEF ResetSession, SignVp, AdvanceByPost
<1>5. CASE PostSnapshot(c)
  <2>1. store' = store /\ call[c].pc = "post"
    BY <1>5 DEF PostSnapshot
  <2>2. CASE Fail(c, "none")
    BY <2>1, <2>2, FailWallet
  <2>3. CASE call' = [call EXCEPT ![c].pc = "wire", ![c].url = session.url,
                                  ![c].auth = session.auth, ![c].ref = session.ref]
    <3> DEFINE r == [call[c] EXCEPT !.pc = "wire", !.url = session.url,
                                    !.auth = session.auth, !.ref = session.ref]
    <3>1. call' = [call EXCEPT ![c] = r]
      BY <1>1, <2>3 DEF IInv, TypeOK
    <3>2. r.pc = "wire" /\ r.op = call[c].op /\ r.offer = call[c].offer
      BY <1>1 DEF CallState
    <3> HIDE DEF r
    <3> QED BY <2>1, <3>1, <3>2, MoveWallet
  <2> QED BY <1>5, <2>2, <2>3 DEF PostSnapshot
<1>6. ASSUME NEW shape \in ReplyShapes, ServerReplies(c, shape)
      PROVE  WalletInv'
  <2> DEFINE reply == MakeReply(shape, call[c].url, replies + 1)
             r == [call[c] EXCEPT !.pc = "reply", !.reply = reply]
  <2>1. call' = [call EXCEPT ![c] = r] /\ store' = store /\ call[c].pc = "wire"
    BY <1>6 DEF ServerReplies
  <2>2. r.pc = "reply" /\ r.op = call[c].op /\ r.offer = call[c].offer
    BY <1>1 DEF CallState
  <2> HIDE DEF r
  <2> QED BY <2>1, <2>2, MoveWallet
<1>7. CASE NetworkFails(c)
  BY <1>7, FailWallet DEF NetworkFails
<1>8. CASE RecordReference(c)
  <2>1. store' = store /\ call[c].pc = "reply"
    BY <1>8 DEF RecordReference
  <2>2. \/ \E err \in ErrKinds : Fail(c, err)
        \/ Goto(c, "capture")
        \/ call' = [call EXCEPT ![c] = IdleCall]
    BY <1>8 DEF RecordReference, Return
  <2> QED BY <1>3, <2>1, <2>2, FailWallet, ReturnWallet
<1> QED BY <1>2, <1>4, <1>5, <1>6, <1>7, <1>8, VerifyWallet, StoreWallet DEF Progress

LEMMA NextWallet ==
  ASSUME IInv, WalletInv, [Next]_vars
  PROVE  WalletInv'
<1>1. CASE UNCHANGED vars
  BY <1>1 DEF vars, WalletInv, OnlyProvenStored, Verified, Stored, Filled
<1>2. ASSUME NEW c \in Call, Cancel(c) PROVE WalletInv'
  BY <1>2, ReturnWallet DEF Cancel, Return
<1> QED BY <1>1, <1>2, BeginWallet, ProgressWallet DEF Next

\* What the wallet holds, and how far every accept in progress has got.
THEOREM WalletInvariant == Spec => []WalletInv
<1>1. Init => WalletInv
  BY IdleWallet DEF Init, WalletInv, OnlyProvenStored, IdleCall, Verified, Stored
<1>2. IInv /\ WalletInv /\ [Next]_vars => WalletInv'
  BY NextWallet
<1> QED BY <1>1, <1>2, SessionInvariant, PTL DEF Spec

\* Nothing enters the wallet before its issuer's proof was found sound.
THEOREM WalletIsProven == Spec => []OnlyProvenStored
<1>1. WalletInv => OnlyProvenStored
  BY DEF WalletInv
<1> QED BY <1>1, WalletInvariant, PTL

\* accept_offer advances an exchange only after its credentials are stored.
THEOREM StorageComesFirst == Spec => []StoredBeforeAdvance
<1>1. WalletInv => StoredBeforeAdvance
  BY DEF WalletInv, Stored, Filled, StoredBeforeAdvance, Entries
<1> QED BY <1>1, WalletInvariant, PTL

\* Only StoreEntry writes to the wallet.
LEMMA OnlyStoreEntryStores ==
  ASSUME [Next]_vars, store' # store
  PROVE  \E c \in Call : StoreEntry(c)
<1>1. PICK c \in Call : Begin(c) \/ Progress(c) \/ Cancel(c)
  BY DEF Next, vars
<1>2. ~Begin(c)
  BY DEF Begin, StartExchange, BeginSubmit, BeginAccept, BeginReject
<1>3. ~Cancel(c)
  BY DEF Cancel
<1>4. CASE Progress(c) /\ ~StoreEntry(c)
  BY <1>4 DEF Progress, ResolveFails, ResetSession, SignVp, SignFails, VerifyEntry,
              StoreFails, AdvanceWithRequest, AdvanceWithRedirect, AdvanceByPost,
              PostSnapshot, ServerReplies, NetworkFails, RecordReference,
              CaptureStep, RestoreOffer
<1> QED BY <1>1, <1>2, <1>3, <1>4

\* accept_offer is atomic: no credential of an offer is stored unless all of
\* them are proven.
THEOREM AcceptIsAtomic == Spec => AtomicAccept
<1>1. ASSUME IInv, WalletInv, [Next]_vars, store' # store
      PROVE  \E c \in Call :
               /\ call[c].op = "accept"
               /\ \A i \in DOMAIN Entries(c) : Proven(Entries(c)[i])
  <2>1. PICK c \in Call : StoreEntry(c)
    BY <1>1, OnlyStoreEntryStores
  <2>2. call[c].op = "accept" /\ Verified(call[c]) /\ call[c].pc = "store"
    BY <1>1, <2>1 DEF StoreEntry, IInv, CallShape, LocalShape, WalletInv
  <2> QED BY <1>1, <2>2, EntriesOfCall DEF Verified
<1>2. IInv /\ WalletInv /\ [Next]_vars =>
        [store' # store =>
           \E c \in Call :
             /\ call[c].op = "accept"
             /\ \A i \in DOMAIN Entries(c) : Proven(Entries(c)[i])]_vars
  BY <1>1
<1> QED BY <1>2, SessionInvariant, WalletInvariant, PTL DEF Spec, AtomicAccept

\* A stored credential is replaced only by one of the same issuer.
THEOREM SlotsKeepTheirIssuer == Spec => IssuersKeepTheirSlots
<1>1. ASSUME IInv, WalletInv, [Next]_vars, NEW s \in StableIds, store[s] # None
      PROVE  store'[s] # None /\ IssuerOf[store'[s]] = IssuerOf[store[s]]
  <2>1. CASE store' = store
    BY <1>1, <2>1
  <2>2. CASE store' # store
    BY <1>1, <2>2, OnlyStoreEntryStores, StoreKeepsFilled
  <2> QED BY <2>1, <2>2
<1>2. IInv /\ WalletInv /\ [Next]_vars =>
        [\A s \in StableIds :
           store[s] # None =>
             store'[s] # None /\ IssuerOf[store'[s]] = IssuerOf[store[s]]]_vars
  BY <1>1
<1> QED BY <1>2, SessionInvariant, WalletInvariant, PTL
        DEF Spec, IssuersKeepTheirSlots

=============================================================================
