-------------------------- MODULE DiscoveryProofs --------------------------
(***************************************************************************)
(* Theorems about Discovery, for every set of inputs, discovery documents, *)
(* lengths and chunk sizes, and for every cap.                             *)
(***************************************************************************)
EXTENDS Discovery, TLAPS

Requesting == {"send", "head", "body", "decode"}

\* Whatever is being requested may be, and a POST goes to the session's
\* exchange with the session's token.
TargetIsSafe ==
  pc \in Requesting =>
    /\ target \in Url
    /\ ValidEndpoint(target)
    /\ method = "POST" => session = [url |-> target, token |-> token]

\* What has been sent by the time each request is made.
SentSoFar ==
  /\ pc = "resolve" => sent = <<>>
  /\ pc = "send" /\ method = "GET" => sent = <<>>
  /\ pc = "send" /\ method = "POST" =>
       \/ sent = <<>> /\ target.iuv = <<>>
       \/ Len(sent) = 1 /\ sent[1].method = "GET"
  /\ pc \in {"head", "body", "decode"} /\ method = "GET" =>
       Len(sent) = 1 /\ sent[1].method = "GET"

\* A call resolves an input it was given.
InputIsSafe == pc = "resolve" => input \in Inputs

\* A call that is under way has no result yet.
NotDone == pc # "idle" => result = None

IInv ==
  /\ TypeOK
  /\ TargetIsSafe
  /\ SentSoFar
  /\ InputIsSafe
  /\ NotDone
  /\ NothingInPlaintext
  /\ TokenGoesToExchangeOnly
  /\ DiscoversThenPosts
  /\ BodyIsWholeOrRefused

-----------------------------------------------------------------------------
\* The first state satisfies the invariant.
LEMMA InitIInv == Init => IInv
  <1> SUFFICES ASSUME Init PROVE IInv
    OBVIOUS
  <1>1. sent \in Seq(Request) /\ Len(sent) = 0 /\ DOMAIN sent = {}
    BY DEF Init
  <1>2. session \in [url : Option(Url), token : BOOLEAN]
    BY DEF Init, Option
  <1>3. buf \in 0..MAX_RESPONSE_BYTES /\ arrived \in Nat
    BY DiscoveryAssumption DEF Init
  <1>4. TypeOK
    BY <1>1, <1>2, <1>3 DEF Init, TypeOK, Option, Statuses
  <1>5. TargetIsSafe /\ SentSoFar /\ InputIsSafe /\ NotDone
    BY DEF Init, TargetIsSafe, SentSoFar, InputIsSafe, NotDone, Requesting
  <1>6. BodyIsWholeOrRefused
    BY DiscoveryAssumption DEF Init, BodyIsWholeOrRefused, Results, Errors
  <1>7. NothingInPlaintext /\ TokenGoesToExchangeOnly /\ DiscoversThenPosts
    BY <1>1 DEF NothingInPlaintext, TokenGoesToExchangeOnly, DiscoversThenPosts
  <1> QED BY <1>4, <1>5, <1>6, <1>7 DEF IInv

\* A call begins: it has sent nothing.
LEMMA BeginKeeps ==
  ASSUME IInv, NEW in \in Inputs, NEW tok \in BOOLEAN, Begin(in, tok)
  PROVE  IInv'
  <1>1. sent' \in Seq(Request) /\ Len(sent') = 0 /\ DOMAIN sent' = {}
    BY DEF Begin
  <1>2. TypeOK'
    BY <1>1, DiscoveryAssumption DEF Begin, IInv, TypeOK, Option, Statuses
  <1>3. TargetIsSafe' /\ SentSoFar' /\ InputIsSafe' /\ NotDone'
    BY DEF Begin, TargetIsSafe, SentSoFar, InputIsSafe, NotDone, Requesting
  <1>5. BodyIsWholeOrRefused'
    BY DiscoveryAssumption DEF Begin, BodyIsWholeOrRefused, Results, Errors
  <1>4. NothingInPlaintext' /\ TokenGoesToExchangeOnly' /\ DiscoversThenPosts'
    BY <1>1 DEF NothingInPlaintext, TokenGoesToExchangeOnly, DiscoversThenPosts
  <1> QED BY <1>2, <1>3, <1>4, <1>5 DEF IInv

\* An input that is not refused names a URL that may be contacted.
LEMMA InputErrorIsExact ==
  ASSUME NEW in \in Inputs, InputError(in) = None
  PROVE  in.url \in Url /\ ValidEndpoint(in.url)
  <1>1. in.url \in UrlText
    BY DiscoveryAssumption DEF Input
  <1>2. in.url # Malformed /\ ValidEndpoint(in.url)
    BY DiscoveryAssumption DEF InputError, Results, Errors
  <1> QED BY <1>1, <1>2 DEF UrlText

\* And so does a discovery reply.
LEMMA DocumentErrorIsExact ==
  ASSUME NEW doc \in Documents, DocumentError(doc) = None
  PROVE  doc.vcapi \in Url /\ ValidEndpoint(doc.vcapi)
  <1>1. doc.vcapi \in Option(UrlText)
    BY DiscoveryAssumption DEF Document
  <1>2. doc.vcapi # None /\ doc.vcapi # Malformed /\ ValidEndpoint(doc.vcapi)
    BY DiscoveryAssumption DEF DocumentError, Results, Errors
  <1> QED BY <1>1, <1>2 DEF UrlText, Option

LEMMA ResolveKeeps ==
  ASSUME IInv, Resolve
  PROVE  IInv'
  <1>1. CASE RefuseInput
    <2>1. InputError(input) \in Errors
      BY <1>1 DEF RefuseInput, InputError, Errors
    <2> QED
      BY <1>1, <2>1
      DEF RefuseInput, Finish, IInv, TypeOK, TargetIsSafe, SentSoFar, InputIsSafe, NotDone,
          NothingInPlaintext, TokenGoesToExchangeOnly, DiscoversThenPosts,
          BodyIsWholeOrRefused, Requesting, Results, Option, InputError
  <1>2. CASE StartDiscovery
    <2>1. input \in Inputs
      BY <1>2 DEF StartDiscovery, IInv, InputIsSafe
    <2>2. input.url \in Url /\ ValidEndpoint(input.url)
      BY <1>2, <2>1, InputErrorIsExact DEF StartDiscovery
    <2> QED
      BY <1>2, <2>2
      DEF StartDiscovery, IInv, TypeOK, TargetIsSafe, SentSoFar, InputIsSafe, NotDone,
          NothingInPlaintext, TokenGoesToExchangeOnly, DiscoversThenPosts,
          BodyIsWholeOrRefused, Requesting, Option
  <1>3. CASE StartDirectly
    <2>1. input \in Inputs
      BY <1>3 DEF StartDirectly, IInv, InputIsSafe
    <2>2. input.url \in Url /\ ValidEndpoint(input.url)
      BY <1>3, <2>1, InputErrorIsExact DEF StartDirectly
    <2>3. input.url.iuv = <<>>
      BY <1>3, <2>2, DiscoveryAssumption DEF StartDirectly, GoesThroughDiscovery, CarriesIuv
    <2> QED
      BY <1>3, <2>2, <2>3
      DEF StartDirectly, EnterExchange, IInv, TypeOK, TargetIsSafe, SentSoFar,
          InputIsSafe, NotDone, NothingInPlaintext, TokenGoesToExchangeOnly,
          DiscoversThenPosts, BodyIsWholeOrRefused, Requesting, Option
  <1> QED BY <1>1, <1>2, <1>3 DEF Resolve

\* The request in progress joins those sent.
LEMMA SendKeeps ==
  ASSUME IInv, Send
  PROVE  IInv'
  <1> DEFINE r == [method |-> method, url |-> target, token |-> BearsToken]
  <1>1. /\ pc = "send" /\ pc' = "head"
        /\ sent' = Append(sent, r)
        /\ UNCHANGED <<target, method, token, session, status, declared, buf,
                       result, input, arrived>>
    BY DEF Send
  <1>2. target \in Url /\ ValidEndpoint(target)
    BY <1>1 DEF IInv, TargetIsSafe, Requesting
  <1>3. r \in Request
    BY <1>1, <1>2 DEF IInv, TypeOK, Request, BearsToken
  <1>4. /\ sent \in Seq(Request) /\ Len(sent) <= 1
        /\ sent' \in Seq(Request)
        /\ Len(sent') = Len(sent) + 1
        /\ sent'[Len(sent')] = r
        /\ \A i \in 1..Len(sent) : sent'[i] = sent[i]
    BY <1>1, <1>3 DEF IInv, TypeOK, SentSoFar
  <1>5. TypeOK'
    BY <1>1, <1>4 DEF IInv, TypeOK
  <1>6. TargetIsSafe' /\ InputIsSafe' /\ NotDone'
    BY <1>1, <1>2 DEF IInv, TargetIsSafe, InputIsSafe, NotDone, Requesting, ValidEndpoint
  <1>7. SentSoFar'
    BY <1>1, <1>4 DEF IInv, TypeOK, SentSoFar
  <1>8. NothingInPlaintext'
    <2> SUFFICES ASSUME NEW i \in 1..Len(sent')
                 PROVE  \/ sent'[i].url.scheme = "https"
                        \/ sent'[i].url.scheme = "http" /\ sent'[i].url.host = "loopback"
      BY <1>4 DEF NothingInPlaintext
    <2>1. CASE i = Len(sent')
      BY <1>2, <1>4, <2>1 DEF ValidEndpoint
    <2>2. CASE i \in 1..Len(sent)
      BY <1>4, <2>2 DEF IInv, NothingInPlaintext
    <2> QED BY <1>4, <2>1, <2>2
  <1>9. TokenGoesToExchangeOnly'
    <2> SUFFICES ASSUME NEW i \in 1..Len(sent'), sent'[i].token
                 PROVE  /\ sent'[i].method = "POST"
                        /\ sent'[i].url = session.url
                        /\ token
      BY <1>1, <1>4 DEF TokenGoesToExchangeOnly
    <2>1. CASE i = Len(sent')
      <3>1. sent'[i] = r /\ BearsToken
        BY <1>4, <2>1
      <3>2. method = "POST" /\ session.token
        BY <3>1 DEF BearsToken
      <3>3. session = [url |-> target, token |-> token]
        BY <1>1, <3>2 DEF IInv, TargetIsSafe, Requesting
      <3> QED BY <1>1, <3>1, <3>2, <3>3
    <2>2. CASE i \in 1..Len(sent)
      BY <1>4, <2>2 DEF IInv, TokenGoesToExchangeOnly
    <2> QED BY <1>4, <2>1, <2>2
  <1>10. DiscoversThenPosts'
    BY <1>1, <1>4 DEF IInv, TypeOK, SentSoFar, DiscoversThenPosts
  <1>11. BodyIsWholeOrRefused'
    BY <1>1 DEF IInv, BodyIsWholeOrRefused
  <1> QED BY <1>5, <1>6, <1>7, <1>8, <1>9, <1>10, <1>11 DEF IInv

\* The buffer grows by a chunk that fits, or the call ends.
LEMMA ReceiveKeeps ==
  ASSUME IInv, Receive
  PROVE  IInv'
  <1>1. CASE \E s \in Statuses, len \in Option(Lengths) : ReceiveHead(s, len)
    BY <1>1, DiscoveryAssumption
    DEF ReceiveHead, Finish, IInv, TypeOK, TargetIsSafe, SentSoFar, InputIsSafe, NotDone,
        NothingInPlaintext, TokenGoesToExchangeOnly, DiscoversThenPosts,
        BodyIsWholeOrRefused, Requesting, Results, Errors, Option
  <1>2. ASSUME NEW n \in ChunkSizes, ReceiveChunk(n)
        PROVE  IInv'
    <2>1. n \in Nat /\ buf \in Nat /\ arrived \in Nat /\ MAX_RESPONSE_BYTES \in Nat
      BY DiscoveryAssumption DEF IInv, TypeOK
    <2>2. buf = arrived /\ result' \in Option(Results)
      BY <1>2 DEF ReceiveChunk, Finish, IInv, TypeOK, BodyIsWholeOrRefused, Results,
                 Errors, Option
    <2>3. CASE Overflows(n)
      <3>1. arrived' > MAX_RESPONSE_BYTES
        BY <1>2, <2>1, <2>2, <2>3 DEF ReceiveChunk, Overflows
      <3>2. arrived' \in Nat
        BY <1>2, <2>1 DEF ReceiveChunk
      <3> QED
        BY <1>2, <2>2, <2>3, <3>1, <3>2
        DEF ReceiveChunk, Finish, IInv, TypeOK, TargetIsSafe, SentSoFar,
            InputIsSafe, NotDone, NothingInPlaintext, TokenGoesToExchangeOnly,
            DiscoversThenPosts, BodyIsWholeOrRefused, Requesting
    <2>4. CASE ~ Overflows(n)
      <3>1. buf' \in 0..MAX_RESPONSE_BYTES /\ buf' = arrived' /\ arrived' \in Nat
        BY <1>2, <2>1, <2>2, <2>4 DEF ReceiveChunk, Overflows
      <3>2. result # "ResponseTooLarge"
        BY <1>2, DiscoveryAssumption DEF ReceiveChunk, IInv, NotDone, Results, Errors
      <3> QED
        BY <1>2, <2>2, <2>4, <3>1, <3>2
        DEF ReceiveChunk, Finish, IInv, TypeOK, TargetIsSafe, SentSoFar,
            InputIsSafe, NotDone, NothingInPlaintext, TokenGoesToExchangeOnly,
            DiscoversThenPosts, BodyIsWholeOrRefused, Requesting
    <2> QED BY <2>3, <2>4
  <1>3. CASE \E utf8 \in BOOLEAN : EndBody(utf8)
    BY <1>3
    DEF EndBody, Finish, IInv, TypeOK, TargetIsSafe, SentSoFar, InputIsSafe, NotDone,
        NothingInPlaintext, TokenGoesToExchangeOnly, DiscoversThenPosts,
        BodyIsWholeOrRefused, Requesting, Results, Errors, Option
  <1> QED BY <1>1, <1>2, <1>3 DEF Receive

LEMMA TransportFailsKeeps ==
  ASSUME IInv, TransportFails
  PROVE  IInv'
  BY DEF TransportFails, Finish, IInv, TypeOK, TargetIsSafe, SentSoFar,
         InputIsSafe, NotDone, NothingInPlaintext, TokenGoesToExchangeOnly,
         DiscoversThenPosts, BodyIsWholeOrRefused, Requesting, Results, Errors,
         Option

LEMMA DecodeKeeps ==
  ASSUME IInv, Decode
  PROVE  IInv'
  <1>1. ASSUME NEW doc \in Documents, FollowDocument(doc)
        PROVE  IInv'
    <2>1. CASE DocumentError(doc) = None
      <3>1. doc.vcapi \in Url /\ ValidEndpoint(doc.vcapi)
        BY <2>1, DocumentErrorIsExact
      <3>2. /\ session' = [url |-> doc.vcapi, token |-> token]
            /\ pc' = "send" /\ target' = doc.vcapi /\ method' = "POST"
            /\ UNCHANGED <<token, status, declared, buf, result, input, sent, arrived>>
        BY <1>1, <2>1 DEF FollowDocument, EnterExchange
      <3>3. Len(sent) = 1 /\ sent[1].method = "GET"
        BY <1>1 DEF FollowDocument, IInv, SentSoFar
      <3>4. ~ sent[1].token
        BY <3>3 DEF IInv, TypeOK, TokenGoesToExchangeOnly
      <3>5. TypeOK' /\ TargetIsSafe' /\ SentSoFar' /\ InputIsSafe' /\ NotDone'
        BY <1>1, <3>1, <3>2, <3>3
        DEF FollowDocument, IInv, TypeOK, TargetIsSafe, SentSoFar, InputIsSafe,
            NotDone, Requesting, Option
      <3>6. TokenGoesToExchangeOnly'
        BY <3>2, <3>3, <3>4 DEF IInv, TypeOK, TokenGoesToExchangeOnly
      <3>7. NothingInPlaintext' /\ DiscoversThenPosts' /\ BodyIsWholeOrRefused'
        BY <3>2, <3>3
        DEF IInv, NothingInPlaintext, DiscoversThenPosts, BodyIsWholeOrRefused
      <3> QED BY <3>5, <3>6, <3>7 DEF IInv
    <2>2. CASE DocumentError(doc) # None
      <3>1. DocumentError(doc) \in Errors \ {"ResponseTooLarge"}
        BY <2>2 DEF DocumentError, Errors
      <3> QED
        BY <1>1, <2>2, <3>1
        DEF FollowDocument, Finish, IInv, TypeOK, TargetIsSafe, SentSoFar,
            InputIsSafe, NotDone, NothingInPlaintext, TokenGoesToExchangeOnly,
            DiscoversThenPosts, BodyIsWholeOrRefused, Requesting, Results, Option
    <2> QED BY <2>1, <2>2
  <1>2. CASE HandToClassify
    BY <1>2
    DEF HandToClassify, Finish, IInv, TypeOK, TargetIsSafe, SentSoFar, InputIsSafe, NotDone,
        NothingInPlaintext, TokenGoesToExchangeOnly, DiscoversThenPosts,
        BodyIsWholeOrRefused, Requesting, Results, Errors, Option
  <1> QED BY <1>1, <1>2 DEF Decode

LEMMA NextKeeps == IInv /\ [Next]_vars => IInv'
  <1> SUFFICES ASSUME IInv, [Next]_vars PROVE IInv'
    OBVIOUS
  <1>1. CASE UNCHANGED vars
    BY <1>1
    DEF vars, IInv, TypeOK, TargetIsSafe, SentSoFar, InputIsSafe, NotDone,
        NothingInPlaintext, TokenGoesToExchangeOnly, DiscoversThenPosts,
        BodyIsWholeOrRefused, ValidEndpoint
  <1>2. CASE Next
    BY <1>2, BeginKeeps, ResolveKeeps, SendKeeps, ReceiveKeeps,
       TransportFailsKeeps, DecodeKeeps DEF Next
  <1> QED BY <1>1, <1>2

\* The invariant holds of every behaviour.
LEMMA Invariance == Spec => []IInv
  <1> QED BY InitIInv, NextKeeps, PTL DEF Spec

-----------------------------------------------------------------------------
\* Types are right and no body, however its server counts it, makes the buffer
\* of read_body_capped outgrow the cap.
THEOREM BufferIsCapped == Spec => []TypeOK
  <1> QED BY Invariance, PTL DEF IInv

\* validate_endpoint_url guards every request: the scanned, the direct and the
\* discovered URL.
THEOREM NeverInPlaintext == Spec => []NothingInPlaintext
  <1> QED BY Invariance, PTL DEF IInv

\* The bearer token goes to the exchange of its own call and nowhere else.
THEOREM TokenIsKept == Spec => []TokenGoesToExchangeOnly
  <1> QED BY Invariance, PTL DEF IInv

\* One discovery GET at most, then one POST.
THEOREM DiscoveryComesFirst == Spec => []DiscoversThenPosts
  <1> QED BY Invariance, PTL DEF IInv

\* The cap refuses exactly what exceeds it.
THEOREM CapIsExact == Spec => []BodyIsWholeOrRefused
  <1> QED BY Invariance, PTL DEF IInv

\* A failed initiation leaves the session alone.
THEOREM FailedStartIsHarmless == Spec => SessionSurvivesFailedStart
  <1> DEFINE Step == session' # session =>
               /\ pc' = "send" /\ method' = "POST"
               /\ session' = [url |-> target', token |-> token]
  <1>1. [Next]_vars => [Step]_vars
    BY DEF Next, Begin, Resolve, RefuseInput, StartDiscovery, StartDirectly, Send,
           Receive, ReceiveHead, ReceiveChunk, EndBody, TransportFails, Decode,
           FollowDocument, HandToClassify, EnterExchange, Finish, vars
  <1> QED BY <1>1, PTL DEF Spec, SessionSurvivesFailedStart
=============================================================================
