----------------------------- MODULE Discovery -----------------------------
(***************************************************************************)
(* How an exchange is initiated, and how the body of every HTTP reply is   *)
(* read: start_exchange and discover_vcapi (holder.rs) and                 *)
(* discover_protocols.rs, from the caller's input to the reply to the      *)
(* first POST, where classify takes over. One call at a time: none of this *)
(* code has state of its own. A step runs from one await to the next; the  *)
(* server and the network answer as they please.                           *)
(***************************************************************************)
EXTENDS Naturals, Sequences

CONSTANTS
  None,        \* Rust's Option::None
  Malformed,   \* a text that Url::parse refuses
  Version,     \* values an iuv query parameter may have
  Inputs,      \* what the caller may pass to start_exchange
  Documents,   \* what a discovery endpoint may serve
  Lengths,     \* values of a Content-Length header, true or not
  ChunkSizes,  \* sizes of the chunks a body arrives in
  MAX_RESPONSE_BYTES

Option(S) == S \cup {None}

\* host says whether the host is a loopback address or localhost; iuv lists
\* the values of the iuv parameters, in order.
Url == [scheme : {"https", "http", "other"},
        host : {"loopback", "remote", "none"}, iuv : Seq(Version)]

UrlText == Url \cup {Malformed}

\* An input is a URL, behind an interaction: prefix or bare.
Input == [interaction : BOOLEAN, url : UrlText]

\* The body of a discovery reply: whether it is the expected JSON, and the
\* vcapi entry of its protocols.
Document == [parses : BOOLEAN, vcapi : Option(UrlText)]

Errors == {"Network", "InsecureUrl", "ServerError", "Deserialization",
           "ResponseTooLarge", "NoVcapiProtocol"}

\* "Replied": the body of the first POST goes to classify.
Results == Errors \cup {"Replied"}

ASSUME DiscoveryAssumption ==
  /\ None \notin UrlText \cup Results \cup Nat
  /\ Malformed \notin Url
  /\ Inputs \subseteq Input
  /\ Documents \subseteq Document
  /\ Lengths \subseteq Nat
  /\ ChunkSizes \subseteq Nat
  /\ MAX_RESPONSE_BYTES \in Nat

VARIABLES
  pc,        \* where the call stands
  target,    \* the URL of the request in progress
  method,    \* and its method
  token,     \* whether the caller supplied a bearer token
  session,   \* exchange_url of the session, and whether it holds a token
  status,    \* status class of the reply being read
  declared,  \* its Content-Length
  buf,       \* length of the buffer its body is collected in
  result,    \* what the last call returned
  input,     \* history: what that call was given
  sent,      \* history: the requests it sent
  arrived    \* history: the bytes that arrived of the last body

vars == <<pc, target, method, token, session, status, declared, buf, result,
          input, sent, arrived>>

Statuses == {"2xx", "4xx", "other"}

Init ==
  /\ pc = "idle"
  /\ target = None /\ method = "GET"
  /\ token = FALSE
  /\ session = [url |-> None, token |-> FALSE]
  /\ status = "2xx" /\ declared = None /\ buf = 0
  /\ result = None
  /\ input = None /\ sent = <<>> /\ arrived = 0

-----------------------------------------------------------------------------
(* Which URLs may be contacted, and which are discovery endpoints.         *)

\* validate_endpoint_url: https, or http to a loopback host.
ValidEndpoint(url) ==
  \/ url.scheme = "https"
  \/ url.scheme = "http" /\ url.host = "loopback"

\* Mutant: only the version of this specification marks an interaction URL.
CarriesVersionOne(url) == url.iuv # <<>> /\ Head(url.iuv) = "1"

\* A bare URL with an iuv parameter is an interaction URL.
CarriesIuv(url) == url.iuv # <<>>

\* The first iuv parameter, where there is one, has to be 1.
SupportedVersion(url) == CarriesIuv(url) => Head(url.iuv) = "1"

GoesThroughDiscovery(in) ==
  in.interaction \/ (in.url # Malformed /\ CarriesIuv(in.url))

-----------------------------------------------------------------------------
(* start_exchange up to its first request.                                 *)

Finish(kind) == pc' = "idle" /\ result' = kind

Begin(in, tok) ==
  /\ pc = "idle"
  /\ pc' = "resolve"
  /\ input' = in
  /\ token' = tok
  /\ target' = None /\ method' = "GET"
  /\ status' = "2xx" /\ declared' = None /\ buf' = 0
  /\ sent' = <<>> /\ arrived' = 0
  /\ result' = None
  /\ UNCHANGED session

\* The error of an input no request is made for, or None.
InputError(in) ==
  IF in.url = Malformed THEN "Network"
  ELSE IF ~ValidEndpoint(in.url) THEN "InsecureUrl"
  ELSE IF GoesThroughDiscovery(in) /\ ~SupportedVersion(in.url) THEN "Network"
  ELSE None

RefuseInput ==
  /\ pc = "resolve"
  /\ InputError(input) # None
  /\ Finish(InputError(input))
  /\ UNCHANGED <<target, method, token, session, status, declared, buf, input,
                 sent, arrived>>

\* Mutant: the session is reset before its exchange is known.
StartDiscoveryResets ==
  /\ pc = "resolve"
  /\ InputError(input) = None
  /\ GoesThroughDiscovery(input)
  /\ session' = [url |-> input.url, token |-> token]
  /\ pc' = "send" /\ target' = input.url /\ method' = "GET"
  /\ UNCHANGED <<token, status, declared, buf, result, input, sent, arrived>>

StartDiscovery ==
  /\ pc = "resolve"
  /\ InputError(input) = None
  /\ GoesThroughDiscovery(input)
  /\ pc' = "send" /\ target' = input.url /\ method' = "GET"
  /\ UNCHANGED <<token, session, status, declared, buf, result, input, sent,
                 arrived>>

\* The exchange URL is known: the session is reset and the loop begins.
EnterExchange(url) ==
  /\ session' = [url |-> url, token |-> token]
  /\ pc' = "send" /\ target' = url /\ method' = "POST"

StartDirectly ==
  /\ pc = "resolve"
  /\ InputError(input) = None
  /\ ~GoesThroughDiscovery(input)
  /\ EnterExchange(input.url)
  /\ UNCHANGED <<token, status, declared, buf, result, input, sent, arrived>>

-----------------------------------------------------------------------------
(* One request, and read_body_capped.                                      *)

\* Mutant: the token goes out with every request.
BearsTokenAlways == token

\* The token is attached by post_message only, from the session.
BearsToken == method = "POST" /\ session.token

Send ==
  /\ pc = "send"
  /\ sent' = Append(sent, [method |-> method, url |-> target, token |-> BearsToken])
  /\ pc' = "head"
  /\ UNCHANGED <<target, method, token, session, status, declared, buf, result,
                 input, arrived>>

\* Status and headers arrive. Redirects are not followed: 3xx is a status
\* like another. A Content-Length over the cap ends the call.
ReceiveHead(s, len) ==
  /\ pc = "head"
  /\ status' = s /\ declared' = len
  /\ buf' = 0 /\ arrived' = 0
  /\ IF len # None /\ len > MAX_RESPONSE_BYTES
     THEN Finish("ResponseTooLarge")
     ELSE pc' = "body" /\ UNCHANGED result
  /\ UNCHANGED <<target, method, token, session, input, sent>>

\* Mutants: a body of the cap is refused; the chunk at hand is not counted.
OverflowsEarly(n) == buf + n >= MAX_RESPONSE_BYTES
OverflowsLate(n) == buf > MAX_RESPONSE_BYTES

Overflows(n) == buf + n > MAX_RESPONSE_BYTES

\* The next chunk arrives; it enters the buffer if it fits.
ReceiveChunk(n) ==
  /\ pc = "body"
  /\ arrived' = arrived + n
  /\ IF Overflows(n)
     THEN Finish("ResponseTooLarge") /\ UNCHANGED buf
     ELSE buf' = buf + n /\ UNCHANGED <<pc, result>>
  /\ UNCHANGED <<target, method, token, session, status, declared, input, sent>>

\* The body ends, and is UTF-8 or not.
EndBody(utf8) ==
  /\ pc = "body"
  /\ IF utf8 THEN pc' = "decode" /\ UNCHANGED result ELSE Finish("Deserialization")
  /\ UNCHANGED <<target, method, token, session, status, declared, buf, input,
                 sent, arrived>>

\* Mutant: the timeout covers a silent server only, not one that drips.
TransportFailsInHead ==
  /\ pc = "head"
  /\ Finish("Network")
  /\ UNCHANGED <<target, method, token, session, status, declared, buf, input,
                 sent, arrived>>

\* The connection breaks, or 30 s have passed since the request began.
TransportFails ==
  /\ pc \in {"head", "body"}
  /\ Finish("Network")
  /\ UNCHANGED <<target, method, token, session, status, declared, buf, input,
                 sent, arrived>>

-----------------------------------------------------------------------------
(* What is made of the body.                                               *)

\* Mutant: a discovered URL is trusted as the endpoint was.
DocumentErrorTrusting(doc) ==
  IF status # "2xx" THEN "ServerError"
  ELSE IF ~doc.parses THEN "Deserialization"
  ELSE IF doc.vcapi = None THEN "NoVcapiProtocol"
  ELSE IF doc.vcapi = Malformed THEN "Network"
  ELSE None

\* The error of a discovery reply that names no usable exchange, or None.
DocumentError(doc) ==
  IF status # "2xx" THEN "ServerError"
  ELSE IF ~doc.parses THEN "Deserialization"
  ELSE IF doc.vcapi = None THEN "NoVcapiProtocol"
  ELSE IF doc.vcapi = Malformed THEN "Network"
  ELSE IF ~ValidEndpoint(doc.vcapi) THEN "InsecureUrl"
  ELSE None

FollowDocument(doc) ==
  /\ pc = "decode" /\ method = "GET"
  /\ IF DocumentError(doc) = None
     THEN EnterExchange(doc.vcapi) /\ UNCHANGED result
     ELSE Finish(DocumentError(doc)) /\ UNCHANGED <<target, method, session>>
  /\ UNCHANGED <<token, status, declared, buf, input, sent, arrived>>

\* The reply of the exchange: classify takes over (Exchange).
HandToClassify ==
  /\ pc = "decode" /\ method = "POST"
  /\ Finish("Replied")
  /\ UNCHANGED <<target, method, token, session, status, declared, buf, input,
                 sent, arrived>>

-----------------------------------------------------------------------------
Resolve == RefuseInput \/ StartDiscovery \/ StartDirectly

Receive ==
  \/ \E s \in Statuses, len \in Option(Lengths) : ReceiveHead(s, len)
  \/ \E n \in ChunkSizes : ReceiveChunk(n)
  \/ \E utf8 \in BOOLEAN : EndBody(utf8)

Decode == (\E doc \in Documents : FollowDocument(doc)) \/ HandToClassify

Next ==
  \/ \E in \in Inputs, tok \in BOOLEAN : Begin(in, tok)
  \/ Resolve \/ Send \/ Receive \/ TransportFails \/ Decode

Spec == Init /\ [][Next]_vars

\* The holder's own steps are taken, and the timeout of the client runs out
\* on a request that does not complete. Nothing is assumed of the server.
FairSpec ==
  /\ Spec
  /\ WF_vars(Resolve) /\ WF_vars(Send) /\ WF_vars(Decode)
  /\ WF_vars(TransportFails)
-----------------------------------------------------------------------------
(* Properties.                                                             *)

Request == [method : {"GET", "POST"}, url : Url, token : BOOLEAN]

\* Types; and "a malicious or broken server must not be able to exhaust the
\* wallet's memory" (discover_protocols.rs 41): the buffer of a body stays
\* within the cap while it grows, whatever the header says.
TypeOK ==
  /\ pc \in {"idle", "resolve", "send", "head", "body", "decode"}
  /\ target \in Option(Url)
  /\ method \in {"GET", "POST"}
  /\ token \in BOOLEAN
  /\ session \in [url : Option(Url), token : BOOLEAN]
  /\ status \in Statuses
  /\ declared \in Option(Lengths)
  /\ buf \in 0..MAX_RESPONSE_BYTES
  /\ result \in Option(Results)
  /\ input \in Option(Inputs)
  /\ sent \in Seq(Request)
  /\ arrived \in Nat

\* No request leaves the device over plaintext or to another scheme, unless to
\* the device itself: not the discovery request, not to a URL that discovery
\* brought, and the bearer token least of all (section 3.7.1).
NothingInPlaintext ==
  \A i \in DOMAIN sent :
    \/ sent[i].url.scheme = "https"
    \/ sent[i].url.scheme = "http" /\ sent[i].url.host = "loopback"

\* "NEVER sent on the discovery GET" (holder.rs 175): the token goes only
\* to the exchange of the session it was stored in, when the caller of this
\* very call supplied one.
TokenGoesToExchangeOnly ==
  \A i \in DOMAIN sent : sent[i].token =>
    /\ sent[i].method = "POST"
    /\ sent[i].url = session.url
    /\ token

\* At most one discovery GET and then one POST: no retries, no redirects
\* followed. A URL marked as an interaction URL is asked for its protocols
\* first, and never POSTed to on the caller's word alone.
DiscoversThenPosts ==
  /\ Len(sent) <= 2
  /\ Len(sent) = 2 => sent[1].method = "GET" /\ sent[2].method = "POST"
  /\ Len(sent) = 1 /\ sent[1].method = "POST" => sent[1].url.iuv = <<>>

\* The cap is exact: what is parsed is the whole body that arrived, and only a
\* body over the cap, or declared to be, is refused as too large; one of
\* exactly the cap is read.
BodyIsWholeOrRefused ==
  /\ pc \in {"body", "decode"} => buf = arrived
  /\ result = "ResponseTooLarge" =>
       \/ arrived > MAX_RESPONSE_BYTES
       \/ declared # None /\ declared > MAX_RESPONSE_BYTES

\* The session is replaced by the call that goes on to POST to the exchange it
\* now names, with the token of that call: an initiation that fails leaves the
\* exchange in progress, its URL and its token, alone.
SessionSurvivesFailedStart ==
  [][session' # session =>
       /\ pc' = "send" /\ method' = "POST"
       /\ session' = [url |-> target', token |-> token]]_vars

\* A call that was begun returns, also when the server stays silent or drips.
StartReturns == pc # "idle" ~> pc = "idle"
=============================================================================
