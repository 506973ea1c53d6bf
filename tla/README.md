# A TLA+ model of the VCALM holder

This directory specifies, model-checks and proves properties of the
`vcalm` crate: the holder side of a VCALM `vcapi` exchange. The reference is
the Rust source under `src/`; line numbers below are of those files.

## The system

`VcalmHolder` drives one exchange with one server at a time. The caller (a
mobile app behind an FFI facade) calls `start_exchange`, then answers each
`StepResult` with `submit_presentation`, `accept_offer` or `reject_offer`, all
of which post one message with `post_message` and turn the HTTP reply into the
next step with `classify`. All methods are `async`, take `&self` on a shared
`Arc` and keep their session in one `tokio::sync::Mutex<ExchangeState>` that is
never held across an await. So calls may overlap, each sees the session at
several different moments, and a caller may drop a call at any await.

| Part | Source | State | Operations | Hard behaviour |
|---|---|---|---|---|
| messages, `classify` | exchange.rs | none | `classify` | combined properties, lazy redirect parse, error statuses |
| offered credentials | issuance.rs, holder.rs 796-844 | none | `extract_offered_vcs`, `classify_offered_entry`, `verify_offered_entry`, `stable_local_id` | which outcomes are storable, slot collisions |
| holder session | holder.rs 30-747, 1159-1257 | `ExchangeState` | the four operations and `post_message` | overlap, restarts, late replies, failed and dropped calls, atomic accept |
| presentation | holder.rs 903-1153, 1416-1777, presentation.rs 48-136 | locals of one call | `build_and_sign_vp`, narrowing, SD gates, proof allowlist | disclosing no more than was consented |
| matching | matching.rs 16-179, holder.rs 1563-1606, 1734-1777 | none | `example_matches`, `example_field_paths`, `selective_pointers_from_paths` | recursive subset, one-or-many, absent properties, pointers that name nothing |
| groups | matching.rs 185-331 | none | `partition_groups`, `resolve_groups` | optional members, OR-alternatives |
| reads | holder.rs 152-372, 694-746, 847-890 | `provided_credentials` | `matched_credentials`, `requested_fields`, `offered_credentials`, `provide_credentials` | run beside a call that writes what they read |
| discovery, transport | discover_protocols.rs, holder.rs 178-206, 1159-1170 | none | `discover_protocols`, `validate_endpoint_url`, `read_body_capped` | a second URL from outside, size cap at its boundary, servers that drip |
| large-stack worker, default engine | big_stack.rs, engine.rs | a thread and a one-shot channel per question | `run_async`, `SsiEngine::verify`, `derive_selective_disclosure` | worker that dies, caller that is dropped, claims against proof |
| ports | ports.rs | the host's wallet | store, engine, signer | any call may fail |

How they interact: the caller calls the session; the session calls the engine
and the store (host callbacks that may fail), the large-stack worker, and the
server over HTTP; the session is the only state shared between calls, the store
the only state that outlives it.

What makes each part correct:

* classify: nothing of a combined message is lost; a malformed redirect costs
  no credentials; only 2xx, 4xx and the rest are told apart.
* offered credentials: no credential is stored unless its proof was verified;
  a slot belongs to one issuer.
* session: state of one exchange never reaches another; the token goes to its
  own server; a presentation goes to who asked for it; an offer is stored
  wholly or not at all, before the server hears of it; a failed advance can be
  retried; every call returns.
* presentation: no field that was deselected or not asked for is derived; base
  proofs never leave the wallet; a failed derivation never widens disclosure.
* matching: what a matched example names the credential says; asking for less,
  or having more, never loses a match; pointers name what was asked for.
* groups: agree with a declarative reading of section 3.4.5.
* reads: nothing readable is overlooked, nothing unproven is offered for
  selection, a preview speaks of one offer, and the consent screen announces
  what the presentation will disclose.
* discovery and transport: no plaintext request except to loopback; the token
  goes to the exchange only; a body is returned exactly when it fits the cap; a
  failed start leaves the exchange in progress alone.
* worker and engine: every answer is one to the question asked, a machinery
  failure is never a verdict, and a caller is told when its worker dies.

## The modules

| Module | Models | Extends |
|---|---|---|
| `Credentials` | the proofs of a credential and which of them are selective-disclosure base proofs | |
| `Exchange` | messages, replies, `classify` | `Credentials` |
| `Ports` | what the engine port may answer | `Credentials` |
| `Issuance` | format gates, verification outcomes, slot names | `Exchange`, `Ports` |
| `HolderSession` | the session: state, actions, properties | `Issuance` |
| `OfferContract` | abstract: the life of an offer as its caller sees it; `HolderSession` implements it | |
| `MCHolderSession` | constants for TLC | `HolderSession` |
| `HolderSessionProofs` | theorems for any number of calls | `HolderSession` |
| `SequentialProofs` | theorems for exchanges started while no other call is in progress and for one call at a time, and that `HolderSession` implements `OfferContract` | `HolderSessionProofs` |
| `Groups` | queries, their satisfiability, AND-groups and the choice of one | `Credentials` |
| `Presentation` | `build_and_sign_vp`: from a request, a selection and a consent to a presentation | `Groups` |
| `MCPresentation` | constants for TLC | `Presentation` |
| `PresentationProofs` | theorems about both | `Presentation` |
| `Reads` | the reads beside the session, composed with it | `HolderSession` |
| `MCReads` | constants for TLC | `Reads`, `MCHolderSession` |
| `ReadsProofs` | theorems | `Reads`, `HolderSessionProofs` |
| `Discovery` | initiation, URL validation, one request after another, bodies chunk by chunk | |
| `MCDiscovery`, `DiscoveryProofs` | constants for TLC, theorems | `Discovery` |
| `JsonValues` | JSON values, their parts and their nodes | |
| `Matching` | QueryByExample on JSON values, the paths and pointers of an example | `JsonValues` |
| `MCMatching` | constants for TLC | `Matching` |
| `MeasuredRecursion` | lemmas: recursion and induction by a measure | |
| `MatchingProofs` | theorems | `Matching`, `MeasuredRecursion` |
| `EnginePort` | abstract: questions and answers of the engine port; `Engine` implements it | `Ports` |
| `Engine` | the default engine and signing, each question on a large-stack worker | `Ports` |
| `MCEngine`, `EngineProofs` | constants for TLC, theorems | `Engine` |

`Presentation` is the inside of one step of `HolderSession`: it runs on the
copies `BeginSubmit` took, `Signed` is `SignVp` and every other result is
`SignFails` (or, on the same footing, an error the caller may repair). No
state is shared, so the two are checked apart. `Discovery` is the inside of
`StartExchange` to `ResetSession`, and of the wire steps of `post_message` (an
error there is `NetworkFails`); `Engine` is the inside of `VerifyEntry`, of
`DeriveCredential` and of signing, all of which use no more than `EnginePort`
promises (`VerifyAnswers` of `Ports` is what both modules and `Issuance` share);
`Matching` is what makes an alternative of `Presentation` a set of credentials
and of field paths, and what `Wanted` of `Reads` stands for.

### HolderSession: state

| Variable | Code |
|---|---|
| `session` | the fields of `ExchangeState`: `url` = exchange_url, `vpr` = last_vpr, `ref` = reference_id, `auth` = auth_header (reduced to the exchange it was supplied for), `offer`, `next`, `redirect` = current_offer and its companions |
| `store` | the host's `VcalmCredentialStore`, a credential or `None` per slot |
| `call` | one record per call in progress: `pc` is the await it stands at, the rest are its locals |
| `replies` | counts the replies of the servers, for ordinals and the bound |
| `outcome` | what the last finished call returned, and `asked`, the request the caller was last handed |
| `pending` | history variable: the offer last captured and not resolved since; no action reads it |

A message part is reduced to who sent it and the ordinal of its reply. That is
all that the properties about bleeding, staleness and order tell apart.

### HolderSession: actions

An action is what runs between two awaits. The mutex is taken and released
inside one such stretch, so no action waits for it: a guard held across an
await, which the code has nowhere, would not show in `EveryCallReturns`.

| Action | Code |
|---|---|
| `StartExchange`, `ResolveFails`, `ResetSession` | start_exchange: resolution, its failures, the reset of the whole session |
| `BeginSubmit`, `SignVp`, `SignFails` | submit_presentation: request and channel under one lock, the domain check, the worker |
| `BeginAccept`, `VerifyEntry`, `StoreEntry`, `StoreFails` | accept_offer: copy of the offer, the two loops, one entry at a time |
| `AdvanceWithRequest`, `AdvanceWithRedirect`, `AdvanceByPost` | accept_offer's three ways on |
| `BeginReject` | reject_offer: takes the offer |
| `PostSnapshot`, `ServerReplies`, `NetworkFails` | post_message up to the reply |
| `RecordReference`, `CaptureStep` | post_message after it; two actions because the lock is released in between |
| `RestoreOffer` | the error paths of accept_offer and reject_offer |
| `Cancel` | the caller drops the future |

An operation that is refused in its first stretch (no request, no offer,
foreign domain) is one action that returns an error.

`Cancellable` lets calls be dropped. `Call` is the set of calls that may be in
progress at once: a singleton is sequential use. `CalmSpec` leaves calls to
overlap as they please, but for start_exchange: from its begin until it has
reset the session (`"resolve"`) no other call is in progress (`RestartsAlone`).

### Presentation: state and actions

| Variable | Code |
|---|---|
| `vpr`, `selected`, `fields` | the arguments, never changed |
| `todo` | queries of the chosen group still to gather |
| `present`, `paths`, `named` | `present`, `present_paths`, `present_named_subject`; the last two by credential, and not forgotten for one that is dropped |
| `out` | `presented_json`, or the bodies `build_presentation` embeds |
| `result` | the `Ok` or the kind of error returned |

| Action | Code (holder.rs) |
|---|---|
| `RefuseSuites`, `RefuseMethods`, `ResolveGroups` | negotiation and group resolution, 911-968 |
| `RefuseDeselected`, `GatherQuery` | one query of the loop 964-1032 |
| `DropDeselected` | 1034-1060 |
| `DeriveCredential`, `DeriveFails`, `EmbedCredential`, `RefuseProofs` | one credential of the loop 1083-1135, or of `build_presentation` |
| `RefuseMix`, `DecodeFails`, `BuildPresentation` | the rest of `build_presentation` and its sibling |
| `SignPresentation`, `SigningFails` | `sign_presentation` |

A field path is a model value; type and @context, which no pointer is made
from, are left out. An alternative of a query is the set of credentials its
example and issuer filter match and the paths it names; `Matching` says how
those come about. `MatchesShown` and `RequestedFields` are what the screen
showed before the call, by `matched_credentials` and `requested_fields`, from the
same request and wallet. The code embeds credentials twice when a request
lists selective disclosure and no credential supports it (once to find that
out); the outcome is the same and the model does it once. The order in which
credentials are derived and embedded is left open: it decides only which of
several failures is reported.

### Reads: state and actions

`Reads` extends `HolderSession` with one reader: `read` holds what one call of
`matched_credentials` or `offered_credentials` has copied and gathered, and the
histories `failed` and `steady`; `provided` is `provided_credentials`.
`SessionStep` is any step of the session, `BeginMatch`, `MatchProvided`,
`ListIds`, `GetEntry`, `GetFails`, `MatchStored` the stretches of
`matched_credentials` and `enumerate_credentials`, `BeginPreview`,
`PreviewEntry`, `ShowPreview` those of `offered_credentials`. The entries are got
in any order, as the ids are listed in any. A list the host provides
(`Some`, also an empty one) hides the store altogether. A preview calls a sound
credential whose base-proof derivation fails `ProofInvalid`: the hint is on the
safe side, and `PreviewIsOfItsOffer` allows it.

### Discovery: state and actions

| Variable | Code |
|---|---|
| `pc`, `target`, `method` | the await at which start_exchange stands and the request in progress |
| `token`, `session` | `auth_header` as supplied, and the `exchange_url` and token of the session |
| `status`, `declared`, `buf` | the reply in `read_body_capped` |
| `result` | the `VcalmError`, or that `classify` takes over |
| `input`, `sent`, `arrived` | histories: the input, the requests, the bytes of the last body |

A URL is its scheme, whether its host is loopback, and its `iuv` parameters in
order; `RefuseInput`, `StartDiscovery` and `StartDirectly` are the three ways of
holder.rs 183-206, `FollowDocument` is the rest of `discover_vcapi`. The cap is
checked before the status, so a failing reply that is too large is
`ResponseTooLarge`; a discovery reply of 4xx is a `ServerError`, as the code has
it, though its doc speaks of 5xx.

### Matching: state and actions

A JSON value is a leaf, an array or an object. `Values` is any set of them that
holds the parts of its members, each of which nests less deep (`Depth`): what
serde_json produces, whatever its size. The recursive functions of the code
are recursive functions here: `Subset` (`ValueIsSubset`) on pairs of values,
`Opened` for the walk of `collect_subject_paths`. `Within`, `Facts`, `Found` and
`Resolves` are the independent reading they are compared with. The matcher has no
state, so the actions are the ways in which its inputs change between two
requests: a credential is re-issued with more in it (`SaysMore`), a verifier asks
for less (`AsksLess`) or trusts more issuers. Every state is a comparison.
`MCMatching` picks examples and credentials that hold each shape: nested and
one-element arrays, several subjects, empty strings, an absent subject, a
dotted key, the four forms of an issuer entry; and of each some that say more or
ask for less than others.

Facts of the code that a reader of its docs may not expect, and that the
properties state as they are: an example that asks for any `credentialSubject`
matches a credential without one (138), and an empty string in `type` or
`@context` is compared literally, so it is no wildcard there. An absent `type`,
`@context` or `credentialSubject` counts as null, so an example that asks for
null there is met by its absence, and no longer when it appears: the one way in
which a credential that says more matches less. `MoreNeverMatchesLess` excepts it
(`NullNoMore`), which the proof turned out to need.

### Engine: state and actions

`caller` is a task's place in `run_async` and its last answer, `worker` a
thread, its end of the channel (`tx`), the caller's end (`rx`) and the value in
the channel (`mail`). `SpawnWorker`, `SpawnFails`, `Receive`, `DropCaller` are the
caller's steps, `BuildRuntime`, `RuntimeFails`, `Prepare`, `PrepareFails`, `Work`,
`Panic` the thread's. A thread nobody listens to goes on and ends. What ssi finds
of a credential is free, except that it calls no broken proof sound
(`ProofHolds`).

### Abstract specifications

`OfferContract` has four variables: the offer held, the ordinal of the last
reply, whether it is still to be taken in, and what the last call returned. An
offer is held until an accept or reject that returns Ok settles it, until the
reply in hand brings another, or until a new exchange begins; nothing brings a
settled offer back. `HolderSession` implements it one call at a time under the
mapping at `Contract`: while accept_offer or reject_offer is posting, the offer
held is the one in its locals, though `current_offer` is already cleared.

`EnginePort` says that a question is answered at most once, with an answer to
that question, and not after it was withdrawn. `Engine` implements it under the
mapping at `Port`, which reads a caller's question and answer and nothing of the
threads.

### Abstractions

* Any envelope `extract_offered_vcs` refuses is an offer without credentials.
* `ProofHolds` is cryptographic truth: the engine calls a sound credential
  verified or outside its validity period, a broken one invalid, and may fail
  or refuse on any. It never calls a broken proof sound: the one assumption
  about the engine, and what `OnlyProvenStored` rests on.
* The v5 hash of a slot's name is taken to be injective; the name itself is
  modelled as a sequence of characters with the newline the code puts between
  issuer and id. `IssuanceAssumption` says that an issuer (a URI) and compact
  JSON hold no raw newline; an id may.
* `SuitesOf` merges the `type` and the `cryptosuite` of each proof of a
  credential. An empty list of proofs counts as a proof of an unknown name: the
  code refuses to present either, and a credential without a `proof` passes.
* A derivation is trusted to reveal what its pointers name (beside the issuer's
  mandatory fields) and to leave the stored proofs out.
* In `HolderSession` and `Presentation` a question to the engine and a signature
  is one step that succeeds or fails: `EnginePort`.
* A re-read slot of the store is not older than its listing; a store whose `get`
  answers from before an `add` that has returned is not modelled.
* The 30 s timeout, a refused connection and an oversized body are the same
  failure; whether the server acted on the request cannot be seen by the
  holder, and what it does next is free.

## The runs

The runs of `MCHolderSession` have two exchanges on two hosts and seven
credentials, one for each gate (good, re-issued with an SD base proof, same id
by another issuer, without an id, forged, enveloped, bbs-2023). Those of
`MCPresentation` have six credentials (base proof only, base and plain proof,
VCDM 1.1, unknown proof, no proof, not a JSON-LD VC).

Passing:

| Run | Instance | Shows |
|---|---|---|
| `Sequential` | 1 call, 2 exchanges, 3 replies, all message combinations | `SessionNeverBleeds`, `AnswersItsAsker`, `OfferIsPending`, `OffersKeepTheirParts`, `PresentsWhatWasAsked`, `EchoesLatestReference`, `HonoursOfferContract` |
| `Issuance` | 2 calls, 1 exchange, 2 replies, seven kinds of offer, dropped calls | `OnlyProvenStored`, `StoredBeforeAdvance`, `AtomicAccept`, `IssuersKeepTheirSlots` |
| `Overlap` | 2 calls, 2 exchanges, 2 replies | `TypeOK`, `CompanionsBelongToOffer`, `BearerStaysOnItsExchange`, `PostingNeedsExchange` |
| `Returns` | 2 calls, fairness | `EveryCallReturns` |
| `Presentation` | requests of 1 to 3 queries with a query for each branch, selections of up to 2 of 6 credentials, 8 consents | `TypeOK`, `DisclosesOnlyConsented`, `RequiredIsDisclosed`, `DerivedKeepsSubject`, `NeverWidens`, `CredentialNotEclipsed`, `ScreenOmitsOnlySubject` |
| `Reads` | 1 reader beside 1 call, 2 replies, 2 host lists, offers of two sound, of a re-issued and of two refused credentials | `NothingOverlooked`, `MatchesAreProven`, `PreviewIsOfItsOffer` |
| `Discovery` | all kinds of input and document, a cap of a few bytes, chunks and Content-Lengths around it, fairness | `TypeOK`, `NothingInPlaintext`, `TokenGoesToExchangeOnly`, `DiscoversThenPosts`, `BodyIsWholeOrRefused`, `SessionSurvivesFailedStart`, `StartReturns` |
| `Matching` | each example against each credential and filter, and every way from one to another that says more or asks for less | `NamedClaimsArePresent`, `OwnExampleMatches`, `PlainPointersAreExact`, `MoreNeverMatchesLess` |
| `Engine` | 2 callers, 2 workers, a sound credential and a broken one of a remote issuer, fairness | `HonoursPort`, `CallersAreTold`, `WorkersEnd` |

The bounds: two exchanges are what it takes for one to bleed into another, and
two calls for a race; three replies allow an offer, a reply to its advance and
one to whatever comes next, so that a property violated by a stale value has
the step before, the staleness and the use. Calls are unbounded in number: an
idle call may begin again; in `Issuance` it may also be dropped. Two queries are
what it takes to merge consents on one credential, a third to put an alternative
in front, and two credentials for one to fail after the other. A cap of a few
bytes is enough for a chunk to end below, at and one past it; two workers for the late one of a
dropped question to run beside that of the caller's next. What these bounds
leave open is settled by the proofs for the safety properties of every passing
run.

Violated, each a disagreement between the code and what its comments promise:

| Run | Property | The code |
|---|---|---|
| `RejectDropsCompanions` | `CompanionsSurvive` | a failed reject restores the bare offer (688) |
| `RequiredUnanswered` | `RequiredQueriesAnswered` | a credential a required query needs is dropped for an optional one's fields (1038) |
| `UnreachableNames` | `PointersNameFields` | a field within an array, or a key with a dot, gets a pointer that names nothing (1739) |

All three happen in sequential use.

### Disagreements without a run

Each of these shows when TLC is run with the change named:

| Property | Where to see it | The code |
|---|---|---|
| `ProblemIsSurfaced` | add it to the invariants of `Sequential.cfg` | a Problem on the advance becomes Complete (641), though the doc at 497-499 promises the Problem |
| `VprNeverRegresses` | add it to the properties of `Sequential.cfg` | accepting an old offer makes its old request current (603) |
| `SessionNeverBleeds` | add it to the invariants of `Overlap.cfg` | a late reply writes into the next exchange (1229) |
| `AnswersItsAsker` | add it to the invariants of `Overlap.cfg` | the channel is read again after the domain check (1179) |
| `ScreenWasHonest` | add it to the invariants of `Presentation.cfg` | a credential flagged as selectively disclosed whose queries name no subject field goes with its whole subject, which the screen lists nothing or only a part of (1103-1108), though the doc at 1270-1280 has the flag tell "only the requested fields" from "the entire credential" |
| `OfferIsPending` | `Cancellable = TRUE` in `Sequential.cfg`, or add it to `Overlap.cfg` | a dropped advance loses the offer (634); a failed one restores it into whatever session there is by then (651) |

So the properties of `Sequential` are promises to a caller that makes one call
at a time and drops none; the first two rows and `ScreenWasHonest` need no more
than such a caller. The third and the fourth row need a second call, and only a
start_exchange that overlaps another call leads to them, as the theorems
`SessionIsClean` and `AskerIsAnswered` show; `Overlap.cfg` with
`SPECIFICATION CalmSpec`, `Cancellable = TRUE` and the two invariants shows it on
an instance. Smaller ones: an offer that comes with a request and a
redirect surfaces the request only (596); a required field that is deselected is
refused also on the full-disclosure path, where the doc says `selected_fields`
is ignored (394-395, 987).

### Fairness

`FairSpec` of `HolderSession` adds weak fairness on `Progress(c)`: a call that
has begun keeps running. The executor polls a future that is ready, host
callbacks return, and the HTTP client's 30 s timeout (`build_http_client`) makes
`NetworkFails` a step a silent server cannot prevent. Nothing is assumed of the
caller or of the server: neither has to act.

`FairSpec` of `Discovery` is where that timeout is spelt out: weak fairness on
`TransportFails`, which stays enabled from the request to the end of the body,
because reqwest's timeout covers both. Receiving is not fair. `StartReturns`
holds on that alone, also against a server that sends forever within the cap
(chunks may be empty) or sends nothing.

`FairSpec` of `Engine` polls ready callers and schedules threads; panics are not
fair. Work on a credential whose issuer is resolved over the network (`did:web`,
in `Remote`) is excluded: no timeout in this code bounds it. `CallersAreTold`
and `WorkersEnd` except it for the same reason, and `EveryCallReturns`, which
assumes that callbacks return, holds under that engine for other issuers only.

## The proofs

`HolderSessionProofs` proves for every set of calls, exchanges, hosts,
credentials and reply shapes, with and without dropped calls:

| Theorem | States |
|---|---|
| `TypeCorrect`, `CompanionsStay`, `BearerStays`, `ChannelIsThere` | `[]` of the four properties of `Overlap` |
| `WalletIsProven`, `StorageComesFirst` | `[]OnlyProvenStored`, `[]StoredBeforeAdvance` |
| `AcceptIsAtomic`, `SlotsKeepTheirIssuer` | the action properties of `Issuance` |
| `SlotsAreScoped` | two credentials with one slot name have one issuer |

The first invariant, `IInv`, is the conjunction of the four properties with
`CallShape` and `SessionShape`. None of the four is inductive alone: a token on
the wire is right because the token in the session is (`SessionShape`), a
companion in the session because those of a reply are (`CallShape` keeps
`ReplyAgrees` of every reply in hand, and that a call only captures what
classify returned), and a restore is right because an offer never comes back
into a session that still has companions. A session without an exchange holds
neither request nor offer, which is why no call can be posting in one.

The second, `WalletInv`, says of every accept in progress which of its entries
are verified (all before the current one in the verify loop, all after it) and
which slots are filled with the right issuer (those of the entries before the
current one in the store loop, all after it). It rests on `SlotsAreScoped`:
storing an entry fills its slot and can only overwrite the same issuer's.

`SequentialProofs` proves, for every set of exchanges, hosts, credentials and
reply shapes:

| Theorem | States | Calls may overlap | and be dropped |
|---|---|---|---|
| `SessionIsClean` | `CalmSpec => []SessionNeverBleeds` | yes, but for a start | yes |
| `AskerIsAnswered` | `CalmSpec => []AnswersItsAsker` | yes, but for a start | yes |
| `AskedIsPresented` | `Spec => []PresentsWhatWasAsked` | no (`OneCall`) | yes |
| `ReferenceIsLatest` | `Spec => []EchoesLatestReference` | no (`OneCall`) | yes |
| `OfferStays` | `Spec => []OfferIsPending` | no (`OneCall`) | no |
| `OfferContractHonoured` | `Spec => HonoursOfferContract` | no (`OneCall`) | no |

and `PartsAreKept` (`Spec => []OffersKeepTheirParts`) without any assumption.
`OneCallIsCalm` (two calls being the same call, `Spec => CalmSpec`) makes the
first two results about sequential use as well. The assumptions are needed:
"Disagreements without a run" lists what the code does where they fail, and with
a second call the caller may be handed a newer request while the first call
answers the older one (`PresentsWhatWasAsked`).

The invariant of the first three, `SourceInv`, carries what the properties leave
out: every part in a call's locals and in its reply comes from the exchange the
session is in, and the session's request is the one the caller was handed. It
is inductive because no other call can restart the exchange under this one
(`OthersKeepSource`): the exchange changes in one action, and there the other
calls are at rest. `EchoInv`, for `ReferenceIsLatest`, says where the last
reply's referenceId is: in the reply in hand, which is the last one given, until
it is taken, and from then on in the session, or nowhere. The invariant of the
other two, `OfferInv`, says who holds the offer that is due (`pending`): the
session, or, from the advance or the reject to the end of the call, the call's
locals. `HeldOffer` of the mapping is then `pending`
(`HeldIsPending`), so the refinement is proved once with the history variable in
its place (`Due`), action by action, and carried over. A reply in hand being the
last one given is what rules out the return of a settled offer.

`ReadsProofs` proves for every number of calls beside the reader, and every host
list, `EnumerationIsComplete`, `ShownIsProven` and `PreviewIsFaithful`: `[]` of the
three properties of the run `Reads`. `ReaderIsPassive` (`ReadSpec => Spec`) brings
the invariants of the session along; that a slot is never emptied, and holds
nothing unproven, is then all the enumeration needs of the calls that go on
beside it.

`PresentationProofs` proves, for every set of credentials, requests,
selections and consents:

| Theorem | States |
|---|---|
| `SelectionIsSound` | the selected group is satisfiable, `{}` only if none is, and brings a credential if one can |
| `PresentationTypeCorrect` | `[]TypeOK` |
| `ConsentIsRespected` | `[]DisclosesOnlyConsented` |
| `RequirementIsMet` | `[]RequiredIsDisclosed` |
| `SubjectIsKept` | `[]DerivedKeepsSubject` |
| `DisclosureNeverWidens` | `[]NeverWidens` |
| `NothingEclipsesACredential` | `[]CredentialNotEclipsed` |
| `OnlySubjectIsUnlisted` | `[]ScreenOmitsOnlySubject` |

Its invariant says what the loop has accumulated: a credential's paths are
exactly what is kept of the gathered queries it answers, its flag says whether
one of them named a subject field, no gathered query refused the selection,
and an entry of the presentation is what its credential's two gates call for.
The properties speak of consent and requests only; that they follow is the
point. `SelectionIsSound` rests on the least index of a set of groups, from the
library's theorem on well-founded relations. `OnlySubjectIsUnlisted` needs no
more than that invariant: both sides compute from one request, and the two gates
of an entry are the flag that was shown. It says how far the screen can be
trusted, not that it is honest: the whole subject may go unlisted, and the
theorem bounds when (no query the credential answers lists a subject field) and
that nothing else does.

`DiscoveryProofs` proves, for every set of inputs, documents, lengths and chunk
sizes and every cap: `BufferIsCapped` (`[]TypeOK`), `NeverInPlaintext`,
`TokenIsKept`, `DiscoveryComesFirst`, `CapIsExact` and `FailedStartIsHarmless`,
each the `[]` of the property named in PROJECT.json. Their invariant ties the
request in progress to the session and to what was sent: whatever is targeted
was validated, a POST goes to the session's exchange with the session's token,
which is this call's (`TargetIsSafe`), and what was sent before it is nothing or
one GET (`SentSoFar`). None of the properties is inductive without these: they
speak of requests already sent, which are right because of what was decided
before they were.

`EngineProofs` proves, for every number of callers and workers,
`EngineHonoursPort` (`Spec => HonoursPort`): every step of `Engine` is a step of
`EnginePort` or a stutter under the mapping. The invariant adds to types that
each waiting caller has a worker of its own, on its question (`WorkersAreOwn`),
and what a worker holds: the value in its channel answers the question it was
spawned with (`MailAnswers`). The verdict of `Work` is where the claims/proof split matters.

`MatchingProofs` proves, for every set of JSON values, however deep and wide:

| Theorem | States |
|---|---|
| `OwnExample` | `[]OwnExampleMatches` |
| `NamedClaims` | `[]NamedClaimsArePresent` |
| `MoreMatches` | `Spec => MoreNeverMatchesLess` |
| `PlainPointers` | `[]PlainPointersAreExact` |
| `SubsetSaid`, `ExtendsKeeps`, `RelaxesKeeps`, `NamedNodeThere`, `FactsUnderPaths` | what the four rest on, for every value: see below |

The state is three inputs, and the invariant no more than where they come from;
the work is in the operators. A recursive function of TLA+ is a CHOOSE, and
says nothing until some function is known to meet its equation. `RecursionExists`
of `MeasuredRecursion` gives one for any step that only looks at smaller
arguments, by gluing together the functions defined up to each measure; the step
is passed as a function of functions, because a theorem that takes an operator
cannot be used here. `SubsetFcn`, `ExtendsFcn`, `RelaxesFcn`, `OpenedFcn` and
`WithinFcn` apply it: that value_is_subset always calls itself on one side or
both nested less deep is what they check. Induction is the absence of a least
counterexample (`LeastMeasure`): `SubsetReflexive` on one value, `SubsetSaid` on a
pair, `ExtendsKeeps` and `RelaxesKeeps` on triples, where all three sides may
shrink at once.

The four arms of the matcher for arrays are why the two last are worth a proof:
when the credential turns one value into many, a request moves from the arm that
compares to the one that searches, and an array that is asked for splits before
it descends. `PlainPointers` goes from example to pointer and back: a path of
keys without dots survives being joined and split (`PlainPointer`), names a node
of a credential that is matched without crossing an array (`NamedNodeThere`), and
every leaf of the example lies under such a path (`FactsUnderPaths`).

The assumptions are the named ones of the modules: `CredentialsAssumption`,
`MaxRepliesAssumption`, `IssuanceAssumption`, `SessionAssumption`,
`GroupsAssumption`, `PresentationAssumption`, `DiscoveryAssumption`,
`EngineAssumption`, `ReadsAssumption`, `JsonAssumption`, `NoneAssumption`,
`MatchingAssumption`. TLC evaluates them in the runs of the modules that declare
them. The reply bound is a constant of the model and the theorems hold for any value of
it.

Model-checked only: liveness (`EveryCallReturns`, `StartReturns`, `CallersAreTold`,
`WorkersEnd`), which rests on ENABLED and is out of the prover's reach.

## Where it could go on

1. Serde's one-or-many shapes in front of `classify`.
2. `Presentation` composed with the session, if the two ever come to share
   state.

## Not modelled

Cryptography and JSON-LD processing (behind the engine port), signature
encoding (crypto_utils.rs, presentation.rs 138-338), serde's field shapes, the
rendering of fields and previews for display, the construction of the HTTP
client, logging, and tests. They hold no state, or none that a finite model
could tell apart.
