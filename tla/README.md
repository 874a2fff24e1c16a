# gptimage-gateway-rs: TLA+ verification project

The repository is an OpenAI-compatible gateway in front of ChatGPT accounts: a
Rust process (`crates/gateway`) that authenticates users, admits image requests
under a global limit and drives one of two data planes. The *helper* plane is a
Python process (`helper/`) reached over HTTP; the *upstream* plane is a Rust
client of the upstream itself (`crates/upstream`). This directory holds the
models of the parts that keep state and meet concurrency, failure and time,
their compositions, their TLC runs, and TLAPS proofs of the safety properties
that the passing runs check.

All line numbers below are lines of the repository's files.

## 1. Inventory

| Component | State | Operations | Hard behaviour |
|---|---|---|---|
| Image endpoint (`gateway/src/main.rs`, `state.rs`, `config.rs`) | semaphore `image_sem`, shared pool map `accounts`, data plane, pin | `image_generations`: resolve and collect accounts, acquire a permit, quota precheck, attempts and retries | handlers dropped at any await when the client leaves; FIFO waiters; the pool map refreshed by other requests |
| Auth (`auth/src/lib.rs`, `gateway/src/auth_routes.rs`) | SQLite `users`, `revoked_jti`; tokens outside | login, register, logout, `require_auth`, set role/disabled, bootstrap | each call locks the database for itself; purge of revocations against the leeway of `decode`; restarts |
| Helper bridge (`helper/protocol_bridge.py`) | `_email_locks`, pool slots of `account_service` (external), wall-clock threads | `execute_image`, `execute_quota`, `execute_text`, `execute_text_stream` | `try`/`except`/`finally` that must give back a lock and a slot whatever raised; lock timeouts; a quota read before the wait for the account; errors after a stream's status |
| OpenAI face (`helper/openai_face.py`) | account cache, quota cache, image locks, quota locks | `images`, `quota_refresh`, `chat`, `resolve_account`, `_cached_quota` | check-then-act across threads, TTLs, forced refreshes |
| Event stream (`upstream/src/sse.rs`, `openai_stream.rs`) | `ConversationState`, pending bytes, queue of chunks | `split_sse_data_lines`, `feed_line`, `consume_sse_until`, `poll_next` | arbitrary chunking, early ends, rewrites of the text |
| Upstream runs (`upstream/src/runtime.rs`, `poll.rs`, `estuary.rs`) | one call's progress | `run_text`, `run_image`, polls, downloads | order of candidates, bounded polls and retries |
| Chat completions (`gateway/src/main.rs`) | one answer's progress | `chat_completions` on two planes, streamed or collected | failures after the status has gone out; one end to each stream |
| Requirements, PoW, turnstile, sentinel, TLS, conversation bodies | none beyond one call | HTTP steps and pure computation | none that a state model reaches |
| Image assets (`gateway/src/image_assets.rs`) | map of images with expiry, signing secret | insert, `get_valid`, `prune_expired` | two comparisons with the clock; the prune is never called |
| Helper client (`helper_client`) | HTTP clients | `list_candidates`, `refresh_quota`, `run_image` | client timeouts that do not stop the helper |
| Protocol (`protocol`), backend routes (`backend_routes.rs`) | none | error classes, image contract, translations of requests | none (pure) |
| Ticket pool (`ticket_pool`) | `by_id`, `by_account`; frozen, used by no crate | deposit, refresh, acquire | two structures in step, single use, a clock that may be set back |
| Control client (`control_client`) | a frozen stub | - | - |
| Web console, scripts, deployment, spike, probe | none of the system's | - | - |

How they interact: a request passes `require_auth` (AuthSessions), then
`image_generations` (ImageGateway) or `chat_completions` (ChatCompletions). On
the helper plane the gateway calls the bridge over HTTP (HelperImages; the
permits and the jobs together are ImagePipeline); on the upstream plane it runs
`run_image` in its own task and may hand the image to the asset store
(UpstreamImage, ImageAssets; together ImageDelivery), and a chat request runs
`run_text` or relays `OpenAiSseStream` (TextStream). Clients of the face
(FaceCaches) reach `execute_image` without the gateway. The only state the two
processes share is the pool behind `services.account_service`, which is not in
this repository. A client that leaves cancels the gateway's future but not the
helper's thread.

What makes each correct:

- *Image endpoint*: permits are neither lost nor made; nobody waits while one
  is free and nobody is overtaken; members stay on the pin; a paid attempt is
  repeated only when the last failed in the retryable way; the client is told
  of the last attempt; each request ends.
- *Auth*: logout, disabling and demotion each take effect on every request
  begun afterwards.
- *Bridge*: slots and locks come back exactly once; one job at a time per
  account on the direct path; an account's quota is overrun by no more jobs
  than the permits and the abandoned requests allow.
- *Face*: nothing older than its TTL is used; a burst costs one refresh; the
  quota cache never goes back in time; images pass the quota gate.
- *Streams*: bytes become whole payloads wherever a chunk ends; on both planes
  the client's deltas spell the reply, the end comes once and last, and what
  passes for a whole reply is one.
- *Image run*: what is downloaded is what the upstream made; it gives up only
  when everything known was tried; it is answered.
- *Asset store*: a link opens its own image, exactly until it expires or the
  process restarts.
- *Ticket pool*: map and index agree within the capacity; a ticket serves once,
  in time and for its own account.

## 2. Modules

| Module | Models | Checked by | Proofs |
|---|---|---|---|
| `BoundedAdmission` | abstract: at most `Permits` inside, the others in line | implemented by `ImageGateway`, part of `ImagePipeline` | in those two |
| `ImageGateway` | the image endpoint | `MCImageGateway`: `ImageGateway.cfg`, `ImageGatewayTokens.cfg` | `ImageGatewayProofs` |
| `AuthSessions` | sessions and user rows | `MCAuthSessions`: `AuthSessions.cfg`, `AuthSessionsLogout.cfg`, `AuthSessionsRegister.cfg` | `AuthSessionsProofs` |
| `HelperImages` | `execute_image` | `MCHelperImages`: `HelperImagesDoubleHit.cfg`; inside `ImagePipeline` | in `ImagePipelineProofs` |
| `ImagePipeline` | permits, `execute_image` and the quota together | `MCImagePipeline`: `ImagePipeline.cfg` | `ImagePipelineProofs` |
| `FaceCaches` | the face's caches and locks | `MCFaceCaches`: `FaceCaches.cfg` | `FaceCachesProofs` |
| `WholePayloads` | abstract: an event stream of whole payloads | implemented by `SseLines` | - |
| `SseLines` | `split_sse_data_lines`, from bytes to payloads | in `MCChatCompletions`: `ChatCompletions.cfg` | - (TLC only) |
| `SseParser` | operators: what one payload does to the parser | through the modules below | `SseParserProofs` (lemmas) |
| `TextStream` | `consume_sse_until` in text mode, `OpenAiSseStream` | `MCTextStream`: `TextStreamCollect.cfg`; inside `ChatCompletions` | in `ChatCompletionsProofs` |
| `ChatCompletions` | `chat_completions`, `execute_text`, `execute_text_stream` | `MCChatCompletions`: `ChatCompletions.cfg` | `ChatCompletionsProofs` |
| `UpstreamImage` | `run_image` | inside `ImageDelivery` | in `ImageDeliveryProofs` |
| `ImageAssets` | the store of signed links | inside `ImageDelivery` | in `ImageDeliveryProofs` |
| `ImageDelivery` | one image from the upstream to its link | `MCImageDelivery`: `ImageDelivery.cfg` | `ImageDeliveryProofs` |
| `TicketPool` | the frozen ticket pool | `MCTicketPool`: `TicketPool.cfg` | `TicketPoolProofs` |

How they compose: `TextStream` and `UpstreamImage` extend `SseParser`;
`ChatCompletions` extends `TextStream` and adds the other plane;
`ImageDelivery` extends `UpstreamImage` and instantiates `ImageAssets`;
`ImagePipeline` extends `HelperImages` and instantiates `BoundedAdmission`, which
`ImageGateway` implements under a refinement mapping. `SseLines` implements
`WholePayloads`, the stream that `TextStream` and `UpstreamImage` read. Each state module also
holds *fault* operators, marked "Fault": plausible bugs of one definition, each
named by a mutant that makes some property fail. They are not part of `Next`.

### How state and actions correspond to the code

**ImageGateway.** `pc[r]` is the await a handler of `image_generations` is
suspended at. `accounts` is `st.accounts` (`Merge` is the insert loop at
main.rs:314), `free` and `queue` are tokio's fair semaphore, `cands[r]` the
request's own clones. `Arrive`/`Refuse` run the code up to the first await;
`ListForResolve` and `ListForCollect` are the two helper listings, each of which
merges into the shared map before the request reads it; `ResumeWithPermit`,
`QuotaPrecheck` and `AttemptEnds` are the rest of the handler; `Disconnect` drops
the future at any await, a waiter's place or an owner's permit with it.
`tried` is history. As an implementation of `BoundedAdmission`, `inside` is the
set of requests with a permit and `line` the semaphore's queue; a permit that
was handed over counts as taken before its new owner runs, as in tokio.

**AuthSessions.** Every `AuthService` method locks the connection for itself,
so a request is a sequence of steps: `Authenticate` and `IssueToken` for login,
`Verify` (decode and the look-up in `revoked_jti`), `ReadRow` and the handler
for the routes behind `require_auth`, `LogoutVerify` and `Revoke` for logout.
`Register` checks claims only, as the code does. `Restart` drops the requests
and keeps both tables. `RevokeFails` is the logout that answers ok although
`revoke_jti` failed (auth_routes.rs:118 ignores the error); `loggedOut` holds the
tokens whose row was written. `late`, `banned` and `demoted` are history: they tell
what had already happened, and stayed so, since a request began.

**HelperImages.** One action per stretch of `execute_image` between blocking
calls. `lockRef[j]` is "`email_lock` is not None", which is set before the
acquire, and `locked` has no owner, as a `threading.Lock` has none. A mark or a
release that raises, in the body or in `finally` itself, is swallowed as in the
code; the slot of a failed release stays counted, and `leaked` remembers whose it
is. `owners` and `leaked` are history. `face` chooses between the bridge and the
face, whose image lock (`EnterFace`) surrounds the call.

**FaceCaches.** Threads move between the blocking points of
`resolve_account`, `_cached_quota` and `images`. An entry is its `ts`, which the
code compares, and `read`, when the call that brought it began. `Done` releases
what the handler's `with` block holds; `FetchReturns` covers `execute_quota`
answering, failing (both stored) and raising in `make_backend` (nothing stored).
What a cache's guard makes atomic is one step.

**ImagePipeline.** `Come` and `Leave` are the gateway's admission, `RunImage` the
HTTP call, `PassGate`, `Begin` and `End` are steps of `HelperImages` with what
they read or use of `remaining`, the images an account has left; `Other` are the
rest of them. `Leave` may come while the job works: a client that left, or the
gateway's 180 s timeout. `abandoned` and `overruns` are history.

**SseLines.** A byte is told by what `split_sse_data_lines` looks for: LF, CR,
blanks, the prefix in two parts, the two bytes of one character. `Chunk` delivers
any number of bytes, `Split` translates the function, `BreakOff` ends the connection
after any byte. Under the mapping `Whole` the payloads whose lines will still come
in full are `wire` of `WholePayloads`: a chunk of bytes is there a read of some
whole payloads or a stutter.

**SseParser, TextStream, UpstreamImage.** A payload is told by what the code
looks for in it. `CollectChunk`, `RelayChunk` and `Chunk` take any number of
whole payloads at a time, which is what `SseLines` shows of bytes; a chunk without
a whole one changes nothing. `Cut` and `Breaks` end a connection anywhere.
`Lookup`, `Poll` and `Download` are `resolve_image_download_url`, its poll loop and
`download_image_bytes`.

**ChatCompletions.** `plane` is the data plane, `reader` the `stream` flag.
`RuntimeReads` is `TextStream` unchanged. On the helper plane `BridgeRelays`,
`BridgeCollects`, `BridgeEnds` and `BridgeRaises` are the loops and the `except`
of the bridge's two functions, `Forward` is the gateway's proxied body, and
`BridgeLost` the end of it by timeout or crash.

**ImageAssets, ImageDelivery.** A request for a link looks at the clock twice
(`Follow`, `Look`), and others may act in between. `DeliverLink` stores the run's
image and answers with its link after everything that can fail.

**TicketPool.** A ticket value is owned by a caller or kept in the pool;
`Acquire` hands out a copy marked consumed, which may be deposited again.

## 3. What the runs show

Every run of kind *pass* explores its whole state space.

| Run | States | Bounds and why they are enough |
|---|---|---|
| `image_gateway` | 0.8 M | Three requests, one permit: an owner, a waiter and one behind it, so that handovers, overtaking and disconnects of each meet. The pin, and a pool account that is unknown until the helper lists it; two attempts, so that a first fails and a second is the last. More accounts and attempts are covered by `RetriesAreDisciplined`, proved for every number. |
| `image_gateway_tokens` | violation | The helper lists the pin too. |
| `auth_sessions` | 1.3 M | Two concurrent requests, an admin and one account, one token; time 0 to 3 with TTL 1 and leeway 1 passes before expiry, in the leeway and after. |
| `auth_logout`, `auth_register` | violation | Two tokens: one to be logged out or held, one to act with. |
| `image_pipeline` | 2.6 M | Three jobs: the owner of a lock, one that times out, one that enters after it; two accounts so that a sticky call may be handed the other one; two slots. Two permits and one image left on each account: two jobs pass the gate on the last image, and a third follows an abandoned one. |
| `helper_double_hit` | violation | The jobs alone, without the gateway in front. |
| `chat_completions` | 0.42 M | Three payloads out of thirteen: a snapshot, a change of it, an end, in every order and chunking, on both planes, streamed and collected. Next to it the bytes of a stream (`SseLines`), which share no variable with the conversation and so move only where one was refused: three lines out of texts with and without a blank beside a two-byte character, a data line without text, a blank line and one that holds the prefix further in; bare and with a blank after the colon and CR before LF; every chunking of their bytes and every place to break off. A line depends only on what an earlier one left in `pending`, so two with one before them meet every case. |
| `text_collect` | violation | The upstream plane alone. |
| `image_delivery` | 2.6 M | Chunks of up to two payloads out of 41, the code's own three polls and three downloads; then two images in the store, one client that follows links, two seconds against a TTL of one, one restart. The store and the clock rest until the run's own link exists: the run reads neither, so nothing is lost. |
| `face_caches` | 1.1 M | Three threads on the pin and a pool account: a refresher, a waiter and a forced request. Entries live two ticks, calls take up to one, and four ticks let an entry age out, be read again and age. |
| `ticket_pool` | 1.0 M | Three tickets of one account whose list holds two, one of another; a clock of three seconds with TTL 1 that may be set back, so that an expired ticket is valid again. |

`AnswerComes`, `EveryRequestAnswered` and `ConversationEnds` are liveness
properties, `AdmissionIsBounded` and `ReadsAsWhole` are refinements, the other
properties are invariants or action properties. Deadlock is checked for the gateway, auth and
ticket models. It is off for the others, where all calls end and nothing is left
to do.

What some of them say that is not obvious from the code:

- `OverrunsAreBounded`: the helper's quota gate is read before the wait for the
  account, so an account with one image left may be asked for more. The bound is
  the permits but one, plus the abandoned jobs on the account; both terms are
  needed.
- `DoubleHitOnlyAfterTimeout`: the lock protects an account until the first
  timeout on it, and not after.
- `PoolConsistent` has one direction only: a ticket deposited again may be on its
  list twice, and the list may name an id whose entry is gone. Tickets already
  consumed count towards `max_per_account`, so they can evict live ones.
- `DownloadsUpstreamImages` and `FilesBeforeSediments` say something of an id
  only where it is not both a file and a sediment: the code keeps the two lists
  apart, but nothing keeps the upstream from naming one id as both, and the
  placeholder `file_upload` is looked for among the files alone. The run has such
  an id (`f1`), and a placeholder.
- `DeltasSpellText` is exact until the upstream rewrites its text. A delta then
  repeats the rewritten text in full, after what was already sent, so from there
  on the client's text ends with the text as rewritten (`Spells`), however often
  that happens.
- `RepliesAreWhole` makes one exception (`ClosedEarly`): a connection closed in
  good order before all that was written had come. The code takes the end of the
  body for [DONE], so no reader can tell. A stream severed by an error or by one
  of the two client timeouts (requirements.rs:69, 60 s; helper_client, 180 s) never
  passes for a whole reply. What the bridge collects is whole even when the reply
  was rewritten, what `run_text` collects is not (`text_collect`). A reply the
  upstream emptied before [DONE] is the exception for the bridge:
  `ev.get("text") or text` (protocol_bridge.py:405) keeps what was heard before.
- `SlotsAccounted` counts the jobs that hold a slot and those whose release
  raised: no other slot is lost, and none is given back twice, also when a call
  in `finally` raises.
- `DisabledTakesEffect` does not stop a login that was past `authenticate` when
  the account was disabled from handing out a token (auth_routes.rs:67); it says
  that no request that carries the token reaches a handler behind `require_auth`.

### Disagreements with the repository's own statements

Five runs are expected to fail. Each checks one sentence of a comment or test.

1. `image_gateway_tokens` (main.rs:314, main.rs:320): every refresh of the pool
   map inserts the helper's rows, which carry no token, over loaded accounts. If
   the helper lists the pin, later upstream attempts carry an empty token.
2. `helper_double_hit` (protocol_bridge.py:124, 666): the `finally` block
   releases the e-mail lock also for a job that timed out waiting for it; the
   next job enters beside the owner.
3. `auth_logout` (auth lib.rs:446, main.rs:1186): revocation rows are purged at
   `exp`, tokens are accepted 60 s longer.
4. `auth_register` (auth_routes.rs:88, 236): `register` trusts the token's role
   and never re-reads the row.
5. `text_collect` (runtime.rs:71, 74): `run_text` returns at the first sign of
   text, so what it collects is a prefix of the reply and may be empty.

What *does* hold in their place is an invariant of the passing runs:
`MembersStayOnPin`, `DoubleHitOnlyAfterTimeout`, `LogoutHoldsUntilExpiry`,
`DisabledTakesEffect` (every route but `register`), `RepliesAreWhole`.

## 4. Fairness

- `ImageGateway`: weak fairness of `Progress(r)` for each request. Helper and
  upstream calls carry client timeouts (helper_client 120 s and 180 s, the
  upstream client 60 s) and the semaphore is FIFO, so no await is without end.
  `Arrive` and `Disconnect` are not fair.
- `ChatCompletions` (`FairChat`): weak fairness of `Begins` (requests for a
  conversation carry timeouts), of `RuntimeReads` (a polled task goes on), of
  `Breaks` (the client's 60 s timeout ends a connection left open), of `Bridge`
  (its thread runs) and of `Forward`. `Write` and `ChatClientLeaves` are not fair.
- `ImageDelivery` (`FairDelivery`): weak fairness of the run's `Proceed` and of
  `Deliver`: requests end, at the latest by timeout, the stream's deadline is
  checked between chunks, and the handler then goes on. The chunks themselves,
  the store and restarts are not fair.

The other specifications state safety only.

## 5. What is proved

TLAPS checks every theorem of the eight `*Proofs` modules for all values of the
constants, from the `ASSUME`s of the component's module alone (finite sets of
requests or jobs, names that are distinct, times that are naturals, payloads of
the parser's form). Each has the same frame: `InitOK`, one lemma for each action,
`NextOK`, an inductive invariant, and the theorems. Every safety property that a
passing run checks, invariant, action property or refinement, is one of them,
but for the two of `SseLines`.

- **ImageGateway** - `TypeCorrect`, `PermitsAreConserved`,
  `QueueIsConsistent`, `MembersKeepToThePin`, `RetriesAreDisciplined`,
  `AnswersFitAttempts`, `ImplementsAdmission`, `EveryStepGoesOn`. The invariants
  are not inductive alone: a permit handed over on drop needs the queue to hold
  exactly the waiters (`SemInv`), and the facts about attempts need what a place
  says of candidates and plane (`ReqOK(r)`). The two meet in `Moves`: what one
  handler does to the semaphore leaves another where it is, or grants it a
  permit. The refinement of `BoundedAdmission` maps each of these moves to
  `Come`, `Go` or a stutter; the same moves show that no handler ever returns to
  a place it has left.
- **ImagePipeline**, with HelperImages - for the jobs alone `TypeCorrect`,
  `SlotsAreAccounted`, `LocksAreHeld`, `DoubleHitsFollowTimeouts`. `Shape` ties a
  job's place to what it holds; `LockInv` says that before any timeout on an
  account its lock is locked for as long as its one owner works; `FaceInv` that
  the image lock has one holder. Then `UsesHelper` (every behaviour of the
  pipeline is one of `HelperImages`, so the four hold here:
  `PipelineTypeCorrect`, `PipelineSlots`, `PipelineLocks`,
  `PipelineDoubleHits`) and `OverrunsStayBounded`. Its invariant (`OverrunInv`):
  while the quota suffices there is no overrun, and once it is short, the
  overruns and the jobs that are past the gate and have not begun are together
  no more than the permits but one and the abandoned jobs; nobody passes the
  gate any more.
- **AuthSessions** - `TypeCorrect`, `LogoutHolds`, `DisablingHolds`,
  `DemotionHolds`. `RowsKept`: a logged-out token has its row until `exp`;
  `CallOK`: a request that history calls late, banned or demoted still faces the
  row that turns it away.
- **FaceCaches** - `TypeCorrect`, `LocksAreHeldInside`,
  `BurstsCostOneRefresh`, `QuotaGoesForward`, `ImagesPassTheGate`,
  `EntriesAreServedFresh`, the last four of them action properties. The thread
  that fetches is the one that holds the lock; what is in the cache was read
  before a call under way began (`FetchesLater`), and stored within `Latency` of
  its reading (`CachesDated`).
- **SseParser** - no specification of its own, but the lemmas the next two
  stand on: what `add_unique` returns (what both sequences hold, nothing twice,
  nothing moved), what `feed_line` leaves, takes up and appends, and that a delta
  and the text before it are the text after it.
- **ChatCompletions**, with TextStream - `ChatTypeCorrect`,
  `ClientsHearTheText`, `StreamsEndOnce`, `WholeReplies`, `ReadersFollow`. A
  reply is whole because of two facts that every step keeps: the deltas spell
  out the reader's text, and the payloads on the wire lead the reader's parser
  (`Leads`) to a parser that missed nothing (`Follows`); cutting the wire into
  chunks cuts that path in two (`LeadsOn`). `SpellsOn` carries the first fact
  over a rewrite, after which it is one about the end of the deltas. `Drained`
  says that whoever has queued the end without an error, or called the
  conversation over, has read all there will be (`AllRead`: [DONE] came, with
  everything before it, or the connection was closed in good order), `DoneLast`
  that [DONE] is the last thing on the wire and comes with nothing lost,
  `HeardAll` what `Drained` says for what the bridge collects. The steps are sorted by what they touch (`Quiet`,
  `BodyEnds`, `Ends`, `Finishes`, `Errs`, `Reads`, `Delivers`), so that the two
  planes share the argument.
- **ImageDelivery**, with UpstreamImage - `UsesRun` (the rest of the delivery
  leaves the run to itself), `OnlyUpstreamImages`, `FilesComeFirst`,
  `GivesUpOnlyLast`, `FoundOnceInOrder`, `RunsEnd`; and `LinksAreKept`. For the run:
  the parser holds nothing that was not shown (`FoundShown`); what `next` has
  passed was asked for (`AskedInOrder`); polling means that the candidates are
  used up and polls are left (`GivenUp`). For the store: `StoreInv` ties the three
  places an expiry is kept in, the map, the link, and a request between its two
  looks at the clock.
- **TicketPool** - `PoolStaysConsistent`, `TicketsServeOnce`. `OnePlace`: the
  unconsumed value of a ticket is in one place, with one caller or in the pool,
  and nowhere once the ticket was handed out.

Loops over data (`add_unique`, a chunk of payloads, the text in a stream) are
recursive functions of the position (`Fold` of `SseParser`), and facts about them
are proved by induction on the position: the library's induction theorems take
an operator and cannot be used, but for a *set* of naturals induction is an
ordinary lemma (`Induction` in `SseParserProofs`), which follows from the least
element of a set. That such a function exists and has its type is
`IterationExists` and `IterationStays`.

Only model-checked: `ReadsWholeLines` and `ReadsAsWhole`, since what `Split` yields
for every chunk is induction over data, written with a `RECURSIVE` operator; the
three liveness properties, which, like `ENABLED`, are
beyond the prover, and the five violations. Of two of the liveness properties the
part that is not fairness is proved: `EveryStepGoesOn` and `RunsEnd` say that the
steps of a handler and of a run descend a bounded order, so that with the
fairness of section 4 they come to an end.

## 6. Abstractions and what is left out

- Prompts, images, proxies, device ids, models and sizes are no state; an
  account is its e-mail and whether it has a token.
- Text is a sequence of pieces no two of which read alike. The models do not
  tell apart a rewrite that happens to extend the old text.
- `account_service`, `stream_image_outputs` and `conversation_events` are
  external: slots are counted as the bridge uses them, a conversation ends in any
  way and uses one image of its account or none, and the events of a text are
  those `sse.rs` makes of the same payloads.
- `jsonwebtoken` is external: a token is accepted until its `exp` plus leeway.
  Signatures of tokens and links are ideal.
- Time is a counter; a call takes at most `Latency` in `FaceCaches`.
- No ticket is cloned by a caller that has not acquired it. The pool's policy
  allows `acquire`; under `PerCallFinalize` it refuses and changes nothing
  (ticket_pool lib.rs:245).

Not modelled:

- `AUTH_MODE` disabled and apikey (no session exists), password hashing, the
  bootstrap of the first admin.
- `prune_expired`, which nothing calls.
- Requirements, PoW, turnstile, sentinel and TLS: sequential requests, hashes
  and an interpreter of opaque programs. That a step of them fails is a step of
  the models; what they compute is data no property here tells apart.
- The protocol crate and the conversation bodies: pure functions of text, whose
  cases a model could only list again.
- Backend routes, the web console, scripts, deployment, probe, control client:
  no state of the system.

PROJECT.json gives the reason for each component.

## 7. Plan

Done, by weight in the system: ImageGateway, HelperImages, AuthSessions,
SseParser with TextStream and UpstreamImage, FaceCaches; then the abstract
admission and its refinement, the compositions ImagePipeline, ImageDelivery and
ChatCompletions, ImageAssets, TicketPool, the failing logout.

Left, in this order:

1. `images` of the face with the real `execute_image` inside: FaceCaches and
   HelperImages share the image lock, and each models it; a single model could
   say how old a row is at the conversation.
2. An abstract account lock that HelperImages implements as long as no wait
   times out.
3. The other auth modes and the bootstrap by two processes.
4. The same descent for `ConversationEnds`, and a refinement of (2) as a theorem.
