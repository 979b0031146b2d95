# A formal model of apcore-a2a (Rust)

TLA+ specifications of the A2A server and client in `src/`, the TLC runs that
check them on small instances, and theorems about them that TLAPS checks for
every value of the constants. `PROJECT.json` lists the runs, which lines of the
source each definition translates, the hazards the properties are aimed at, and
the findings.

* [1. The system](#1-the-system)
* [2. Modules](#2-modules)
* [3. Runs and bounds](#3-runs-and-bounds)
* [4. Fairness](#4-fairness)
* [5. Proofs](#5-proofs)
* [6. Findings](#6-findings)
* [7. What is not modelled](#7-what-is-not-modelled)
* [8. Plan](#8-plan)

## 1. The system

`apcore-a2a` serves the modules of an apcore registry as skills of an A2A agent
over JSON-RPC and SSE, and has a client for such agents. Everything below runs
on tokio: a request is a future, handlers run in parallel on the workers, and a
handler whose HTTP connection closes is dropped at the await it stands at.
Tasks started with `tokio::spawn` are not.

| Component | State it keeps | Operations | Hard behaviour | Correct when |
|---|---|---|---|---|
| Task endpoints (`server/handlers.rs`) | the task store and the table of cancel tokens, both shared by all requests | `message/send`, `message/stream`, `tasks/get`, `tasks/cancel`, `ListTasks` | store accesses are awaits, so handlers of one task interleave between read and write; each write may fail; clients disconnect anywhere | no token leaks or is lost, tasks stay with their owner, answers agree with the store, settled tasks stay settled |
| Push notifications (`server/handlers.rs`) | webhook configs per owner and task; the delivery tasks in flight | `tasks/pushNotificationConfig/{set,get,delete}`, `notify_push` | two stores per request; detached deliveries with retries and a copied URL | no webhook on somebody else's task, no notice of what the store did not take, deliveries give up unless a POST never returns |
| Streaming (`server/handlers.rs`, `server/executor.rs`) | two bounded channels, an executor task, a driver task, the response | `handle_stream`, `stream_channel`, the SSE response | back-pressure across three parties, a total timeout at any moment, disconnecting and stalling readers | the client reads the event grammar; COMPLETED means the whole output; every stream ends whose client reads or leaves |
| Executor (`server/executor.rs`) | none of its own | `call`, `stream_channel` | host-side timeouts around a module that need not cooperate | `call` always returns; `stream_channel` ends, given room for its report |
| Stores (`storage/mod.rs`) | owner → key → value behind one mutex | save, get, delete, list | buckets created and dropped as entries come and go | owners are isolated; no empty bucket is left |
| Agent Cards served (`server/handlers.rs`, routes of `server/factory.rs`) | a map from principal to filtered card, one for the extended card and one for the Explorer's; the public card | `for_caller`, `public_agent_card`, `serve_extended_card`, `GetExtendedAgentCard`, the Explorer's card | lookup and insertion are two critical sections; filtering drives the audit sink in between; what is shown and what is refused are decided at two moments | bounded; nobody is answered another's card; audits are memoized; a card shows what its caller may call |
| Agent Card discovery (`client/card_fetcher.rs`) | the last card and when it was stored | `fetch` | concurrent misses each fetch; TTL counted from the store | bounded staleness; no return to an older card |
| Streaming client (`client/client.rs`) | a text buffer | `stream_message` | chunks end anywhere, also inside a line or a character | events in order, each once, intact |
| Unary client (`client/client.rs`, `client/exceptions.rs`) | none between calls | `send_message`, `get_task`, `cancel_task`, `list_tasks`; typed errors | it cannot tell a lost answer from a lost request, while the handler it gave up may go on; outages look like other answers | what it is told of a task never goes back; a failure is told as what it is |
| Card builder (`adapters/agent_card.rs`) | a cached card | build; get-or-build and invalidate, which nothing calls | the registry grows between its reading and the next | the card is of what the server accepts |
| Factory (`server/factory.rs`) | none after start-up | builds the router, the cards, skill ids and schemas | what is fixed at start-up against what the registry does later | the extended card goes to those it is advertised to |
| Authentication (`auth/`) | none | the middleware's decision, JWT verification, the mapping of claims | exempt, required and permissive routes; tokens expire between two requests of one caller | a handler sees an identity only after verification |
| OpenAPI backend (`openapi_backend.rs`) | the registry it fills, which others may hold | validate, load, scan, preflight, write | failing at each of these steps; another holder registering between two of them | a refusal writes nothing; a success is complete |
| Application (`apcore_a2a.rs`), CLI (`cli.rs`) | the registry being assembled | choice of sources, discovery, build, the check for emptiness, the cards, binding | flags and configuration each give a part; the registry is read at several moments | nothing registered is replaced; what is advertised is accepted; no empty server |
| Error mapper (`adapters/errors.rs`) | none | the JSON-RPC code and text of an apcore error, its guidance | an error's class is decided in four places | the four agree; a fixed text stays fixed |
| Other adapters (`adapters/{parts,schema,skill_mapper}.rs`), Explorer page | none | conversions of JSON values | – | – |

How they meet: the endpoints call the executor, both stores and the token table;
they pass the principal (`CallContext`) to every store access, while the token
table is keyed by the task id alone. `notify_push` is called at the end of each
handler and spawns a delivery. `message/stream` connects the executor task to
the response through the driver. The card endpoints read the ACL the executor
enforces. The client talks to all of it over HTTP. Before any request, start-up
has filled the registry from a directory, an OpenAPI document or both, and the
factory has read the Agent Card and the accepted skill ids out of it. A caller
thus meets three views of the same registry: the card it is shown, the skill ids
`message/send` accepts, and the verdict of the executor's pipeline.

## 2. Modules

| Module | Models | Lines of code |
|---|---|---|
| `TaskStates` | the task states, which are terminal, the mapping of errors to states | `types.rs`, `error_to_status` |
| `Webhooks` | the config store and the life of a delivery | `notify_push`, its spawned task |
| `TaskServer` (extends `Webhooks`) | the task endpoints and the webhook endpoints | `handle_send`, `handle_stream`, `handle_cancel`, `handle_push_*`, `CancelGuard` |
| `SseSession` | abstract specification: what a `message/stream` response promises | – |
| `StreamPipeline` (refines `SseSession`) | executor task, channel, driver, channel, response, client | `stream_channel`, `handle_stream`, `failed_task_stream` |
| `ScopedStore` | abstract specification: the contract of `TaskStore` and `PushConfigStore` | the traits |
| `OwnerBuckets` (refines `ScopedStore`) | the in-memory stores | `OwnerBuckets` |
| `FilteredCardCache` | `FilteredCard::for_caller` with its cache and audits | `FilteredCard` |
| `Authentication` | the identity a header proves, the layer's decision | `auth/jwt.rs`, `auth/middleware.rs` |
| `CardEndpoints` (extends `FilteredCardCache`, `Authentication`; refines `FilteredCardCache`) | requests for a card, malformed calls, and the verdict on a message | `factory.rs`, the card handlers, `jsonrpc_handler` |
| `ErrorMapper` | what of a module's error reaches a caller | `adapters/errors.rs`, the status texts of `handlers.rs` |
| `RoundTrip` (extends `TaskServer`, `ErrorMapper`) | a client's unary calls against the task endpoints | `client.rs`, `exceptions.rs`, the answers of the handlers |
| `CardFetcher` | `AgentCardFetcher::fetch` | `card_fetcher.rs` |
| `ClientStream` | `A2AClient::stream_message` | `client.rs` |
| `OpenApiBackend` | an OpenAPI build, from its settings to the last registration | `openapi_backend.rs` |
| `Startup` (extends `OpenApiBackend`) | the command line and the embedder's calls, up to a server that answers | `cli.rs`, `apcore_a2a.rs`, the readings of `AgentCardBuilder` and `A2AServerFactory` |
| `MC*` | definitions the configurations need: request sets, symmetries, an ACL, documents and command lines | – |
| `*Proofs` | the theorems, section 5 | – |

**Conventions.** A definition has the name it has in the source where there is
one (`notify_push`, `handle_get`, `error_to_status`, `from_utf8_lossy`); an
action that is one stretch of a longer function is named for what it does. A
definition whose comment begins with *Mutant* is no part of the specification:
it is a wrong variant of the definition that follows it, used to check that a
property can fail.

**TaskServer.** One process per message (`pc[t]`; a message is named by the task
id `parse_request` gives it) and one per task-addressed call (`cpc[c]`). A step
is the code between two awaits with the store access that ends it, so everything
the code does without awaiting is atomic and nothing else is.

| Where a message stands | Next in the code |
|---|---|
| `idle` | not received; `Receive*` is `parse_request`, the skill check, `register_cancel` |
| `submit` | `save_task` of SUBMITTED (`message/send` only) |
| `run` | the executor: returns, fails or times out |
| `save` | the write of the outcome |
| `notify` | `notify_push` |
| `last` | the final event of a stream |
| `done`, `failed`, `refused`, `gone` | answered; internal error; no valid message; client left |

| Where a call stands | Next in the code |
|---|---|
| `idle` | the read of the task from the caller's bucket, with its early returns (`LookUp`) |
| `signal` | removal and cancellation of the token |
| `write`, `notify` | `tasks/cancel`: the write of CANCELED and `notify_push` |
| `put`, `remove` | the webhook endpoints: the write to the config store |
| `ok`, `notfound`, `notcancelable`, `internal`, `gone` | the answer, or no one left to hear it |

Every store access has a failing variant. `tasks/get`, `ListTasks` and
`pushNotificationConfig/get` change nothing: they are the operator `handle_get`,
and the properties speak of what it would read. The events of a stream are not
in this module: where the driver of a stream or the report of its timeout waits
for room in a channel, the step here may be taken late or never, and
StreamPipeline has the channel. `TimeoutElapses` of a stream stands for the timer,
its report and the driver's receipt of it. A panic of a handler is not modelled:
the `CancelGuard` treats it as it treats a disconnect. A delivery's POST succeeds,
fails or never returns (`hung`), for the HTTP client has no timeout.

**StreamPipeline.** `producer` is the executor task, `driver` the task
`handle_stream` spawns, `chunks` and `events` the two channels of equal
capacity. A send to a full channel waits; a send to a channel whose receiver is
gone returns at once. The timeout may fire at any moment at which the executor
task drives the module's stream. The refinement mapping to `SseSession` is the
identity on `log` and `client`: every other variable is hidden.

**OwnerBuckets** keeps the nested map with its absent and present buckets;
`ScopedStore` keeps one set of entries. The mapping reads the entries out of the
nested map.

**FilteredCardCache.** An identity is an id with a role, where the role stands
for everything the ACL reads and the cache key does not. One request runs
through lookup, filter and insertion; others run between them. There are two
`FilteredCard` values in the server and each is an instance of this module.

**Authentication and CardEndpoints.** `Authentication` has no state: a header is a
scheme and a token, a token has claims, and `accepted` holds the tokens the
decoder (the `jsonwebtoken` crate) accepts at the moment. A request of
`CardEndpoints` arrives (`Arrive`: the layer's decision and the identity it puts
beside the request) and is then handled, and tokens may expire before the next
one arrives (`Expire`).

| Route | Code | Action |
|---|---|---|
| `public` | `public_agent_card`, both paths of it | `ServePublic` |
| `extended`, `rpc_extended` | `serve_extended_card`, `GetExtendedAgentCard` | `NotConfigured`, `LookUpCard`, `FilterCard`, `InsertCard` |
| `explorer` | the Explorer's card | the last three |
| `rpc` | `jsonrpc_handler` on a body without a method of the server | `AnswerMalformed` |
| `send` | `message/send` up to the pipeline's verdict | `Send` |

The two filtered cards share nothing, so a behaviour follows one of them, `kept`.
`mode` is the layer: none, the strict one `create` builds, and the permissive one
only an embedder can put around the router. The verdict on a message
(`pipeline`) is apcore's: its ACL reads the identity, its approval gate the rule
and the module's annotation. The Explorer is taken to be enabled, which adds its
route and changes no other.

**ErrorMapper and RoundTrip.** An error is its code, what a schema error is about,
what its message consists of (words, and paths or traceback lines that
`sanitize_message` strips, or neither) and whether its guidance is blank; a text
is the set of what it is made of: a fixed string, words, paths, the guidance. An exchange of `RoundTrip` is
one HTTP request, named by the task the server creates or by its call. `Return`
tells its caller the handler's answer, `GiveUp` that there was none, whatever the
handler does from then on: it may end, or be dropped (`DropExchange`). A module's
failure is remembered (`failure`), so that what the caller reads can be compared
with it. `tasks/get` and `ListTasks` read the store in one step and may meet an
outage. `told` is what a client knows, `before` what it knew when it asked; both
are history the client's code does not keep.

**CardFetcher.** The clock ticks; a request in flight is bounded by the timeout
`A2AClient` configures on its HTTP client. A fetcher built with a client without
a timeout has no bound on the age of its answers.

**ClientStream.** A body of up to `MaxBytes` bytes, cut into chunks in every way.
A byte is a character of its own, half of one, or a newline, which is named for
what its line is: an event, a terminal event, an error frame, or a line the client
skips. `WellFormed` keeps the halves together and gives every event a text; the
last line may be unfinished. A symbol of the client's buffer remembers which byte
it was decoded from, and a frame is named by where in the body it ends, so the
order and completeness of what is yielded are statements about positions.

**OpenApiBackend and Startup.** `at` is the place start-up has reached: `parse`
and `discover` in the command line, `call` before an embedder's call, `options`,
`load`, `scan`, `preflight` and `write` in the build, then `check`, `sys`, `card`,
`skills` and `bind` in `build_app` and `serve`. A build ends at `check`,
`absent` (nothing to build) or `refused`. On the route `"cli"` the registry is the
program's own; on the route `"embedder"` the caller holds it too, and
`RegisterElsewhere` may happen between any two steps. Settings are partial
functions from the keys that are set to values, so that a key that is absent,
empty or white space are three things, as they are in the code. The ids an
operation gets from the scanner (apcore-toolkit) are the constant `Derived`. The
model is of the build with the `openapi` feature.

## 3. Runs and bounds

| Run | Instance | Shows |
|---|---|---|
| `task_tokens` | 1 principal, 2 messages, 1 call, 3 delivery attempts | tokens are neither leaked nor lost; sends and calls end; deliveries give up unless a POST hangs |
| `task_races` | 2 principals, 1 message, 3 calls | types; only the sender signals a module; stores are owner-scoped; answers and notices agree with the store; settled tasks are final |
| `task_result_overwritten`, `task_stream_cancel` | 1 principal, 1 message, 2 calls | findings 1 and 2 |
| `stream_pipeline` | channels of 2, up to 5 chunks | the event grammar, whole outputs, the order of write and final event, termination |
| `startup` | 36 command lines, 8 sections, 6 directories, 5 documents of 3 operations, 1 system module | refusals write nothing, successes are complete, nothing is replaced, a mixed command line needs its prefix, the card is callable, no empty server |
| `owner_buckets` | 2 owners, 2 keys, 2 values | the store contract; no empty bucket |
| `card_cache` | 3 requests to any endpoint, 4 tokens of 2 principals and none at all, 3 skills, a cap of 1, all three layers | the cap, own cards, memoized audits; cards and calls agree; the extended card goes where it is advertised |
| `round_trip` | 1 principal, 1 message, 1 cancel, 2 reads, 12 errors, both values of `disclose_refusal_reason` | what a client is told moves forward; failures are told alike |
| `card_fetcher` | 3 fetches, TTL 2, timeout 2, 5 ticks, 2 cards | the age bound; no way back |
| `client_stream` | up to 7 bytes | order, nothing lost |
| `client_stream_split` | the same | finding 3 |

Why the bounds are enough to be interesting:

* `Calls`. Two cancels and a handler reach every pairwise race on one task; a
  third call puts a webhook on it, the sender's or a stranger's. Tasks meet only
  in the token table, for which two messages suffice.
* `MaxAttempts` is 3 as in the code where deliveries are watched ending, 2 where
  only their existence matters.
* `Capacity` 2 with 5 chunks: both channels fill and block (2 + 2 + 1 in the
  driver's hand), which 16 and 33 would do no differently.
* `MaxCached` 1 with 3 requests and 3 principals: the map is full after one
  insertion and is dropped while another request holds a filtered card; a third
  request finds what was left.
* The tokens: one principal has two, with different roles, so its roles can
  change between two of its requests; one has a number for an id and no array of
  roles; one lacks a required claim. The skills are one for everybody that its
  module annotates for approval, one for some that the rule does, and one of the
  system namespace: each of the public card's subtractions takes something.
* Two reads around one message and one cancel: a read before, between and after
  each write, and two reads with anything in between. The errors have one of
  every class, a schema error of either side, texts that are blank, and messages
  of nothing but a path, which are blank where they are sanitized.
* The clock runs past a TTL and a timeout put together (4 ticks) by one.
* The start-up's operations are one with the same id as a project module, one
  that has no collision and one whose id is illegal; its prefixes are none,
  white space and a usable one; every setting occurs in the flags, in the
  section, in both and in neither.
* Seven bytes hold three events and the start of another: a line before, at and
  after the terminal one, or two with a character of two bytes in either and in
  what follows. Chunks end anywhere, so a line may span chunks and a chunk lines.

Deadlock is checked in `owner_buckets`, whose store can always be used. The
other instances receive a bounded number of requests, or are a start-up that
ends, after which nothing is left to do.

Symmetry is used only in runs without liveness properties: over the calls of
`task_races`, the requests of `card_cache`, the reads of `round_trip` and the
fetches of `card_fetcher`,
which neither a configuration nor a definition tells apart.

## 4. Fairness

`TaskServer!Spec` assumes that the handler of a `message/send` or of a call that
can take its next step does (tokio polls ready tasks, and a store access returns,
be it with an error), that the host-side timeout of a `message/send` elapses
(`tokio::time::timeout` around the executor), and that a delivery whose last POST
has returned goes on to the next. It assumes nothing about requests arriving,
modules returning, cancels being sent, clients leaving, webhooks answering, or
streams: the driver of a stream and the report of its timeout wait for room in
bounded channels, which a client that stays and does not read never makes.
`MessagesEnd` is therefore about `message/send` and rejected messages, and
`DeliveriesEnd` excepts deliveries with a POST that never returns. A hung delivery
holds up no request: it is a task of its own.

`CallsEnd` is more than that calls are answered. A sender that disconnects while
its task reads SUBMITTED takes the handler with it, and nothing in the server
comes back to that task; a cancel of it finds no token, and must still move it
on. The exceptions are the cancel's own: its write fails, or its caller leaves.

`StreamPipeline!Spec` assumes that the driver and the response run, that the
timeout elapses, and that a client that has not left reads. `StreamEnds` rests on
the last: a client that keeps the connection open and does not read leaves both
channels full, and the executor task then waits for room for the report of its
own timeout as long as the client likes.

No fairness is assumed in the other modules, which have safety properties only:
a start-up may wait for a document or a disk for ever.

## 5. Proofs

Nothing is assumed but the named `ASSUME`s on the constants (non-empty budgets,
`None` outside the values it stands beside, well-typed requests, different names
for what is different). The sets of principals, tasks,
calls, requests, keys and so on are arbitrary, finite only where a cardinality
is taken.

| Theorem | Module | Inductive invariant |
|---|---|---|
| `TypeCorrect` | `TaskServerProofs` | `TypeOK` |
| `TokensNeverLeak`, `RunningModulesCancelable` | `TaskServerProofs` | `TokenInv` |
| `StoreIsOwnerScoped`, `OnlyOwnersSignal` | `TaskServerProofs` | `OwnerInv` |
| `SettledTasksFinal` | `TaskServerProofs` | `OwnerInv` |
| `AnswersHold`, `NoticesHold` | `TaskServerProofs` | `AnswerInv` |
| `BucketsTyped`, `EmptyBucketsGo`, `BucketsKeepContract` | `OwnerBucketsProofs` | `TypeOK`, `BucketInv` |
| `TypeCorrect`, `CacheStaysBounded`, `SteadyCallersAnswered`, `AuditsStayMemoized` | `CardEndpointsProofs` | `SizeInv`, `ProvenanceInv`, `AuditInv` |
| `EndpointsTypeCorrect` | `CardEndpointsProofs` | `EndpointsTypeOK` |
| `EndpointsUseCache`, `EndpointsKeepCache` | `CardEndpointsProofs` | a refinement |
| `ExtendedGoesAsAdvertised` | `CardEndpointsProofs` | `ExtendedInv` |
| `CardsMatchCalls` | `CardEndpointsProofs` | `LinkInv` |
| `RoundTripKeepsServer` | `RoundTripProofs` | a refinement |
| `FailuresToldAlike` | `RoundTripProofs` | `FailureInv` |
| `ViewsForward` | `RoundTripProofs` | `ViewInv`, with `AnswerInv` |
| `TypeCorrect`, `CompletedWhole`, `FinalAfterWrite` | `StreamPipelineProofs` | `TypeOK`, `PipeInv` |
| `ReadsASession` | `StreamPipelineProofs` | a refinement, over `PipeInv` |
| `TypeCorrect`, `InOrder`, `AllYielded` | `ClientStreamProofs` | `TypeOK`, `StreamInv` |
| `TypeCorrect`, `AnswersAreYoung`, `FetchesNeverGoBack` | `CardFetcherProofs` | `AgeInv`, `OrderInv` |
| `TypeCorrect`, `RefusalsWriteNothing`, `SuccessIsComplete`, `ModulesSurvive` | `StartupProofs` | `TypeOK`, `BuildInv` |
| `MixedNeedsPrefix` | `StartupProofs` | `MixedInv` |
| `AdvertisedCallable`, `ServesSomething` | `StartupProofs` | `CardInv` |

* **Tokens.** `TokensAreLive` and `RunningIsCancelable` are inductive together:
  an entry goes with its driver or with a cancel that signals it.
* **Owners.** A call past its lookup has read its own bucket, so a task stored
  there was sent by the caller; what it writes then stays in the sender's
  bucket. Signals are traced to such a call. The invariant therefore also says
  of every call past its lookup that its caller is the sender.
* **Settled tasks.** With `OwnerInv` the only writers of a task are its handler,
  past its last write, and the cancels of its owner, of which none is about to
  write and none can get there: a lookup of a terminal task is refused.
* **Answers and notices.** An outcome once stored is replaced by a cancellation
  at most. `AnswerInv` adds, for every handler and cancel about to answer or to
  notify, that the store holds such an outcome, and for a cancel that has read
  a task, which outcomes that may be.
* **Streams.** What was sent to the client, read and unread (`Flow`), is at every
  moment a beginning of one output: SUBMITTED, WORKING, the chunks in order, the
  end marker, a status. `PipeInv` says where in it the driver stands, that the
  channel from the executor task holds the chunks that follow the held one and at
  most one error, at its end, and that an output without an error is whole. It is
  needed because COMPLETED is decided at the driver while what it claims is about
  the module on one side and the client on the other, with two channels in
  between. The refinement goes by position: the event at each place of `Flow` is
  a legal next one after those before it, so that whichever the client reads is.
* **Views.** The store's `Level` of a task (missing, submitted, past it) never goes
  back: SUBMITTED is written before anything else, and a cancel writes over a task
  it read. `ViewInv` says that whatever an answer showed is no further along than
  the store is by then, and, for the answers that show little, that nobody had
  been shown more when they were sent. For a cancel that finds no task this is
  established at its lookup, since its answer arrives later, when the store may
  hold the task. `AnswerInv` of TaskServer gives the rest: a
  send and a cancel are answered with what the store took.
* **Reading a stream.** The buffer is the tail of what was read, symbol for byte,
  so the first newline in it is the first of the body that was not parsed.
  `StreamInv` says that the frames yielded are those due among what was parsed,
  increasing; that nothing parsed stops the stream while it goes on; and that
  nothing more is due once it ended on its own.
* **Buckets.** Each bucket is non-empty and the entries read out of the nested
  map change as the contract's do; the last step of the refinement is a case on
  the operation.
* **Cards.** The cap needs only the insertion, whatever the requests hold. A
  card in the cache, or in a request's hand, was computed for an identity of
  that very id that some request carried. Audits of a principal that never raced
  are those of the present map's lifetime and at most one for each before it.
* **Endpoints.** Every step of the endpoints is a step of the cache for the
  principal the layer found, or leaves the cache alone, so what is proved of the
  cache holds behind the layer (`EndpointsUseCache`). `LinkInv` ties a request's
  place in the cache to its principal and its answer to its card; together with
  `SteadyCallersSeeTheirCard` this makes the card of a caller of constant roles
  the ACL's verdicts, which are what the pipeline refuses by.
* **Round trips.** A client's exchanges are steps of `TaskServer` or leave it
  alone, so tokens, owners, answers and notices are safe under lost answers
  (`RoundTripKeepsServer`). `FailureInv` says that a failure stays with the state
  its class gave its task, and that whoever was answered with the task was told
  that state and the failure's text. The rest is about errors alone, by cases on
  the code: `RefusalsAgree`, `RefusalCodes`, `CallerCodes` and `WordsAgree`.
* **Discovery.** A response in flight was served after its request was sent, and
  the clock never passes the request's timer, so a stored card was at most a
  timeout old; a cached one is answered less than a TTL later. Without
  overlapping requests the cached card is the newest one answered.

* **Start-up.** While a document is being written, an id still to be written is
  taken by another holder only, since the preflight found none of them, and one
  no longer to be written is registered, taken or failed. Between the check for
  emptiness and the two readings the registry only grows, so what the first
  reading found the second finds too. The choice of sources fixes the settings
  before any document exists, and they do not change afterwards.

Model-checked only: liveness (`MessagesEnd`, `CallsEnd`, `DeliveriesEnd`,
`StreamEnds`), which needs `ENABLED` and fairness and is out of the prover's
reach. Every invariant, action property and refinement that a passing run checks
is also a theorem.

## 6. Findings

Each is a run that TLC finds violated, with the source's own words as property.

1. `task_result_overwritten`: `tasks/cancel` writes back the task it read before
   an await. If `message/send` completes in between, its COMPLETED state and
   its artifacts are replaced.
2. `task_stream_cancel`: a stream stores no task before its outcome, so a
   `tasks/cancel` of a running stream is told the task does not exist and never
   reaches its cancel token.
3. `client_stream_split`: a chunk border inside a multi-byte character damages
   the event's text without an error.

A fourth disagreement can be read off `Startup!ParseHeaderFails` and has no run: a malformed
`--openapi-header` exits with 1, which the program documents as "the command line
was well-formed".

Other properties hold only with an exception that a reader of the code's comments
would not expect. The exception is part of the property, and the hazard it
belongs to quotes the comment:

* `AnswersMatchStore` admits CANCELED in place of an answered outcome, which is
  finding 1, and the handler's outcome in place of an answered CANCELED, which is
  the same race the other way round: the final write does not look at the task.
  `SettledIsFinal` is about tasks no handler or cancel still works on.
* `DeliveriesEnd` excepts deliveries whose POST never returns: neither the request
  nor the client `notify_push` uses has a timeout. Nor does it promise an end at
  the removal of the webhook: a delivery in its backoff uses the URL it read and
  posts to a webhook whose removal has been answered, although the comment of
  `handle_push_delete` calls that the one failure mode it must not have.
* `FailuresAreToldAlike` tells a pending approval apart: its message reaches the
  caller as the module wrote it, with the paths and traceback lines that
  `sanitize_message` strips everywhere else. The comment of that function says
  that the task-status surface applies exactly the same redaction as the JSON-RPC
  surface, and that of `failure_text` speaks of one policy for both. This is a
  fifth disagreement; the exception in the property is what TLC demands.
* `StreamEnds` needs a client that reads or leaves (section 4), and
  `SseSession` counts INPUT_REQUIRED, which is not a terminal state, among the
  statuses a stream ends with.
* `SteadyCallersSeeTheirCard` is about principals whose role does not change:
  the cache key is the id alone, and the ACL reads the roles too.
* `AuditsAreMemoized` excepts principals whose requests raced and counts each
  drop of the full map.
* `NothingLost` excepts streams that ended with a connection error, which the
  request timeout of the HTTP client causes in a healthy stream too.
* `AdvertisedIsInvocable` is about callers whose roles did not change either; for
  the others the card may be that of their former roles until the map is dropped,
  while the pipeline refuses by the present ones.
* `ViewsMoveForward` excepts sends rejected before they ran: their FAILED task is
  answered even when the store did not take it, and then reads as missing.
* `BuildsAreComplete` excepts modules whose own registration failed: the build
  logs it and succeeds, though its doc says "never partially populated".

## 7. What is not modelled

* apcore itself (executor pipeline, registry, ACL engine), axum, hyper, reqwest,
  the JWT library: external, represented by what they may answer.
* The wording of errors and the layout of parts, schemas and cards: pure
  conversions without state. Where an outcome of one matters (an input that does
  not convert, an error's class) it is an input of the model.
* A poisoned mutex: it takes a panic inside a critical section that has none.
* A panic of the executor task of a stream. It would close the channel without an
  error, which the driver cannot tell from the end of the output, so
  `CompletedIsWhole` is about modules that return, fail or are timed out.
* Removals from the registry. Its other holders only add modules
  (`RegisterElsewhere`); nothing in `src/` unregisters one, but an embedder might,
  between the card and the accepted ids too. `AdvertisedIsCallable` and
  `NothingReplaced` rest on its not doing so.
* Restarts: the default stores are in memory and nothing is recovered.
* The cached card of `AgentCardBuilder` (`get_cached_or_build`,
  `invalidate_cache`): a cache behind one mutex that nothing in `src/` calls
  outside its tests. An invalidation during a build would be lost.
* The part, schema and skill mappers: functions from JSON to JSON whose
  correctness lies in their layout. An input that does not convert is a rejected
  message.
* The registration of the config namespace and of the error formatter, which act
  on state of apcore's; the formatter never discloses a refusal's reason.
* The type and the attributes of an identity: the roles stand for all that the
  ACL reads besides the id. A layer that lets anonymous callers through is built
  by nothing in `src/` but tests; it is modelled because embedders may.
* Fields a client sends and the server does not read (`contextId` beside the
  message, the page size of `ListTasks`), and the typed errors −32040 to −32042:
  refusals reach a client as REJECTED tasks, and no endpoint answers with those
  codes, so `from_jsonrpc` of them is compared with the mapper only.

## 8. Plan

The order is by how much of the system depends on the part.

1. Done: `TaskStates`, `Webhooks`, `TaskServer`, `StreamPipeline` with
   `SseSession`, `OwnerBuckets` with `ScopedStore`, `FilteredCardCache`,
   `CardFetcher`, `ClientStream`, `OpenApiBackend` with `Startup`, `CardEndpoints`
   with `Authentication`, `RoundTrip` with `ErrorMapper`, and the proofs of
   section 5.
2. Proofs: what liveness rests on and needs no fairness, as state predicates:
   whenever a stream has begun and not ended, some party of it other than the
   module has a step to take, for every capacity, as long as its client reads or
   leaves; and the same for the messages, calls and deliveries of `TaskServer`,
   with the number of steps each has left at most.
3. Proofs: the observations of a client that also streams, once `RoundTrip` has
   `message/stream` among its exchanges.
