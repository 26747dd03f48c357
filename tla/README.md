# TLA+ specifications of the chatbot service

The chatbot service answers questions about beverages and venues over gRPC. It
classifies a question, asks the recommendation service for the facts, has an LLM
word the answer, checks the answer against the facts and keeps the conversation in
PostgreSQL. This directory holds TLA+ models of the parts of it whose behaviour
depends on how asyncio tasks, processes, a database, a cache and their failures
interleave, and of the decisions that lead from a message to an answer; TLC
configurations that check the models on small instances, and proofs
of the main theorems for every value of the constants.

Paths without a prefix are relative to `src/src/chatbot_service/`.

    tlc -workers 2 -config repo_overflow.cfg MCAsyncRepository
    tlapm DialogueProofs.tla

`PROJECT.json` lists the runs, the lines each definition models, one mutated
definition for every checked property (the run must then fail), the hazards, the
findings and the theorems.

## 1. Inventory

| Component | State it keeps | Operations | Interacts with |
|---|---|---|---|
| Persistence queue `storage/async_repository.py` | bounded `asyncio.Queue`, worker task, `_known_conversations`, `dead_letters` | create_or_get_conversation, append_message, store_retrieval_trace (queued writes); get_messages, get_latest_conversation_id_for_user, record_feedback (drain, then one statement); close | called by every handler; writes to the store |
| PostgreSQL store `storage/postgres_repository.py`, `migrations/001_…sql` | conversations, messages, traces, feedback; a lazily built pool | one or two statements per operation, no transaction around two | primary, foreign and unique keys decide what a retry does |
| gRPC service, server `grpc_service.py`, `server.py` | the handlers in progress, the life cycle of the process | AskChatbot, GetConversation, RecordChatbotFeedback; serve, graceful stop | runs handlers as tasks, may cancel them; closes the repository |
| Chatbot pipeline `pipeline/chatbot_pipeline.py` | none of its own, a prompt context cache | ask: resolve the conversation, read history, classify, build context, guardrails, LLM, verify, persist | everything below |
| Recommendation cache `clients/cached_recommendation_client.py`, `cache.py` | entries with an expiry (in memory, or shared in Redis), a lock per key and process | get_profile_status, get_beverage_recommendations, get_venue_recommendations | between the context builder and the recommendation client |
| Context builder `pipeline/context_builder.py` | none | build: profile status, then recommendations of the revision it was told | the recommendation cache |
| Recommendation client `clients/recommendation_client.py` | channel, stub, ID token with expiry | four calls with a deadline | recommendation service, metadata server |
| LLM adapter `pipeline/llm_adapter.py` | ID token with expiry | one HTTP call | LLM server |
| Intent classifier, guardrails, response verifier and builder `pipeline/*.py` | none | pure decisions | the pipeline |
| In-memory repository `storage/memory_repository.py` | dictionaries | the repository's operations | stands in for PostgreSQL in tests |
| Migrations `storage/migrations.py` | `chatbot_schema_migrations` | discover, apply under an advisory lock | run by several deployers |
| Auth, conversion, configuration, metrics, generated code | none that is read back | per request, or once at start | the service |
| Staging deployment and validation tools | none | operator scripts | outside the service |

What makes each of the stateful ones hard, and what makes it correct:

* **Persistence queue.** Handlers, readers, the worker, a graceful stop, a crash and
  a second process interleave at every `await`; the queue fills in the middle of a
  turn; statements fail before or after they commit; a create may be pending while
  later turns refer to it. It is correct if no write of an answered turn disappears
  (`NoSilentLoss`), each row has one fate (`ImplementsLog`), reads see what was
  answered before them (`ReadYourWrites`), a turn is persisted whole and together
  (`TurnsWhole`, `TurnsAdjacent`), one turn does not pay for another's failure
  (`FailuresBlamed`), shutting down leaves nothing behind (`CloseLeavesNothing`), nobody
  waits for a queue that no one empties (`WaitersHaveWork`), and
  calls, turns and shutdowns end (`CallsEnd`, `TurnsSettle`, `ShutdownEnds`).
* **Recommendation cache.** Asks read the cache, wait for a lock, look again, fetch and
  store, each with a suspension in between, while the profile changes, entries expire,
  cache and service calls raise, handlers are cancelled and other processes store under
  the same keys. It is correct if a key is fetched once at a time (`SingleFlight`),
  ages are bounded (`BoundedStaleness`), recommendations are never older than the
  profile they are presented with (`NeverBehindProfile`), an ask does not see the past
  of what earlier asks saw (`MonotonicReads`), stale venues stay with whoever fetched
  them (`StaleVenuesUnshared`), and nobody waits forever for a lock (`AsksEnd`).
* **Ask pipeline** (pipeline, classifier, context builder, guardrails, LLM adapter,
  verifier, response builder). The asks of a user overlap: each reads the conversation,
  awaits three services that may fail, and stores a turn that later asks read. The
  decisions are pure but many, and an answer is right only if they agree: what the
  service returned, what the LLM said of it, what was shown before. It is correct if
  answers are grounded (`AnswersGrounded`), warnings survive every fallback
  (`WarningsKept`), follow-ups stay on their subject (`VenueFollowUpStays`), bring
  something new (`FollowUpsAreFresh`), and go on with what was shown last
  (`SelectionIsLatest`).
* **Reading and feedback** (PostgreSQL store, gRPC handlers, in-memory repository).
  Pages are cut by offset in an order that later commits may change; clients repeat
  feedback whose reply they did not get. It is correct if a walk over the pages misses
  nothing (`PagesComplete`) and repeats only what it must (`RepeatsOnlyForLateRows`),
  a feedback event is stored once and stays (`FeedbackOnce`, `FeedbackStays`), and the
  repository the tests use tells the truth about the real one (`DoubleAgrees`).
* **Migrations.** Runners of several releases start together, die, lose the reply to
  their COMMIT and are started again. It is correct if the rows of
  `chatbot_schema_migrations` match the schema (`RecordsMatchSchema`), success means
  that the release is applied (`DoneMeansApplied`), the database only moves from one
  release to a whole later one (`ImplementsLedger`), and nobody waits forever for the
  lock (`RunsEnd`).

## 2. Plan

Done, in this order:

1. `ChatStore`, `AsyncRepository`, `AuditLog`: persistence, its abstract
   specification and the refinement; proofs of its safety properties.
2. `RecommendationCache`: the cache as the context builder uses it; proofs.
3. `IntentRouting`, `Grounding`, `Dialogue`: the ask from its message to its stored
   turn, composed with the contract of the persistence below it; proofs.
4. `Conversations`: paging and feedback against PostgreSQL and against its double in
   memory; proofs.
5. `Migrations`, `SchemaLedger`: the migration runner, its abstract specification and
   the refinement; proofs.

6. The order of the queue: the refinement of `AuditLog` and the properties of whole
   turns as theorems; proofs of the cache's remaining properties and of the double in
   memory.

Every safety and action property that a passing run checks is a theorem. Next: the
steps the liveness properties rest on that need no fairness (what keeps a waiting call
waiting, and which steps bring it nearer its end), of which `WaitersHaveWork` is the
first.
Module constants are parameters with named assumptions, each operation is one action,
invariants are conjunctions of named parts and no module uses RECURSIVE operators, so
that each can be proved about.

## 3. Modules

| Module | What it is |
|---|---|
| `ChatStore` | the database: tables, keys, statements and what may go wrong with one |
| `AsyncRepository` | a process: handlers, queue, worker, fallback, shutdown, crash, restart; extends `ChatStore` |
| `AuditLog` | abstract: rows are recorded, then kept or gone |
| `RecommendationCache` | asks, cache entries, locks, the service's profile, the clock |
| `IntentRouting` | what a message asks for: the classifier's tables, scores and order of decisions |
| `Grounding` | from a reply of the recommendation service to an answer: context, guardrails, verifier, response builder; extends `IntentRouting` |
| `Dialogue` | overlapping asks of one conversation; extends `Grounding` |
| `Conversations` | messages being inserted, readers walking pages, feedback, both repositories |
| `Migrations` | runs of the migration tool |
| `SchemaLedger` | abstract: the schema moves from release to release |
| `MCAsyncRepository`, `MCRecommendationCache`, `MCDialogue`, `MCConversations`, `MCMigrations` | instances for TLC |
| `AsyncRepositoryProofs` | theorems about types, loss, reads, shutdown and waiting |
| `AsyncRepositoryRowsProofs` | each row has one fate: the refinement of `AuditLog`; extends the former |
| `AsyncRepositoryOrderProofs` | the order of the queue: turns whole and adjacent, failures blamed; extends the former |
| `RecommendationCacheProofs`, `DialogueProofs`, `ConversationsProofs`, `MigrationsProofs` | theorems about the other components |

### 3.1 ChatStore and AsyncRepository

Handlers are asyncio tasks of one event loop, so an action is the code between two
suspensions. `put_nowait` does not suspend: a handler that persists its turn keeps the
loop from the first enqueue to its return or to a full queue, which `running` records
(the four writes are separate steps so that the queue can fill at any of them, but no
other task runs in between).

| Code | Model |
|---|---|
| `_queue`, its unfinished count, `_worker_task`, `_known_conversations` | `queue`, `unfinished`, `worker`, `known` |
| the write `_worker` executes, with attempt and statement | `hand` |
| `dead_letters` entries of a full queue, of a given-up write | `overflowed`, `dead` |
| `drain` / `join` | `Drain`, `Drained`, `Release` |
| `_resolve_conversation_id`, `_resolve_latest_…`, `_conversation_context…` | `StartAsk`, `LatestReply`, `HistoryReply` |
| `create_or_get_conversation` | `VerifyConversation` and `DirectReply` for an id this process does not know, else `NameConversation` |
| `_persist_if_configured`, `_enqueue` | `Enqueue`, `Overflow`, `Proceed` |
| `_run_with_retry` in the worker / in the handler | `WorkerReply` / `FallbackReply` |
| `_worker` | `WorkerGet`, `WorkerReply` with `Settle`, `WorkerStop` |
| GetConversation, RecordChatbotFeedback | `StartReader`, `FindReply`, `ReadReply` |
| `server.serve`, `close` | `StopServer`, `Close`, `PutSentinel`, `Closed` |
| cancellation by gRPC, death of the process, a new one | `Cancel`, `Crash`, `Restart` |

A statement and the resumption of the task that awaits its reply are one step; a
statement whose reply nobody receives is `Cancel` with the row inserted, or the fault
`acklost`.

Abstractions. One user in one screen context (others only share the queue). Contents
and metadata are left out; a conversation is named by the ask that created it, a
message by its ask and role. Rows are kept in the order of insertion, which stands for
`created_at`. `dead`, `overflowed`, `faulted`, `lost` and `before` are history: the
properties read them, the actions only extend them. A conversation id a client names is
one an earlier answer told it. The back-off between attempts is a suspension like any
other. History and lookup failures are swallowed by the pipeline, and modelled so.

### 3.2 AuditLog

Rows `<<kind, ask>>` are recorded as pending, kept or gone; a pending row is settled
once; an ask is answered only when all rows of its turn were recorded.
`AsyncRepository!Log` maps the message and trace rows to it: pending = queued or in
the worker's hand, kept = in the tables, gone = given up or caught by a crash and not
in the tables. `ImplementsLog` says that every step of the repository is a step of the
log or changes nothing the log sees: a dead letter never turns up later, a stored row
never disappears, a crash settles exactly what was pending. Conversation rows are left
out of the mapping because several turns create the same one.

### 3.3 RecommendationCache

An ask is at `peek` (about to look without the lock), `wait` (for the lock), `fill`
(holding it, calling the service), `store` (holding it, calling the cache), or ended.
It goes through this once for the profile status and, if the profile is active, once
for the recommendations of the revision it was told; `seen` and `recs` are what it got.

| Code | Model |
|---|---|
| `build`, `_build_beverage_context`, `_build_venue_context` | `Begin`, `WantsProfile`, `Take` |
| first `_cache_get` of each operation | `PeekHit`, `PeekMiss` |
| missing revision: no cache, no lock | `Bypassed`, `Bypass` |
| `_get_or_fill_locked` | `RecheckHit`, `RecheckMiss`, `Fill`, `FillFails`, `Store`; `lock` |
| `InMemoryCache.get` / `set` | `Live` / `Put` |
| `_venue_response_cacheable` | `Cacheable` |
| swallowed exceptions of the cache | `Missed`, second disjunct of `Store`, under `CacheFaults` |
| the recommendation service and the clock (external) | `Replies`, `Survey`, `Tick` |

Abstractions. One user and one set of filters: every other combination has keys of its
own. `Home` assigns asks to processes; the cache is shared by all of them (Redis), and
the locks are per process; with one process it is also the in-memory cache. A response
is the revision it was made with, when the service read its data, and one bit: an
active profile, or a non-empty list of fresh, available venues. Waiters of a lock may
be served in any order, which includes the order of `asyncio.Lock`. Taking the free
lock and the second look are one step; the fetch and the store are steps of their own.
`Latency` bounds the time from the service's reading to the store (the client's
deadline, and the cache's answer). Asks that need no recommendations are not modelled;
they stop after the profile status.

### 3.4 IntentRouting, Grounding and Dialogue

An ask awaits the history, the profile status, the recommendations and the LLM in turn,
then persists its turn and returns; `pc` says which of these it awaits, and everything
between two awaits is one action. Asks of the conversation interleave at each of them.

| Code | Model |
|---|---|
| keyword tables, `_contains_any`, `_score_terms` | the tables of `IntentRouting`, `Has`, `Score` |
| `classify`, `_is_followup_venue` | `Classify`, `FollowsVenue` |
| `is_diverse_beverage_request`, `infer_beverage_flavor_direction` | `Diverse`, `Flavored` |
| `_conversation_context_for_request`, `_build_conversation_context_hints` | `Window`, `Hints` |
| `_apply_conversation_context`, arguments taken by the context builder | `Plan`, `MissingInputs` |
| `build`, `_build_beverage_context`, `_build_venue_context`, `_diversity_exhausted` | `NoFacts`, `InactiveProfile`, `BeverageContext`, `VenueContext`, `Exhausted`; `ProfileReply`, `RecommendationsReply` |
| `Guardrails.enforce` | `Guard`, `Enforce` |
| `LLMAdapter.generate` | `LlmReply`: any of `Texts`, or `LLMGenerationError` |
| `ResponseVerifier.verify` | `Verified` and its parts |
| `build_from_grounded_text`, `build_generation_fallback`, `_with_required_warnings` | `Answered`, `FallbackText`, `FromLlm`, `Fallback` |
| `_persist_if_configured` | `Persist` |
| any other exception, cancellation, a turn given up by the store | `End` |

Abstractions. A message is the set of table terms its author put into it. The vocabulary
is a selection: every table has a term in it, and so have the ways tables overlap (a
flavor with a score and one without, 술 in 술집) and phrases contain one another; terms
that differ from one of these in weight only are left out. A phrase brings the shorter
terms inside it along as a substring test does. A text of the
LLM is what the verifier looks for: its numbers, the candidates it names, whether it
points to the cards, recommends, promises a store price, has the warning. A candidate is
its result, drink, place, price, price policy and whether a reason is an opinion; a name
and an identifier of a drink are one value. What a client says to leave out is `None` if
it sends nothing, which is not an empty list: hints replace both, but without hints an
empty list keeps what it sent as `previous_…` from being used (`LeftOut`). The cards of a blocked answer (the profile's
status) are no candidates and left out. The repository below is its contract, which
`AsyncRepository` checks: an ask's read finds every turn answered before it
(`ReadYourWrites`), a turn is stored whole and together (`TurnsWhole`,
`TurnsAdjacent`), while the queue has room. `asOf` is history: how much of the
conversation an ask read.

### 3.5 Conversations

`created_at` is `now()`, the time a transaction begins: `BeginInsert` fixes it, `EndInsert`
commits or fails, so that a row may turn up before rows a reader has seen. Message ids are
random, so they order rows of one instant either way. A reader follows `next_page_token`
until there is none; `floor` (history) is what was committed when it began. `PageRefused` is
the INVALID_ARGUMENT of a page whose `metadata_json` is text (asyncpg's default for `jsonb`)
and not a mapping; whether the connection decodes JSON is not decided by this repository, so
the model allows both. `double` and the `Memory…` operators are the in-memory repository,
run on the same calls: its list of messages in the order of arrival, cut by the number of
earlier messages of the conversation (an index set and its cardinality, which is what
enumerating and slicing the list comes to). Users and conversations are few; contents, roles
and event types make no difference and are left out.

### 3.6 Migrations and SchemaLedger

One statement is one step of a runner. The advisory lock belongs to the transaction and
is freed by its end, also when the connection breaks. CREATE TABLE IF NOT EXISTS looks
and creates in two steps, and raises if another runner was faster. A file is its number
and checksum. `SchemaLedger` knows only the schema: it grows from the beginning of a
release to the whole of it. `ImplementsLedger` says that every step of the runners is
such a growth or leaves the schema alone.

## 4. Runs

| Run | Instance | Checks |
|---|---|---|
| `repo_overflow` | 2 asks, 1 reader, queue of 2, 2 attempts, 2 processes, healthy database; 446 000 states | `TypeOK`, `NoSilentLoss`, `ReadYourWrites`, `CloseLeavesNothing`, `WaitersHaveWork` |
| `repo_faults` | 2 asks, queue of 8, 2 attempts, calls and replies lost; 2 500 000 states | `NoSilentLoss`, `FailuresBlamed`, `TurnsWhole`, `TurnsAdjacent` |
| `repo_live` | 2 asks, 1 reader, queue of 4, fair; 36 000 states | `CallsEnd`, `TurnsSettle`, `ShutdownEnds`, `ImplementsLog` |
| `repo_full` | 2 asks, queue of 5, 3 attempts, healthy database | violates `HealthyStoreKeepsAll` |
| `cache_one` | 3 asks, 1 process, failing service; 1 200 000 states | `TypeOK`, `SingleFlight`, `MonotonicReads` |
| `cache_shared` | 2 asks, 2 processes, venues, 3 revisions, failing service and cache; 2 100 000 states | `NeverBehindProfile`, `BoundedStaleness`, `StaleVenuesUnshared` |
| `cache_live` | 2 asks, 1 process, failing service and cache, fair; 300 000 states | `AsksEnd` |
| `cache_revision` | 3 asks, 1 process, 3 revisions, nothing fails | violates `RevisionChangeBypasses` |
| `dialogue` | 3 asks, page of 5, 11 kinds of request, 4 texts; 750 000 states | `TypeOK`, `AnswersGrounded`, `WarningsKept`, `FollowUpsAreFresh`, `VenueFollowUpStays`, `SelectionIsLatest` |
| `dialogue_window` | the same, page of 3 | violates `ContextIsRecent` |
| `conversations` | 3 messages, 2 writers, 2 conversations of 2 users, 1 reader, pages of 1 and of the default, 2 reports sent twice; 850 000 states | `TypeOK`, `PagesComplete`, `RepeatsOnlyForLateRows`, `FeedbackOnce`, `FeedbackStays`, `DoubleAgrees` |
| `migrations` | 3 runners, 3 releases, each started twice, fair; 56 000 states | `TypeOK`, `RecordsMatchSchema`, `DoneMeansApplied`, `ImplementsLedger`, `RunsEnd` |

Why these bounds. A turn is four writes. A queue of 2 fills in the middle of every
turn, one of 4 is full after the first turn, one of 5 fills in the middle of the second, one of 8
never fills: each of the conditions "unless the queue overflowed" is met
in one run and its opposite explored in another. Two attempts tell a retry from giving
up; two processes are what a restart needs. Two asks are enough for one to be answered,
queued or crashed before, during and after the other; three are used where the middle
one could come between two others. Times to live and latency of 1 and two ticks let an
entry be stored late, live, expire at the very instant it is read and be replaced; three
revisions let a key be skipped. Symmetry is used in safety runs only, over asks and
readers, which differ in nothing (`Home` maps all to one process where it is used).

Two combinations are left to the proofs. `repo_faults` has a single process: that failures
are blamed rightly after a crash too is shown by `FailuresBlamedHolds`. `repo_live` has a
healthy database: that the refinement holds when calls and replies are lost is shown by
`ImplementsLogHolds`. A second process takes the first to 7 450 000 states; lost replies
take the second, which fairness makes expensive, beyond 230 000.

`CHECK_DEADLOCK FALSE` everywhere, because the models may stop: the calls are
finitely many, the last process closes or dies, the clock has a bound. That nothing
stops early is what the liveness runs say.

`dialogue`: with three asks, two can be answered before the third reads, or overlap it at
every await; that is one answer to follow up and one that comes in between, or two to
choose between. A page of 5 covers the four rows those leave, one of 3 does not; the
code's 25 stands to a conversation of thirteen turns as 3 does to one of two. The requests
hold each kind of message once (a recommendation, three follow-ups, a venue search
without a place, with a drink of its own and with one of the client's, a comparison,
excluded results, an unrelated and a blank one; one of the follow-ups brings the client's
own previous results, one an empty list of drinks), the replies an empty list, a list with
one seen drink and one with a new one, the texts one that passes and three that break
a rule of the verifier or warn by themselves. `conversations`: two open transactions are
what it takes to commit out of order, three messages give a page before, at and behind
the late one, the greatest page (2) lies below the default (3) and below the number of
rows. `migrations`: two neighbouring releases and one with an edited file; a second
start is what a crash needs.

### Fairness

`repo_live`: weak fairness of each ask once it arrived, of each reader once it arrived,
of the worker, of `close()`. The event loop runs every ready task, the worker's
statements and the handlers' calls return or raise (the driver and the gRPC deadlines
see to it). Nothing obliges calls to arrive, to be cancelled, or the process to stop or
crash. `cache_live`: weak fairness of each ask's steps as a whole, for the same reason:
`asyncio.Lock` is handed on when it is released, and calls return or raise; weak
fairness is enough because a free lock with a waiter is taken by some waiter, and asks
are finitely many.

`migrations`: weak fairness of each runner's statements: they return or raise, and
PostgreSQL grants a lock that is free to one that waits for it. Runners need not be
started. Weak fairness is enough because starts are finitely many, so that the lock is
free for good after the last competitor ended.

`CallsEnd` is about finitely many calls. `join()` waits for an instant with nothing
unfinished, so a stream of calls that never ceases could keep a reader waiting; that is
listed as a hazard and is not checked.

## 5. Proofs

Proved for every number of asks, readers and processes, every queue size, every number
of attempts, times to live and set of faults, every request, reply and text, every page
size, every set of releases (the modules' ASSUMEs only type the constants and keep
`None` apart; `Migrations` also assumes that the files of a release are numbered from 1,
which is the order `discover_migrations` sorts them in):

| Theorem | Module |
|---|---|
| `TypeCorrect`: types, and `unfinished` = queued + in hand | `AsyncRepositoryProofs` |
| `NoSilentLossHolds` | |
| `ReadYourWritesHolds` | |
| `CloseLeavesNothingHolds` | |
| `WaitersHaveWorkHolds`: no lost wakeup in `join()` | |
| `ImplementsLogHolds` (the refinement) | `AsyncRepositoryRowsProofs` |
| `TurnsWholeHolds` | `AsyncRepositoryOrderProofs` |
| `TurnsAdjacentHolds` | |
| `FailuresBlamedHolds` | |
| `TypeCorrect`: types, and a lock is held by exactly the ask fetching its key | `RecommendationCacheProofs` |
| `NeverBehindProfileHolds` | |
| `BoundedStalenessHolds` (an action property) | |
| `StaleVenuesUnsharedHolds` (an action property) | |
| `SingleFlightHolds`, for one process and a cache that does not raise | |
| `MonotonicReadsHolds`, likewise | |
| `TypeCorrect`: types, and the LLM is called with evidence only | `DialogueProofs` |
| `AnswersGroundedHolds` | |
| `WarningsKeptHolds` | |
| `VenueFollowUpStaysHolds` | |
| `SelectionIsLatestHolds` | |
| `FollowUpsAreFreshHolds` | |
| `TypeCorrect`: types, and a message is stored once | `ConversationsProofs` |
| `PagesCompleteHolds` | |
| `RepeatsHold` (`RepeatsOnlyForLateRows`) | |
| `FeedbackOnceHolds` | |
| `FeedbackStaysHolds` (an action property) | |
| `DoubleAgreesHolds` | |
| `TypeCorrect`: types, and the lock is held by exactly the runner in the transaction | `MigrationsProofs` |
| `RecordsMatchSchemaHolds` | |
| `DoneMeansAppliedHolds` | |
| `ImplementsLedgerHolds` (the refinement) | |

**AsyncRepository.** None of the properties is inductive. The inductive invariant
`IInv` is the conjunction of

* `TypeInv`: types; for each ask, what its place implies about its conversation and the
  write it executes (`TaskInv`); the queue's unfinished count is its length plus the
  write in hand (`Counted`) — without it "unfinished is 0" says nothing about writes;
* `RecordInv`: an ask that is about to make its write number *n* has all writes before
  *n* pending or settled, an answered one all four;
* `ReadInv`: the asks a task remembers as answered before it were answered, and while
  it reads, their writes are settled. A task enters a read when nothing is unfinished,
  and rows, dead letters and losses only grow;
* `ShutInv`: which worker states and queue contents go with each stage of the life
  cycle; in particular the sentinel is the last item and only while closing, so a
  worker that ended leaves an empty queue.

`WaitInv` adds that whoever waits in `join()`, or in a draining `close()`, waits while
the worker lives and the count is above 0; with `Counted` that is a write in hand or an
item to take. It needs that the worker only stops at the sentinel, which `close()` puts
after its own `join()` returned.

For each action there is one lemma for the type part and one for the rest. `Keeps` is
the frame the latter share: rows, dead letters and losses grow, pending writes stay
pending or settle.

*The rows* (`AsyncRepositoryRowsProofs`). To be a step of `AuditLog` a step must not
touch what is settled, which nothing in `IInv` says: a row might be queued twice and its
second copy inserted after the first was given up. `RowsInv` excludes that: a write of
ask *a* still `Ahead` of its handler was not accepted and has no row, so accepting it is
its first time; an accepted one bears the conversation its ask keeps; no row is queued
twice or queued while the worker writes it. Each action is then one of four effects on
the rows (`Static`, `OwnWrite` of a handler, `WorkerWrite`, `Losing` in a crash), and
each effect is a step of the log, or leaves it alone (`FatesInv`: a row is at most one
of pending, kept, gone).

*The order* (`AsyncRepositoryOrderProofs`). The three properties hold while nothing
overflowed, and only because of the order in which writes stand in the queue. The invariant
`OrderInv` says that the handler that enqueues has the loop to itself (`LoopInv`), that
nobody verifies a conversation its process knows but the database does not hold yet
(`NameInv`; the reply would create it a second time, ahead of the queue), that no handler
executes writes itself (`FallbackInv`), and of the queue (`QueueInv`): the write at its
front is `Ready`, what it refers to being stored or given up, an answer's question the
newest message; a write behind another one is its successor in the same turn or may begin a
turn; and what a handler is about to enqueue may begin a turn or follows its predecessor at
the end of the queue. `FreshInv` (a queued row is not stored; one in hand only if its reply
was lost) is needed because a retry that meets its own row must be blamed on the lost reply.
Serving the front then keeps `AdjacentInv` and `BlameInv`. A crash empties the queue but
leaves what is stored or given up, which is all that `Ready` is about.

**RecommendationCache.** `TypeInv` relates the locks to the asks (whoever fetches holds
the lock of its key, whoever holds one fetches). `AskEffects` sums up what a step of an
ask can do to the values: store its own reply, take the service's, or resume with a
value from a live entry, its reply, or the service. The theorems about data then need
one invariant each: `CacheRev` and `AskRev` (everything stored under revision *r* was
made with *r* or later, and revisions only grow), `CacheAge` and `ReplyAge` (an entry
expires at most a time to live and a latency after the service's reading),
`NothingLive` (nothing live is stored where somebody fetches; the second look
establishes it, the lock preserves it), `Ordered` (the profile in the cache is no older
than what anybody was told, and no newer than what is on its way there; with two
processes, or a cache that raises, the latter fails, and `MonotonicReads` with it),
`SharedFresh` (what is stored under a key of venues may be shared).

**Dialogue.** The invariant `IInv` says of each ask that its plan is the plan for its
request and what it read (`PlanInv`; the rows it read stay the same while the
conversation grows, `KnownKept`), that the LLM is called with an active profile and
candidates, and that an answer waiting to be stored is one of the guardrails' or is made
of a verified text or the fallback (`AnswerInv`). `Frame` reduces a step to the ask that
takes it. The tables of the classifier stay closed: only which intents it can return,
and that a follow-up of venues comes first, is used. `HintsReachLatest` says that the
hints hold everything the newest answers with drinks and with results showed; "newest" is
the greatest element of a set of row numbers, which exists because `<` is well-founded on
the naturals (`Greatest`). The proofs also showed where the properties need care:
candidates without any name leave nothing to compare a recommendation with, and results
without ids cannot be told from those shown, so the properties speak of those with one.

**Conversations.** Offsets are related to rows through the number of rows before a row:
`Position` is a bijection from the rows of a conversation to `0..n-1`, which later commits
only move upwards. The walk's invariant is that every row of its floor whose position is
below the token was shown; a row shown twice has been moved over the token by a row that was
committed after the walk began. The events need the row of each event and of each report's
answer to stay, which they do because rows are never deleted. For `DoubleAgrees`,
`PagesAgree` shows that as long as rows arrive in the order the SQL sorts them, the position
of a row is its index in the list; the pages and tokens are then the same for every offset
and size up to the server's maximum. `SameEvents` carries the agreement about feedback.

**Migrations.** The inductive invariant adds to the properties what a runner carries
(`CarryInv`: its work and rows are those of the files it passed), that the schema is the
beginning of a release's files (`SchemaInv`), that the runner inside the transaction read
the current rows (`Fresh`, by the lock), and which files a loop has behind it (`LoopInv`).

Only model-checked are the five liveness properties `CallsEnd`, `TurnsSettle`,
`ShutdownEnds`, `AsksEnd` and `RunsEnd`: they rest on weak fairness, that is on ENABLED,
which the prover does not reason about. Proofs assume no bounds, and in particular no
overflow-free queue: `TurnsWhole`, `TurnsAdjacent` and `FailuresBlamed` state the absence of an
overflow themselves, as it is what they depend on (see the first finding).

## 6. Findings

* **A full queue loses writes of a healthy database** (`repo_full`). On `QueueFull` the
  write is executed at once, ahead of the queued create of its own conversation. The
  foreign key rejects it, the attempts pass without waiting for the queue, and the row
  is given up; the dead letter holds the operation's name, not its content.
  `docs/plans/016-production-storage-hardening.md:5-6` states the aim as "preventing
  silent loss when the bounded async write queue is full".
* **A new profile revision does not bypass the cache** (`cache_revision`). The keys of
  recommendations name the revision, but the revision comes from a profile status
  cached for 300 s under the user id alone. `docs/chatbot/scaling-and-cache-plan.md:102-104`
  says cached values are invalidated or bypassed when the profile revision changes.
  What does hold is proved: the answer is never older than the profile status it shows,
  and that status never older than its time to live and the fetch's latency.

* **Follow-ups of a long conversation use its beginning** (`dialogue_window`). The context
  is read with `get_messages(page_size=25, page_token="")`, and rows come oldest first: from
  the thirteenth turn on the newest answers are out of reach, and "somewhere near" goes on
  with a drink of the first ones. `docs/chatbot/scaling-and-cache-plan.md:143` says "Fetch
  only the recent N messages when multi-turn context is explicitly needed." Within the page
  the property is proved (`SelectionIsLatestHolds`).

* **Repeated places are not noticed** (read off the code, without a run of its own).
  `docs/plans/018-diversity-exhaustion-hardening.md:5-7` wants to "Prevent repetitive
  follow-up answers when the user asks for alternative recommendations (e.g., "다른 술
  추천해줘" / "다른 장소 추천해줘")", and `:42-43` names regression tests for
  "repeated-beverage and repeated-venue diversity fallback". `_build_venue_context` sends
  no excluded results and does not compare the reply with what was shown
  (`context_builder.py:239-260`), so the guardrails' answer for
  `venue_recommendation_candidates_exhausted` is never given. In `Dialogue` two turns
  show it: a venue search, then "another place", with the same reply. That is why
  `FollowUpsAreFresh` speaks of drinks only.

Also visible in the models, without a promise to set against it: an append whose reply
was lost is retried, meets its own primary key and ends as a dead letter although the
row is kept; a trace in the same situation is stored twice; processes that share the
cache can overwrite a newer response with an older one, within the bounds above
(`MonotonicReads` is therefore checked and proved for one process only); a drink the history shows
overrides `client_context.selected_beverage_id`, which is looked at after the request's own
field; after a venue answer "something else to drink"
leaves out only what the newest answers with drinks and results showed; a number passes the
verifier if its digits occur anywhere in the facts ("500" in 15000), and `AnswersGrounded`,
which compares in the same way, does not exclude it; a refusal after a venue search hides
it from "another place", as only the newest answer's intent is looked at; the in-memory
repository keeps the last metadata of a repeated report, PostgreSQL the first; two writers
can make a walk show a row twice; a runner that races another for the first CREATE TABLE may
fail and has to be started again; exceptions of the LLM call other than
`LLMGenerationError` end the ask without an answer or a row.

## 7. Not modelled, and why

The prompt context cache: its key is a hash of everything the cached string is made of, so
it cannot be stale. The wording of answers, prompts, log lines and metrics; the words of
the keyword tables beyond the selection of section 3.4. Protobuf fields that are only
copied, configuration parsing, authentication metadata, generated code: stateless, field by
field. The lazily built pool and the ID tokens: a second build changes no row and no reply. Operator scripts for staging and the evaluation tools: sequential
programs outside the service. Load over time: memory growth of `_locks` and
`dead_letters`, an unbounded stream of calls.
