# Zeython in TLA+

Zeython (`src/src/zeython`, about 13,000 lines of Python on Starlette,
SQLAlchemy and optionally Redis) is an asyncio web framework: an application
object with a container and providers, and on top of it queues, rate limiters,
WebSocket hubs, sessions with the database and a family of middlewares. Much
of it is sequential code that handles one request from top to bottom. The
modules here are about the other part: the code whose correctness depends on
what other tasks, workers, processes, requests and the clock do between two of
its steps, and about the few sequential algorithms (cron matching, route
matching, the choice of a locale, the container's resolution) whose answers
depend on the order of what came before.

Line numbers below are those of the commit in `src/`; `queue.py` is short for
`src/src/zeython/queue.py`.

## 1. The parts of the system

| part | state it keeps | operations | shares with others |
|---|---|---|---|
| `RedisQueue` (queue.py:272-411, `queue work` in cli/main.py:473) | three Redis keys: list `pending`, sorted set `delayed`, list `failed`; one job in the worker's hands | `push`, `run_worker` (poll delayed, `BRPOP`, process), retry, bury | any number of worker processes on the same keys |
| `InMemoryQueue` (queue.py:118-207) | `asyncio.Queue`, its unfinished count, the worker task, the set of delayed tasks | `push`, worker loop, `join`, `close` | tasks of one event loop |
| `SyncQueue` (queue.py:209-224) | none | `push` runs the job | the caller's transaction |
| batches (queue.py:478-710) | four counters or keys per batch | `create`, `record_completion`, `get_then`, `progress` | members on several workers |
| chains (queue.py:413-476) | none: the rest of the chain travels in the job | `_ChainedJob.handle` | the queue, the job's database session |
| database sessions (db/session.py) | a ContextVar with the session, savepoints, the transaction | `session()`, `transaction()`, `DatabaseSessionMiddleware` | jobs run inline, Starlette's exception handling |
| models (db/model.py) | rows, a session's instances | queries, `create`, `save`, `update`, `delete`, `restore`, `search`, hooks | the session's flushes, observers, concurrent transactions |
| audit log (audit_log.py) | a pending diff per instance, the changelog | `AuditObserver`'s hooks, `audit_trail` | models, the same transaction |
| search indexes (search.py), tenancy (tenancy.py) | an index beside the table; a ContextVar | triggers, a generated column; `as_tenant` | every write to the table |
| admin pages (admin.py) | the forms in people's browsers | edit, update, create, delete | rows, rules, the request's commit |
| multi-factor authentication (mfa.py) | secret, recovery codes, a challenge in the session | `enroll`, `confirm`, `disable`, `verify_and_consume` | concurrent requests |
| sessions, CSRF, OAuth (auth.py, csrf.py, oauth.py) | nothing: all of it is in cookies | login, logout, redirect, callback | the tabs of a browser |
| SAML (saml.py) | the replay cache, a lock per assertion | `handle_acs` | callbacks, processes |
| authorization, API tokens (authorization.py, api_auth.py) | gates, policies, tokens | `authorize`, `Gate.allows` | roles, records and users that change |
| idempotency (idempotency.py) | a lock per key, cached responses | `__call__`, `_process` | requests of one process, the cache |
| cache (cache.py) | entries with deadlines | `get`, `put`, `remember`, `forget`, `flush` | concurrent callers, requests that write and are committed later |
| rate limiters (rate_limit.py) | a log of hits per key, or a Redis counter with an expiry | `hit`, `throttle`, two middlewares | concurrent requests, processes, the clock, ETags |
| scheduler (schedule.py) | task list; a lock through the rate limiter | cron matching, `run_due` | several `schedule run` processes |
| events, notifications, mail, webhooks | listener table, subscriptions, a delivery log | `dispatch`, `notify`, `send`, `deliver` | the request's session, the queue |
| WebSocket hub (websockets.py:48-150) | set of connections, connections by address | `connect`, `disconnect`, `broadcast` | handlers, broadcasting tasks |
| WebSocket hub over Redis (websockets.py:153-279) | the above, a listener task, an Event, a subscription | the above, `stop`, `_listen` | processes on one Redis channel |
| application (application.py) | providers booted so far, list of middleware, the built ASGI app | `boot`, `add_middleware`, `asgi`, `__call__` | the first requests |
| middleware layers (request_id.py, audit_log.py, db/session.py, profiler.py, tenancy.py, localization.py, n_plus_one.py, tracing.py, metrics.py, maintenance.py) | a ContextVar per layer and task; a gauge and a counter | `__call__` | requests in one task, jobs, the exception handler |
| maintenance mode (maintenance.py) | a file; the visitors' bypass cookie | `enable`, `disable`, middleware | console and server processes |
| metrics (metrics.py) | a registry by name, the samples of each metric | `counter`, `gauge`, `histogram`, `inc`, `dec`, `set`, `observe`, `/metrics` | handlers, scrapes |
| starter application (cli/templates/starter) | the users table, the cached list of posts | `register`, `oauth_callback`, `index`, `store`, `destroy` | models, queue, events, the cookie |
| container (container.py) | bindings, instances, the chain of what is being resolved | `bind`, `instance`, `make`, `call` | providers, jobs' `handle()` |
| routing, OpenAPI (routing.py, openapi.py) | the list of routes, the open version block | registration, `version`, `include`, the build | providers, the first request |
| localization (localization.py) | the translations read so far | the choice of a locale, `t` | files that are deployed |
| file storage (storage.py) | files | `store_upload`, `put`, `delete`, signed downloads | tasks, threads, cancellation |
| project loader, MCP server (cli/loader.py, mcp/) | `sys.path`, `sys.modules`, the metadata | `load_app`, package scans | projects one process is asked about |
| ETag, gzip, security headers, validation | none between requests | | the responses |
| configuration, plugins, feature flags, logging, health, factories, GraphQL, views, AI, CLI, scaffolding, testing | see section 7 | | |

What makes each of the modelled parts correct:

* queues: no job is duplicated, run too often, run too early, or lost except by
  the death of the process that holds it; every job is settled in the end;
* batches: `then` is pushed once, after all members, and is pushed;
* chains: links run one after the other, and not after a failure;
* sessions: what becomes visible is what the handler's text says;
* models and audit log: a row's changelog tells how the row is, what is saved is
  valid, and what is decided from a locked row is decided from its present state;
* reads: they find the rows that are there, of the tenant whose block they are
  in, through an index or not;
* listings: a walk along the pages meets every row, once;
* accounts: one for each address, and who was welcomed or logged in has one;
* metrics: the samples tell what was recorded, whoever asked first;
* second factors: no code is accepted twice, nobody who is enabled is locked out;
* browsers: what they were told is over is over; an assertion that was accepted
  is not accepted again; what the Gate decides was true when it was asked;
* admin: a page that is out of date does no more than it shows, and nothing for
  who has lost access;
* application and layers: each provider adds its layer once, outermost last;
  whatever is raised on the way, every ContextVar is given back, and what the
  crash report and the metrics say of a request is about that request;
* idempotency: one run per key while nothing fails, and an answer for everyone;
* hubs: slots are accounted exactly, everyone reachable is reached once and in
  order, and nobody waits for ever;
* limiters: the documented bound holds for every window of time;
* cache: a stale value is kept only where a request that wrote and a computation overlapped;
* schedule: each event runs in its minutes, and not within the window of its
  last run; webhooks: a success that is logged was the last attempt;
* container, loader, routes: what is built, loaded or served is what was bound,
  asked for or registered, whatever else was before.

The hard behaviours, one by one with their lines, are the `hazards` of
`PROJECT.json`.

## 2. The modules

| module | models | relation to others |
|---|---|---|
| `JobDelivery` | what any queue promises: the life of one push | |
| `RedisQueue` | `RedisQueue`, `queue work` | implements `JobDelivery` |
| `InMemoryQueue` | `InMemoryQueue` | implements `JobDelivery` |
| `JobBatch` | `dispatch_batch` with the in-process tracker, also on `SyncQueue` | |
| `RedisBatch` | `dispatch_batch` with `RedisBatchTracker` | implements `JobBatch` |
| `JobChain` | `chain` on either driver | |
| `UnitOfWork` | sessions, `transaction()`, the middleware, inline jobs | |
| `AuditedModel` | `Model`, `AuditObserver`, and the SQLAlchemy session between them | |
| `Queries` | the scopes of a Model's reads, `search()` and its indexes, `as_tenant` | |
| `Pagination` | `Model.paginate()`, `Page`, and a client that follows `next_url` | |
| `Accounts` | the starter application's `register` and `oauth_callback` | |
| `Admin` | the edit, create and delete pages and their requests | |
| `MultiFactor` | `MfaManager` on one user's row | |
| `SessionLogin` | the cookies of a browser: login, challenge, OAuth state, CSRF | |
| `SamlReplay` | the replay protection of `handle_acs()` | |
| `Access` | `authorize()`, `Gate.allows()`, `require_api_auth()` | |
| `Outbound` | what an event sets off: listeners, mails, channels, webhooks | |
| `WebhookDelivery` | `DeliverWebhookJob` | |
| `Cache` | `remember()`, `forget()`, `flush()` on either driver, in the requests of `PostController` | |
| `Schedule` | cron matching, `run_due()`, `without_overlapping()` | |
| `RequestStack` | `Application`, the providers' middleware, maintenance mode, the crash report, ContextVars of requests and of the job worker | |
| `Metrics` | `MetricsRegistry`, counters, gauges, histograms, the scrape | |
| `Responses` | `RateLimitMiddleware`, `RateLimitHeadersMiddleware`, `throttle()`, `ETagMiddleware` | |
| `RateLimit` | `InMemoryRateLimiter.hit` | |
| `RedisRateLimit` | `RedisRateLimiter.hit` | |
| `Idempotency` | `IdempotencyMiddleware` | |
| `WebSocketHub` | the in-process hub | |
| `RedisWebSocketHub` | the hub over Redis | |
| `Storage` | `LocalStorage`, `S3Storage`, signed downloads | |
| `Container` | `Container.make` and `call` | |
| `Loader` | `load_app()`, package scans | |
| `Routing` | `Router`, versions, Starlette's matching, OpenAPI, the metrics' label | |
| `Localization` | `LocaleMiddleware`, `Translator` | |
| `WebSocketHub_proofs`, `AuditedModel_proofs` | theorems and lemmas about the modules they are named after | extend them |
| `Queue_proofs`, `EventLoop_proofs`, `RedisWebSocketHub_proofs`, `Database_proofs`, `Requests_proofs`, `Assembly_proofs` | theorems about the parts of `MCQueue`, `MCEventLoop`, `MCWebSocketHubs`, `MCDatabase` and (the last two) `MCRequests` | extend those |
| `MC...` | small instances for TLC | |

Five modules put several components side by side, so that one run looks at all
of them: `MCQueue` (jobs on `RedisQueue`, batches over either tracker, chains),
`MCEventLoop` (`Idempotency` and `InMemoryQueue`), `MCWebSocketHubs` (the two
hubs), `MCRequests` (thirteen parts of what a process does around a handler) and
`MCDatabase` (eleven parts of what is stored, and of the work that is done on it).
A behaviour first chooses one part and then takes only its steps; the others
keep an initial state. What the parts are bounded by are `CONSTANTS`, with their
assumptions, so that what is proved of them holds for every value. Each finding has a configuration of one of these modules
to itself, with one property. The fairness and the properties are those of the
component modules, conjoined where they belong together. Every conjunct was seen
to be able to fail: the operators called a mutant in the component modules are
the bugs that break them, and `PROJECT.json` names one for each property.

### How state and actions correspond to the code

**RedisQueue.** A worker is a process. `pc[w]` is the place in `run_worker` and
`_process` between two awaits; `ready[w]` is the answer of `ZRANGEBYSCORE` that
`_reclaim_delayed` is still walking; `held[w]` the entry in a local variable
(after `ZREM` or `BRPOP`, until `LPUSH`, `ZADD` or the end). Every Redis command
is a step of its own, Redis runs one at a time, and between any two of them the
other workers, `push`, the clock, a crash or a shutdown may take a step.
Time is abstracted to the set `due` of delayed entries whose score has passed
(`Elapse`). `Crash` ends the process anywhere, `RequestShutdown` sets the
stop event, and `Restart` is the operator's new `queue work`. A job outside
`Loadable` cannot be imported by `_deserialize_job`. `max_attempts` is taken to
be at least one; redis-py's own retries are not modelled.

**InMemoryQueue.** `task[t]` is the place of worker task `t`; there can be more
than one, because `push` starts a new one when the last is done, and `close`
suspends between cancelling a task and forgetting it. `sleeping` are the delayed
pushes, `tracked` those in `_delayed_tasks`. `cancelled` are the tasks with a
pending cancellation, which arrives at their next step. `Interrupt` is a
`BaseException` out of `handle()`.

**JobBatch / RedisBatch.** A member goes from `queued` to `running`, records its
completion, pushes `then` if it was last, and finishes. In `JobBatch`
`record_completion` is one step, under the lock. In `RedisBatch` it is the
commands `DECR`, `INCR` or `GET`, `EXPIRE`, `EXPIRE`, then `GET` of `then`. `lasting`
says whether keys can expire in this behaviour; if so, `Tick` moves the clock and
each key expires by itself, so that a later `INCR` creates it anew.

**JobChain.** `Dispatch` is `chain()`. An instance is one push of a link.
`handled` is the moment between the wrapped job's return and the push of the
next link, `pushed` the moment between that push and the commit of the session
`_invoke` has opened.

**UnitOfWork.** `code[r]` is the stack of blocks the handler is inside of, and
`levels` what each open session and savepoint holds; `visible` are the committed
rows. `due` is computed from the handler's text alone: what it should have
made visible.

**AuditedModel.** Each session belongs to one handler. `object[s][r]` is the
instance that session `s` has of row `r`: its one audited column `value`, the
value `base` the session believes is stored (SQLAlchemy's attribute history is
the difference of the two), and the soft-delete flag. `levels[s]` is the stack
of the transaction and its savepoints, each with what the session would commit
if it ended there: the rows written, the changelog entries and the row locks, those of
the blocks around it included, as `ROLLBACK TO SAVEPOINT` is a return to the level below. `rows` and `trail` are what is committed. The code's
own steps are few: `Save` or `Restore` (is the record new?), `Prepare` (diff,
validation, `session.add`), `Flush`, `Record` (the observer's entry), with
`Delete` going to `Flush` at once. Between any two of them the session may be flushed by
something else (`Autoflush`: `session_factory`, db/session.py:65, does not turn it
off), an exception may leave a `transaction()` block or the request
(`AbortTransaction`, `Rollback`), and other sessions may read, lock and commit.
`Assign` during `saving` is a model's own `saving()`, `creating()` or
`updating()`. `stray` and `neglected` are history for the properties: rows written
other than by their own `save()`, and rows assigned to that were never saved.
Left out: assignments in hooks after the write (`updated()`,
`saved()`), in observers, and to an instance that a rollback has expired.

**RequestStack.** `middleware` is the list `_build_asgi()` wraps the router in,
outermost first, built by `Boot` out of the providers that have booted; a boot
may raise, and the next request goes on with the provider that did. A request is
in a layer (`at`) on its way down, in the handler, on its way `up` or with an
exception, which each layer passes on. Every layer that binds a ContextVar is
the same pair of steps, `EnterContext` and `LeaveContext`, named after its
module; `context[t]` is the context of an asyncio task, which one request after
the other may use. `Stash` is what two of the layers leave on an exception for
the report that Starlette's outermost layer makes when their ContextVars are
gone. `Waits` says where the event loop can turn to another task, `Idle` that
all others stand at such a place. The worker of `InMemoryQueue` starts with a
copy of the context of the request that pushed first.

**Idempotency.** The requests share one key. `owner` and `waiters` are the
`asyncio.Lock`, with its queue and its wake-up order; `lockOf` is the entry of
the dict, which every request pops when it leaves.

**WebSocketHub / RedisWebSocketHub.** Handlers follow the loop the docs
prescribe. A broadcast walks its snapshot of the connections and suspends at each
send. In `RedisWebSocketHub` each process has at most one listener at a time,
with an Event per listener; Redis has received a `SUBSCRIBE` only after
`RedisSubscribes`. The awaits of `_listen`'s finally block are one step, and a
cancellation that hits `accept()` is the client vanishing during it.

**RateLimit / RedisRateLimit.** Time is a small integer. The in-memory `hit` has
no await and is one action, with the pruning, the append and the eviction;
`RedisRateLimiter.hit` is `INCR`, `EXPIRE` on the first hit, and `TTL` when over the
limit, one step each, with a caller that may die in between. `Second` ticks make
a second, to model `int(window)`. `limit` is taken to be positive.

**Queries.** `context[t]` is the tenancy ContextVar of a task, `resets[t]` what its
open `as_tenant` blocks put back, and `blocks[t]` the blocks as they are written
around its code, which is what a reader of the code expects of it. `hits` is the
index: over SQLite the triggers keep it once `CreateIndex` has run, over Postgres
a generated column does. `found` is the last read, which the property compares
with the rows there are.

**Pagination.** `table` are the matching rows in the order the database reads them:
without `ORDER BY` SQLite goes by id, so that a new row comes last, and Postgres by
where it has put a row, so that an update moves it. A page is `Count` and then
`Select`, two statements; `shifted` notes that a row has left its place.

**Accounts.** A request is in a session of its own. `Stored` is `User.saving()`, which
writes an address in lower case; the unique index makes `Save` wait for another
uncommitted insert of the address and refuse it for a committed row, deleted or
not. `React` stands for the event and the notification, after which the session may
have lost its transaction (`healthy`; the details are `Outbound`'s). `lost` notes
those whose row went when they had been told of it.

**Admin.** A page is a form with the texts of a row at the time it was opened;
`FillIn` edits it, and `Find`, `Save`, `Commit` are the request that submits it: it
parses and assigns, checks the rules, and answers, and the middleware commits
what the session then holds for every status below 400. `Regard` is the guard that
lets an admin in or does not any more.

**MultiFactor.** Each request has the user's row as it loaded it (`user`, `loaded`)
and writes the columns that differ. `claimed` is the row lock of
`find(for_update=True)`, as Postgres and MySQL have it: over SQLite the code takes none
and does not promise it (mfa.py:175-178). A TOTP code is the secret it was made from.

**SessionLogin.** The server keeps nothing: a request carries the cookie, its
response replaces it, and `Receive` lets the responses of two tabs arrive in any
order. `over` is what a received response has said is over; `shared` and `split`
note which requests were under way together, where last-write-wins is all that a
cookie can give.

**SamlReplay.** As in `Idempotency`, the lock is found or made under the assertion's
key, and whoever leaves removes it; the replay cache is shared by the processes.

**Access.** A handler reads the user and the record (`Begin`), and `authorize()`
decides on what was read (`Authorize`), while roles, owners and users change.
`times` notes how they were in between. A gate is a choice of hooks, closure and
policy.

**Outbound.** One event's listeners run in order in the request's session; a call
works or fails, and a failed flush leaves the session without a transaction
(`healthy`) unless a savepoint held it. **WebhookDelivery** is what a queue makes
of one delivery: an attempt in a session of its own, the POST and the row of the
log, the commit that may fail after the receiver has answered, and the retries.

**Cache.** The source of a key is the set of the requests whose writes to it are
committed, a value that set as a callback has read it. `remember()` is `Get`,
`Callback`, `Put`. A request that writes is what the generated `PostController`
does in `store()` and `destroy()`: `Write` flushes in the request's session, where
nobody else sees it, `Forget` removes the key, and `Commit`, which
`DatabaseSessionMiddleware` makes after the response, lets others see the write;
anything before it may raise (`Rollback`). `Flush` takes the keys one after the
other. `beside` and `late` are history for the properties.

**Schedule.** Minutes count from midnight on 2026-01-01. `zeython schedule run` is a
process per minute that reads the clock when it gets to it, runs what is due and
may overlap with its successors or die. The list of events to run is the set of their
places among those registered (`due`), of which the least is next. Expressions are well
formed: `cron_matches()` raises for one that is not. `CronMatches` is the matching: with
both a day and a weekday given either will do. An event's window is the
limiter's key. A `hit()` may raise (`HitFails`), which ends the event and not the run, or die
with its process, and leave the key as it was, renewed, or without an expiry
(`CutShort`), which rate_limit.py:138-142 accepts: the event is then skipped for ever.

**Metrics.** No method awaits, so `Record` is the whole of
`registry.counter(name, ...).inc(...)` and its likes: find or make the metric, check
its kind, make the key, change the sample. `NotFinite` is `inf` or NaN. A histogram's
`"+Inf"` bucket is its count.

**Responses.** The order of the two rate-limit layers and of `ETagMiddleware` is
that of registration (`outermost`). `sent` are the ASGI messages that have left the
application.

**Storage.** `thread[t]` is what a `to_thread()` has still to do: it opens, and so
empties, a file before it writes it, and it goes on when its task is cancelled.
S3's commands are one step.

**Container.** The stack is that of `make()` and `call()`, one frame per call in
progress; `signal` is what a call returns or raises to the frame below.
`hints` are the parameters of the classes' constructors.

**Loader.** `module` is `sys.modules`: whose module is cached under a name;
`path` is `sys.path`. `LoadApp` is the whole of `load_app()` with the imports that
main.py makes; one that raises (`LoadAppRaises`) leaves what it had imported by then.

**Routing.** Routes are registered on the app's router, in a version's block or on
an included router; `Build` is the copy that the first request makes. `Answer` is
Starlette's matching in order, with its partial matches and mounts. `late` notes
what was registered when it could no longer be served.

**Localization.** `files` are the editions on disk, `cache` what the Translator has
read; the locale is chosen per request by what is on disk.

## 3. The runs

All bounds are in the `.cfg` files and in the guards of the actions that count.
States are distinct states.

| run | question | bounds | states |
|---|---|---|---|
| `Queue` | Is a push ever copied, run too often, too early, lost or stuck, with racing workers that die? Is a batch's `then` pushed once, after all, and at last? Do links run in order and stop at a failure? | 2 jobs (one with a retry, one that cannot be imported), 2 workers, 2 crashes or shutdowns; 2 members (one with a retry), 1 loss, 3 ticks with a ttl of 2; chain of 3 links, 2 attempts, 1 fault, 5 pushes | 113 k |
| `RedisQueueLoss` | Is every popped job on some list afterwards? (no) | as `Queue`, no faults | |
| `EventLoop` | Does `join` return in time and not early, and does `close` lose anything it should not? How often does an operation with one key run, and is everyone answered? | 2 jobs, 3 worker tasks, 2 `close`, 1 `BaseException`; 4 requests (one with another body), 2 failures, 1 expiry | 217 k |
| `JobChainEarly` | Does a link see the committed work of the one before? (no) | as `Queue`, with 2 links, no fault, 3 pushes | |
| `IdempotencyParallel` | Is it never run twice in parallel? (no) | as `EventLoop`, with 3 requests, 1 failure, no expiry | |
| `WebSocketHubs` | Slots, reach, order, waiting | 3 clients, 2 processes, 2 broadcasts in the one hub and 2 messages over the other, 1 fault, 1 stop, 1 cancellation | 183 k |
| `Requests` | What a process assembles and what a request meets in it: see below | see below | 808 k |
| `Database` | What is stored, and the work done on it: see below | see below | 510 k |
| `DatabaseTrail` | Is every `save()` recorded? (no) | as `Database` | |
| `RequestsJobs` | Does a job run outside every request's context? (no) | as `Requests` | |
| `CacheStale` | Is what `remember()` keeps never stale past a create? (no) | as `Database` | |
| `AdminRules` | Is what a rule refuses not saved? (no) | as `Database` | |

The parts of `Requests`:

| part | property | bounds |
|---|---|---|
| layers (`RequestStack`) | `RefusedFirst`, `PassageHolds` | 2 requests over 2 tasks, 6 layers, 1 boot that raises, 1 maintenance or 1 job |
| metrics | `AssemblyIsSound` | 1 name, labelled or not, 2 sets of bounds, 3 amounts (one not finite), 3 calls |
| limiters | `LimitsHold` | Redis: limit 2, a window of 2 seconds of 2 ticks, 5 ticks, 3 callers, 1 crash; memory: 3 keys with limits 1 and 2, 2 of them tracked, 6 ticks, 5 hits |
| browser, SAML | `LoginsAreSound` | 2 tabs, 2 users, 2 things issued; 4 callbacks, 2 processes, 1 fault |
| decisions (`Access`) | `DecidedOnThen` | 1 request, 2 users, 3 gates, 2 changes, 2 ticks |
| responses, languages | `RepliesAreSound` | 2 requests, limits 1, 1 write, either order of layers; 3 locales, 3 headers, 1 deployment |
| files | `UploadsAreWhole` | 3 tasks, 2 backends, links that expire |
| container, loader, routes | `AssemblyIsSound` | 2 classes with a parameter each, 1 string, 2 `bind()`; 3 projects; 2 versions, 1 included router, 2 routes, 4 paths |

The parts of `Database`:

| part | property | bounds |
|---|---|---|
| rows and audit (`AuditedModel`) | `TrailTellsRows`, `SavedAreValid`, `ClaimedIsCurrent` | 2 sessions, 1 old and 1 new row, 2 valid values and 1 invalid, 4 calls (a savepoint is one) |
| blocks (`UnitOfWork`) | `WorkIsKept` | 1 session, 3 writes, 4 nested blocks, 1 failing commit |
| accounts | `AccountsHold` | 3 requests, 2 spellings of one address, deletions |
| second factor | `AccountsHold` | 4 requests, 2 secrets, 1 batch of two recovery codes |
| admin | `StalePagesAreHarmless` | 2 admins who may lose access, 1 row with a ruled column and a NOT NULL moment |
| reads | `FindsWhatIsThere` | 1 task, 2 rows, 2 tenants, 2 words, 2 nested blocks, 2 writes, both dialects |
| pages | `FindsWhatIsThere` | up to 4 rows, 1 to 3 on a page, 2 writes |
| events | `ReactionsApart` | 3 listeners of 5 kinds |
| webhooks | `LoggedIsLast` | 1 delivery, 3 attempts |
| cache | `StaleOnlyByOverlap` | 1 key, 2 callers of `remember()`, 2 requests that write |
| schedule | `RunsWhatIsDue` | 3 minutes across the end of January, 4 events, 1 crash, any hit of the limiter may raise |

Two workers are what the races over one delayed entry take: the code compares
one worker's `ZREM` with any other's, and a third adds only another loser. The
third worker task of `InMemoryQueue` is the second one a `close()` can forget. Two
members are what it takes for a `DECR` to fall between another member's
commands; `ttl` 2 with 3 ticks lets a key expire, be created again, and be read.
Three links are needed for a link that is neither first nor last; five pushes
let two of them be pushed again. With four requests there can be an owner, a woken waiter,
a sleeping waiter and a newcomer. Six ticks let windows of up to three begin, end
and overlap. Two sessions are what a lost update takes. Four calls are an assignment and a
`save()` in each of two sessions, or two of each, the second after the first was
flushed, refused or rolled back; nested savepoints of one handler are
`UnitOfWork`'s matter. One request suffices in `UnitOfWork`, whose state is local to a
request (a ContextVar and a session of its own), and one task in `Queries`, whose
ContextVar is its own. Sessions are interchangeable (`SYMMETRY AnySession`, in a
run without liveness), and so are tasks, of which `TasksAreAlike` fixes the name
of one. `JobsOrMaintenance` keeps jobs and a maintenance, which share no state,
out of the same behaviour. The six layers are one of each
way a layer of this framework behaves: it binds always (`request_id`,
`profiler`), binds and may fail on its way out (`session`), may bind `None` or raise before it
binds (`tenancy`), counts (`metrics`), answers itself (`maintenance`).
Of the four requests on one second factor one enrolls, one confirms and two race
for one recovery code or spend two. The keys of a cache have nothing in common but the
order in which `flush()` takes them, so one is enough. Two classes make a circle, and a chain that a string ends.
Two processes of the schedule are alive at once when the first takes longer than
a minute; the end of a month on a weekend is where day and weekday disagree.

`CHECK_DEADLOCK FALSE` stands in the runs whose system may really stop: all
requests are answered, the batch or chain is over, the bounded clock has run out.

### Fairness

* `Queue`: of a worker process, that it takes its next step while it lives;
  delayed entries become due; a dead worker is started again, as a process
  manager does for `queue work`. `WorkersRun` asks this in behaviours of jobs
  only, as idle workers poll for ever. Of batches and chains: the caller goes on
  pushing, the queue runs what it was given. Crashes, shutdowns and losses are
  not fair, and the liveness properties of batches and chains assume none.
* `EventLoop`: the event loop runs every task that is ready,
  and handlers return. Nobody has to call `close()` or `join()`.
* `WebSocketHubs`: the loops run what is ready and Redis answers; `stop()`,
  failures and clients are not fair.
* `Requests`, `Database`: none, nothing is said of what must happen.

Weak fairness is enough everywhere: a task that is ready stays ready until it
runs, and asyncio's locks and queues serve in order, which the models have.

### What the properties say

The comment before each states it with its lines. The ones that say most:
`SingleCopy`, `NoEarlyRetry` (stale snapshots do no harm) and
`ImplementsJobDelivery` for the queues; `ImplementsJobBatch`: as long as no key
expires the answer of the `DECR` alone makes the Redis tracker as good as a lock;
`RunsGuarded`: each failure costs at most two more runs of the operation;
`JoinExact`, over every way a job ends; `WorkIsKept` (`VisibleAsWritten` and
`OwnSession`); `TrailTellsRows`: whatever was flushed early, refused, rolled back
or overtaken, the changelog of a row agrees with it unless something else than its
`save()` wrote it; `ClaimedIsCurrent`, the reason for `populate_existing`;
`ContextIsOwn` and `ReportIsOwn`: the handler of a request
finds its own facts, a task between two requests has none, and a crash is
reported under its own request's ID; `FewerThanTwice`: less than twice the limit in one window's
length, also with late `EXPIRE`s; `PublishingWorks`, with `connect()` that returns
unless `stop()` is called; `SpentIsGone` and `EnabledCanPass`: whichever requests
overlap, a recovery code grants one of them, and whoever is enabled holds a secret
that a committed `confirm()` has verified, unless two changes overlapped;
`OverIsOver`: what a response has ended
does not come back with another tab's cookie, unless the two were under way
together; `DecidedOnThen`: the decision is that of the documented rules on a
state that held between the request's begin and its answer; `WholeAndTrue`: one
start and one body, and a 304 only for what the handler has read; `ChainIsTrue`:
`_resolving` is the chain of calls, whatever was raised before;
`VersionsKeepApart`: no version hides, answers for or describes another's routes;
`BestAvailable`: the locale is the best that the client wants of those on disk;
`WalkMeetsAll`: unless a row left its place, a listing's pages hold each row once;
`OneAccountEach` and `WelcomedExist`, however sign-ups overlap; `SamplesTellCalls`: no
call on a metric is lost, counted twice or put under another label;
`StaleOnlyByOverlap`: a cached value lacks the committed writes only of requests that
were between their first write and their commit at some time of the `remember()`
that put it; `StalePagesAreHarmless`: a deleted row stays deleted, a row changes
only into what one page says as a whole, and nothing is begun, made or deleted for
an admin who is not let in; `LoggedIsLast`, `RunsWhatIsDue` as their names say.

## 4. Where code and documentation disagree

Seven of these have a run of their own, and are `findings`:

* a job that cannot be deserialized takes its worker down and is on no list
  (`NothingSilentlyLost`, queue.py:379 against :282-284);
* the next link is pushed before this one's session is committed
  (`NextAfterCommit`, queue.py:447 against :451-452);
* a waiter with the old lock and a newcomer with a new one run the operation in
  parallel after a failure (`NeverParallel`, idempotency.py:124 against :70-73);
* the generated `PostController` forgets the cached list before the post is
  committed, and a `remember()` between the two keeps the old list for the whole
  ttl (`FreshPastCreate`, post_controller.py:63 with db/session.py:226-227, against
  docs/caching.md:36-38): `StaleOnlyByOverlap` says what is kept of it;
* the worker of `InMemoryQueue` keeps the context of the request that pushed first,
  so every later job runs with that request's tenant and ID
  (`JobsOutsideRequests`, queue.py:183 against docs/multi-tenancy.md:84-85);
* a change that is flushed before `updating()` looks at the attribute history has
  no audit entry, although its `save()` was called (`SavesAreRecorded`,
  audit_log.py:180 against docs/audit-log.md:16-18): `TrailTellsRows` excepts
  such rows (`stray`);
* what the rule of an edit page has refused is written by the commit of the
  request that answers with the error (`RulesHold`, admin.py:396 with
  db/session.py:226, against docs/admin.md:64-66).

The models contain the steps behind the following ones too, and the properties
are worded so that they hold in their presence:

* the middleware rolls the whole request back for every status of 400 or more, also
  when the handler has caught the exception of a `transaction()` block
  (db/session.py:226), while docs/database.md:99-102 has a handler that answers 402
  record the failure: `VisibleAsWritten` goes by the status;
* `InMemoryQueue.close()` forgets a worker that a `push()` started while it waited
  (queue.py:175), and untracks, without cancelling, a delayed push made
  meanwhile (queue.py:173), which `join()` then does not wait for: `JoinWaits`
  is about queues never closed;
* on `SyncQueue` the first failing member ends `dispatch_batch()` before the later
  members are dispatched (queue.py:708): `ThenFires` of `JobBatch` names the case;
* `record_completion()` refreshes `pending` and `failed`, not `total` and `then`
  (queue.py:609-610), so a batch longer than its ttl loses its `then`, although
  docs/queues.md:306-308 has its bookkeeping refreshed: `lasting`;
* over Redis `then` can run before the failure of another member is counted
  (queue.py:599-601): the refinement takes `failed` from the outcomes;
* a link whose commit fails on its last attempt is given up, and the link it has
  pushed runs all the same (queue.py:447): `StopsAtFailure` assumes no fault;
* one message that is not JSON-serializable makes `broadcast()` drop every live
  connection (websockets.py:145): `OnlyGoneDropped` excepts it (`BadCasts`);
* two handshakes of one address pass the cap together (websockets.py:106);
* `stop()` before the listener's first step leaves `connect()` waiting for ever
  (websockets.py:234): `ConnectReturns` assumes no `stop()`;
* `connect()` returns before Redis has the subscription (websockets.py:260):
  `PublishedArrives` starts from the subscription;
* what is answered outside the layer that knows the request's ID carries none:
  the response to a crash and maintenance mode's own (request_id.py:53-61 says
  every response is stamped): `RefusedFirst` and `Finish` are those steps;
* a key of the in-memory limiter hit with two windows is pruned by the shorter
  one (rate_limit.py:82): the run gives each key one window;
* a window that is not a whole number of seconds is cut to one that is
  (rate_limit.py:143): the run's window is a multiple of `Second`.
* the row of a failed delivery is rolled back with the attempt that raised
  (webhooks.py:162; docs/webhooks.md:191-193 says each attempt is logged):
  `LoggedIsLast` is about successes, `AttemptsLogged` states the promise;
* one listener that raises ends the dispatch, and a flush that failed fails what
  comes after it (docs/events.md:131-133): `ReactionsFailIndependently` states
  the promise, `Isolated` what is kept of it;
* `load_app()` of a second project can answer with the first one's modules, and a
  second load lists no routes (cli/loader.py:77-83, mcp/server.py:40-46):
  `LoadedIsAsked` states the promise, `LoadsKeepApart` what is kept of it;
* `exists()` followed by a read races with `delete()`: 500 for 404
  (storage.py:352-354, `MissingIs404`);
* an edit page truncates moments to the minute, and saves the whole form over
  what others have changed since it was opened; an update that the database
  refuses is a 500 (docs/admin.md:66-68);
* `enroll()` of a user who is enabled replaces the secret (mfa.py:121-122):
  `disturbed`;
* `oauth_callback()` looks for the address as the provider spells it and among
  accounts that are not deleted, the unique index covers all of them in lower
  case, so such a sign-in is a 500 (auth_controller.py:144 with user.py:38):
  `TakenForAReason` names the cases;
* one float that is not finite makes every later scrape raise (metrics.py:57):
  `ScrapesFailForAReason`;
* two processes that share the replay cache may each accept an assertion once;
* of `cron` expressions, `*/n` is `value % n`, also in days and months; the example of
  docs/scheduling.md:21-30 registers its event twice;
* `include()` with an empty prefix mounts at "/" and hides every later route; a
  version router ignores its prefix for `include()` and `mount()`; two versions
  with the prefix "" and one path leave the second unreachable; what is
  registered after the build is described by OpenAPI and not served (`late`);
* `path` of docs/metrics.md is "unmatched" for routes of an included router, and the
  last path for one function on two;
* a locale that is asked for before its file is deployed stays without texts for
  the life of the process, and `es;q=0` is accepted;
* a 304 drops every other header; `throttle()`'s headers are missing on the 500 of
  an unhandled exception.

## 5. What is proved

Eight modules hold the theorems. Six of them extend an `MC...` module, and so are
about the specification that the runs check, with its conjoined properties, but for
every value of its constants. `PROJECT.json` lists the theorems; where it names a
`property`, that is the property a run checks.

| module | theorems | say of every behaviour |
|---|---|---|
| `Queue_proofs` | `TypeCorrect`, `NoDuplicate`, `AttemptsExact`, `RetryNotEarly`, `LossNeedsDeath`, `Refinement` | `TypeOK`, `SingleCopy`, `ExactAttempts`, `NoEarlyRetry`, `LossOnlyWithDeadWorker`, `ImplementsJobDelivery` |
| `Queue_proofs` | `WorkflowsTypeCorrect`, `AlwaysOnceAndInOrder`, `RedisBatchImplements` | `WorkflowsTypeOK`, `OnceAndInOrder`, `ImplementsJobBatch` |
| `EventLoop_proofs` | `LoopTypeCorrect`, `RunsAlwaysGuarded`, `JoinAlwaysExact`, `LivesAndLossesHold` | `BothTypeOK`, `RunsGuarded`, `JoinExact`, `LivesAndLosses` |
| `WebSocketHub_proofs` | `SlotsAlwaysExact`, `CapAlwaysHolds`, `EveryoneReached`, `OnlyTheGoneDropped` | the four parts of `LocalHubHolds` |
| `RedisWebSocketHub_proofs` | `BothTypeCorrect`, `LocalHubAlwaysHolds`, `AlwaysOnceInOrder` | `BothTypeOK`, `LocalHubHolds`, `OnceInOrder` |
| `Database_proofs` | `WorkIsAlwaysKept`, `AccountsAlwaysHold`, `AlwaysFindsWhatIsThere`, `ReactionsStayApart`, `AlwaysStaleOnlyByOverlap`, `AlwaysRunsWhatIsDue`, `NothingAfterSuccess`, `StalePagesStayHarmless` | `WorkIsKept`, `AccountsHold`, `FindsWhatIsThere`, `ReactionsApart`, `StaleOnlyByOverlap`, `RunsWhatIsDue`, `LoggedIsLast`, `StalePagesAreHarmless` |
| `AuditedModel_proofs` | `TrailAlwaysTells`, `SavedAlwaysValid`, `ClaimedStaysCurrent` | `TrailTellsRows`, `SavedAreValid`, `ClaimedIsCurrent` |
| `Requests_proofs` | `AlwaysDecidedOnThen`, `LoginsAreAlwaysSound`, `UploadsAreAlwaysWhole`, `LimitsAlwaysHold`, `PassageAlwaysHolds`, `AlwaysRefusedFirst` | `DecidedOnThen`, `LoginsAreSound`, `UploadsAreWhole`, `LimitsHold`, `PassageHolds`, `RefusedFirst` |
| `Assembly_proofs` | `AssemblyAlwaysSound`, `RepliesAreAlwaysSound` | `AssemblyIsSound`, `RepliesAreSound` |

The assumptions on the constants are the named `ASSUME`s of the modules. They are
what the code demands of its configuration (a positive `max_attempts`, `per_page` and
number of versions, a batch or chain that is not empty, because `dispatch_batch()`
and `chain()` raise a `ValueError` for none), what its functions return (`strip()` and
`lower()` change nothing they have returned), what only says that a bound of the model is a
number and a token such as `None` none of the values, or that a set is finite where
the proof counts its members: requests, connections, worker tasks, members of a batch,
the rows of a listing and those that are there at first. Some things more are assumed:

* limits and windows are positive: for a limit of 0 "fewer than twice" would be fewer than none,
  and `InMemoryRateLimiter.hit()` raises an `IndexError`;
* whoever limits a key does it with one limit and one window, as a `throttle()` or a middleware
  that has the key as its prefix does;
* each provider adds one layer of its own, those of the request ID, the profiler and the metrics are
  among them, and maintenance mode's is last if there is one, as `MaintenanceModeServiceProvider` asks for;
* the languages that `LocaleMiddleware` falls back to are among those there may be, and the
  qualities of a header are numbers;
* names differ from the model's own tokens: no abstract is named as the frame of `call()` is, no project
  as nobody, no version as the other routers, no prefix as what stands for a `with` block to come or
  over, and what stands for an amount that is not finite is no integer;
* minutes are those of the two months whose calendar the model has, and windows are natural numbers
  (`DueAt`, which `RunsWhatIsDue` compares the processes with, names for each minute the events whose
  expressions match it: TLC compares crontab(5)'s answer for the run's minutes with `CronMatches`);
* amounts and bounds of a metric are integers, and paths are sequences of strings.

Everything else is arbitrary: how many workers, jobs, sessions, rows, values, keys, how deep blocks nest.

### Queues

Of `RedisQueue`, `Queue_proofs` has the invariant `IInv`, proved inductive in `InitIInv` and `NextIInv`:

* `TypeOK` and `SingleCopy`: an entry in the delayed set is in no list, so the
  winner of the `ZREM` holds the only copy;
* `OnlyPushed`: what is anywhere has been pushed, so a new push makes no second
  copy;
* `AttemptsCounted`: the count inside an entry, wherever it is, is the number of
  times `handle()` has been started, minus the one under way. `ExactAttempts`
  bounds the starts, and does not say what the entries still waiting carry;
* `SnapshotsOld`: every entry of a snapshot that is still in the delayed set is
  due. Without it a worker walking an old snapshot could remove a new entry.
  It holds because a retry carries a higher attempt count and so is another
  member of the set, and this is where the entry's contents matter.

Each has a lemma per action or a group of actions that disturb it. The refinement
adds `StatusByPlace` and `OnePlace` (the abstract status is told by the place a
job is in, and it is in one place), consequences of `IInv`, and one case per
action: a stutter or one step of `JobDelivery`.

`EventLoop_proofs` does the same for `InMemoryQueue`. `QueueInv` adds to the exact count of
unfinished jobs that a job has one copy (`OneCopy`), that none is left of what is done
or given up (`Apart`), that the attempts under way are counted (`RunsCounted`), and two
facts about a `close()` and a `join()` under way: whatever is cancelled and has not ended
is what `close()` still awaits (`Closing`), which is why nothing is lost after it returned,
and the jobs `join()` has to wait for are, phase by phase, no longer asleep, then no longer
queued or running (`Joining`). The latter holds until the first `close()`: it may
untrack a delayed push that still sleeps.

The same module has the batch on either tracker and the chain. For the in-process tracker,
`LeftIsOpen` (`pending` is the number of members without an outcome) and
`OneLastHere` (who was told 0 was the last, and is the only one) make `ThenOnceAfterAll` inductive;
this needs `ResultByStage`, that a member which can still be counted has not been. Over
Redis, `DECR` on an expired key starts again from zero: `PendingIsOpen` says that
`pending` is either exact or negative, so that nobody is told 0 by mistake, and
`CountersBounded` keeps it within the number of members. While no key expires it is exact, and
`then` is found (`ExactIfLasting`); then each command of a member is a step of
`JobBatch` or a stutter, which is `RedisBatchImplements`. Of a chain, an instance is of the
link after one that has returned (`InOrder`), and without faults each link is pushed once by
one that has nothing left to do but commit (`OneByOne`).

### Idempotency

`RunsGuarded` counts what was completed; `IInv` of `EventLoop_proofs` counts what may still be:

* `LockHeld`: the lock under the key is held by someone. Whoever leaves removes it,
  so a lock that stays there has an owner yet;
* `Locks`: who holds a lock and who waits for it, each of them once;
* `Bounded`, while no record has expired: what was completed, together with the
  `Contenders` that are past the check of the cache or have it before them with no
  record stored, and one if the key has no lock (`Open`, a newcomer makes one), is
  at most one more than twice the failures. A failure removes one contender and
  adds two: the next waiter and the newcomer;
* `OneLock`, while nothing has failed or expired: all who contend have the lock
  that the key has.

### WebSockets

That no client of the Redis hub gets a message
twice or out of order needs the whole way of a message (`IInv`):

* `OneInHand`: a handler has one message in hand, its latest, which Redis has not
  got;
* `WasSent`: what was received was sent, and from another process through Redis;
* `PublishedInOrder`: what Redis holds for a process is in each sender's order;
* `TransitIsLater`: and is later than all that the process's clients have got.

Of the in-process hub, `Slots` says which connections an address has slots for;
`RestIsTodo` that whoever was there and was not tried is still in the loop's list,
which needs that each `broadcast()` is one handler's (`CastsApart`); `StaleAreGone` says of
the list of those to be dropped what the property says of those that were. The cap needs an
invariant of its own (`TakenWithinCap`): as the code counts a connection after an
await, the handshakes under way are counted with the open connections.
`RedisWebSocketHub_proofs` takes these theorems over by an `INSTANCE` and shows that a
behaviour of the run is one of each hub's own (`Parts`).

### The database

`Database_proofs` has an invariant per part (`DatabaseInv` conjoins them), and a step of one
part leaves the variables of the others alone:

* blocks: `Matches` relates the text of the handler, as a stack of blocks and jobs, level by
  level to the savepoints of the two sessions, and `BlocksAndLevels` to the ContextVar and
  the way an exception takes. `visible = due` alone says nothing of work under way;
* second factor: `SessionIsTrue` says that a session which has something to write has
  claimed the row, has read it since if it is about a code, and otherwise writes
  the codes it found or codes nobody has used; `OneClaims`, that there is one such session.
  `CodesIssued` makes the codes of the next batch new. `ChangesApart` says what holds
  of enrolling, confirming and disabling while they do not overlap;
* accounts: stored addresses are in lower case and were committed by a request for them
  (`StoredAreMade`), and the mail and the cookie are ahead of a row that is still to be committed
  (`MailIsAhead`, `CookieIsAhead`);
* reads: the ContextVar has the tenant of the innermost block, and each block's token
  that of the one around it (`TenantOfBlock`); the index leads to exactly the words that are stored
  once there are triggers;
* pages: while no row has changed its place, what has been received is what the listing begins
  with (`Walked`), up to where the page before ended;
* events: of every call that was passed over, `Accounted` says why it was not made;
* webhooks: an attempt that runs has not been posted, and only a delivery that is over has a log;
* admin: an update works on the page that is open, and holds what it says once it is saved;
  what a step may do to rows (`Harmless`) is then proved of `Create`, `Commit` and the rest
  one by one;
* cache: a `remember()` under way knows every request that is (`beside`), and has read the
  committed writes of all others (`ReadersMeet`); a request that has forgotten the key, and may
  still be committed, was beside the value that is there (`EntriesMeet`);
* schedule (`CronInv`): what a process has handled and what it still has to run are together what was
  due when it read the clock (`Dues`), and an event's key expires one window after its
  last start or later (`KeysKept`), whichever process that was and whatever a hit that was cut
  short has left.

### Rows and their changelog

`AuditedModel_proofs` has the largest of the invariants. The properties
look at committed rows and entries; what may be committed is in the savepoints of any
number of sessions, and every one of them may be rolled back or released.

* `BlockTells`: if the session committed a savepoint as it stands, its entries, with those that the
  save under way is about to add (`Coming`), would tell the rows, and what is not `stray` is valid.
  Everything else serves this. It has to hold of the outer blocks, too, as the inner ones may be
  rolled back.
* `LocksApart`: no two sessions have locked the same row, so that a commit changes no row
  under another session's entries. The entry of a row that was locked by nobody can still come
  from outside: a `delete` of what is gone already is recorded with no row locked. `EntriesOK` says
  that such are the only ones, and lemma `TellsThrough` that they do no harm between others.
* `ObjectOK`: what an instance's state says. One that has never been flushed (`Unborn`) is known
  to no other session and no entry, which is what makes its "created" the first one; one that is
  persistent, or was, is of a row that has entries (`Known`) or was written in this session.
* `DoingOK`: what a `save()`, `restore()` or `delete()` has got to, and that the diff it holds is that
  of the instance, whatever was autoflushed in between.
* `LevelOK`, `BlocksAgree` and `RemovedStay`: what a block has written it has locked, what no block
  between two has written they find alike, and what was deleted stays so in the blocks inside.
* `ClaimsOK`: `ClaimedIsCurrent` for every block, not only the innermost, but for what a block
  inside has overwritten: this is what is left after a savepoint is rolled back.

`Types`, the types, is stated there with the domains the other parts need; `AuditedTypes` derives
the module's `TypeOK`. TLC checked `IInv` with five calls (1 million states) before it was
proved.

### Requests

`Requests_proofs` and, for the last six, `Assembly_proofs` have an invariant per part, too. They are
two modules, of which neither extends the other, because the provers take the longer the more
lemmas a module has:

* layers (`StackInv`): `Boots`, the layers added so far are those of the
  providers booted so far, the last outermost; `Stages`, where each request is. `Contexts`
  is the core: what the ContextVars of a task hold is determined by how many layers its
  request is within (`Own`), and a task without a request has nothing in them, so that
  whichever request takes the task next begins clean. `Reports` says the same of an
  exception on its way out: what the layers it has come through have left on it, and no more
  (`Came`, `LeftOn`). `Counts`: the gauge is the number of requests inside the metrics' layer,
  and the counter has a request once it has left it;
* browser (`CookieInv`): `ResponsesEnd` and `Overlap` say what a response may end or bring back, given
  the requests that overlap with it; `TokensAgree`, that all forms have the token of the cookie,
  unless the first token was handed out twice;
* SAML (`SamlInv`): as a process forgets its lock while others may still wait for it, a lock alone
  does not say that one callback is inside. `FewPass` counts what may still let one in: before the
  first acceptance is remembered, the locks made and the processes without one are no more than the
  processes and the faults, and from then on nobody begins to pass;
* decisions (`GateInv`): a request under way has noted the facts of its beginning and those of
  the moment (`NotesTaken`), and one that is over was decided on some of what it has noted (`Decided`).
  Lemmas `FirstOpinions` and `AllowsEntitled` relate the code's order of hooks, closures and policies
  to the property's definition of who is entitled;
* limiter over Redis (`RedisInv`): of the hits granted since a key began there are no more than it counts,
  and of those within the window before that, one fewer than the limit (`Burst`): a bound of
  the sum, which neither the count nor the expiry gives by itself. That a key cannot stay for ever needs
  that one caller sets its expiry (`OneExpires`);
* limiter in memory (`MemoryInv`): a bucket is all that was granted but for what is older than its
  window (`Kept`), also after the bucket was dropped to make room and begun anew;
* files (`FilesInv`): `KeysGiven` and `WritersKnown` say which task may have a thread that writes to or removes a
  key, of those that were returned already and those that were not, and `UploadsUnderWay` and
  `DeletesUnderWay` what it has done so far;
* responses (`ReplyInv`): what a limiter has counted are those it let pass (`BudgetsKept`), and each
  response tells what its own request read and was limited by (`Told`);
* languages (`TextInv`): what `t()` said of a locale is what the cached files say (`Answered`). That the
  locale is the best of the header takes lemmas about the stable sort by quality: `Places` (the place
  of an entry is the number of those before it), `SortedIs`, `CandidatesAre`, `FirstIsBest`;
* container (`ContainerInv`): `_resolving` is what the frames on the stack build, but for a `call()` at
  the bottom (`ChainOf`), and a frame calls for what the next one builds or what is on its way back to it
  (`Linked`). That what is returned is whole takes `FoundInTurn`: the hints that a frame has behind
  it were found, or are optional and unbound, which stays true because nothing is bound while
  something is made (`make()` runs to its end). `KeptOnce`: what is being built is not kept yet;
* loader (`LoaderInv`): the property itself is inductive;
* routes (`RoutesInv`): a route that came too late for its block, its `include()` or the first request is
  one that nothing promises (`late`). `InTime` says where the others are: on the application's
  router or in what it mounts; `ServedFirst`, that what is served is the beginning of what is
  registered, and all that comes after it is late. An endpoint is on one router (`RoutesApart`), which
  is why a request reads the version of its own;
* metrics (`MetricsInv`): each label's sample knows the calls since the last `set()` (`Samples`, `Knows`): their sum,
  or that one was not finite, and for a histogram their number and those up to each bound. `Total` sums
  over the calls by a recursive function; that there is one, and that it tells the same of the calls so
  far when one is added, is proved by taking the least place where it would not (`SumsExist`, `SumsAgree`).

### Model-checked only

* All liveness properties (`EndsAtLast`, `WaitingEnds`, `PublishingWorks`): fairness and `ENABLED` are
  beyond the prover.
* `AllTypeOK` of `Database` and of `Requests`: of most of the parts the types are conjuncts of the
  invariants or follow from them, but no module has the invariants of all the parts.

## 6. Plan

1. Further components: feature flags with their cached definitions, the
   order of the providers' `register()`, exclusions of the metrics' and profiler's
   paths.
2. More proofs: the types of the parts whose invariants leave them out.

## 7. Not modelled

* Configuration and plugins: read once at start. Factories, seeders, scaffolding,
  the command line: one-shot, by one process; `queue work`, `schedule run`, `down`
  and `up` are parts of the models.
* GraphQL, views, the AI client: adapters and renderers without state of their
  own. Logging and health: formatting, and questions to other services.
* A `close()` of a session that raises (db/session.py:100, 231), which would skip the
  reset of the ContextVar: the pool turns an error of the connection into its
  invalidation, and a task that is cancelled in it ends with its context.
* Gzip, security headers, validation: functions of one request or response.
* Feature flags: planned (section 6).
* Of `AuditedModel`, hidden columns and what section 2 leaves out. Of
  `RequestStack`, paths excluded from metrics, what a layer
  does with its fact besides binding it (a header, a log record), custom
  exception handlers. Of `Routing`, `mount()` of other applications and the content
  of the document. Of `Localization`, texts and placeholders. Of the flows with an
  identity provider, what the provider and python3-saml and pyotp check.
* Read-only accessors (`failed_jobs`, `progress`, `audit_trail`), logging,
  formatting and serialization beyond what is said above.

Outside the repository and taken from how the code uses them: Redis (commands
atomic, keys expire on their own), asyncio's event loop, SQLAlchemy's session,
Starlette's routing, exceptions and WebSocket, Python's imports, the receivers of
webhooks and mail.
