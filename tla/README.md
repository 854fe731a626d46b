# Ratatoskr: specifications, model checking and proofs

TLA+ modules for the concurrent core of Ratatoskr (the bite-size-reader
repository): TLC checks them on small instances, TLAPS proves the most important
invariants for every value of the constants. All paths below are relative to the
repository.

Contents: [1 the system](#1-the-system), [2 the modules](#2-the-modules),
[3 runs](#3-runs-bounds-and-what-they-show), [4 fairness](#4-fairness),
[5 proofs](#5-proofs), [6 findings](#6-findings),
[7 not modelled](#7-what-is-not-modelled), [8 plan](#8-plan).

To repeat: `tlc -config <run>.cfg <module>` for a row of the table in section 3,
`tlapm <module>.tla` for the eight `*_proofs` modules.

## 1 The system

Ratatoskr turns links, forwarded posts and files into stored summaries. A
Telegram bot and a FastAPI application (web client, mobile client) share
PostgreSQL; Redis is optional and carries locks, limits and progress. Everything
is asyncio: within a process, tasks interleave at `await` and nowhere else;
several API processes may share the database and Redis.

### 1.1 Inventory

The parts with concurrent or persistent state of their own, and what makes each
of them correct. *Module* is the model, or the plan for one.

| Part (source under `app/`) | State | Operations | Must hold | Module |
|---|---|---|---|---|
| Background request processing (`api/background_processor.py`, `api/background/*`, `application/services/request_service.py`) | rows of `requests`, `summaries`; published events; executions | submit, retry, execute with its stages, fail, cancel | one execution per request; "success" and COMPLETED only with a stored summary; followers of an execution at work are told the end | `BackgroundProcessing` |
| Background lock (`api/background/locking.py`) | Redis key with TTL and token; `_local_locks`, asyncio.Lock objects | acquire, release | exclusion, no leak, no lost waiter | `BackgroundLock` |
| Stream hub and SSE endpoint (`adapters/content/streaming/*`, `api/routers/content/*`) | ring per request id, queue per reader, cleanup timers | publish, subscribe, disconnect, cleanup | no gap, duplicate or reordering at the seam of replay and live; the terminal event survives a full queue | `StreamHub`, `UrlStream` |
| Offline sync (`api/routers/sync.py`, `api/services/sync*`) | `server_version` of rows, cursors, ETags | delta, apply, every other writer of the rows | a client misses nothing without a known cause; stale changes are refused; paging ends | `DeltaSync` |
| Message coalescer (`adapters/telegram/coalescer.py`) | bucket per user and chat, timer, lock, slots | try_buffer, timer, flush_now, shutdown, dispatch | no message lost, doubled, early or stuck; slots balance | `MessageCoalescer` |
| URL batches (`adapters/telegram/url_batch_processor.py`, `task_manager.py`) | entry per URL, semaphore, given-up domains, rows | register, attempt, time out, retry, deliver, cancel | every URL accounted for, no flow outside the permits or after the batch, no true card for a failure | `UrlBatch` |
| Progress tracker (`utils/progress_tracker.py`) | counter, queue of one, processor | increment, force, end | what is queued is shown, the last of it for sure | `ProgressTracker` |
| Database write queue (`db/write_queue.py`) | bounded queue, worker's snapshot, sentinel | enqueue (single, batch), drain, stop | order kept, stop drains | `WriteQueue`, `WriteLog` |
| Redis distributed lock (`infrastructure/locks/redis_lock.py`) | key with token and TTL | enter, leave | exclusion up to expiry; keys do not stay | `TaskLock` |
| Rate limiters (`security/rate_limiter.py`, `adapters/telegram/routing/rate_limit.py`) | request times, cooldowns, slots; Redis counter | check, acquire, release, clean up | limits hold, slots and deadlines are neither leaked nor cut short | `RequestWindow`, `RedisSlots` |
| Media group collector (`adapters/attachment/media_group_collector.py`) | open groups | collect | every item goes once, no waiter is left | `MediaGroups` |
| Webhook dispatch (`infrastructure/messaging/handlers/webhook_dispatcher.py`) | subscriptions with failure counts, delivery log | dispatch, count, reset, disable | counts are of consecutive failures; one subscription's failure leaves the others alone | `WebhookDispatch` |
| Source bundles (`agents/multi_source_*`, `application/services/multi_source_aggregation_service.py`) | session row, item rows, counters | extract items, synthesise, finish, fail | a session that is over says what happened | `BundleAggregation` |
| Idempotent apply (`api/services/sync_service.py`) | answers by key, per process | look up, apply, store | a repeated call is not applied again | `ApplyRetry` |
| GitHub stars (`tasks/github_sync.py`) | integration row, repository rows, marks for analysis | list, batch upsert, unstar, stamp, analyse, defer; ingest, reanalyse, delete | no star is skipped, none stays unanalysed without a mark | `GithubStars` |
| Refresh tokens (`api/routers/auth/endpoints_sessions.py`, `auth_repository.py`) | token rows of a family, token cache | refresh, rotate, revoke, sign out, end a session or all | one live token per login, a steady client keeps its login | `TokenRotation` |
| RSS (`adapters/rss/*`, `tasks/rss.py`) | feed row, items, deliveries | poll, store, count errors, deliver, record | a user gets an item once; a record is true; a feed is switched off for failures that were counted | `RssDelivery` |
| Import job (`application/use_cases/import_pipeline.py`, `tasks/import_tasks.py`) | job row with progress, queue of messages | create, claim, import, flush, finish, redeliver | one pass per job, progress and status are true | `ImportJob` |
| URL dialogue state (`adapters/telegram/url_handler.py`) | per-user dialogue with a time to live | ask, answer, expire | no stale dialogue | not modelled |
| LLM response workflow (`adapters/content/llm_response_workflow*.py`) | a shared semaphore; request row, summary | call, record, parse, repair, refill, fill in metadata, persist, fail | no permit leaks however a call ends; the result, the rows and the message agree | `SummaryWorkflow` |
| Collections (`api/services/collection_service.py`, `collection_repository.py`) | `parent_id`, `is_deleted`; collaborators, `share_count`, invitations | move, update, delete; add, remove, accept | the tree stays a tree and a move ends; the count is right; an invitation lets one user in | `CollectionTree`, `CollectionSharing` |
| Channel digest (`tasks/digest.py`, `adapters/digest/*`, `digest_store.py`) | Redis key; channels with error counts; analyses; delivery records | list, fetch, leave out, analyse, filter, send, record | a post is sent once; no advertisement; a channel is switched off for cause | `ChannelDigest` |
| Scraper chain, OpenRouter client, agents (`adapters/content/*`, `adapters/openrouter/*`, `agents/*`) | per call | retries and fall-backs | terminate, keep the first good answer | calls of `SummaryWorkflow`, stages of `BackgroundProcessing`, flows of `UrlBatch` |
| Circuit breaker (`utils/circuit_breaker.py`) | counters of one process | count, open, probe, close | refuses after enough failures | not modelled: no code under `app/` outside its own file constructs one |
| Signals (`application/services/signal_*`) | job rows | scheduled jobs | one at a time | behind `TaskLock` |
| Event bus, rules; caches; vector index; tags, highlights, goals, export and backup; MCP; formatting, configuration, observability, CLI | rows written in single transactions, caches with a TTL | CRUD and projections | see section 7 | not modelled |

`PROJECT.json` lists the same parts file by file.

### 1.2 How the parts meet

- A submission (API handler) writes a row with status `pending` and schedules an
  *execution* in its process. Executions meet each other only through the lock,
  the row, and the event channel of the request.
- The URL flow publishes progress to the `StreamHub` of its process; the SSE
  endpoint reads from it. Background processing publishes to Redis instead.
- The sync endpoints read the rows everybody else writes. Nothing orders the two
  but `server_version`, a millisecond clock value that a writer draws *before*
  its transaction.
- The message router runs a task per Telegram message. The coalescer buffers
  short bursts and routes them later, taking slots of the same limiter the
  router uses.
- A message with several URLs becomes a batch: a coroutine per URL, one semaphore,
  and a progress tracker whose processor edits one message. The flows write to the
  rows that background processing and sync use.
- The bot's database writes go through one queue, which `bot.py` stops last, after
  the coalescer's shutdown.
- Scheduled tasks run in taskiq workers. Star sync, purge and index repair enter
  through the Redis lock; RSS polling does not. An import is a message to a
  worker, which may be delivered again.
- Refresh requests share a cached copy of the token row with their own writes.
- The URL flow hands its text to the LLM workflow, whose model calls share one
  semaphore per process and whose last transaction stores summary and status.
- Calls of the collections API meet in PostgreSQL only, under READ COMMITTED: a
  transaction sees what had been committed before each of its statements.
- The digest task enters through a Redis key of its own; a digest on demand, by
  command or API, does not.

### 1.3 What is hard here

Racing submissions of one URL; a lock whose key can expire under its owner; a
failing Redis or database call at any await; shutdown that cancels tasks in the
middle of their handlers; a crash that leaves a row and a key; cancelled timers
that already woke; queues at their bound; reads spread over several sessions with
commits between them; versions that commit out of order; counters read in one
statement and written in another; Redis commands that belong together and are sent
one by one; messages and answers that are delivered twice or not at all; workers
that die between two transactions. `PROJECT.json`, under
"hazards", names each with its line and the properties that cover it.

## 2 The modules

```
RequestLifecycle      what a request row goes through (abstract)
        ^ refined by
BackgroundProcessing  -- EXTENDS --> BackgroundLock
        ^ MCBackgroundProcessing (instances), BackgroundProcessing_proofs
DeltaSync         <-- EXTENDS -- MCDeltaSync, DeltaSync_proofs
UrlBatch          <-- EXTENDS -- MCUrlBatch, UrlBatch_proofs
MessageCoalescer  <-- EXTENDS -- MessageCoalescer_proofs
StreamHub         <-- EXTENDS -- UrlStream, StreamHub_proofs
WriteLog              what the write queue promises (abstract)
        ^ refined by
WriteQueue        <-- EXTENDS -- WriteQueue_proofs

MCTasks     -- EXTENDS --> MessageCoalescer, StreamHub, WriteQueue, TaskLock,
    MediaGroups, SummaryWorkflow, CollectionTree
        ^ Tasks_proofs (with the proofs of the first three)
MCServices  -- EXTENDS --> ProgressTracker, RequestWindow, RedisSlots, WebhookDispatch,
    BundleAggregation, ApplyRetry, GithubStars, TokenRotation, RssDelivery, ImportJob,
    CollectionSharing, ChannelDigest
        ^ Services_proofs
```

A step is what the code does between two awaits, with one database transaction
or one Redis command taken as atomic. Definitions called "Faulty variant" are
plausible bugs; no specification uses them, they show that a property fails when
the code is changed that way. `PROJECT.json` maps every definition to its lines.

### BackgroundLock

`acquire` and `release` of `BackgroundLockManager` in both forms. `redisKey[r]`
is the token under the request's key (an execution's name, as every execution
draws a fresh uuid). `localLocks` is the dictionary `_local_locks` of each
process, `lockOwner` and `lockQueue` are the asyncio.Lock objects, named by the
execution that created them; `lockObj` is the object an execution waits for or
holds. `RedisRaises` may have set the key all the same (the answer was lost).
`RedisRelease` is the compare-and-delete script. `LocalGrant` follows CPython:
`release()` wakes the first waiter, which takes the lock when it runs, and until
then the lock is free for whoever finds the queue empty. `lapsed` is history: an
execution whose key the TTL removed.

### BackgroundProcessing

`pc[t]` is where execution `t` is; its values name the awaits of `execute()`:

| pc | Code |
|---|---|
| checked, queued | `check_duplicate_url` answered; the row is upserted and the task scheduled |
| local, waiting | Redis gave no lock, the process-local one is next; waiting in `Lock.acquire()` |
| load, check | `async_get_request_by_id`; `_has_existing_summary` |
| announceExisting | "Already summarized": COMPLETED, no status |
| start, extraction, summarization, validation | status `processing`; the stages under `run_with_backoff` (forwards have only the summarization) |
| save, markSuccess, announceDone | summary stored, status written, COMPLETED published |
| persistError, markError, announceError | `handle_stage_error` and `handle_unexpected_error` |
| markCancelled, announceCancelled | `handle_cancelled` |
| release, done | the `finally` |

`WriteStatus` and `Publish` swallow their exceptions, as the code does: the write
happens or the old value stays. `Shutdown` cancels every task of a process at its
await, and `CancelledAt` says where each goes on; `Crash` ends the process without
any of that; `Restart` replaces it and looks for nothing. `CheckDuplicate` and
`CreateUrlRequest` are two transactions: the first looks for a row of the same
user, the second upserts on the globally unique `dedupe_hash`. Rows outside
`UrlRequests` have no hash (forwards, retries) and are new each time. Two history
variables keep what went wrong on a row: `overlapped` (an execution came in while
another one was midway for it) and `cutShort` (a call of the database got no answer in
an execution of it, or an execution was stopped midway). Together they are the
`Disturbed` rows, the exception that some properties make.

### RequestLifecycle

The abstract promise about one row: opened, started only without a summary,
failed only without a summary, at most one summary stored, "success" only after
it. A row that was disturbed may be marked twice and in any order, or left behind; it
still keeps a stored summary, and "success" is still written after it only.
`BackgroundProcessing` implements it under the identity on `status` and
`summary`, with `Disturbed` for `disturbed` (property `ImplementsLifecycle`), under every
setting and through every fault. TLC checks it in BackgroundFaults,
`RowsFollowLifecycle` proves it for every number of rows, executions and faults.

### StreamHub and UrlStream

One request id of the hub. `publish()` and the snapshot-and-register of
`subscribe()` contain no await, so `Publish` and `Subscribe` are atomic; the
generator then yields one event per step. `Put` is `_put_event` with its policy:
drop the oldest non-terminal event, or the newcomer when there is none.
`Cleanup` is `_cleanup_request`, one pending call per terminal event; it may run at
any later time, also under a newer run of the id. `UrlStream` replaces the
arbitrary publisher by the one the program has, the URL flow.

### DeltaSync

Three tables stand for the eight that `collect_records` reads one after the
other: requests and summaries, which enter the ETag, and highlights, which do not. `row[r]`
has a version and the number of edits made, which stands for the contents. A
server write with a version of its own is drawn (`draft`) and later committed or
rolled back; `CoreUpdate` is an UPDATE that leaves `server_version` alone. A client
has one call at a time: `ReadMaxFirst`, `NotModified`/`Modified`, one step per table,
`PaginateRecords`; or `SendChange`, the version check, `DrawStamp`, `ApplyChange`. A step that only computes is joined to the
read before it. `missed` is history: the pairs of a client and a row of which an
edit escaped the client, each entry made by one of four causes the code has (see
`NoSilentLoss` in section 3).

### MessageCoalescer

One user and chat. Each message has a handler (the router's task) and, once
buffered, a timer task; both are named by the message. `Buffer` appends under
`self._lock` and keeps it over the await that starts the typing indicator;
`Buffered` then replaces the timer, cancelling one that sleeps or waits for the
lock. `Claim` is `_claim_bucket`, called by the timer, by a command's `flush_now`
and by `shutdown()`. A `job` is a dispatch: stop typing, decide between bundle
and single messages, take a slot (and go on without one if refused), hand on,
give the slot back. `AcquireRaises` and `ReleaseRaises` are the Redis limiter's
exceptions. `CancelTracked` is `/cancel`: the router tracks the task of every message but
`/cancel` itself while it is routed, so a command may be cancelled while it waits for the lock
or dispatches what it has flushed. What it has claimed and not yet handed on is then lost
(`dropped`), as no handler catches a `CancelledError`; the command holds its own slot until its
`finally` (`ending`). Timers and `shutdown()` run in tasks of their own, which nobody tracks.

### UrlBatch

`execute_batch` for the URLs of one message. `pc[u]` is the await at which
`_process_single_url` is, `flow[u]` the task of the URL's flow, `entry[u]` its
`URLStatusEntry`. `WaitEnds`, `DomainEvent` and `Timeout` are the ways out of
`asyncio.wait`, which may find several of them true in one turn; `Reaped` awaits the
cancelled flow, and a flow may be slow to stop or still commit its status.
`failedDomains` is set by the second URL of a domain that used up its attempts.
`UserCancels` is `UserTaskManager.cancel`, which hits each coroutine at its await
(`CancelledAt`); one that is reaping a flow swallows it (`swallowed`). A URL stands
for its row, which an earlier or foreign flow may own (`KnownUrls`, `foreign`).

### ProgressTracker

The counter with its threshold, the queue of one entry whose old entry a newer one
replaces, the processor's `get` with its timeout of half a second, and the end of a batch, which sets
the flag, waits for the processor up to ten seconds and queues a last update (`AfterJoin`), unless
it was cancelled (`leaving`, `left`). `Settle` writes the final entry of a URL, which `IncrementAndUpdate` counts
later. The batch's formatter draws the entries and not the count it is given, hence `drawn`, which is taken with `shown`;
`Formatted` is the await of the edit. `owed` is the count queued last while there was a processor.

### WriteQueue and WriteLog

`accepted`, `attempted`, `snapshot` and `queued` are sequences of writes: what the
queue has taken, what was run, what the worker has drained into its list, and what
stands in the `asyncio.Queue`. A producer makes its writes in turn and blocks on a
full queue; so does `stop()`, whose sentinel goes through the same queue.
`ExecuteSpan` runs one write or the longest span with one batch key. After the
sentinel the worker drains what is left and ends. `StopTimesOut` cancels it
(`cutOff`). `WriteLog` is a log with a pointer: writes are appended, and attempted
in order and at most once; `WriteQueue` implements it with `log <- accepted`,
`done <- attempted`.

### TaskLock

One key, any number of runs of a scheduled task. `how[r]` says how a run came in:
with the lock, without Redis, or after an error of `SET`, which the code treats as
permission; the error may have come after Redis set the key, and the run keeps its
token. `lapsed` and `faulty` are history.

### RequestWindow and RedisSlots

`RequestWindow` is the limiter of one process for one user, as the router calls
it: check and record, notice, take a slot, work, give it back, and the hourly
cleanup that drops what has expired. Time passes in ticks; a check may be granted at
the edge of the window. `RedisSlots` is the Redis form of the slots, one step per
command: `INCR`, `EXPIRE` on the first, `DECR` on refusal and on release, `DEL` at zero, each of
which may raise after it was carried out. `wiped` says that the key has gone under a
counted operation, `broken` that a command has raised.

### MediaGroups

Calls of `collect()` for one media group: the first is the owner and sleeps until
no item has come for a while, later ones wait for its future. Owner and waiters may
be cancelled at their await.

### WebhookDispatch

Several dispatches (events) at a time, each over the list of the subscriptions it has read.
A subscription whose URL is not safe any more, or whose payload cannot be built, is left before the post (`NotPosted`), unlogged and uncounted.
`ReadCount` and `WriteCount` are the two statements of the increment, `ResetCount`
is one. The user may switch a subscription on again; its count stays.

### BundleAggregation

One run over a bundle: a session row, a row per item, the counters of the run and
those of the row. Each await of the loop is a step, at each of which the item may
raise; then the synthesis, and the paths that end the session. Items of one source
after the first are duplicates.

### ApplyRetry

`POST /sync/apply` of one client call with several changes, repeated by the client
under one idempotency key, on one worker or another. `DeltaSync` has a call with one change and no retry,
among other writers; here only the versions of the rows matter.

### GithubStars

The sync of one user. `recent` are the stars that are not older than
`last_synced_at`, which is what the next listing returns; time is not modelled
otherwise. `row`, `analysis`, `pending` are the repository rows; a sync may fail or
its worker die at any step, and the user may star, unstar, connect and revoke meanwhile. He may also work on
the rows by hand: `Ingest` is the upsert of a URL or of `POST /v1/repositories`, which makes a row without a star and without a mark,
`Reanalyze` and `DeleteRow` are the two other endpoints. An analysis, of the sync (`queued`) or of a call (`call`), reads the content, waits for the agent and writes; when
the content was written in between it is `outdated`, and when the row has gone it ends in an error. A batch holds what was looked up: a row
inserted meanwhile fails the flush, and so does a deleted one that there is an update to send to (`Collides`).

### TokenRotation

One login, that is one token family, whose client refreshes, repeats a request whose answer
was lost, or signs out, and whose user may end sessions from elsewhere: one of the list
(`RevokeSession`) or all (`LogoutAll`). Tokens are numbered in the order of creation. `cachedTokens`
holds those with a cache entry, which never has a family and expires at any time;
`endedTokens` those that were live when the user ended them.

### RssDelivery

Runs of the task over one feed, which may overlap and may die. Storing items
returns the new ones; delivery looks up who is due, cuts the list at the cap, sends
and records. The error count is read and written in two statements. An answer 304 is a
fetch that succeeded: it ends a row of failures (`unmodified` notes it), but the code's
counter goes on from where it was.

### ImportJob

A job's row, the messages of its queue and their executions. A message is delivered
again when a worker dies before it has acknowledged it. `Claim`, `Flush`, `SetFinalStatus` and the handler of a
failure are separate transactions; `Outcomes` is what the import of one bookmark may do;
one that fails may have stored its request all the same (`Unanswered`), when the answer to the commit was lost.

### SummaryWorkflow

Several workflows over one semaphore. `awaits[w]` is the await workflow `w` is at,
`purpose[w]` what its model call is for (the summary itself, a repair of what could
not be parsed, a refill of empty fields, metadata), `try[w]` the entry of the list of
model requests. `TakePermit` to `Record` are one call, with every way it can end:
an answer, the two timeouts, an exception, a cancellation. `Accept` and `Finalize` are
what follows a parsed answer, `CallFailed`, `RepairFailed` and `AllFailed` the three
places where the row becomes an error. The messages to the user that go with them are left out: they are
optional, silent for URL batches, and an exception of one is logged only. `Persist` is the one
transaction that stores the summary and completes the row; `PersistRaises` may come
after the commit (`doubted`).

### CollectionTree and CollectionSharing

`relink[c]` is what a move or an update has read so far. A move loads the new parent and
climbs one SELECT per level; a row that its session already holds keeps the parent that was
read first, which is why `Reaches` remembers `toParent`. An update looks at the new
parent's existence only, a deletion at nothing. `unseen` marks the collections whose
link was written by an update, or by a move during whose climb another link changed
(`disturbedMoves`).

`sharing[s]` is a transaction that adds or removes a collaborator, or accepts an
invitation: it reads the collection (and the invitation), writes the collaborator's row and
keeps its lock, counts the rows it can see, writes the count and commits. `stale`,
`miscounted` and `shared` say which calls crossed.

### ChannelDigest

Digests of one user over several channels of one recent post each. `run[d]` holds what a
digest has read: the error counts of the list (`seen`), the posts that were not delivered
(`wanted`), those it has to have analysed (`asks`) and those it will send (`keeps`). A
stored analysis does not say that a post is an advertisement, which `FoundWorthy` models as
the code reads it. The channels are fetched one after the other, each with its own
transaction (`FetchesChannel`), and the key is given back by a GET and a DEL that others may come between. Delivery records name a message id without its channel; the
instance gives both posts the same id.

### MCServices and MCTasks

The components that share no state with others would only multiply their states in a
product. In `MCServices` and `MCTasks` a behaviour chooses one component at its start, which
then moves as its own module says while the others stay in their initial states: each run checks
its components with one state graph. `MCTasks` has those that owe something in the end, each
under its own fairness; `MCServices` the twelve about which only safety is claimed. `ServicesTypeOK` and
`TasksTypeOK` ask the types of the component that moves.

## 3 Runs, bounds and what they show

Sizes are distinct states. Deadlock is checked in every run: modules whose system may rest
have an explicit step for it, with its condition.

| Run (cfg) | Module | Instance | States | Checked |
|---|---|---|---|---|
| BackgroundContest | MCBackgroundProcessing | 3 executions over 1 URL row in 1 process: with Redis, 2 users and 1 early expiry, or without it, 1 user, skip on and off, a database error and a stop | 445,288 | MutualExclusion, LocalLockIsSafe, SubscribersTold, EveryExecutionEnds |
| BackgroundFaults | MCBackgroundProcessing | 2 executions, 2 processes, a URL and a forward row, all 8 settings, 2 attempts per stage, one each of: Redis error, database error, expiry, stop | 3,181,011 | TypeOK, OnlyExpiryOverlaps, RowsAreTrue, ResultsStand, ImplementsLifecycle |
| DeltaSync | MCDeltaSync | 2 clients, 2 tables of one row, pages of 1, 2 ms, 3 edits | 2,523,711 | TypeOK, NoSilentLoss, AnswersAreSound, PagesAdvance |
| UrlBatch | MCUrlBatch | 3 URLs of one domain or two, one with a row from earlier, 2 permits, 2 attempts, 1 failing status write | 3,319,909 | TypeOK, BatchIsSound, NeverStuck, NothingElseHolds, CancelStopsAttempts |
| Tasks | MCTasks | seven components, see below | 261,396 | one type invariant, the safety properties below, NoEarlyFlush, ImplementsWriteLog, TasksEnd |
| Services | MCServices | twelve components, see below | 1,721,566 | one type invariant, the safety properties below, OffAfterFailures |
| BackgroundRace, UrlStream, DeltaSyncApply, GithubStars, TokenRotation, ProgressTracker | | see section 6 | | one property each, violated |

The instances in Tasks, each checked for its part of TasksEnd as well:

| Component | Instance | Checked |
|---|---|---|
| MessageCoalescer | 4 messages of which the second is a command and the fourth `/cancel`, 2 slots, 1 call of the limiter that raises or is cut off | BufferIsSafe, NoEarlyFlush |
| StreamHub | 1 reader that comes and goes, ring and queue of 2, 5 events, a cleanup per terminal one | StreamIsFaithful |
| WriteQueue | 2 producers, 4 writes of which 2 and 2 share a span at times, room for 3, a stop at any time | QueueKeepsWrites, ImplementsWriteLog |
| TaskLock | 3 runs, any failure, expiry | LeaseIsSafe |
| MediaGroups | 4 items | ItemGoesOnce |
| SummaryWorkflow | 2 requests, 2 model requests each, 1 permit, 1 database error | WorkflowIsTrue |
| CollectionTree | 3 collections, one below another, 2 moves, 1 update, 1 deletion | TreeIsSound |

The instances in Services:

| Component | Instance | Checked |
|---|---|---|
| ProgressTracker | 8 URLs, an edit per quarter | LastQueuedIsShown |
| RequestWindow, RedisSlots | 4 messages in 5 ticks, 2 per window; 4 operations with a limit of 2, every command may raise | LimitsHold |
| WebhookDispatch | 3 events, 2 subscriptions (one hears all, one the first), switched off after 2 failures | FailuresAreCounted |
| BundleAggregation | 3 items, the first and the last of one source | ReportsAreTrue (SessionIsTrue) |
| ApplyRetry | 3 attempts on 2 workers, 2 changes | RetryIsSafe |
| GithubStars | 2 repositories, batches of 1, 1 analysis per run; either the integration is revoked too, or one repository is also handled by hand | StarsAreKept |
| TokenRotation | 3 requests | FamilyIsSafe |
| RssDelivery | 2 overlapping runs, 1 user, 2 items, 1 item per run, off after 2 errors | DeliveriesAreTrue (DeliveryIsTrue), OffAfterFailures |
| ImportJob | 1 job of 2 equal bookmarks, 2 executions, a flush after 2 | ReportsAreTrue (JobIsTrue) |
| CollectionSharing | 2 people and the owner, 3 calls, 1 invitation | SharingIsTrue |
| ChannelDigest | 2 channels with posts of one message id, one of them flaky, 2 digests, off after 2 errors, 1 mishap | DeliveriesAreTrue (DigestIsTrue) |

What the properties say. Most are conjunctions of named parts, which the modules state and
comment one by one; for every property `PROJECT.json` names a faulty variant of
the code under which TLC finds it violated, and the modules keep the variants
that violate the other parts.

- **MutualExclusion** Where a held lock means "skip" (the default), two executions
  of a row are never both between acquire and release, unless a key expired under
  one of them. Under the local lock this concerns one process, as the code's does.
- **OnlyExpiryOverlaps** Where all executions of a row ask for one lock and leave when it is held,
  nothing but an expired key lets two be midway at once: no Redis error (which may have
  set the key), crash, restart or cancellation.
- **ResultsStand** A stored summary is not stored again, and "success" is undone only by
  a new submission, except on a disturbed row. Both parts relate a
  lookup at the start of an execution to a write many awaits later.
- **RowsAreTrue** (`ProcessingIsTended`, `FinishedHasSummary`) A row that says "processing" has an execution that will still write it, or
  one of its executions was cut short. The others would be left behind for good: no code looks for them.
  "success" and COMPLETED stand for a stored summary, through every fault.
- **LocalLockIsSafe** Exclusion without Redis, and an entry of `_local_locks` is always a lock that an execution
  of that process and row holds.
- **EveryExecutionEnds, SubscribersTold** No waiter is forgotten. The follower of an execution that gets the lock hears how it
  ends, and that of a waiting or skipped one hears it from the execution that is midway then, whatever the database fails to answer, unless a process is stopped; `event` forgets what was published
  before the row was scheduled last, since Redis keeps nothing for late followers.
- **NoSilentLoss** If a client's cursor is past a row and its copy is out of date,
  one of four things happened: the edit was committed with a version that the
  cursor or the copy was past already (this includes UPDATEs that leave the
  version alone), or into a table that the collection in flight had read; its
  version tied with the last row of a full page; or the client's own change was
  accepted before the edit and written after it. Any other loss is a violation.
- **AnswersAreSound, PagesAdvance** An accepted change and a last page hide nothing else, nor does a 304 to a
  client whose cursor is at its ETag or past it; a page that is not the last moves the cursor. (The cursor is below the
  ETag when a row was set back to an older version between the maxima and the collection. A 304 may then hide rows.)
- **BufferIsSafe** (`NothingLostOrLeaked`, `BucketHasTimer`) A buffered message is in the bucket, in one dispatch, handed
  on once, or dropped by a call of the limiter that raised or was cut off, or with the command that `/cancel` cut off, never in two or none of them; the
  limiter's count equals the slots held, plus at most one per call of the limiter that raised or was cut off; no bucket is without a running timer.
- **NoEarlyFlush** No flush before the newest message's window is over.
- **BatchIsSound** (`FlowsContained`, `OutcomesAreTrue`) Flows, those being cancelled included, never
  exceed the permits, and none survives the batch. A batch that was not cancelled has a final status for every URL, each
  counted once, and its permits back; a domain is given up only after two of its URLs; the
  row of a URL reported failed does not stay pending; a card is sent for a stored
  summary only.
- **CancelStopsAttempts** After a cancellation no attempt starts, but by a URL that swallowed it.
- **NeverStuck, NothingElseHolds** The batch can always go on although flows may hang: some coroutine is `Ready`, which
  means that it waits for no turn, permit, delivery lock or flow; and (by `ENABLED`) to be ready is exactly to have a step.
- **StreamIsFaithful** What a reader got and still holds is in order and without
  duplicates, without a gap except for what its own full queue dropped, never without its
  terminal event, and with nothing behind it.
- **QueueKeepsWrites, ImplementsWriteLog** What was accepted is what was attempted, is in the worker's hands and in the
  queue, in this order; a stop within its time leaves none of what it found.
- **LastQueuedIsShown** A processor that has ended by itself gave the formatter the count that was queued last while it was there,
  its timeout not having raced the end. What is queued after its end is shown to nobody: see section 6.
- **LeaseIsSafe** Runs that came in through the lock overlap only after an expiry; a finished run's key stays only where it
  was cancelled, died or could not release it.
- **LimitsHold** No stretch of a window's length has more than the limit granted; nothing is granted in a cooldown;
  slots are held by those that work. In Redis: no more than the limit admitted, the counter equal to the
  operations counted, and never a key without expiry, except after a command
  that raised or a key that expired under an operation.
- **ItemGoesOnce** An item is in the open group or in what one owner returned.
- **FailuresAreCounted** The count is that of the failures since the last success where no two transactions crossed; at
  the limit the subscription is off; every listening subscription is posted to, unless its own URL is found unsafe or its payload cannot be built.
- **ReportsAreTrue** joins the next one and JobIsTrue. **SessionIsTrue** Counts and status of a session that is over agree with its rows, and a run that returns leaves
  no row in progress.
- **RetryIsSafe** A change is written once however often its call is repeated, unless two attempts crossed; a retry that
  finds the answer gets it.
- **StarsAreKept** A star that no later sync will list has its row, unless it was given behind a sync's page or the user deleted the row. What a sync
  has made and was never analysed is marked; what an ingestion has made is marked, is being analysed, or its analysis failed. What is stale is marked or is being analysed, unless an
  analysis of it failed, was cut off with its call or its sync, or crossed a write of the content.
- **FamilyIsSafe** One live token, unless two requests crossed; a client that gets its answers is taken for a replay only with a
  token that its user has ended elsewhere.
- **DeliveriesAreTrue** joins the next one and DigestIsTrue. **DeliveryIsTrue, OffAfterFailures** An item is sent once, a recorded delivery was sent, and what was due is
  recorded when all runs are over, unless the cap, a failure or a death gave it up; a feed is switched off only after as many failures
  in a row, where no other run's write came between and no 304.
- **JobIsTrue** A redelivered message does not run a job again; a finished job's counters are those of what was
  imported, but for bookmarks stored by a commit whose answer was lost; a job that says it is processing has an execution, or one that was lost.
- **DigestIsTrue** A post is sent twice only if a delivery was not recorded or two digests read the records at the same
  time, which two that hold the key never do before it expires; a digest sends nothing that it found to be an
  advertisement itself; a channel that failed often enough in a row is off, where the count had not changed since it was read.
- **WorkflowIsTrue** Every permit is free or with a call under way, however calls end; a returned summary is stored and its
  row completed, a returned nothing has a row in error; a stored summary has a completed row, however many
  attempts failed before it, unless the answer to its commit was lost.
- **TreeIsSound** A cycle of collections that are shown has a
  link from an update, or from a move whose climb another call disturbed: moves that follow one another close none.
- **SharingIsTrue** `share_count` is the number of collaborators unless the last call that wrote it had counted before
  another one committed; an invitation lets one user in, unless two calls read it before either had used it up.
- **TasksEnd** Buffered messages are handed on, unless the limiter raised or the dispatch was cut off before their turn (`BufferedIsHanded`);
  again and again no reader holds a terminal event unless its stream has ended; accepted writes are attempted
  unless the queue is stopped; a lock key does not stay; no item waits for ever for its group; every workflow
  ends; no move climbs for ever unless it met a cycle or the tree changed as it climbed.

Where a property makes an exception ("unless two attempts crossed"), the exception is a history variable that
a step of the code sets, and it is what the code does: the behaviour behind it is listed in section 6.

Why the bounds are enough. Two executions suffice for a race, and the third lets one
finish, one hold and one arrive, which is what expiry and the woken waiter
of the local lock need. One fault of each kind is what "any single failure" asks
for; they may combine. Two clients are one that moves its
cursor and one that applies; pages of one row make every
tie a page boundary, and two milliseconds allow equal, ordered and reversed
versions. Four messages give two buckets of which one has two messages, with a
command between or behind them. Three URLs over two permits have one that waits while two of its domain
give it up, or one of another domain beside them. A ring and a queue of 2 with 5 events overflow both, and
overflow a queue that holds only terminal events; readers do not influence one another, so
one reader stands for each. Four writes fill a queue of three with one producer blocked and make a span, a span's end and
a write behind the sentinel. Three lock runs are the owner, its successor and one that the owner's late
release would let in. Four slot operations fill the limit, refuse one and interleave its undo with a release. Three events on one subscription
pass the limit of two by one. Three attempts are the first, its racing retry and a late one.
Two workflows over one permit make one wait for the other at every kind of call, and two tries have a failed one before a
last one. Three collections are the least in which a climb passes a level, and two moves with an update close a cycle in each of the
three ways. Three sharing calls are two that cross and one on its own that mends the count. Two digests are one that holds
the key and one on demand, or one after an expiry.

`BackgroundFaults` uses the symmetry of executions, `DeltaSync` that of the clients and `UrlBatch` that of the
URLs without a row from earlier; they check safety only. Runs that check liveness use none. `CHOOSE` occurs in `Init`
over sets that are not symmetric, and to define values that do not depend on the choice.

Bounds by name: `Attempts` is the setting `retry_attempts` in the background modules and the number of calls in ApplyRetry; `MaxRedisFaults`,
`MaxDbFaults`, `MaxExpiries`, `MaxStops`, `MaxFailures` bound faults (in WebhookDispatch `MaxFailures` is the code's limit); `MaxEvents`,
`MaxSections`, `LastMessage`, `LastTime`, `LastItem`, `MaxClock`, `MaxEdits` and the sets `Writes`, `Runs`, `Messages`, `Operations`,
`Items`, `EventIds`, `Refreshes`, `Polls`, `Tasks`, `Urls`, `Workflows`, `Moves`, `Updates`, `Sharings`, `Digests` bound the length of a
behaviour. `MaxLostWrites` bounds the database errors of the workflows, `MaxDeleted` the deletions of collections, `MaxMishaps` failed
sends, failed records and deaths of digests together; `MaxTries`, `MaxCalls` and `MaxChannelErrors` are settings of the code.
`Flaky` are the channels whose fetch may fail, and `Verdicts` leaves out posts that are merely irrelevant, which are filtered whether
they are analysed or looked up. In DeltaSync an edit begins below `MaxEdits` and is always carried out. The star sync is not bounded: it runs for ever over
its two repositories.

## 4 Fairness

- *Background.* Weak fairness of each execution: the event loop resumes a task
  whose await is over, and every await is over at some time because the
  extractor, the model client, Redis and the database are called with timeouts. What
  `ContestBounds` excludes in BackgroundContest are errors, stops and submissions only, never the fair step itself.
  Weak fairness of `KeyExpires`: Redis removes a key after its PX. No fairness of submissions,
  shutdowns, crashes, restarts or early expiries. Faults are choices of an
  execution's own steps and bounded.
- *StreamHub.* A connected client reads (the SSE response is written until the
  client disconnects); `call_later` fires. Nobody is obliged to publish.
- *UrlStream.* As the hub; the flow goes on until it delivers or fails.
- *DeltaSync.* A call that was made is carried out and a client that was told
  `has_more` asks again (WF of `Delta`, `Apply`); a transaction that began
  commits or rolls back; strong fairness of `ApplyChange` because PostgreSQL
  serves waiters for a row lock in turn.
- *MessageCoalescer.* Weak fairness per task. The handler of a message, the timer
  it starts and the flush it awaits never run at once, so they are one fair
  action; `self._lock` is an asyncio.Lock held over an await that ends.
- *WriteQueue.* The worker goes on, because the database answers or raises; `stop()` is resumed when there is
  room, and returns. Producers and the caller of `stop()` are free.
- *TaskLock.* Redis removes a key after its TTL. *MediaGroups.* The owner's sleep ends and a waiter whose
  future is set is resumed.
- *SummaryWorkflow.* A workflow goes on: calls, waits for a slot, parsing and the database are answered or time out. The call for
  metadata waits for its slot without a timeout; it gets one because the others give theirs back.
- *CollectionTree.* The statements of a move are answered.
- *ProgressTracker.* The processor's task goes on as long as it lives, also while the batch sleeps after its last forced update: `FinalStateIsShown`
  is violated although it does.
- The components of the run Services, and UrlBatch, have safety properties only; `NeverStuck` and `NothingElseHolds` state
  that the batch can go on, which needs no fairness.

## 5 Proofs

TLAPS checks eight modules to the last leaf: `BackgroundProcessing_proofs`, `StreamHub_proofs`, `DeltaSync_proofs`,
`MessageCoalescer_proofs`, `UrlBatch_proofs`, `WriteQueue_proofs`, `Tasks_proofs` (locks, groups, workflows, collections, and the run Tasks) and
`Services_proofs` (the twelve components of the run Services). With them all safety invariants and all action
properties of the passing runs are theorems, except the one named at the end of this section, and so are the two refinements.

The assumptions are those of the modules about their constants: sets, numbers and settings of the right kind, and finitely many of
what the code counts. The sizes are free: any number of rows, processes, users, messages, URLs, feeds, collections, faults
and expiries where the runs have two or three. Some of these assumptions leave out what the program does not start from: digests
are numbered from 1, as 0 is the free key (`DigestAssumption`), an imported file has a bookmark (`ImportAssumption`), and
the collections are a tree before the first move (`TreeAssumption`: a depth decreases towards the top).

| Theorem | States | Checked by TLC in |
|---|---|---|
| TypeCorrect | `Spec => []TypeOK` (background) | BackgroundFaults |
| SuccessIsBacked, CompletedIsBacked, FinishedIsBacked | `Spec => []FinishedHasSummary` and its two parts | part of RowsAreTrue |
| LockExcludes | `Spec => []MutualExclusion` | BackgroundContest |
| LocalLockHolds | `Spec => []LocalLockIsSafe` | BackgroundContest |
| ExpiryOverlaps, ProcessingTended, RowsTrue | `Spec => []OnlyExpiryOverlaps`, `[]ProcessingIsTended`, `[]RowsAreTrue` | BackgroundFaults |
| StagesRunOnce, SuccessStays, ResultsHold | `Spec => ResultsStand` and its two parts | BackgroundFaults |
| RowsFollowLifecycle | `Spec => ImplementsLifecycle` | BackgroundFaults |
| OnlyExpiryDisturbs | as long as the database answers and no process stops, and under one lock that a newcomer leaves alone, `Disturbed` rows are `LostLocks` | |
| HubTypeCorrect, StreamFaithful | `HubSpec => []HubTypeOK`, `[]StreamIsFaithful` | Tasks |
| NothingLostSilently, AnswersSound, PagesMoveOn | `Spec => []NoSilentLoss`, `AnswersAreSound`, `PagesAdvance` | DeltaSync |
| SyncTypeCorrect | `Spec => []TypeOK` (sync), for finitely many clients, some rows and a clock that runs | DeltaSync |
| BucketsAreTimed, WayIsSafe, BufferSafe | `Spec => []BucketHasTimer`, `[]NothingLostOrLeaked`, `[]BufferIsSafe` | Tasks |
| WindowsArePassed, TypesAreKept | `Spec => NoEarlyFlush`, `[]TypeOK` (coalescer) | Tasks |
| BatchTypeCorrect, CancelStops | `Spec => []TypeOK`, `CancelStopsAttempts` | UrlBatch |
| FlowsStayContained, OutcomesTrue, BatchSound | `Spec => []FlowsContained`, `[]OutcomesAreTrue`, `[]BatchIsSound` | UrlBatch |
| BatchNeverStuck | `Spec => []NeverStuck` (batch) | UrlBatch |
| QueueTypeCorrect, WritesKept, QueueImplementsLog | `QueueSpec => []QueueTypeOK`, `[]QueueKeepsWrites`, `ImplementsWriteLog` | Tasks |
| LeaseSafe, ItemsGoOnce, WorkflowTrue, TreeSound | `[]LeaseIsSafe`, `[]ItemGoesOnce`, `[]WorkflowIsTrue`, `[]TreeIsSound` | Tasks |
| TasksTyped | `TasksSpec => []TasksTypeOK` | Tasks |
| TrackerShowsLast | `TrackerSpec => []LastQueuedIsShown` | Services |
| WindowSafe, SlotsSafe, LimitsSafe | `ServicesSpec => []LimitsHold` from its two parts | Services |
| FailuresCounted | `DispatchSpec => []FailuresAreCounted` | Services |
| SessionTrue, JobTrue, ReportsTrue | `ServicesSpec => []ReportsAreTrue` from its two parts | Services |
| RetrySafe, StarsKept, FamilySafe | `[]RetryIsSafe`, `[]StarsAreKept`, `[]FamilyIsSafe` | Services |
| DeliverySafe, DigestSafe, DeliveriesTrue | `ServicesSpec => []DeliveriesAreTrue` from its two parts | Services |
| OffInTime, SharingSafe | `RssSpec => OffAfterFailures`, `SharingSpec => []SharingIsTrue` | Services |
| ServicesTyped | `ServicesSpec => []ServicesTypeOK`, for finitely many calls and digests | Services |

Hypotheses beyond the constants:

- *SyncTypeCorrect* assumes finitely many clients, a row and a millisecond (`MaxClock # 0`), without which the bounds of `TypeOK` name no number or
  no value. *ServicesTyped* assumes that the calls of `ApplyRetry` (`Attempts`) and the digests are finitely many, because the type invariant bounds the writes
  and copies by their number. The safety theorems about both do not.

How the arguments go. Every theorem has an inductive invariant with a name, of which
the property is a part or a consequence; the lemmas `...InvInit` and `...InvNext` say that it holds at first and that every
action keeps it, with one step per action.

- *Success is backed.* `SuccessHasSummary` is not inductive: `MarkSuccess` writes
  a status without looking at the summary. `SummaryInv` adds that an execution
  about to write "success" or COMPLETED (`Vouches`) has a stored summary;
  summaries are never removed, so other executions cannot disturb it.
- *Exclusion.* `LockInv` holds where a held lock means skip. Nobody waits
  (`NobodyWaits`: the states `local` and `waiting` are reached only with skip off). With Redis, whoever is inside owns the key or
  has `lapsed` (`KeyInv`); a second owner of the key would need it free. Without Redis,
  whoever is inside owns the object that the dictionary of its process names for the row (`LocalInv`).
  `EntriesOK` is needed for the latter: a dictionary entry
  was created by an execution of that process that has already asked for a lock, so no
  newcomer's object coincides with it and `release()` of one row cannot unlock another's.
- *No leaked local lock.* `LeakInv`, for skip on and off: who took the local lock owns its object (`HoldsObject`), objects are those of one process
  and row (`ObjectOfProcess`), and the dictionary's entry always has an owner or a woken waiter that was counted (`EntryHeld`).
- *What is on record.* `Alone`: two executions midway for one row are on record, because `overlapped` is written by who comes in and an execution stays
  at its row (`JobsStay`, `MidwayEntered`). `OnlyExpiryOverlaps` follows from `MutualExclusion` of the next state: who comes in and who was midway are
  then both inside, so one has `lapsed`; a lapsed execution keeps its row (`KeysKnown`).
- *Results and lifecycle.* `UnsavedInv` says that who found no summary will not find one appear, except on a disturbed row: whoever stores one
  is midway as well. `LifeInv` says that an execution at work has a row (`HasRow`) that is open (`WorksOnOpen`) and fails it once (`MarksFailed`), that only
  executions cut short mark a row cancelled (`CutBefore`), and that
  a row in processing is processed by somebody (`Tended`), each but for the rows on record. From it every step of
  the executor maps to a step of `RequestLifecycle` or a stutter: `RowSteps` splits the steps into those that write the row of their execution, those that create one,
  and those that write no status, the last of which are disturbances, or store a summary whose answer is lost.
- *Stream.* `HubInv` cuts what a reader gets into received, backlog and queue. Each part is in order, each follows the one before it without a gap but for what the
  queue dropped, and a dropped terminal event means that a terminal one is still held (`Places`, `PartsInOrder`, `PartsWithoutGap`,
  `PartsHoldTerminal`, `NothingAfterTerminal`).
- *Sync.* `SyncInv` follows a call through its reads: what a copy lacks has escaped for a known cause or lies above the cursor (`NoSilentLoss`,
  `CopyIsCurrent`), what the call has read was there (`ReadRowsStand`), and what was due at its begin is still due above the maxima that it read
  (`DueRowsStand`, for the 304). A page that is sorted by version is what makes the last page the last.
- *Coalescer timers.* `TimerInv`: no timer runs but the bucket's, and with the lock free it
  runs and belongs to the newest message. It breaks while a handler holds the
  lock between appending and replacing the timer, so `LockInv` adds that the
  holder is the message appended last. `NoEarlyFlush` follows: `dispatch` is reached from `awake`
  only under a free lock.
- *Coalescer messages and slots.* `WayInv`: a message that was taken is in one place (`PlaceInv`, sequences without repetition), jobs belong to
  the task that claimed them (`JobsOwned`), and the limiter's count lies between the holders and the holders plus the calls that raised or
  were cut off (`SlotInv`). `DroppedForCause` needs that a `/cancel` that runs comes to its end and is not itself cancelled.
- *URL batch.* `BatchInv` counts: free permits and flows at work add up (`PermitsCounted`), a domain is given up after its counted
  timeouts (`TimeoutsCounted`); an entry fits the place of its coroutine (`PlacesFit`, `PhasesFit`), and a reported failure is recorded (`FailureIsRecorded`).
  `WaitsFit` adds that the holder of the delivery lock is sending: who waits for a permit waits for one in the semaphore, who waits there waits
  for the holder at most, and the holder is ready.
- *Write queue.* `QueueInv`: accepted = attempted, then the worker's snapshot, then the queue (`FirstInFirstOut`), while the sentinel marks what a
  stop was promised (`PromiseKept`, `StopInStep`). The refinement of `WriteLog` is by action.
- *Lock, groups, workflows.* `LeaseInv`: a run inside owns the key or lapsed. `GroupInv`: an item joins one group when it comes in, and only
  an owner has members. `WorkflowInv` counts permits (`PermitsHeld`) and keeps a stored summary from being undone: a workflow that knows it is stored has ended.
- *Collections.* "No cycle without a link written blindly" is not inductive as it stands. `Sighted` says instead that there is a
  depth, a number for each collection that grows along every link that was written with sight of the tree. A move that has climbed to the top without meeting
  itself (`MoveFits` keeps the set it climbed through) may re-hang its subtree: the new depth shifts what is below it. A cycle of seen links would need a
  depth above itself.
- *Limits.* `WindowInv`: the recorded times are the last grants (`RequestsAreLast`), and deadlines are not moved back (`DeadlinesStand`), so that the limit holds in
  every window and not only in the current one. `SlotsInv`: the counter covers the operations counted unless the key was wiped (`CounterCovers`).
- *Webhooks, bundles, retries.* `DispatchInv`: a count read is current unless transactions overlapped (`ReadIsCurrent`), and who was neither posted to nor left out before the post
  is left (`TriedOrLeft`). `BundleInv`: the items before the one at hand are over (`ItemsInOrder`), and the session's counts fit the rows (`SessionFits`). `RetryInv`: a change that was written
  has made its row newer, so that later checks refuse it unless attempts crossed (`WrittenIsNewer`), and the cache holds an answer that was given (`CacheIsGiven`).
- *Stars, tokens.* `StarsInv`: a batch in flight holds stars that the listing had and that are not queued yet, and what it will leave stale is due or unlucky (`BatchIsTrue`); what was
  seen has a row, or the batch will make it, or the user deleted it (`SeenIsKept`); what is queued was seen (`QueueIsSeen`).
  `RotationInv`: at most one request has the right to the next token (`OneRight`), and a client that waits for its answers holds a live one or one that its user has ended (`Steady`).
- *RSS, import, sharing, digests.* `RssInv`: no two runs own an item (`OwnApart`), what is due is recorded, given up or in progress (`DueIsKept`).
  `ImportInv`: a job's progress is that of the one task at it (`TaskFits`, `JobFits`). `SharingInv`: the count a call read is the count of
  the rows that it saw (`CallFits`, `CountFits`). `DigestInv`: two digests that handle one post are known to overlap (`OverlapsKnown`), and a post
  to be sent by one of them is unsent (`StillUnsent`, `SentOnceKept`).
- *Types of counters.* Where a type invariant bounds a counter, the proof counts who may have raised it: slots by the operations begun, copies and errors by the
  digests past that stage (`CountsFit`), writes of a change by the calls past it (`PastIt`), a feed's list by its cap (`ListFits`), the edits of
  a row by those begun (`EditsFit`), which bounds its version as well (`VersionsFit`).
- *Runs of many components.* `PartsBehave` and `ComponentsBehave` say that in `MCTasks` and `MCServices` every component,
  chosen or not, behaves as its own specification; the theorems about the runs follow from those about the components.

Lemmas used throughout are about finite sets (one element more or less, sums of disjoint parts), about sequences without repetition, and about what a
helper of the model returns; each is stated once.

Model-checked only:

- all liveness (`EveryExecutionEnds`, `SubscribersTold`, `TasksEnd`), which the prover does not treat under fairness;
- `NothingElseHolds` (UrlBatch), which uses ENABLED.

## 6 Findings

Each has a run whose counterexample shows it, and quotes the text it contradicts
in `PROJECT.json`.

1. **BackgroundRace, PendingSettles** (`request_repository.py:308`). Two concurrent
   submissions of one URL both pass the duplicate check. The second upsert puts
   `pending` over a row the first execution has concluded; its own execution is
   skipped, or returns "Already summarized" without writing a status. The polling
   lifecycle of `docs/reference/frontend-web.md:168` never ends.
2. **UrlStream, StreamEnds** (`url_processor.py:357`). The only publisher of the hub
   never publishes a `done` or `error` event; `mobile-api.md:135` promises one.
3. **DeltaSyncApply, AppliedIsVisible** (`summary_repository.py:618`). An applied
   change takes its version before its transaction; another client's cursor can
   pass it. The docstring at line 597 says it must not.
4. **GithubStars, FlagIsCurrent** (`github_sync.py:387`). From the second sync on the
   listing stops at the last sync's time, but the UPDATE that takes `is_starred` away
   treats it as complete: repositories that are starred still lose the flag that
   `github-repository-ingestion.md:127` describes.
5. **TokenRotation, NewestIsAccepted** (`endpoints_sessions.py:116`). The family is read
   from the looked-up record, and the cache entry of a new token has none: a refresh
   within the entry's life is refused, where the comment at line 113 says to
   re-read the database.
6. **ProgressTracker, FinalStateIsShown** (`url_batch_processor.py:166`). With a threshold above one (eight URLs or more) the last
   increment may queue nothing. The update that the batch forces at its end is queued after it has waited for the processor to end, so
   that nobody takes it: the message keeps an earlier state, where the comment at line 164 promises the final one.

Behaviour met while modelling that no run reports, because nothing in the
repository promises otherwise or a property states it as an exception:

- Background: an execution that is skipped because of one that has published its end and only has its lock to release leaves its
  follower without any event (`progress.py:37` is a PUBLISH). With the default settings an exception of Redis is treated like a held lock, and the request is
  skipped and stays pending (`locking.py:61`; `setup-redis-caching.md:373` speaks of graceful degradation). A second user's submission takes over the first user's row;
  `skip_on_held=false` falls from a held Redis key to the local lock, which
  another process does not see; under the local lock with skip off, three
  executions can overlap, since `release()` drops the entry a woken waiter is about
  to lock (`locking.py:122`); a resubmitted row that has its summary stays
  `pending`; a shutdown during the last publish writes `cancelled` over `success`
  (`failures.py:89`); a crash leaves `processing` for good; `can_retry` is true for a
  cancelled request that `retry_failed_request` refuses.
- Stream hub: a cleanup left over from one run of an id cuts off the readers of the next.
- Sync: rows of one version across a page boundary (a bookmark import makes
  two); tables read in separate sessions; a 304 that ignores highlights and tags;
  UPDATE statements that never reach a client; a version set back by a change
  that was accepted earlier and written later; an apply call whose retry races it writes twice.
- Coalescer: `flush_now` returns at once when the timer has already claimed the
  bucket, so the command runs before messages sent earlier, contrary to its
  docstring (`coalescer.py:151`); a message that passed the check of `_shutting_down` before `shutdown()` set it is
  buffered behind its back, and the process may end before its timer fires; a dispatch goes on
  without the slot it was refused; `/cancel` while another command flushes loses the messages that the command had claimed, which are
  not its own (`message_router.py:290`).
- URL batch: a flow that fails *returns* (`success=False`), and the URL is marked complete, neither retried nor
  recorded (`url_batch_processor.py:541`); a URL whose row another flow owns is processed all the same and its failure
  written nowhere; a cancellation is swallowed while a flow is reaped (`:701`).
- Write queue: writes put behind the drain are never attempted, and a producer blocked there waits for ever; `stop()`
  that times out cancels the worker, where the module's docstring (line 3) says writes always complete.
- Progress tracker: the timeout of the processor's get, when it fires in the turn of the end, leaves a queued count unshown,
  and the caller's forced update comes too late for this as well.
- Task lock: the RSS task does not use it. Slots in Redis: the key's TTL is not renewed, so it may expire under a long operation and its
  count start again; a command that raises can leave a key without expiry.
- Webhooks: two crossing transactions lose a failure or a reset; the count stays when a user enables a subscription, so
  that one failure disables it again.
- Bundles: an item whose progress event raises after it was stored is counted as success and failure; an interrupted run leaves `processing`.
- Stars: a repository put off by the budget, or pending after a crash, is analysed only when it is listed again, that is
  starred again; both the comment at `github_sync.py:323` and the document's line 321 speak of the next run. A star given between the
  page and the stamp is never imported. A 401 of an old token marks a newly connected row. A pending row whose content has come back
  stays pending. A row ingested by hand has no mark while its analysis fails, and an analysis that a sync's flush overtakes leaves the row stale without one.
- Tokens: two refreshes with one token that both read before either retires it leave two live ones; a lost answer ends the family at the next
  try, by design. A session that was ended from the list, or with all, looks like a replay at its client's next refresh past the cache, which is logged as
  `retired_token_replay` and ends the family; a `logout-all` between the two writes of a rotation leaves the new token alive; a
  client can end its own session from the list, where the docstring at `endpoints_sessions.py:306` says that it cannot.
- RSS: items that failed, were over the cap or in the hands of a run that died are not tried again; an error count that a success
  overtook may switch a feed off, and so may failures that lie far apart, as an answer 304 between them is recorded as a success
  of the signal source (`feed_poller.py:221`) and leaves the feed's `fetch_error_count` alone: for RSS no doc says that failures must be
  consecutive, as `config/digest.py:71` does for the digest's channels; items whose insert failed stay out while the etag matches.
- LLM workflow: a repair that fails marks the row an error and tells the user while a later attempt may succeed and
  complete it; when the last attempt fails by its call or its repair the user is told twice; a wait for a slot that times out is reported as
  a timeout of the call; a repair call that times out is not recorded, although the comment at `llm_response_workflow_repair.py:162`
  says every call is; a commit whose answer is lost is followed by another attempt, which may mark the row of a stored summary an
  error.
- Collections: an update may put a collection below its own descendant, where the comment at `collection_service.py:267` speaks
  of the check that a move makes, and two moves that cross may do it together: the cycle is no longer reachable from the top, and a later
  move onto it climbs for ever inside its transaction. A climb may also be endless without a cycle, because the session keeps the first
  answer for the new parent. The children of a deleted collection stay and are not listed. `share_count` stays wrong after
  crossing calls until the next one on its own; two acceptances that cross let two users in by one invitation, and the owner
  can use one up.
- Digest: a post found to be an advertisement by one digest is sent by the next, since a stored analysis is read as none
  (`digest_store.py:637`, where the comment at `digest_service.py:178` speaks of a filter); a delivery hides the post of the same message id in another channel;
  messages that could not be sent are recorded as delivered; a channel may be switched off by a count that a success has reset,
  and the other way round.
- Import: a job whose worker died stays `processing`, as the redelivered message is dropped; a job whose message could not be queued
  stays `pending`; a bookmark whose commit was carried out without an answer is counted as failed, and its job may end `failed` with the request stored; a bookmark of another user with the same address is skipped as a duplicate; two executions may both read `pending`.

## 7 What is not modelled

- *Of the modelled parts.* Background: the override of the database path, language
  resolution, read-only projections of `RequestService` other than the retry test. Stream hub: the
  ownership check and the encoding of events. Sync: session bookkeeping (a client's
  cursor stands for it), tombstones as a kind of record of their own, five of the eight tables, invalid items. Coalescer: other chats
  and users, which share only `self._lock`, and the typing indicator's own task. Batch: cached cards and the
  completion message. Limiters: status and reset, the Redis window, the API's limiter and middleware.
  Stars: pages after the first, the device flow. Tokens: login and access tokens. RSS: several feeds, which share nothing but the cap. Import: other jobs, which share only addresses. LLM workflow: the deferred writes of the
  interactive path, and which model a request names. Collections: positions, roles, smart collections. Digest: digests of a single channel, and
  posts beyond one recent one per channel.
- *Pure data.* Extraction, prompts, summary validation, scoring, ranking,
  formatting: functions of one input, better served by tests.
- *Per-call loops.* Scraper chain and OpenRouter client retry inside one call, and what they do to others is the
  result, an exception, a hang or a cancellation: all four are choices of the calls, flows and stages here. The circuit breaker has
  no user: no code under `app/` outside its own file constructs one, and the client's parameter for it stays unset.
- *Wiring and I/O.* Clients of Telegram, OpenRouter, Qdrant, GitHub, ElevenLabs; configuration;
  CLI; migrations; the web and browser clients. What they do to the modelled state is a nondeterministic choice there.
- *CRUD.* Tags, highlights, goals: single transactions
  without a protocol. Their rows occur in `DeltaSync`.

The map covers a small part of the repository's lines for these reasons: most of them are data models, formatting,
prompts, parsing, HTTP clients and single-transaction endpoints.

## 8 Plan

Done, most important first: the request lifecycle under the background lock; the
progress stream; offline sync; the coalescer; URL batches with their tracker; the write queue with its abstract log; locks and limits in Redis;
media groups, webhooks, source bundles, retried apply calls, the star sync, refresh tokens, RSS and imports; the LLM workflow,
collections and channel digests.

What is left to prove, in this order:

1. Abstract specifications for the lock (one holder), the coalescer (a message is handed on in order) and the import job, with
   the refinements that the invariants of section 5 already contain.

Candidates for further modules: the URL dialogue state, the deferred writes of the LLM workflow, signal ingestion.
