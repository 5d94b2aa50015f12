# Verification of YM_data_collection

This directory holds TLA+ models of the data collection service, the TLC runs
that check them on small instances, and theorems that the TLA+ proof system
proves for every instance. `PROJECT.json` lists components, runs, mutants,
findings, hazards and theorems, and maps every definition to the lines of the
source it models.

Contents: [the system](#1-the-system), [the plan](#2-the-plan),
[the kline stream](#3-the-kline-stream), [the WebSocket manager](#4-the-websocket-manager),
[the flush worker](#5-the-flush-worker), [the derivatives commands](#6-the-derivatives-commands),
[the WebSocket server](#7-the-websocket-server), [migrations](#8-migrations),
[the rate limiter](#9-the-rate-limiter), [export and manifests](#10-export-and-manifests),
[runs](#11-runs), [mutants](#12-mutants), [findings](#13-findings),
[what is proved](#14-what-is-proved), [what is not modelled](#15-what-is-not-modelled).

## 1. The system

The service collects market data from Binance (spot and perpetual futures),
keeps it in MySQL and Redis, checks it, exports it and serves it over HTTP and
WebSocket. It is a set of commands (`apps/`), each a process of its own, that
share one database and one cache and no lock.

| component | state it keeps | operations | hard behaviours |
|---|---|---|---|
| historical kline sync (`apps/run_historical_klines_sync.py`) | position in the range; rows; checkpoint | resume, fetch page, upsert rows, move checkpoint | kill between two transactions; error rows without a position; the bar in progress; dry run |
| realtime ingest (`apps/run_realtime_ingest.py`, `ingestion/`) | Redis entries, rows, checkpoint | one handler per message type | missed messages; swallowed failures; handlers awaited by the reader |
| WebSocket manager (`adapters/binance_ws_manager.py`) | socket, `connected`, subscriptions, attempts | connect, subscribe, read, heartbeat, reconnect, close | reader, heartbeat and main task interleave at every await |
| flush worker (`persistence/flush_worker.py`) | Redis keys with expiry, rows, quality issues | scan, read, upsert on a thread, expire | values rewritten during a flush; partial failures; values that outlive or do not live until a flush |
| recovery sync (`apps/run_recovery_sync.py`) | snapshot of error checkpoints | replay each from its position | stale snapshots; nothing to start from; error status that never clears |
| range resync (`apps/run_resync_range.py`) | rows, checkpoint | refetch a range the operator names | moves the shared position |
| historical derivatives sync (`apps/run_historical_derivatives_sync.py`) | rows, checkpoint per data type | the same loop for funding rates, mark and index prices, open interest | the window of open interest moves while a command runs; stale pages; a market type of its own |
| repositories (`persistence/repositories/`), `persistence/mysql.py` | MySQL tables | upserts, queries, one transaction each | unconditional overwrite; SELECT then INSERT |
| migrations (`persistence/migrations.py`) | `schema_migrations` | plan, apply, record | two runners; a failed migration; changed checksums |
| REST gateway and rate limiter (`adapters/`) | used weight, window, last grant, backoff | acquire, calibrate | several processes on one budget; windows that begin at different times; lost answers |
| query service and API (`services/`, `api/`) | none (cache first, MySQL second) | latest, range, snapshot, backfill of the cache | keys that no writer writes; a backfill that cannot be serialised |
| slippage service (`services/slippage_service.py`) | none | walk the book | partial fills, empty side |
| WebSocket server (`ws/`) | connections, subscriptions, send queues | accept, subscribe, broadcast, heartbeat | limit checked before an await; dictionary changed during a broadcast |
| export, manifests (`export/`, `apps/run_export_dataset.py`, `rebuild_manifest.py`, `run_manifest_audit.py`) | Parquet files and manifest rows | write, register, audit, rebuild | a file without a row and a row without a file; a file overwritten while it is read or hashed |
| quality (`quality/`, `apps/run_quality_check.py`) | quality issues | gap, duplicate and consistency checks | boundaries of ranges |
| normalizers and validators | none | per record | repair; tolerances |
| instruments sync (`apps/sync_instruments.py`) | instrument rows | upsert one by one | partly applied on a failure |
| configuration, CLI, health check, logging | none | | |

How they interact. The writers of a kline stream (one venue, market type,
symbol and interval) meet in two places only: the rows of `spot_klines` or
`perp_klines`, and the stream's row of `ingest_checkpoints`. Realtime handlers
and the flush worker meet in Redis; the query service reads Redis first and
MySQL second, and writes back what it found. The WebSocket manager calls the
handlers and waits for them. The export reads MySQL and writes files and
manifest rows; audit and rebuild compare the two.

What makes each of them correct:

- *syncs*: the position a checkpoint records stands for rows that exist, and
  resuming there skips nothing; a failure is repaired by later runs; a loop ends.
- *realtime*: what was confirmed is stored; the cache follows the stream.
- *WebSocket manager*: a live connection carries every subscription, a lost one
  is replaced, messages come from one socket.
- *flush worker*: a value is in MySQL before it leaves Redis; a flushed value
  that is not renewed leaves Redis.
- *recovery*: an error is cleared once the exchange and the database answer
  (false of the derivatives, section 13).
- *migrations*: what is recorded as applied is, in order, and a changed file is
  refused.
- *server*: limits hold, who is subscribed and connected is reached, who is gone
  is forgotten.
- *rate limiter*: the budget is kept up to what a process cannot see, and
  each request is made in the end.
- *export*: the newest manifest row is true of its file, a rebuild repairs, and
  the audit's verdict is right.

## 2. The plan

| order | modules | composes | what is stated in the abstract | state |
|---|---|---|---|---|
| 1 | `KlineStore`, `HistoricalKlineSync`, `RealtimeKline`, `RecoverySync`, `ResyncRange`, `KlinePipeline` | the four writers of one stream | `KlinePrefix`: the position stands for a complete prefix | done; `KlinePipelineProofs` |
| 2 | `BinanceWSManager` | reader, heartbeat and main task | at most one socket is read, and it carries the subscriptions | done; `BinanceWSManagerProofs` |
| 3 | `FlushWorker` | realtime writers, worker, expiry | a durable latest value | done; `FlushWorkerProofs` |
| 4 | `DerivativesStore`, `DerivativesSync`, `DerivativesRepair`, `DerivativesPipeline` | the three commands on one symbol's derivatives | the prefix again, per data type | done; `DerivativesPipelineProofs` |
| 5 | `ConnectionHub` | endpoints, registry, subscriptions, broadcasts | bounded fan-out | done; `ConnectionHubProofs` |
| 6 | `RateLimiter` | a limiter per process, Binance's count | a budget per minute | done; `RateLimiterProofs` |
| 7 | `Migrations` | racing runs of the command | the records are true | done; `MigrationsProofs` |
| 8 | `ExportManifest` | export, rebuild, audit | rows and files agree | done; `ExportManifestProofs` |

Every safety invariant and action property of a passing run is proved; the
liveness properties are model-checked. What further work would add most: an
abstract specification of the derivatives checkpoints, as `KlinePrefix` is one of
the klines', and the proof that the commands implement it.

## 3. The kline stream

| module | models | state |
|---|---|---|
| `KlineStore` | the exchange's bars, the kline table, the checkpoint row | `now`, `faults`, `table`, `checkpoint`, and the history variable `base` |
| `HistoricalKlineSync` | `_sync_symbol_interval`, one run after another | `hist`: where the run stands and its locals |
| `RealtimeKline` | `RealtimeKlineHandler.handle_message` | `live` (the Redis entry), `rt` |
| `RecoverySync` | `run_async` and `_recover_kline` of the recovery command | `rec`, with the snapshot `cp` |
| `ResyncRange` | `_resync_range` and `_resync_kline` | `rsy` |
| `KlinePipeline` | all of them on one stream | |
| `KlinePrefix` | the abstract specification | `stored`, `from`, `mark` |

One action is what a process does between two points where another process can
get in: an await on the network, a transaction, a kill. So a page of a sync is
three actions. `HistFetch` is the await of `fetch_klines`; `HistPersist` the
transaction of `upsert_batch`; `HistMark` the transaction of
`_update_checkpoint` with the rest of the loop's body (advance, stop on a short
page or past the end). Normalizing and validating change nothing shared and are
part of the steps around them; a bar that `validate_kline` rejects is in
`RejectedBars`. A repaired bar counts as acceptable.

`table[b]` says whether bar `b` has no row, a row taken while the bar was still
open (`"partial"`), or one taken after it closed (`"final"`): that is all the
properties need of the prices. Both `last_event_ts_ms` and
`last_kline_open_ts_ms` are kept because the writers fill them differently and
read different ones. The history variable `base` is where the range begins
that the position stands for: a run that does not resume begins a new range.

Failures are separate actions, bounded by `MaxFaults`: a failed fetch, a failed
write (both go through the code's handlers, which write a checkpoint with
status error) and a kill or an unhandled exception at any point, which writes
nothing. The bounds are `MaxTime` on the clock and `MaxFaults`.

### Properties

- `GaplessPrefix`, `PrefixKept` (refinement of `KlinePrefix`): every acceptable
  bar of the range up to the recorded position has a row, whatever failed.
- `FinalRowsStay`: a final row is never overwritten by a partial one. It holds
  for historical sync and recovery in turns. With a realtime writer, or two batch
  commands at once, it does not, because `upsert_batch` overwrites
  unconditionally; nothing in the repository claims that it does.
- `PositionAdvances`, `RunsEnd`, `AllClosedBarsStored`: the position moves
  back only to NULL, the loop ends, and repeated runs complete the data.
- `HistInv`: the inductive invariant that explains the above, in the run with
  recoveries between the runs of the sync.
- `PositionIsStored` and `CheckpointInv` (`EventBelongsToPosition`,
  `ErrorForgetsPosition`): what is left of the promise when all four writers
  run at once. The position still names a bar with a row, or a rejected one; no
  row mixes the fields of two writers; an error row has no position.
- `CommandsEnd`, `RecoveryClearsErrors`: the batch commands end; with a
  configured historical start, recovery makes each error good.

### Fairness

A batch command that has begun goes on (`WF` on its steps): its event loop runs
nothing else. Nothing is assumed of failures. `Relaunched`, the premise of
`AllClosedBarsStored`, and `RecoveryRelaunched` describe an operator, or a cron
job, that keeps launching the command: strong fairness on the launch, because
another run may be in progress each time it is tried, and weak fairness on the
clock. They are used only where the property is about what relaunching achieves.

## 4. The WebSocket manager

`BinanceWSManager` models `adapters/binance_ws_manager.py` as
`apps/run_realtime_ingest.py` drives it. Everything runs on one event loop, so a
step is what one task does from one await to the next.

| variable | code |
|---|---|
| `conn[m]` | `_ConnState`: `ws`, `connected`, `subscriptions`, `reconnect_attempt` |
| `sockets[m]` | every socket ever opened, and what the server knows of it: open, dead or closed, SET_PROPERTY received, streams subscribed, replies outstanding |
| `reader[m]` | `_reader_loop` and `_try_reconnect`: in the backoff sleep, in the send of the resubscription, in `recv`, in the callback |
| `hb[m]` | `_heartbeat_loop`: asleep, or waiting for a pong of the socket it pinged |
| `runner` | `run_forever` before it has created its tasks |
| `main` | `run_async`: connect and subscribe per market type, run, `close()` |

A socket that died silently (`dead`) looks open to every send and is closed by
the library's keepalive; only then do `recv`, `send` and `ping` raise. Faults
are a lost connection (at once or silently), a refused connect, a connection
that closes between its opening and SET_PROPERTY, and a late pong of a healthy
connection; `MaxFaults` bounds them. `MaxAttempt` is where the backoff has
reached its cap; the delay itself is a wait of any length. `MaxCalls` bounds
the calls of `subscribe` and `unsubscribe` while the process runs.

- `CurrentSocketOnly`: the reader receives on the socket that `subscribe` and
  the heartbeat use.
- `RoutableMessages`: no stream is subscribed on a connection that does not
  send the stream names.
- `SubscriptionsAgree`: on a live connection the server's subscriptions are
  `state.subscriptions`, whatever was called during a reconnect.
- `AttemptsCountFailures`: the attempt counter counts while there is no
  connection, and only then.
- `HeartbeatBlamesItsSocket`: a failed ping takes down only the connection that
  was pinged. It holds because the reader's first backoff is not shorter than
  the event loop's round in which a closed socket fails its pong
  (`PongIsLost`).
- `Recovers`: after the last failure every market type with streams is
  connected, subscribed and read, until shutdown or a failed start.

Fairness: the event loop runs each task that can go on, a subscribed stream
keeps sending (without a message the reader cannot notice that a late pong has
marked its connection down), and the library closes dead connections. Faults
and the signal are not fair.

## 5. The flush worker

`FlushWorker` models `persistence/flush_worker.py` and what the realtime
derivatives and depth handlers write for it. Time is counted in flush
intervals: `Tick` is the boundary at which the worker is due and every TTL
loses one. Of a value the model keeps whether MySQL has it (`stored`) and how
many more boundaries Redis keeps it (`ttl`).

| variable | code |
|---|---|
| `redis[k]` | the key, its TTL, whether its value is in MySQL |
| `worker` | where `_loop`, `flush_once` and `_flush_data_type` stand; the keys found by the scan, and those of them not rewritten since they were read |
| `due` | the sleep is over and the flush has not begun |
| `lost` | history variable: keys a value of which expired before it was in MySQL |

The scan, the reads and the preparation of the first upsert happen without an
await (`Scan`); the upsert runs on a thread (`Upsert`), during which handlers
may write; the expiry of all scanned keys follows without an await (`Resume`),
so it also hits keys that were rewritten meanwhile. `Stop` cancels the task at
an await and leaves a running thread to finish (`Drain`); `Kill` leaves
nothing; the supervisor starts the process again (`Start`). Faults, bounded by
`MaxFaults`, are a failed scan, upsert or expire, a boundary that finds the
worker busy or the process down, a stop and a kill. A type in `BrokenTypes`
always fails, at no cost in faults.

- `NothingLost`: with a retention two intervals longer than the faults, no
  value expires before it is in MySQL. The shipped retention of two intervals
  therefore tolerates none: a value rewritten while its predecessor is being
  upserted has its TTL of 300 s cut to 120 s, and one failed flush later it may
  expire between two boundaries.
- `FlInv`: why. `TtlCoversTheFaults` says that the TTL of a value that is not
  in MySQL is at least the retention less the faults so far, less one while
  the flush that will store it is still to reach it (`InCycle`).
- `SilentKeyIsFlushed`: when the handlers fall silent, what they wrote last
  reaches MySQL, whichever other types keep failing.

Fairness: the event loop runs the worker, Redis expires keys, the supervisor
restarts the process (`autorestart` in `deploy/supervisor`), and time passes.
Nothing is assumed of the handlers.

## 6. The derivatives commands

`DerivativesStore` holds what the commands share for one symbol: the exchange's
records of the four data types, the rows of the `perp_*` tables (`rows`), the
checkpoint rows (`ledger[market][type]`), the history variable `base`, and the
paging loop that each command runs over a data type (`Loop`). `DerivativesSync`
is `run_historical_derivatives_sync.py`: it walks through the data types, each
with a checkpoint of its own, and a failure stays with its data type.
`DerivativesRepair` is the derivatives half of the recovery and of the range
resync. `DerivativesPipeline` puts them together.

| variable | code |
|---|---|
| `hist`, `loop` | `run_sync`: the data types to come, their ranges, `results`; the locals of the current `_sync_*` |
| `rec`, `recLoop` | `run_async` of the recovery: the listed checkpoints with the positions they had; the locals of `_recover_*` |
| `rsyLoop` | the locals of `_resync_*` |
| `ledger["usdt_perpetual"]`, `ledger["perp"]` | the checkpoint rows under the market type that the historical sync hard-codes and under the one that the command line of the others knows |

A page is again three steps: the await of the fetch, the transaction of the
rows, and the transaction of the checkpoint with the rest of the loop's body.
`Answers` is what the exchange may send: the first records of the range, or
(the loops guard against it) one from before the start. Open interest is served
for `Window` ticks only: `--data-types auto` clips the range when it is
launched, named data types are refused when the range lies outside, and by the
time of a later fetch the window has moved on (`OpenInterestRefused`).

- `GaplessPrefix`: a position is safe to resume from, across the commands'
  hand-overs, stale pages, failures and kills.
- `RecordedInv`: a position names a record whose row was committed first, or
  one the validator rejected.
- `SuccessMeansStored`: exit code SUCCESS of a run that met no stale page means
  that nothing it was asked for is missing. (The guard against stale pages ends
  the loop of a data type without an error, hence the premise.)
- `CommandsEnd`: loops end.
- `RecoveryClearsErrors`: what the repository's README says of recovery, for the
  data types it knows. (Open interest is excepted, since its window may have
  moved on.) It is false, and the run `derivatives_recovery` shows it.

`RecoveryMarket` is the market type recovery filters the checkpoints by. The
sync writes them under `usdt_perpetual`, and `--market-type` takes `spot` and
`perp` only, so a recovery that is started from the command line never touches
one: `derivatives_recovery` gives it `perp`. Its loops are reached by a call of
`run_async` with `usdt_perpetual`, which is what `tests/test_recovery_sync.py`
makes; the run `derivatives` gives it that value, to check what the loops
do to the rows and the checkpoints they share with the sync. The theorems hold
for every value.

Fairness is that of the klines: a command that is under way goes on, and
`RecoveryRelaunched` describes the operator that keeps launching recovery.

## 7. The WebSocket server

`ConnectionHub` models `ws/handler.py`, `ws/hub.py`, `ws/subscription.py`, and
the topic keys of `ws/protocol.py` and `ws/publishers/`. Everything runs on one
event loop; a step is what a coroutine does between two awaits.

| variable | code |
|---|---|
| `handler[c]` | where the endpoint coroutine of client `c` stands: in `accept()`, in `receive`, in the send of an answer, gone |
| `up` | clients whose connection is open |
| `topics[c]` | `SubscriptionManager._topics` |
| `order`, `connections` | the dictionary `_connections`, with its order of insertion |
| `cast[b]` | a call of `broadcast`: the topic, how far the loop over the dictionary has got and the size it expects, the connections found broken |
| `overlapped` | history: two `accept()` calls were awaited side by side |

The loop of `broadcast` runs over the dictionary and awaits a send in its body:
when a client has joined or left meanwhile, the next turn raises
`RuntimeError`, the remaining clients miss the message, and the broken ones that
were found stay in the registry until their own endpoint removes them. The
model follows Python here: a change of the *size* is what raises.

- `HubInv`: an open client that is served is registered and nobody unserved is
  (a client that a broadcast threw out is no longer open); subscriptions are
  valid and within the limit, all or nothing.
- `CutShortByChangeOnly`: what the registry's changes do to a broadcast is all
  that can be done to it. A failed send, a client that unsubscribes or another
  broadcast robs no subscriber of the message. `cast[b].owed` is the history
  behind it.
- `LimitUnlessOverlapped`: the limit on connections is checked before the
  await of `accept()`; only clients that overlap there pass it.
- `HubSettles`: broadcasts end, and who is gone leaves the registry.

Fairness: an await of a socket ends, since the server's keepalive closes silent
connections; what a client sent before it left is read first, and that is
finite (strong fairness of `Disconnect`). The run has `CHECK_DEADLOCK FALSE`
because each client connects once and each cast is one call: the model stops
when they are used up.

## 8. Migrations

`Migrations` models `persistence/migrations.py` as the command
`init_mysql_schema` runs it. A run is cut where it talks to MySQL: each
statement, each SELECT and each INSERT or UPDATE of `schema_migrations`. Every
statement of the migration files is a `CREATE TABLE IF NOT EXISTS` and commits
by itself.

| variable | code |
|---|---|
| `files` | the checksum of each file as it is now |
| `tables` | the statements that took effect |
| `records` | `schema_migrations` |
| `run[r]` | a run: the files it read, the versions still to apply, the statement or record it is at, what its SELECT found, its result |

Runs start, race, lose the connection (at a COMMIT, after or before it took
effect) and are killed; a developer edits a file. `Wrong` are the contents
whose last statement MySQL rejects.

- `SuccessIsTrue`: a version recorded as success has all its tables, and a run
  that reports the schema as up to date is right. A racing run can overwrite
  success with failed; it cannot make a false success.
- `AppliedInOrder`: nothing of a later file takes effect before all of an
  earlier one.
- `Converges`: run again and again, every version is in the end recorded as
  success, unless a file is wrong or differs from the checksum recorded for it.

Fairness: a run under way goes on, and the command is launched again and again
with `--apply` (strong fairness of `Start`, as a run may be under way each time).

## 9. The rate limiter

`RateLimiter` models `adapters/rate_limiter.py` and the `_request` of the REST
adapters against the weight that Binance counts. Each process has a limiter
whose window begins with the process; Binance's minute is its own (`minute`,
`charged`). `limiter[p]` holds the counter, the ages of the window and of the
last grant, and where the coroutine stands: asleep until the window ends, in
the sleep of the minimum interval, or waiting for the answer. Clocks are ages
that stop where the code no longer tells them apart.

- `OvershootBounded`: how far the count can pass the budget. A process sees the
  count only with its own answers, counts every request as 1 until then, and
  resets its counter at a time of its own: per process that is two heavy
  requests, and one for each answer that was lost.
- `EveryRequestIsMade`: a request that waits for the window is made in the end.
  A limiter serves one coroutine, so nobody else touches its counter or window;
  what could hold the request up is the counter that the last answer raised.

Fairness: time passes, a sleep that is over ends, a request is sent and is
answered or times out.

## 10. Export and manifests

`ExportManifest` models `run_export_dataset.py`, `rebuild_manifest.py` and
`run_manifest_audit.py` with `export/parquet_writer.py` and the manifest
repository. They are processes without a lock on one directory and
one table.

| variable | code |
|---|---|
| `db` | the bars an export finds; a sync may change one |
| `file[p]` | the dataset file: absent, written in part (`torn`), or with its content |
| `rows` | `file_manifests` in the order of their ids |
| `ex`, `rb`, `au` | the locals of the processes of each command |
| `changes`, `settled` | history: how often a file or the table changed, and whether the last to change a path ran alone and finished |

Opening a path for writing destroys what was there, two exports on a path can
overwrite each other's bytes, and the hash is taken from the path in a step of
its own. A content stands for size and hash. A rebuild takes the paths
in the order of `PathOrder` (`rb.left` are the positions it still has before it);
the audit takes the listed rows in any order.

- `ManifestInv` (`SettledPathDescribed`): where the last command to touch a
  path ran alone and reached its insert, the newest row describes the file, in
  hash, count and range, whatever was killed or failed before.
- `RebuildRepairs`: a rebuild that no export ran into, whose inserts all
  succeeded, leaves for each readable file a row the audit accepts.
- `AuditVerdict`: an audit during which nothing changed reports success exactly
  when every row it listed is true, and says that files are missing only when
  one cannot be found or opened.

There is no liveness to state: each command is one pass. The run has
`CHECK_DEADLOCK FALSE` because commands are bounded by `MaxRuns`.

## 11. Runs

| run | bounds | what it shows |
|---|---|---|
| `kline_turns` | four bars of two ticks, one of them rejected, pages of two, two failures, two starts, an end in the middle or now, historical start 1 | sync and recovery in turns: the safety properties, the refinement, that runs end, that relaunching completes the data and that recovery makes errors good |
| `kline_concurrent` | two bars, pages of one, one failure, all four writers at once | what no interleaving breaks, and that batch commands end |
| `kline_realtime_gap` | three bars, pages of one, one failure, with the realtime handler | the first finding |
| `flush_worker` | three types, one of them always failing, four keys, retention 3, one fault | the inductive invariant, `NothingLost` and `SilentKeyIsFlushed` |
| `ws_sockets` | both market types, spot without streams, two faults, one call, attempts up to two | the safety properties of the WebSocket manager |
| `ws_recovers` | the same, no calls | recovery |
| `derivatives` | four data types, two records of open interest and one of each other, one rejected, pages of one, a window of one tick, clock up to three, one failure, commands in turns, recovery called with `usdt_perpetual` | safety, what success means, and that loops end |
| `derivatives_recovery` | the same, recovery with `perp` | the second finding |
| `hub` | two clients, two broadcasts, a limit of one connection and of two topics, five requests | registry, subscriptions, fan-out, limits, settling |
| `migrations` | two runs at once, versions 0 to 2, one file of two statements that may be wrong in the second, one edit, one fault | the records are true, in order, and converge |
| `rate_limiter` | two processes, a minute of two ticks, an interval of one, a budget of three, weights one and two, one lost answer | the overshoot and that everybody is served |
| `export` | two paths, two exports, rebuild and audit, three commands in any overlap, one changed bar, one kill or error, exports interchangeable (symmetry; no liveness) | rows and files, repair, verdict |

Why the bounds are enough: with pages of one or two bars a range takes several
pages, so a failure can fall on the first, a middle or the last page; one bar
is rejected, so position and rows differ; in `kline_turns` the clock passes
the close of every bar, so every bar is seen open and closed; two failures allow
a failure of the run that repairs a failure. `kline_concurrent` has two bars
because four writers interleave at every step; its clock passes the close of
the first and the opening of the second.

For the WebSocket manager, two faults let a second failure fall into the
handling of the first (a refused reconnect after a lost connection, a lost
connection during the resubscription, a late pong during it). `run_async`
connects the market type with streams and `run_forever` the one without, which
a call may then subscribe. For the flush worker, `depth_snapshot` has two upsert
calls and the other types one, so a failure falls before, between and after
the calls of a type; one message writes two types at once, and one fault with
a retention of three is the tightest case that `NothingLost` allows.

In `derivatives`, open interest needs two pages and its window passes both
records while commands run, so that a range is whole, clipped, refused at
launch and refused in the middle of a loop; a data type fails while others
succeed. The commands take turns (`Beside = FALSE`): the resync's checkpoint
rows are its own, and rows only grow. In `hub`, a limit of one with two clients
is passed exactly when their accepts overlap, two casts overlap each other,
every join, departure and failed send, and requests name a topic twice, an
invalid one behind a valid one, and a number. In `migrations`, two versions
behind the bootstrap show the order, two statements a half-applied file, and
two runs are racing or one behind the other; the edit is the correction of a
wrong file or the spoiling of a right one. In `rate_limiter`, a minute of two
ticks gives every offset of two windows to Binance's minute, and a budget of
three is used up by two requests. In `export`, three commands are what it takes
for one to run into another and a third to judge; one path is touched by
several commands while the other is not.

## 12. Mutants

Each property of each passing run has a mutant: a definition named `Mut...`
that stands before the definition it replaces and changes it the way a bug
would (the run does not resume, an empty page is asked for again, the position
recorded is the end of the range, the limit is off by one, the hash is taken
before the file is closed). The run's own configuration then finds the property
violated.

## 13. Findings

Two disagreements are shown by runs. The lines and the quoted statements are in
`PROJECT.json`.

- `kline_realtime_gap`: a realtime bar moves the checkpoint over bars that were
  never fetched, and neither recovery, which reads error rows only, nor a
  resumed sync, which starts behind the position, goes back for them.
- `derivatives_recovery`: the historical derivatives sync records its failures
  under market type `usdt_perpetual`; recovery drops every checkpoint whose
  market type is not its `--market-type`, which can only be `spot` or `perp`. A
  failed funding rate or mark price stays in error until a sync succeeds.

Smaller things met on the way, without a run:

- *Syncs.* A dry run whose fetch fails overwrites the checkpoint with an error
  row. Error rows carry no position, so recovery without
  `historical_start_ts_ms` (null in `config/base.yaml`) never recovers one, and a
  failed recovery puts back the position of its snapshot, NULL, over what its
  own pages recorded. A recovery whose first page is empty is reported as
  recovered and leaves the checkpoint in error. Two processes that both find no
  checkpoint row race on the INSERT.
- *Derivatives.* The resync keeps its checkpoints under `perp`, where the
  historical sync does not look; recovery, called with any market type,
  does not know index prices.
- *Flush worker.* Flushed keys have their TTL renewed at every cycle, so a key
  nobody writes any more is upserted again and again; `run_realtime_ingest`
  gives the worker no quality repository, so a failed type leaves no issue.
- *WebSocket manager.* A reconnect whose SET_PROPERTY or SUBSCRIBE fails leaves
  `connected` True until `recv` raises. A reconnect that finishes while
  `close()` waits for another socket leaves its market type connected. After a
  late pong on a market type without streams, a `subscribe` is recorded and
  not sent.
- *WebSocket server.* A broadcast is aborted by any client that joins or leaves
  during one of its sends; the limit on connections is passed by overlapping
  accepts.
- *Migrations.* A migration that failed, was recorded and is then corrected is
  refused, because its checksum has changed.
- *Rate limiter.* Nothing calls `on_rate_limited`; the minimum
  interval is measured from the grant of the previous request, not from its
  sending, so two requests can be closer than the interval.
- *Query service.* The backfill of the cache never serialises rows from MySQL
  (`Decimal`, `datetime`), and its keys name the market type where those of the
  realtime derivatives handlers name the venue.
- *Export.* An export over an earlier one leaves the earlier row, with its old
  hash, ready; a rebuild adds rows beside the existing ones. Rows made with a
  relative `--output-dir` cannot be resolved by the audit. An audit without a
  dataset name or a symbol checks nothing and succeeds. "not found" is looked
  for in the text of a finding, and the error of a torn Parquet file contains
  it, so the exit code says a file is missing. The audit compares the requested
  range with the one of the data. `run_export_dataset` parses
  `--resample-enabled` and its companions and does not use them.

## 14. What is proved

Each proof module has one lemma per action under a main theorem
`Spec => []Invariant`, and derives the properties of the runs from it. The
assumptions are those named in the modules.

**`KlinePipelineProofs`**, first part: the historical sync alone, for every set
of bars, page size, number of failures and choice of arguments (bars are a
finite set of naturals, pages hold at least one bar, NULL is not a timestamp):

- `HistInvariant`: `HistSpec => []HistInv`. `GaplessPrefix` alone is not
  inductive: that the position may move to the end of a page needs
  `ResumePointCovered` (everything before the page's start is stored),
  `PageIsContiguous` (the page leaves out no bar up to its last) and
  `MarkedPageIsStored` (its rows were written). `PositionIsBehindTheRun` is
  needed for a run that resumes later, `FinalRowsAreClosed` for `FinalRowsStay`.
- `HistTypeCorrect`, `CheckpointIsGapless`, `HistFinalRowsStay`,
  `HistPositionAdvances`: the safety properties of the run `kline_turns`, here for
  the sync alone.
- `HistImplementsPrefix`: the sync implements `KlinePrefix`.

The key lemma is `FetchKlinesIsAPrefix`: a page holds, with a bar, every
earlier bar of the range.

Second part: the four writers of a stream in any interleaving:
`PipelineInvariant`, `PipelinePositionIsStored`, `PipelineCheckpointRow`.
`PositionIsStored` is not inductive: a writer between its two transactions is
about to record what it stored. `PipelineInv` therefore has one clause per
writer, that what it is about to record has its rows. Rows only grow, so no
writer disturbs another's clause, and a recovery's snapshot is an error row,
which has no position to put back.

Third part: sync and recovery in turns (`InTurns`: the writers are these two and
`Serial` holds, as in the run `kline_turns`). `TurnsAreGapless`: the position
they share stands for a complete prefix; `TurnsImplementPrefix`: together they
implement `KlinePrefix`; `TurnsKeepHistInv`, `TurnsFinalRowsStay`,
`TurnsPositionAdvances`: what holds of the sync alone holds with recoveries between
its runs. `TurnsInv` adds to `HistInv`, which the sync's half
keeps, what the variables of a recovery stand for (`RecTurn`): the bars before
its current page are stored, its page leaves out none and was fetched after its
final rows were closed, and the checkpoint has not got past it. The resync and the realtime handler are not in it: both
move the position to what they stored, whatever is missing before it (section 13).

**`DerivativesPipelineProofs`**, for the three derivatives commands, any
records, window and faults, a resync beside the others or not:

- `DerivativesInvariant` and `DerivativesRecorded` (`RecordedInv`). The argument
  is that of the kline pipeline with one difference: an error row of recovery
  puts back the position of its snapshot, so the snapshot itself must be of
  stored records, and stays so because rows only grow.
- `CheckpointIsSafe` (`GaplessPrefix`). `GaplessInv` adds that sync and recovery
  take turns, that a loop has stored everything from the start of its data type
  up to where it stands (`LoopGapless`), and that recovery's snapshot is still
  what the checkpoint says of each data type to come (`RecoveryGapless`). The
  last two are needed of recovery only when it is given the sync's market type;
  under another one it writes rows of the ledger the sync does not read.
- `SuccessIsComplete` (`SuccessMeansStored`). `SuccessInv` says it of the run in
  progress, for the data types it is done with: for each, the range as it was
  when the run began is stored, unless a page was stale or the data type failed.

**`FlushWorkerProofs`**, for every list of types and upsert calls, every TTL,
retention and number of faults, under `TypesAssumption` (each key has one
type), `TtlAssumption` (the retention is not longer than the default TTL) and
`FlushAssumption`:

- `FlushInvariant`: `Spec => []FlInv`. `NothingLost` is about a history
  variable and says nothing of the TTLs; what makes it inductive is
  `TtlCoversTheFaults`. A boundary takes one from each TTL, and either the flush
  that begins then reaches the key (`InCycle` gives the one back) or the
  boundary was a fault. A failed type drops out of `InCycle` at the cost of a
  fault. `ReadKeysAreThere` and `DueOnlyAsleep` say which keys a flush still
  has ahead of it.
- `FlushTypeCorrect`, and `FlushLosesNothing`: a value that is about to expire
  has TTL 0, which the invariant allows for a stored one only.

**`ConnectionHubProofs`**, for every number of clients, broadcasts, topics and
requests, under `HubAssumption`: `HubInvariant`, `HubIsConsistent`,
`LimitHoldsUnlessOverlapped`, `CastsReachSubscribers`. `CutShortByChangeOnly`
speaks of the end of a broadcast; what carries it there is `Owes`: the loop has
at least as many turns left as the dictionary has entries behind its position,
and every client still owed the message is one of those. It needs that the
dictionary holds each client once (`OrderInv`). `LimitInv` counts a client that
is being let in beside those registered. The next entry of the loop is a
minimum of a set of positions; that such a minimum exists and is the least is
the lemma `MinIsSmallest`, from the library's theorems on well-founded
orderings of finite sets.

**`MigrationsProofs`**, for every number of runs, versions, statements, edits
and faults, under `MigrationsAssumption`: `MigrationsInvariant`,
`MigrationsTypeCorrect`, `RecordedSuccessIsTrue`, `MigrationsInOrder`. The invariant says for each place
a run can stand at what has taken effect (`RunOK`): it is at the bootstrap, or
every version that is not in its `todo` is applied (`Relies`), and so are the
earlier statements of the version at work. Tables are never dropped, so a run
cannot invalidate what another relies on.

**`BinanceWSManagerProofs`**, for any streams and any number of lost
connections and calls, one market type or both: `WsInvariant`, `WsTypeCorrect`,
`ReaderIsCurrent`, `EverySocketIsRoutable`, `ServerAndClientAgree`,
`AttemptsAreCounted`, `HeartbeatIsFair`. The tasks of a market type touch nothing
of another's, so most of `WsInv` is `MarketInv`, about the state of one:

- `SocketsInv`: only a socket on which SET_PROPERTY was sent is open to a
  SUBSCRIBE;
- `ReaderInv`, `HbInv`: the reader and the heartbeat hold the connection's current
  socket; of a heartbeat that waits for a pong, unless that socket was found
  closed. `close()` takes sockets away from readers, which is the exception;
- `Agrees`: the server has the manager's streams, except between a connect and
  the end of its resubscription (by the reader or by `run_forever`), when it has
  only some of them (`Within`).

`TasksInv`, `CloseInv` and `StartInv` say how far `run_forever` and `close()` are:
no reader is at work before all connects are made, and no subscription is
remembered for a market type that is still to be connected. The action property
is shown of the step in which the heartbeat gives up, from `HbInv`.

**`RateLimiterProofs`**, for every number of processes, budget, weight, minimum
interval, length of a minute and number of lost answers, under `RateAssumption`:
`RateInvariant`, `BudgetOvershoot`. The bound is about what was charged and
says nothing of what may still be sent in the minute, so the invariant counts credits
(`RoomIsLeft`): once the budget is used up, a process can send another request
because its counter is out of date (`StaleCounts`) or because its window will be
reset within the minute (`Resets`). A request uses up the first, since its answer
carries the count; a reset turns the second into the first; only a lost answer
gives one back, and is a fault.

**`ExportManifestProofs`**, for any paths, export processes, bars, commands and
faults, under `ExportAssumption`: `ExportInvariant`, `NewestRowIsTrue`,
`RebuildIsARepair`, `AuditIsRight`. `ExportsInv`: an export that ran alone so far
finds its own bytes in the file and their hash in its local. `RebuildInv`: the
files a rebuild has behind it have an accepted row, as long as nobody ran into it
and no insert failed. `AuditInv`: as long as nothing changed since an audit began,
it counted a failure exactly when a row behind it is not accepted, and a missing
file only when some row's cannot be opened.

Only model-checked are the liveness properties (`RunsEnd`,
`AllClosedBarsStored`, `CommandsEnd`, `RecoveryClearsErrors`, `SilentKeyIsFlushed`,
`Recovers`, `HubSettles`, `Converges`, `EveryRequestIsMade`): they rest on fairness,
hence on ENABLED, which the prover does not reach. Every invariant and action
property of the passing runs is a theorem.

## 15. What is not modelled

In general: prices and their conversion, logging, connection pools and the
proxy; MySQL itself (a transaction is atomic, a failed one leaves nothing
behind); the exchange beyond what the fetches and the streams rely on.

Components left out:

- *Query services*: reads of one key or one query; their only write, the
  backfill, never succeeds (section 13).
- *Slippage service*, *resampler*, *normalizers and validators*: pure
  arithmetic or conversions of one record or snapshot, without state, covered
  by unit tests. No command calls the resampler. Which records a validator
  rejects is a parameter of the models.
- *HTTP API*: stateless handlers around the services.
- *Quality checks*: one query and one row per issue.
- *Instruments sync*: one upsert per instrument; running it again is harmless.
- *Configuration, CLI and utilities*, *acceptance checklist*: no state, or a
  script that runs the other commands.

Of modelled components: the funding rate of the realtime handlers, which goes
to MySQL at once; the read side and the key building of the Redis client;
argument parsing; in the migrations, malformed and renamed file names and
`SchemaMigrationRepository`, which nothing uses.
