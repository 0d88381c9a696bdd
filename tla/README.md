# TLA+ models of AGENTIC-QUANT

This directory holds TLA+ modules for the stateful core of AGENTIC-QUANT, the
TLC configurations that check them on small instances, and proofs, checked by
TLAPS, of the properties that hold for every value of the constants. All source
paths are relative to `src/agentic-quant/`.

## 1. The system

AGENTIC-QUANT is a Python backend of asyncio components, a React user interface
fed by a WebSocket, and a Tauri desktop shell that starts the backend. Ticks
come in from MT5 or TradingView, become bars of six timeframes, features,
predictions and LLM debates, and end up in Redis, SQLite and a vector database.
`core/main.py` starts nothing yet, so components meet through the event bus and
in the tests.

All backend coroutines share one event loop: they interleave only at `await`s,
and every hazard below is about state that changes across one of them, about
the order of messages, or about a process or a peer that stops in between.

| component | state | operations | talks to | hard part | correct when |
|---|---|---|---|---|---|
| SQLite write-behind queue (`core/memory/long_term/sqlite_history_store.py`) | queue of write jobs, one connection, its open transaction | `_enqueue_write` (behind every insert/update), flush loop, `flush`, `close`, `connect` | outcome determinator, archiver, debate orchestrator | two flushers on one connection, failing statements, cancellation, crash | writes take effect once, in order, and none vanishes |
| Event bus (`core/utils/events/bus.py`) | subscriber lists, running tasks, metrics | `publish`, `subscribe`, `once`, `unsubscribe(_all)`, `shutdown`, `wait_until_empty` | everything | handlers suspend, raise, are cancelled | deliveries counted, ordered, only to subscribers; shutdown ends |
| Incoming tick queue (`core/ingestion/itq_queue.py`) | bounded deque, K, counters | `enqueue`, `dequeue`, `dequeue_all`, `flush` | receivers, aggregation | full queue, stale K | newest ticks kept in order, counters add up |
| OHLCV aggregator (`core/ingestion/ohlcv_aggregator.py`) | bars per timeframe and bucket | `process_tick`, `get_latest_bar` | bus, synchronizer | late ticks, bucket boundaries | bars are the OHLCV of their ticks, closed once |
| Volatility countdown (`core/macro/volatility_countdown.py`) | event list, news-window flag, guardrail | one-second loop, `set_events` | macro engine | late ticks, clusters | guardrail before HIGH events and only then |
| Macro engine (`core/macro/macro_engine.py`) | known events, state, guardrail | start, stop, scrape, callback, cancellations | scraper, countdown, bus | overlapping scrapes, calendar changes | agrees with the countdown and the bus |
| Calendar scraper, news database, regime classifier (`core/macro`) | cached events, score weights | `scrape`, cache reads and writes, `classify` | macro engine | failed or partial scrapes | events keep their identity |
| Redis cache, zone registry (`core/memory/short_term`) | hashes with TTL, ranking sets | upsert, touch, status, top zones | features, dispatcher | read-modify-write across awaits, expiry | ranking and hashes agree |
| Debate archiver (`core/memory/debate_archiver.py`) | interval loop, `pending_archive` | archive, retry | Redis, vector database, SQLite | failure of one of three stores | every debate archived or queued before it expires |
| Outcome determinator (`core/memory/outcome_determinator.py`) | pending predictions (in SQLite) | on bar close | SQLite, bus | reads rows whose update is queued | one outcome per prediction |
| MTF synchronizer, leakage guard, desync detector (`core/ingestion`) | locked timeframes, last bars | guard, build snapshot, fill gaps | aggregator, backtest | locks against tick time | no value of an unfinished bar leaks |
| Tick receivers (`core/ingestion/tick_receiver.py`, `mt5_connector.py`) | sockets, tick loops, backoff, silence | connect, push, receive, stop | terminal, queue, bus | an end stops, errors, an old loop goes on | newest tick arrives, silence is reported |
| TradingView webhook (`core/ingestion/tv_webhook.py`) | token bucket, counters | accept or refuse a request | queue, bus | bursts, invalid bodies | the rate holds between any two moments |
| WebSocket server, dispatcher (`core/ipc`), UI store (`ui/src`) | clients, throttle times | snapshot, broadcast, heartbeat, reconnect | bus, Redis, browser | snapshot against broadcasts, throttling | the client's last state is the server's |
| Debate orchestrator (`core/ai_engine/multi_agent`) | running debates, times of the last ones, cost | debate pipeline with timeouts, agents, critic, brief | bus, Redis, SQLite, vector database | timeouts, overlapping triggers | rate and budget hold, every debate ends in a tempered verdict |
| Vector database, retriever (`core/memory/long_term`) | stored debates and zones, cache | store, query, retrieve | Chroma or Qdrant, Redis | refused filters, absent store | the nearest of the right symbol |
| Feature pipeline (`core/ai_engine/feature_engineering`) | pivot lists, structure, gaps | `process_bar` | models | one pivot in several lists, eviction | pivots claimed when swept, promoted when extreme |
| XGBoost models, inference (`core/ai_engine/xgboost`), training and deployment (`scripts`) | model, meta and metrics files, threshold | train, save, evaluate, deploy, load, infer | files, pipeline | processes killed between two files | a file never says more than was found out; decisions only get more cautious |
| LSTM (`core/ai_engine/neural`, `scripts/train_lstm.py`) | checkpoints, latent cache | train, resume, load, encode | files, Redis | killed training, stale cache | the best is kept, the cache is recent |
| Backtesting (`core/backtesting`) | tick stream, windows | simulate, detect drift | aggregator, guard | order of ticks and news | no look-ahead |
| Desktop shell (`desktop/src-tauri`) | child process, port | start, stop, read the port file | backend | process dies | window knows the port |

## 2. Modules

| module | models | state and actions against the code |
|---|---|---|
| `HistoryStore` | the write-behind queue | `pc[p]`, `batch[p]`, `at[p]` are where each flusher (loop, `flush()` callers, `close()`) is suspended in `_flush_batch`, its local `jobs` and the next job; one action per stretch between two awaits |
| `DurableLog` | what callers are promised | abstract specification: waiting writes become durable, or are discarded, oldest first |
| `EventBus` | the bus | `ready`/`running` are the delivery tasks before and after the handler's call; one action per method and per way a handler ends |
| `TickReceivers` | MT5 connector and tick receiver over a ZeroMQ pipe | `loops[l]` and `sends` are the connector's tick loops and the sends that wait, `receiver` where the receive loop is; one action per method, per poll, per way a receive ends |
| `TVWebhook` | the token bucket and the request handler | the fields of `TokenBucketRateLimiter`; one action per answer of `_handle_webhook` |
| `TickQueue` | the tick queue | the fields of the class, plus which ticks were delivered and lost |
| `OHLCVAggregator` | `process_tick` | `bars` is `_active_bars` of a symbol; one action with the operators `UpdateTF`, `Closing`, `Cascade` for the methods it calls |
| `MarketState` (extends `OHLCVAggregator`) | synchronizer, leakage guard, desync detector on those bars | `lockOf` is `_lock_boundaries`; `MarketTick` is a tick with `update_bar`, `BuildUSV` and `CheckDesync` leave their result in `usv` and `report` |
| `MacroEngine` | countdown and engine composed | `Tick` is the loop with the awaited callback; scrapes are begun and ended by separate actions |
| `StateFeed` | dispatcher, WebSocket server and the hook of the UI | sends are queued tasks; the snapshot reads one section per step; the hook's timers and its socket are separate actions |
| `ZoneRegistry` | the zones in Redis | `commands[t]` is the rest of the Redis commands of the operation that coroutine `t` is in; keys expire and errors strike between them |
| `DebateArchive` | Redis debates, archiver, `pending_archive` | one action per await of a cycle, of the fallback and of the retry; crash and restart |
| `Outcomes` | the outcome determinator over rows whose writes are queued | the handler's read of the pending rows, its queued UPDATEs and its events are steps of their own |
| `Debates` | orchestrator, agents, critic | `stage[d]` is where debate `d` awaits; timeouts may strike at any moment |
| `TechnicalBrief` | the brief and its cuts | the lengths of sections against the limit, in characters |
| `StructurePipeline` | `process_bar` over a day of bars | the lists of the swing detector share the pivots of `piv`; scanner, structure map and liquidity vector follow in one step, as in the code |
| `Inference` | feature builder, engines A and B, ensemble | one action per entry point; intermediate results are kept in `out` |
| `Retrieval` | vector adapters and retriever | a query with its filter, the refusal and the fallback of each back end |
| `ModelArtifacts` | training, evaluation, deployment, loading of the XGBoost models | one action per file written or read; any process may be killed between two |
| `WeightDownload` | the downloader | one action per file and per way its download ends |
| `LatentModel` | LSTM training and inference | epochs with their two checkpoints, killed and resumed; the latent cache |
| `HistoryStoreProofs` | proofs about `HistoryStore` and `DurableLog` | |
| `EventBusProofs` | proofs about `EventBus` | |
| `IngestionProofs` | proofs about `TickQueue`, `TVWebhook`, `OHLCVAggregator`, `MarketState` | |
| `GuardrailProofs` | proofs about `MacroEngine`, `StateFeed` | |
| `MemoryProofs` | proofs about `ZoneRegistry`, `DebateArchive`, `Outcomes` | |
| `DebatesProofs` | proofs about `Debates` | |
| `AnalysisProofs` | proofs about `Inference`, `Retrieval`, `TechnicalBrief`, `StructurePipeline` | |
| `ModelLifecycleProofs` | proofs about `ModelArtifacts`, `WeightDownload`, `LatentModel` | |
| `MC...` | values of the constants for TLC, and which components run side by side | |

`HistoryStore` instantiates `DurableLog` with the refinement mapping
`waiting` = batch of the loop, then batch of `close()`, then queue, and
`log` = the durable jobs; a job in the middle of its individual retries is in
the part of the batch that is left. Variables marked *history* or listed as
ghosts in their module are never read by a guard.

### Modelling decisions

*HistoryStore.* aiosqlite runs submitted statements in order on one thread, so a
statement takes effect when it is submitted and cancelling the coroutine does
not undo it. A statement that cannot succeed (`Broken`) or that happens to fail
(`Transient`) leaves the transaction open; errors on which SQLite rolls back by
itself (disk full, I/O error), two concurrent `close()` calls and `connect()`
while the connection is closing are not modelled. `FlushHangs` is the busy loop
of `flush_all` on a closed store: the whole event loop stops there.

*EventBus.* A task is removed from `_running_tasks` when it ends; the code does
so in a done callback one turn of the loop later. `SwallowsCancel` is the
`asyncio.wait_for` of Python 3.11 (the project requires >= 3.11), which returns
the result instead of raising when the cancellation finds `queue.get()` done.
`shutdown()` from inside a handler and handlers that suppress `CancelledError`
are left out.

*TickReceivers.* ZeroMQ is external: it keeps order, blocks a sender without a
receiver and forgets the messages of a closed socket. A tick is its number at
the terminal. Time counts in waits of the receiver. A second `start()` of the
connector without `stop()` fails in `bind` and is left out.

*TVWebhook.* Tokens are counted in parts of one, so refills are exact; the code
uses floats.

*TickQueue.* The random draw is a choice. K is computed in integers; the code's
floating-point division may be one lower at exact multiples.

*OHLCVAggregator, MarketState.* One symbol, volume 1 per tick. Timestamps come
from the sender, so a tick may be `Late`. The cascade compares the tick with the
end of the bucket the tick itself is in, so it never closes anything; it is
modelled because a change of its comparison would. The wiring of the
synchronizer is that of `test_module1_integration.py`.

*MacroEngine.* Events are at whole seconds and ticks between them. An event's id
contains its time (`calendar_scraper.py:655`), so a moved event is a
cancellation plus a new event, and the known times are overwritten before
`_detect_reschedule` looks at them: that call has no effect and no action.
`stop()` does not stop the countdown. `i_news`, news alerts, the dampening
factor and the length of the scheduler's interval are left out: the scheduler may
scrape at any time.

*StateFeed.* Of the messages only the guardrail, the bar updates and the
snapshot's sections count. A message is a record of the fields the server sends;
`Deliver` reads of it the field that the hook dispatches, which a countdown does
not have, so the screen of the model shows what the real one does. A section of
a snapshot whose read raises keeps what had been read of it. The other reducers
of the UI store are left out, because they read fields the server does not send
(section 5).

*ZoneRegistry, DebateArchive, Outcomes.* An update of `p_hold` may bring a
weight of its own for the score (`Given`), which the hash never gets, and a query
may come without a type (`NoType`). Bars close in order, with gaps between them
(`Gaps`): `CloseTime` and `Elapsed` are the times of the code, while a zone hold
counts bars. Redis commands and committed statements
are atomic; what the history store queues is applied in order (that it does so is
`HistoryStore`'s result). `DebateArchive` counts time in periods of the cycle.

*Debates.* What a language model answers is a choice from small sets of any
integers, as the code checks none of them; an agent that timed out is asked again
without a timeout, so that it answers or fails at last is an assumption about the
provider. `Raises` is every way in which the pipeline of a debate may end in the
`except Exception` of `_run_debate`: the brief, an agent of the second round, a
critic whose answer is no number.

*StructurePipeline, Inference, Retrieval.* Prices are small integers, ratios
pairs, probabilities integers over 10000, similarities percents. Answers of a
classifier have three decimals, so that the weights are exact. A classifier or an
embedding is any value of its set. F1 is kept with the terms of 1e-10 that the
code puts into its denominators, the term being an infinitesimal: it decides
between fractions that are equal without it and between no others, which is so
for samples of up to some thousands. The search goes through 19 thresholds
instead of the code's 100. The embedding of a query is fixed; only
similarities count.

*ModelArtifacts, WeightDownload, LatentModel.* A file that was being written when
its process was killed is torn: no script writes to a temporary name.

## 3. Runs

A run puts the components of one area side by side. Where they share state they
are composed (`MarketState` on the bars of `OHLCVAggregator`, the feed on
guardrails that begin and end, the latent cache on the checkpoints, the archive
on a write queue). Where none reads the state of another, the MC module's
variable `part` picks one per behaviour: the run explores the same states as
separate runs would, and no product of independent ones.

| run | question | instance |
|---|---|---|
| `HistoryStoreLoop` | Is the queue with its loop and `close()` an ordered durable log, and live? | 5 jobs (1 broken), queue 3, batches of 2, any statement may fail, 1 crash, close and connect |
| `Services` | What is left of that when `flush()` shares the connection? Are deliveries of the bus counted, ordered and only to subscribers, and does a handler that never returns hold up others or `shutdown()`? | 3 jobs (1 broken), queue 2, batches of 2, 1 caller, close and connect; 2 events, lists of 2, 1 function, 1 `once` wrapper, cancellation may be swallowed |
| `Ingestion` | Does the newest tick arrive, or silence raise the alert? Does the webhook keep its rate? Is the queue the newest window, are the bars those of their ticks, and do snapshots and reports say what the bars say? | 2 tick loops, 2 ticks, 2 stops, 1 error; 5 requests in 5 moments, bucket of 2; capacity 4, threshold 2, K up to 4, 8 ticks; 2 timeframes, 4 to 8 times, up to 5 ticks |
| `Guardrail` | Is the guardrail on when it must be, explained, off at the end, and on only when it should be if all is punctual? Is every client that was told of it told of its end, and does the UI reconnect? | 5 calendars, 3 of them without a cluster, 3 caches, ticks late by 1 unit, 1 change; 2 connections, 1 fault, 2 events, snapshot of 2 sections |
| `Memory` | Can concurrent operations and failing commands leave a torn or immortal zone? Is any debate forgotten? | 2 coroutines, 2 zones, 3 operations, 1 failure, one weight in the zones and another given with an update; 2 debates, a queue of 2, 2 failures, 1 crash |
| `Debates` | Do rate and budget hold, is every verdict tempered, does every debate end, does the brief fit? | 2 debates of one symbol, 3 answers of each agent (one far off the scale), 2 of the critic (one off it), a midnight; 4 sizes of features, 6 limits |
| `Analysis` | Are pivots claimed, promoted and pointed at rightly over whole days? Do policies only make decisions more cautious, is the threshold the best, is every feature at its place? Are precedents the nearest? | all days of 5 bars over 5 shapes, 18-bar zigzags with a buffer of 8; 8 forecasts, 6 markets, 9 samples; 4 points, both back ends |
| `ModelLifecycle` | What do killed processes leave behind, and what do later ones make of it? | 3 training runs, 1 kill; 1 killed download; 3 epochs, patience 2; 2 starts; 2 predictions, 3 bars with gaps of 1 and 2 and a horizon of 1 |
| `HistoryStoreFlushGuarantee` | Have all accepted writes been executed when `flush()` returns? No. | 4 jobs, 1 caller |
| `EventBusOnce` | Does a `once` handler run once? No. | 2 events, 1 `once` wrapper |
| `DebateUntold` | Is every debate that ends told of? No. | as `Debates` |
| `OutcomeHorizon` | Is no bar beyond the horizon a hit? No. | as `ModelLifecycle` |

Several properties are conjunctions of named parts (`LogIsSound`,
`DeliveriesSound`, `BarsSound`, `MarketSound`, `FeedFlows`, `ZonesSound`,
`ArchiveSound`, `PivotsSound`, `ArtifactsSound`, `LatentSound`, `OutcomesSound`);
each part has its own comment in its module.

*Bounds.* Five jobs with batches of two give three batches, one of them with a
failing job in each position, a queue longer than a batch, and one that fills
while a batch is executed; with a second flusher three jobs make two overlapping
batches, and more add no new pair. Two events and two
subscriptions give two deliveries of the same event, of two events to one
handler, and a subscription between publication and delivery. Eight ticks
overflow a queue of four and pass each value of K. Five ticks on two timeframes
close both, skip a bucket and come back late; the market part explores up to
four ticks in order on a stretch of eight units, two before a lock or a snapshot,
so that gaps of one, two and more buckets occur inside a window of four bars. Two
tick loops and two stops are what it takes for an old loop to run beside a new
one. In `MacroEngine` one unit is five minutes, so that all constants keep their
ratios (3 : 1 : 6 : 6 : 12); two HIGH events and one MEDIUM make clusters, masks
and isolated events. Two connections are an old and a new one. Two coroutines
and two zones give every pair of operations on one key and a ranking with a
winner. A queue of two with two debates fills when a retry is queued too. Long
zigzag days are long enough for a long-term pivot and for a full buffer; equal
highs and gaps are in the short ones. Three training runs are one that passes,
one that fails and one between evaluation and copy. All constants that begin
with `Max` and are marked *bound* in their module only bound behaviours.
`CHECK_DEADLOCK FALSE` is in the runs whose behaviours end there, or whose event
loop hangs.

*Fairness.* The event loop resumes every coroutine whose awaited call is done,
and `asyncio.sleep` returns: weak fairness of `LoopWake`, of each flusher, of
the steps of `close()` and `connect()`, of `StartHandler`, of the delivery of a
cancellation, of `EndShutdown`, of the countdown's `Tick`, of the tick loops and
the receive loop, of the archiver's cycle while its process is up, and of the
timers of the hook; Redis answers commands and expires keys; `wait_for` ends
retrieval, agents and critic. Nothing is assumed of the application, the user or
the peer: it may never call `flush()`, `close()` or publish again, a stubborn
handler need not return, the terminal may have no more ticks, a server may stay
down. `connect()` is fair because a closed store keeps its queue: `WritesEnd`
holds if the application comes back. It and `FlushTerminates` are about
finitely many writes (`MaxJobs`): `flush_all` need not end while writes keep
coming. In a run with several parts the fairness of all of them is assumed, and
no component owes a step in its initial state, so a part that stands still
constrains nothing.

*What holds that is not obvious.* With the loop and `close()` alone the store
implements `DurableLog`, also across failing batches, because the individual
retries run in the order of the batch before the next batch is taken. With a
second flusher order, atomicity and the retry break down: statements of one
land in the transaction of the other, and the ROLLBACK of the second undoes the
first, whose COMMIT then fails. What remains is `TxnHasOwner`. In `EventBus`
the calls of a handler start in publication order although each has a task and a
queue of its own, because tasks start in the order of their creation. Late ticks
make the aggregator start a fresh bar in a bucket that was announced; no tick
is lost, and the announcement is repeated unchanged by the next late tick. The
connector's repetition of the newest tick is what makes the feed recover from
lost messages (`FeedFlows`). The engine's guardrail can be off while the
countdown's is on (a cancellation), never the other way round. The end of a
guardrail is the last word that any reachable client gets, although beginnings
are throttled, and a snapshot older than it cannot bring the guardrail back,
because it carries none; what the screen makes of the message is another matter
(`GuardrailIsShown`, section 5). A zone can be left without a TTL only by a failure or by a
write that races with its expiry. Whatever numbers the agents answer, and
whichever of them is heard, a verdict is tempered where a guardrail or a
disagreement asks for it, only its range is not kept (`VerdictInRange`). A model in
production is never older than the one that was approved, and approvals never go
back, although it may not be the model that was approved (`ProductionPassed`).

## 4. Proofs

Every theorem holds for every value of the constants under the assumptions named
in the modules. Each safety invariant is proved from an inductive one; what that
one adds, and why it is needed, is the argument.

*The store (`HistoryStoreProofs`).*
* `TypeCorrect`, and `TransactionsEnd`, with any callers of `flush()`.
  `TxnHasOwner` alone is not inductive: `TxnInv` adds the types, that only an
  open connection holds a transaction, and that `close()` awaits the connection
  only while it is closing.
* For `Callers = {}`, as with a caller the properties fail: `NothingLost`,
  `LogAlwaysSound`, `LossAlwaysBounded`, and `StoreIsDurableLog`, the step-by-step
  refinement of `DurableLog`. `ControlInv` says who may be where: the loop is
  dead while `close()` runs, so a flusher with a batch owns the open transaction
  and its COMMIT or ROLLBACK cannot fail. `LossInv` adds that what a flusher has
  executed of its batch is in that transaction, or settled if it is retrying.
  `LogInv` adds what the transaction looks like against the batch (`TxnShape`),
  that nothing waits that was not submitted, and that the jobs are in order from
  the durable ones over the loop's batch and that of `close()` to the queue. A
  statement, a commit and a crash each map to one step or a stutter.

*The bus (`EventBusProofs`).* `BusTypeCorrect`, `DeliveriesAlwaysSound`. `BusInv`
adds that deliveries wait in the order of their creation, for entries of the
audience of their event and behind every delivery that has been started, and that
the bus tracks every one that is alive until it is shut down.

*Ingestion (`IngestionProofs`).*
* `TickQueue`: types (the range of K needs `MaxOfTwo`, `ScaleBound` and
  `KRange`), accounting, window, conservation and order, all from `WindowInv`:
  the queue is the last `Len(queue)` sequence numbers, and `delivered` and `lost`
  partition the earlier ones. Conservation and order do not follow from the
  counters, which is why the history is in the invariant.
* `TVWebhook`: `RateIsBoundedAlways`. The invariant adds that what the bucket
  holds now and what was admitted since any earlier admission together stay below
  a full bucket and the refill of the time between.
* `OHLCVAggregator`: `AnnouncementsAlwaysSound` for every price and
  `BarsAlwaysSound` for `0 \notin Prices`: `BarState.update` takes 0 for unset, and
  a webhook "close" without a price publishes it, so with it the extremes of a
  bar are wrong (section 5). `BarsInv` says of each bucket that it has no bar
  exactly when no tick fell into it, that the newest one is open and was not
  announced, and that an older one is open, closed and announced, or was
  announced and opened again by a late tick.
* `MarketState`: `MarketAlwaysSound`. On top of `BarsInv` it needs only
  `MarketSound` itself; that a gap inside the window is no longer than the number
  of missing bars is shown by an injection.

*Guardrail and feed (`GuardrailProofs`).*
* `TypeCorrect`; `GuardrailExplainedAlways` by adding that a guardrail implies a
  registered callback; `ListedIsKnownAlways`; and `GuardrailCoversAlways`, an
  action property that follows from one step alone once `LoneHighState` shows that
  a lone HIGH event within `Pre` leads to one of two states.
* `PunctualAlwaysTight`: as long as all is punctual (the history variable
  `punctual`: no late tick, no change of the calendar, nothing in the cache) and
  the HIGH events of the calendar are at least a cluster's width apart, the
  guardrail is on only near an event. The invariant adds that the events known
  and those on their way are none or the calendar's and that the event of the
  news window is within `Pre`, too; that the loop never sees a cluster follows
  from it (`NoCluster`). What is punctual after a step was so before, with the
  same calendar (`PunctualBefore`), so the invariant need say nothing of the rest.
* `StateFeed`: `FeedInvariant`, `FeedAlwaysSound`. `FeedInv` adds that the hook
  has a current connection exactly while its socket is open, that a connection is
  among the clients as long as its handler runs, that a server that is down has
  nobody to end a guardrail for, that what a lost connection carried counts as
  missed, that no beginning of a guardrail that has ended is the last word in the
  outbox, and what a snapshot under way has read and has still to read.

*Memory (`MemoryProofs`).*
* `ZonesAlwaysSound`, by `ZonesInv`: a zone that no failure, expiry or second
  writer has disturbed has no writer and is whole, or has one, and what that one
  has done goes with the Redis commands it has left; a zone that stayed as it is
  since a query began is found or still to be read. The score of such a zone is
  its `p_hold` times the weight that was used last, which need not be its
  `w_zone` (`ScoreIsProduct`), and no touch of it was lost.
* `ArchiveAlwaysSound`, by `ArchiveInv`: rows, queued completions and retries
  match, a debate whose flag is about to be set is in the vector database, and
  every debate that is not in the vector database, in a pending row or insert, or
  in the hands of the loop (`Safe`) is in Redis and outlives the unit in which the
  cycle has run.
* `OutcomesAlwaysSound`, by `OutcomesInv`: an open prediction that was examined at
  every bar has met no level and no bar beyond the horizon up to the last bar, or
  up to the one before it while it waits for its turn, whatever the gaps between
  the bars; the last queued write of a prediction, or its row when
  none waits, is what was announced last.

*Debates (`DebatesProofs`).* `DebatesAlwaysLimited`, `VerdictAlwaysTempered`, from
`DebatesInvariant`: the rate limit knows the last debate it let begin, and what
is spent together with what the debates under way may still cost stays below the
budget and the most that ran at once. Nothing is assumed of what the agents and
the critic answer but that it is an integer; an answer that is none ends the debate
in `Raises`. That the verdict is in its range is not among what is proved: it is
not so (`VerdictInRange`).

*Analysis (`AnalysisProofs`).*
* `DecisionsAlwaysCautious`: `DecisionsCautious` is about one step, so the
  argument is arithmetic on the session weights and a comparison of the policies.
* `ThresholdIsAlwaysBest`: by induction over the search, the threshold kept after
  k rounds is the lowest of the best of the first k, as the code computes them:
  of thresholds with one F1 it takes the one that the terms of 1e-10 put first,
  which may be a higher one. That a round keeps it needs that a score that beats
  one that no earlier one beats, beats those too (`BetterCarries`); scores are
  fractions with an infinitesimal part, so this is a statement about products.
* `BlocksAlwaysAligned`: the vector after k blocks is as long as their lengths
  sum up to, and later blocks leave it as it is; both by induction.
* `BriefAlwaysFits`: every section has characters, so the joined length of any
  number of them is positive; then by the cases of `Assemble`.
* `HitsAreAlwaysNearest`: of the n nearest points no more than n - 1 others are
  nearer, before and after a fallback.
* `PivotsAlwaysSound` and `LiquidityAlwaysAhead`, both from `PipelineInv`, whose
  core, `DetectorInv`, is about the lists of the detector at any moment of a bar.
  Every id in a list has a pivot of the list's side (`Shaped`), and every list has
  the newest first (`Sorted`: of one bar the high comes first, which is the order
  in which `detect` finds them). The buffer is an upper end of all pivots ever
  made, and each of its pivots is in the list of its side (`Recent`): an eviction
  takes the oldest from both only if it is of the side that is being added. The
  intermediate list is exactly what was promoted, and whatever was promoted is no
  newer than the second of the list below (`Tiers`). That is what keeps a
  promoted pivot at its place: what is added later is newer than its newer
  neighbour, so neither neighbour changes (`SticksOutKept`). For the intermediate
  pivots it also needs that a hole in a list never fills again (`HolesStay`):
  the short-term list may have one, as section 5 says, the intermediate cannot.
  Each step of a bar keeps these (`SwingKeeps`, `PromoteKeeps`, `AlikeKeeps`).
  `ClaimedIffSwept` is inductive given that a pivot in the buffer was there since
  it was made: a pivot that is found in bar n has no bar behind it yet, and the
  last step of the bar looks at all of the buffer (`ClaimingClaims`). A bar closes
  within its range, so a pivot beyond which the close lies was traded through by
  the same bar, and so is claimed: this gives `BrokenIsClaimed` (`NamedIsClaimed`)
  and `LiquidityAhead` (`OpenIsAhead`), of which the rest is about where in the
  vector the distances stand.

*Files of models (`ModelLifecycleProofs`).* `ArtifactsAlwaysSound`, an invariant
and two action properties, from `ArtifactsInvariant`: the files of a trainer
appear in their order, a report is about a model that existed and whose file only
later ones replace, what is to be copied has passed, nobody reports about or
saves a model older than the approved one, and a server between the two files of
a load has a whole model. What it says of `production/` is no more than the code
does: the model there passed, or was saved in the place of one that did before
the copy, and the approvals never go back. `DownloadsAlwaysHonest`.
`LatentAlwaysSound`: the best loss and the patience counter of the run that is
alive are those of its epochs (`BestIsKept`, `CounterCounts`), and no vector
outlives its entry in the cache.

*Recursive definitions.* `AnalysisProofs` begins with what the proofs about them
use: a nonempty set of naturals has a least element, a set that holds 0 and n + 1
for every n in it holds all (`SetInduction`), and a function exists for every
start and every step (`Recursion`). All three are stated about sets and functions,
not operators, so the provers can instantiate them. A definition that is to be
proved about is therefore a recursive function over numbers, and not a fold.

*Assumptions that the proofs use.* Each is what the code or its callers
guarantee, and TLC evaluates it in the runs: the sections of a snapshot are a
sequence and the bound on writes is below the code of a missing one
(`FeedAssumption`); what agents answer are integers, limits are positive
(`DebateAssumption`); the bars that the determinator keeps are more than a horizon
(`OutcomeAssumption`); zones have types and weights are positive
(`RegistryAssumption`); a debate
lives longer in Redis than one cycle of the archiver (`Life > 1`, in the code 6:
with 1 a debate set right after a cycle is forgotten); answers have three
decimals, samples are sequences of [p, y] and blocks have lengths
(`InferenceAssumption`: with other decimals the weights round, and do not sum up
to one); a bar closes within its range (`PipelineAssumption`: those of the
aggregator do, unless a tick has the price 0 of section 5).

*Only model-checked.* Every invariant and action property that a run checks is
proved. What is left to TLC:
* Liveness (`WritesEnd`, `FlushTerminates`, `BusProgresses`, `FeedFlows`,
  `GuardrailEnds`, `Reconnects`, `ZonesExpire`, `DueIsSettled`, `DebatesEnd`) and
  the refinement of `DurableLog` with its fairness (`ImplementsFairDurableLog`):
  they need ENABLED, which TLAPS does not prove about.
* The statements of section 5 that the code does not keep.

## 5. Where code and text differ

Each line is a property that states what the text says, and that TLC finds
violated by what the code does. Four of them, each about several
actors, have a run of their own. For the others, the cfg of the run in the second
column, with the property in the place of its own, gives the counterexample
within a few minutes (for
`FewMissingAreFilled` with `MaxTime = 12`, so that a gap can begin before the
window); `FullQueueRefuses` and `LoadedThetaIsOwn` are action properties
(PROPERTY), the others invariants.

| property | run | the text says | the code does |
|---|---|---|---|
| `FlushGuarantee` | `HistoryStoreFlushGuarantee` | `flush()` guarantees that all writes have been executed (`sqlite_history_store.py:733`) | it returns while the loop still executes accepted writes |
| `FullQueueAccepts` | as `HistoryStoreLoop` | a full write queue is flushed (`:212`) | it raises AttributeError, the write is refused |
| `NotHung` | as `Services` | `flush_all` flushes all that is left (`:268`) | without a connection it loops for ever and stops the event loop |
| `OnceRunsOnce` | `EventBusOnce` | a `once` handler runs once (`bus.py:203`) | it runs again for an event published before its first run is over |
| `FullQueueRefuses` | as `Ingestion` | a tick that meets a full queue is dropped, and False returned (`itq_queue.py:75`) | the oldest is dropped, the new one kept, True returned |
| `FewMissingAreFilled` | as `Ingestion` | at most 5 missing bars are interpolated (`desync_detector.py:47`) | not if the gap begins before the window |
| `NewsWindowIsNow` | as `Guardrail` | NEWS_WINDOW is the moment of the news (`volatility_countdown.py:308`) | after a cluster it lasts until the next event |
| `GuardrailIsShown` | as `Guardrail` | a countdown has `active_guardrail` (`ui/src/types/index.ts:256`) | the server sends `is_active` (`message_schema.py:133`), so the screen never shows a guardrail |
| `SnapshotIsCurrent` | as `Guardrail` | the snapshot is the current state (`message_schema.py:179`) | it arrives behind updates that are newer than what it has read |
| `ScoreIsProduct` | as `Memory` | score = p_hold * w_zone (`active_zone_registry.py:40`) | an update of p_hold scores with a w_zone that the hash never gets |
| `TouchesAreCounted` | as `Memory` | a touch raises `touch_count` (`:283`) | of two that overlap one is lost |
| `CachedZonesHaveTTL` | as `Memory` | a zone is stored with a TTL (`redis_cache_manager.py:329`) | an error between HSET and EXPIRE leaves it for ever |
| `ArchivedAreLeft` | as `Memory` | archived debates are not archived again (`redis_cache_manager.py:432`) | True is compared with "True", so each cycle takes them again |
| `VerdictInRange` | as `Debates` | a verdict is from -4 to +4 (`critic_agent.py:58`) | nobody checks an agent's number, and single-sided results are not clamped |
| `DebatesAreTold` | `DebateUntold` | an exception is caught and leads to the fallback (`bull_agent.py:104`) | in the brief, the second round and the critic it ends the debate without a word |
| `HitsWithinHorizon` | `OutcomeHorizon` | predictions up to 4 hours old are examined (`Overview_document.md:1526`) | the first bar after a gap may be hours later and still a hit |
| `ConfirmedOnce` | as `ModelLifecycle` | predictions without an outcome are taken (`outcome_determinator.py:108`) | until the UPDATE is committed, each bar confirms them again |
| `ProductionPassed` | as `ModelLifecycle` | a model is copied if its evaluation passes (`evaluate_models.py:509`) | what is copied is what is there by then |
| `LoadedThetaIsOwn` | as `ModelLifecycle` | the threshold is kept alongside the model (`model_b.py:689`) | in a second file, which may be another model's |
| `SuccessIsWhole` | as `ModelLifecycle` | exit code 0 is success (`download_weights.py:321`) | a part left by a killed download counts as there |
| `ResumeKeepsBest` | as `ModelLifecycle` | the best model is saved (`train_lstm.py:14`) | a resumed run overwrites it by a worse one |
| `LiquidityNotTaken` | as `Analysis` | swept pivots are marked (`smc_detector.py:33`) | not those that have left the buffer |
| `HitsAreEnough` | as `Analysis` | the top 3 are taken (`Extensive_documentation.md:1349`) | after a refused filter neighbours of other symbols take their places |

Visible in the models or met while reading, without a property of their own:

*Store and bus.*
* `close()` loses the batch of the
  loop it cancels (`:127` "Flush remaining jobs"); `max_retries` 3 (`:51`) is
  never reached, a job is executed at most twice.
* The handler timeout covers only `queue.get()` (`bus.py:120`); `shutdown`
  forgets events published while it waits (`:257`); `max_queue_size` limits
  nothing, every delivery has its own queue (`:70`).

*Ingestion.*
* The connector sends the newest tick again and again, so the receiver never
  takes a stalled terminal for stale. The receiver's backoff starts anew with
  every connect, which always succeeds in ZeroMQ. `disconnect()` leaves the tick
  task running.
* A webhook "close" without a price publishes a tick of price 0; an event that
  fails validation leaves as status 500; `rejected_count` counts only 429.
* A queue that has drained still skips ticks until the next 100th enqueue
  (`itq_queue.py:37`).
* A late tick repeats BAR_CLOSE, and a bar a late tick has started is never
  closed (`events/types.py:124`); a price of 0 counts as "not set" for high and
  low.
* `get_latest_bar` gives an open bar, so the closed bars of a snapshot wired as
  in the tests are none. A locked bar hides its close, not its high and low; with
  the forward lock disabled `apply_guard` returns the live bars.
* The desync detector expects the open bucket too, so a live feed is never
  NONE.

*Macro.*
* A MEDIUM event before a HIGH one hides PRE_NEWS; POST_NEWS is only reported
  when no event is left (`volatility_countdown.py:56`); any cancellation resets
  the guardrail until the next tick (`macro_engine.py:520`); a loop that misses
  the zero second carries NEWS_WINDOW to the next event; a stopped engine's
  countdown goes on publishing.

*Feed and UI.*
* The UI knows only one port, never asks for the full state (the server answers
  `request_full_state`, which the hook never sends), and its reducers
  read field names the server does not send (its snapshot handler stops with a
  logged TypeError at `active_predictions`, after the bars and zones are loaded);
  BAR_CLOSE is not forwarded, and the hook's case for `bar_closed` has no message;
  the bars of a snapshot are the oldest 500 keys. The last bar update, or the
  beginning of a guardrail, before a pause may be suppressed by the throttle.

*Memory.*
* `get_top_zones` without a type reads `zone:rank:{symbol}`, which nobody writes,
  and finds nothing (`active_zone_registry.py:560`). `zone:rank` keeps members
  whose hash has expired.
* Without a level met, the determinator writes TIMEOUT; `Overview_document.md:1540`
  has LATERAL there.

*Debates.*
* Once over budget the cost tracker is never reset by a new day, because only a
  debate that begins would reset it; the rule fallback is given the macro
  context as features; with both agents failed the critic returns a NEUTRAL
  result, where `critic_agent.py:114` says it raises.
* `sections_built` of a brief always lists six sections; a forecast with `p_bsl`
  and without `p_ssl` raises TypeError.
* A debate record has no `outcome`, so precedents are always empty; an empty
  list in the cache never counts as a hit (`rag_retriever.py:113`); the
  orchestrator retrieves with an empty embedding, on which both queries raise.
* Chroma's collections use its default distance, so 1 - distance is no cosine; a
  filter of two keys is refused by current versions; Chroma's zones and Qdrant's
  debates are not filtered after the fallback.

*Features.*
* `process_bar` raises AttributeError whenever a window has a gap
  (`invertable`/`invertible`); a rescan forgets mitigation; the mitigation and
  equal-level code is never reached; arrays that come newest first are read as
  oldest first by some helpers; a high needs four STHs before it is promoted, a
  low three.
* Eviction takes the oldest pivot of the buffer out of the list of short-term
  pivots of the side that is being added, and out of no other
  (`smc_detector.py:187`). A low that gives way to a high so stays in the list
  of lows, while a later one that gives way to a low is removed: the list has a
  hole, and `find_it` compares lows that were not consecutive, although
  `smc_detector.py:11` speaks of three consecutive ones. With the buffer of
  1000 pivots it takes about a thousand swings of one side in a row, so no run
  shows it; `PromotedIsExtreme` is stated for lists without a hole. The promoted
  lists keep evicted pivots.
* A malformed field of a feature block zeroes the later ones of its block, the
  guardrail flag among them; the zone type is looked up in upper case and never
  found.

*Models.*
* `production/` and `weights/` get no meta file, so B keeps the threshold it had;
  the calibrator file is never loaded; calibrated forecasts meet a threshold
  found on raw ones. A torn model file leaves an engine that calls itself
  trained.
* A kill between the two checkpoints loses the best epoch; a
  failed forced download deletes the file that was there.
* An ensemble without trained members computes the rollback and drops it;
  `regime_bias` stays directional after a rollback.

## 6. Not modelled

* *Backtesting*: the simulator calls `pd.read_parquet(chunksize=...)`, which
  raises, and `_scraper.get_events`, which does not exist, so it never replays;
  the fine tuner trains the deployed model in place, so its rollback restores
  nothing; the rest is statistics.
* *Desktop shell*: `ipc_bridge.rs` does not compile (`Stdio.piped()`, a child
  used after it was moved), sets no port and restarts nothing, so there is no
  behaviour to translate.
* *Dataset building* (`build_lstm_dataset.py`): `temporal_split` raises on every
  input, so no data set comes out.
* *Numerics*: `scan_ob`, `compute_v_acc_zone`, `upsert_pivots`, the regime
  classifier's score, volumetrics, networks, trees, metrics, reports.
* *Records and wiring*: event types, memory models, configuration, logging, and
  `main.py`, which starts nothing.
* *Schema migrations*: the scripts only create what does not exist, so running
  one twice after a crash changes nothing.

## 7. Plan

Every invariant and action property of the passing runs has a proof, and every
statement of a text that is known not to hold is in section 5. To model when the code
gets there: the wiring of `main.py`, the simulator's order of ticks and calendar
events, and the life cycle of the backend process. Each needs its own inductive
invariant; liveness stays with TLC. When one of the statements of section 5 is
repaired, its property moves into the passing run of its area and its finding
goes.
