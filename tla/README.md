# A TLA+ model of blitz

`blitz` is an asyncio HTTP client: a send loop that takes every request through a
circuit breaker, a rate limiter, a backend and a retry policy, together with a
priority queue, a worker pool that scales itself, a DNS cache, a connection pool and
metrics. All of it runs in one event loop, except the thread that displays the metrics.
What can go wrong is therefore what coroutines do to each other between two `await`s,
what cancellation, late answers and repeated attempts do to state that is shared, and
what that one thread sees of a loop that does not know of it.

The rule of translation throughout: **what a coroutine does between two places where
it can really be suspended is one action.** An `async with lock` is no such place
here. No method of the code awaits while it holds one of its `asyncio.Lock`s (the
auto-scaler's lock has one user), so the locks are never contended, and acquiring a
free asyncio lock does not suspend.

## Inventory

| Part | State | Operations | Hard behaviour | What makes it correct |
|---|---|---|---|---|
| `circuit.py` `CircuitBreaker` | state, two counters, time of opening, probe slot | `allow_request`, `record_success`, `record_failure`, `reset` | reports that arrive in another state than the one that admitted the request; one slot for the probe | opens and closes on consecutive reports only; respects the cool-down; the slot is never lost |
| `circuit.py` registry | one breaker per domain | `get` | none: created once, never dropped | - |
| `ratelimit.py` `TokenBucket` | tokens, time of the last refill | `acquire` and its sleep, `drain`, `pause` | the sleep is outside the lock, the refill is lazy, a pause is a negative level | bounded hand-out, bounded waits, a pause is waited out |
| `ratelimit.py` `RateLimiter` | a global bucket, a bucket per domain | `acquire`, `handle_429`, `handle_503` | two waits at once; backpressure from other requests | as for the bucket, for the longer wait |
| `retry.py` `RetryPolicy` | none | `should_retry`, `wait_time`, `sleep` | limits of the attempts, what is retryable | at most `max_attempts` calls of the backend |
| `client.py` `_send`, `_dispatch` | locals of each request; everything above | one coroutine per request | all of the above interleaved; cancellation; an exception from a header | every request ends and is counted once; one report per admission |
| `queue.py` `PriorityWorkQueue` | heap, sequence number, in-flight counter | `put`, `put_nowait`, `get`, `get_nowait`, `task_done`, `join` | two counters for the same thing | counters agree with where the items are |
| `worker.py` `AsyncWorkerPool` | the list of workers, `_running`, three kinds of tasks | worker loop, `_scale`, `_remove_worker`, `start`, `stop` | cancellation that is swallowed, removal across awaits, `stop()` against the scaler | no item is lost; bounds are kept; `stop()` leaves nothing |
| `metrics.py` | counters and sliding windows, global and per domain | `record`, `reset`, `snapshot`, `live` | `live()` takes its snapshots in a thread of its own, and there is no lock | the parts add up to the wholes; a snapshot covers its own total; the thread lives |
| `dns_cache.py` | positive and negative cache, refresh tasks | `resolve`, `invalidate`, `close`, background refresh | lookup outside the lock | neither a block nor an answer from before `invalidate()` lasts beyond its time; at most one refresh per host; `close()` ends, and ends the tasks it finds |
| `pool.py` | session, HTTP/2 client, `_initialized` | `initialize`, `close`, accessors | lazy initialisation against `close` | nothing is opened after `close` |
| `client.py` lifecycle, batch | `_started`, `_closed`, a semaphore | `start`, `close`, `batch`, `stream` | concurrent first use, `close` with requests under way | initialised once, closed once, the cap on concurrency |
| `__init__.py` | the default client | `fetch_all`, `get`, ... | creation after `close`; `fetch_all` inside a running loop | one open default client; a call waits for what can run |
| `utils.py` | none | backoff, `parse_retry_after`, `percentile` | limits | stay within their bounds |
| `request.py`, `response.py`, `exceptions.py`, `benchmark.py` | values and a load generator | - | - | - |

How they interact: `_send` calls breaker, limiter, backend and metrics directly, for
every request of `get`, `post`, `batch` and the rest; the objects of one domain are
shared by all requests to it. The worker pool is started and stopped by the client and
calls `_send` for every item of the queue, but nothing in the repository puts an item
into the client's queue; the pool is modelled as the component its tests exercise.
The client owns a DNS cache and closes it, and never asks it.

## Modules

| Module | What it is |
|---|---|
| `Breaker` | the value of one circuit breaker; each method an operator from the old value to the new one |
| `CircuitBreaker` | a breaker shared by concurrent callers. `Spec` is the contract: every admitted caller reports |
| `CircuitHistory` | `CircuitBreaker` beside a record of the reports, for the properties about consecutive reports and quiet time. `HSpec` is the contract; `HLooseSpec` adds callers that end without a report, and is the abstract specification of what the send loop may do |
| `Bucket` | the value of one token bucket; each method an operator |
| `TokenBucket` | a bucket shared by concurrent tasks, with their sleeps and a record of what was handed out |
| `Backoff` | how long the retry policy may wait after each failure, for its three strategies |
| `SendLoop` | `_send`: `Breaker`, two instances of `Bucket`, the backend, the retry policy with its `Backoff`, the metrics |
| `SendHistory` | `SendLoop` beside the same record, by which it implements `CircuitHistory!HLooseSpec` |
| `SendLedger` | `SendLoop` beside the account that `TokenBucket` keeps of its tasks, by which it implements `TokenBucket!Spec` |
| `WorkQueue` | the value of the priority queue; each method an operator |
| `Dispatcher` | what the worker pool promises to whoever puts an item into its queue; the abstract specification of `WorkerPool` |
| `WorkerPool` | workers, auto-scaler and `stop()` over a `WorkQueue` |
| `DnsCache` | concurrent `resolve`, the background refresh, `invalidate()`, `close()` |
| `ConnectionPool` | the value of the connection pool: the flag, the pair of sessions it refers to, the sessions that are open |
| `ClientLifecycle` | `start()`, `close()`, `batch()` and requests that outlive them, over a `ConnectionPool` |
| `Metrics` | the collector between the event loop and the display thread |
| `MC...` | instances for TLC: model values and the constants of a run |
| `..._proofs` | theorems, checked by TLAPS |

A definition called a *mutant* in its comment is no part of a specification: it is the
definition below it with a plausible bug, and shows that the property named for it in
`PROJECT.json` would notice.

### Circuit breaker (`Breaker`, `CircuitBreaker`, `CircuitHistory`)

`cb` is a record with the fields of the object. `_consecutive_failures` and
`_consecutive_successes` are `failures` and `successes`; `_probe_in_flight` is `probe`.
The monotonic clock is abstracted to `openFor`, the time since `_open_since` in ticks:
the code only asks whether it has reached `recovery_timeout`, so it saturates there.
`caller` says for each caller what it was let through as. `Admit` is `allow_request`
answering True (False changes nothing), `Succeed` and `Fail` are the two reports, `Reset`
is `reset()`, `Tick` the clock.

### Token bucket (`Bucket`, `TokenBucket`)

Tokens are measured in the time it takes to refill them, which makes everything an
integer: one token is worth `Cost` ticks, the capacity `rate * burst_multiplier` is worth
`Burst` ticks. `level` is the value `_refill()` would compute now. Lazy and eager refill
cannot be told apart except by `drain()`, which zeroes `tokens` and leaves
`_last_refill`; `unsynced`, the time since `_last_refill`, keeps that difference.
`Acquire` is `acquire()` up to its sleep, `Wake` the end of the sleep, which may come late.
`hist` is the account that the properties are about: what was taken, what of it was lent, for
how many ticks the tasks have slept (`slept`, which counts a tick once for each task asleep), and
the latest pause. The clock of the specification has no end; the runs stop it at `Horizon`
(`MCBucket!HorizonSpec`).

### Send loop (`SendLoop`)

One coroutine per request, and `pc` is the await at which it is suspended:

| `pc` | suspended in | left by |
|---|---|---|
| `idle` | not started | `Attempt` |
| `acquiring` | `gather` has scheduled the two acquires | `Acquire` |
| `waiting` | the limiter's sleep (the longer of two) | `Dispatch` |
| `flying` | the backend | `Finish`, `Retry`, `Raise` |
| `backoff` | the retry policy's sleep | `Attempt` |
| any of the last four | | `Cancel` |

Two details of the control flow matter. The order of `_send` is breaker,
then limiter, so a probe may hold its slot through a whole pause. And the breaker hears
only of 2xx answers and of errors (`Reported`): a status such as 404 or 500 reports
nothing. `sent` is a history variable (calls of the backend), and so is `role`, which stands
for `caller` when the loop is held against `CircuitHistory`. The record `hist` that
`CircuitHistory` keeps is kept beside the loop in `SendHistory`, from the answers, and nothing
reads it: the runs check the loop with it. `SendLedger` does the same for the domain's bucket: `ledger`
is the `hist` of `TokenBucket`, and `nap` is what is left of the sleep which that bucket alone asks for (the
request sleeps for the longer of two). Its clock and its account grow without bound and no
run includes it; what it states is proved.

An answer is one of seven classes, all that the loop tells apart: 2xx, 429, 503, the
other retried statuses, every other status, a retried error, an error that is not
retried. The waits of the policy are those of `Backoff`: `WaitTimes(n)` is the set of waits
possible after failure `n`, of one element unless the strategy is the random one. The
request sleeps for one of them, and a retried 503 pauses the bucket for another
(`client.py:549-555` draws twice). `RawWaits` does not give the branch of an unknown strategy.

The requests of the model share one domain. Those to other domains have a breaker and a
bucket of their own and meet these only in the global bucket, of which they take a token
whenever they like: that is `Elsewhere`, and it stands for any number of domains.

### Queue and worker pool (`WorkQueue`, `WorkerPool`)

`q` is the queue: `unfinished` is the counter that asyncio's queue keeps for `join()`,
`inFlight` the one that the class keeps beside it. Each worker is `ready` (about to run
its loop), `waiting` (in `wait_for(queue.get())`), `executing`, or `ended`. The scaler is
sleeping or waiting for a `victim`; `doomed` are those it has decided to remove.
`Task.cancel()` sets `cancelled`, and what becomes of it is decided by the await at which
it is delivered: `Die` (the sleep), `GiveUpWait` and `TakeWaited` (swallowed at
`worker.py:168` or by `wait_for`), `Abort` (the executor; `task_done()` runs and the
worker worker dies). `stop()` is `StopCalled`, `ScalerStopped`, `Join`, `CancelAll`,
`StopReturns`, one for each of its awaits.

The local deques of the workers are never filled by any code, so the branches that pop
from them and steal from peers cannot be taken; they are left out. `idle` is the set of
workers that have waited longer than `idle_timeout`, which any worker whose wait has
just ended may have.

`Dispatcher` knows no workers and no scaler: an item waits, is active, finished or lost. Items are
started in the order of priority and then of arrival (`ahead`, a relation on those that
wait, for the sequence number of an item is gone with its entry), one that ends may be replaced by the next in
the same step, as `_worker_loop` does without an await, and the pool stops only when nothing waits and
nothing is active. `Capacity` is the larger of `MinWorkers` and `MaxWorkers` (`start()` does not look at the
maximum). `Lossy` says where an execution may be broken off with its future never set: in a pool that
can shrink, and as half of an excess of one is none, that takes `MaxWorkers > MinWorkers + 1`.

### DNS cache (`DnsCache`)

Only the lookup suspends, so `resolve()` is `Hit` or `Miss`, and what it does with the
answer is `Answer`, `Fail` or `Cancel`; a blocked host raises and nothing changes. The
two dictionaries hold times of expiry; `positive` and `negative` hold what is left of
them, 0 for an entry that has expired and has not been removed yet. `refreshing` is
`_refresh_tasks`. A refresh task ends as `RefreshAnswer`, `RefreshFail` or
`RefreshCancelled`; a task that is cancelled before its first step never enters its
`try`, so its `finally` does not run. `close()` is `Close` and, when the tasks in
`doomed` have ended, `CloseReturns`; one call of it is modelled. `outdated` and `stale` are history: lookups begun
before an `invalidate()`, and entries that are the answer to one.

### Metrics (`Metrics`)

Here the unit is smaller than the rest of the time between two awaits, because a thread may be
preempted anywhere. `record()` is `Enter` (the domain is looked up, and inserted if it is
new), `CountDomain`, `StampDomain`, `CountTotals`, `StampTotal`; `reset()` is `ClearDomains`,
`ZeroTotals`, `ClearRecent`; `call` says which is next. Statements are put together where the
other thread sees nothing in between that a property tells apart: the four counters of a
domain are one action, its window another, the three global counters a third. So what is said of the
counters as they add up (`CountersAgree`, `RatesAgree`) is said of the moments between two
calls, and only what a snapshot reads is said of every step. The snapshot is `ReadTotals`, the two halves of the global rate (`BeginRate` makes the iterator,
`EndRate` has used it up), for each domain `NextDomain` and `EndDomain`, and `Show`.
`reader` holds the part of the snapshot that the properties are about: its total, and
the sum of the requests of the domains it has listed.

Python raises RuntimeError from an iterator whose deque was changed, or whose dictionary has another
size than when the iteration began. `broken` and `size` stand for these two rules, and
`Crash` for the thread that ends of it. `reset()` drops the `DomainMetrics` objects, so an
iteration over a deque of one of them goes on undisturbed (`"dropped"`).

`SnapshotCovered` is about snapshots that no `reset()` overlaps: `reader.reset` is set by a
`reset()` that begins after the snapshot and by a snapshot that begins in the midst of one. The
exception is needed: a snapshot taken wholly between `_domains.clear()` and
`_total_requests = 0` (`metrics.py:198`, `200`) has the old total and no domains.

Time stamps are kept as ages, and a deque of them, which is in the order of time, as how
many it has of each age. A tick happens between two calls only, which
assumes that one call takes no time against a tick: the code reads the clock once for
the domain's window and once for the global one.

### Client lifecycle (`ConnectionPool`, `ClientLifecycle`)

The pool creates its sessions in pairs, numbered as they are made; `open` holds the ones
that nobody has closed, referred to or not. `start()` contains awaits and never really
suspends (`initialize()` and `_spawn_worker()` await nothing), so it is one operator,
`Start`, of whatever action calls it. `close()` suspends three times, and `closer` says
where: `stopping` (the worker pool; `CallClose`), `settling` (the connector and the pause of 0.25 s;
`WorkersStopped`), `finishing` (the HTTP/2 client; `Settled`). It may be cancelled at each
(`CancelClose`).

Of a request only its meetings with the pool are kept: `paused` in limiter or backoff,
`sent` with a session it got from the pool. `SendLoop` has the rest. A stream and a
warm-up probe are requests whose pause ends at once. Members of a batch are first
`queued` at its semaphore. `batch()` waits in `gather()`, which stops waiting at the first
member that raises or is cancelled (`client.py:346`). When one raises, `batch()` raises too (`Raise`), and
the others go on. When `batch()` is cancelled, so are all its members (`CancelBatch`, and no member is
`Live` any more), and it ends with the first of them that has unwound (`Cancelled`); the others
do so afterwards. `BatchEnds` therefore asks for the end of `batch()` and for the end of every
member, those too that nobody waits for.

## Runs

| Run | Shows | Bounds, and why they are enough |
|---|---|---|
| `circuit` | type, `ProbeSlotHeld`, `TripsOnConsecutive`, `ClosesOnConsecutive`, `CooldownRespected`; live: `ProbeResolves`, `CooldownEnds` | 3 callers: a probe, an earlier request and one more whose report interleaves. Thresholds 3 and 2, cool-down 2: each can be missed by one. No other bound: the state space is finite |
| `bucket` | type, `BudgetBound`, `ThroughputBound`, `BoundedWait`, `FirstWaitsOutPause` | 3 tasks, burst of 2 tokens, a token worth 2 ticks so that a wait can be interrupted, a pause longer than a token, the clock stopped at `Horizon`, 7 ticks: longer than a pause, a token and a full refill |
| `bucket_rate_cap` | `RateCap` fails, with a single task | same |
| `send_loop` | type, `AttemptsAccounted`, `MetricsExact`, `BoundedSleep`; live: `RequestsEnd`; refinement: `CircuitRefined` | 2 requests of 3 attempts beside other domains: threshold 2 is reached, the circuit is probed and closed or re-opened, and the other request is rejected, answered late or cancelled meanwhile. Random backoff of 1 or 2 ticks, pauses of 1 and 2: a pause and a sleep after the same answer can differ. A bucket holds one token, so of two requests at once one sleeps |
| `send_loop_probe` | `ProbeExclusive` fails | same, nobody is cancelled |
| `worker_pool` | type, `ItemsAccounted`, `PoolBounds`, `StoppedClean`; live: `ItemsFinish`, `ScalerStops`; refinement: `Dispatched` | 3 workers, 3 items of two priorities, the pool grows when more than one item waits per worker (10 in the code), so that it grows to 3 and shrinks to 2 |
| `pool_stop_drains` | `StopDrains` fails | same |
| `dns_cache` | type, `OneRefresh`, `ClosedQuiet`; live: `BlockLifts`, `StaleFades`, `CloseEnds` | 1 host (hosts share nothing but the wait of `close()`), 2 callers so that a late answer can follow a newer one, 2 tasks so that one which `close()` lost sight of runs beside another; times to live on both sides of the margin |
| `client` | type, `NothingOrphaned`, `HandsOutOpen`, `SlotsAccounted`; live: `BatchEnds` | a batch of 3 with 2 slots, so that one member waits; 1 other request that can start the client first or use it last; 2 attempts; the batch may be cancelled at any moment, so that it ends while members unwind |
| `client_close` | `ClosedStaysClosed` fails | same |
| `metrics` | type, `CountersAgree`, `RatesAgree`, `SnapshotCovered` | 2 domains, so that one is idle while the other is cut, or is inserted while the first is read; 3 requests between two resets, so that one stamp is dropped, one is just kept and one is new; stamps kept for 2 ticks (60 s in the code) |
| `metrics_display` | `DisplayLives` fails | same |

Deadlock is checked in the runs of the breaker, of the DNS cache and of the metrics, which never stop. The bucket stops at its
horizon; the send loop when every request has ended and time changes nothing any more;
the pool when `stop()` has returned or is stuck; the client when its requests have ended.

### Where the code does not do what it says

- **No probe ever again, or two at once** (`ProbeExclusive`). A probe answered 404, 429 or 500
  reports nothing, and nothing frees the slot: the circuit stays HALF_OPEN and refuses everyone
  (`client.py:496`, against `circuit.py:72-74`). In the run the probe is answered 429 with
  a Retry-After date that does not exist. `ProbeResolves` shows that the breaker itself is
  innocent: with callers that report, the slot always comes back. The other way round, a report
  clears the slot whoever makes it, so the late answer of an ordinary request lets a second
  probe through beside the first (`circuit.py:105`).
- **More than the rate** (`RateCap`). While a task sleeps for a missing token, the bucket
  refills it, and the clamp at `ratelimit.py:71` has forgotten that it was lent. One task
  reaches twice the rate; `ThroughputBound` shows what the excess is: the rate once more for as long as a
  task sleeps, so that n tasks reach n + 1 times the rate and no more.
- **`stop()` hangs with items queued** (`StopDrains`). `_running` is cleared before the join,
  and the workers that should drain the queue end (`worker.py:92`, `103`, `119`). The
  second half of the property would fail too: a worker that the scaler cancels while
  it is executing marks its item done and leaves its future (`worker.py:130-137`, `206-207`), so
  whoever awaits it waits for ever. `ItemsAccounted` and `ItemsFinish` therefore speak of items
  done, not of results.
- **Open after `close()`** (`ClosedStaysClosed`). `close()` waits for the worker pool, which
  has none of the requests that callers make; one that is in a pause then initialises the
  connection pool anew, and `close()` will not close it again (`pool.py:168`, against
  "Drain in-flight requests, close sessions", `client.py:184`).
- **The display dies** (`DisplayLives`). `snapshot()` iterates in the display thread over what the
  event loop inserts into; the first insertion at the wrong moment raises RuntimeError there, and
  nothing catches it (`metrics.py:84`, `193`, `235`, against `metrics.py:215`). "All mutations
  happen only in the event loop thread, so no locking is required" (`metrics.py:38-39`)
  forgets the reads.

Also visible in the models, and no run of its own: a pause protects only until the first
`acquire()` after it, which clamps the debt away (`FirstWaitsOutPause` says exactly what is
left of `ratelimit.py:92-93`); `drain()` after `pause()` erases the pause; a removal whose cancellation was
swallowed waits for a worker that goes on working (`worker.py:222`); `attempts` counts a
refused attempt as one (`AttemptsAccounted`, against `response.py:27`); a `batch()` that was cancelled may
end before its requests have; a snapshot begun in the midst of `reset()` may print the old
total and no domains; a slow answer of the DNS cache may overwrite a newer one, and a refresh task begun while
`close()` waits goes on after it (`ClosedQuiet` leaves it out).

## Fairness

- Time passes: `WF(Tick)`. It only ever advances clocks that saturate.
- The event loop resumes every coroutine that can run, so each step of a coroutine is
  weakly fair, never strongly: a coroutine that can run stays in the ready queue.
- A request that was dispatched is answered or times out (`ClientTimeout(total=timeout)`,
  `client.py:611`; `timeout=timeout`, `client.py:663`), so `Respond` is fair, with no say
  in what the answer is. An executor returns, so `WorkerStep` of an executing worker is
  fair; that it does is the executor's contract.
- A lookup of the DNS cache is answered, fails or is cancelled (`LookupEnds`), in any order;
  the steps of `RequestStep` in `ClientLifecycle` are those of a coroutine that can run, or
  of a backend with its timeout.
- The scaler wakes, and its wait for a worker ends when the worker does; so `ScalerStops` needs
  no more than the fairness of the workers. `Elsewhere` is not fair: no other domain need send anything.
- `Metrics` states no fairness and no liveness.
- Nothing makes a caller start a request, cancel, reset a breaker, put an item, invalidate a host, or call
  `stop()` or `close()`, and an admitted caller is fair to report only in `CircuitBreaker!Spec`, which is
  the contract the send loop is shown to break.

## Proofs

TLC checks these for the constants of the runs; TLAPS proves them for all thresholds,
capacities, numbers of callers and tasks, from the assumptions named in the modules
(`ThresholdAssumption`, `BucketAssumption`, `TasksAssumption`, `BackoffAssumption`, `SendAssumption`,
`PriorityAssumption`, `PoolAssumption`, `CacheAssumption`, `ClientAssumption`, `MetricsAssumption`: positive
thresholds, costs and capacities, finite sets of tasks, workers and requests, callers that are not tasks).

- `CircuitHistory_proofs`. The type invariant alone is not inductive in a useful way: that a
  counter stays below its threshold needs the transition that resets it, and the action
  properties need to know which reports stand behind a counter. `LooseInv`, which is `HTypeOK` and
  `CountersBacked`, is inductive whether or not the callers report, because a report that never comes
  changes no counter. So the guarantees that follow from it, `LooseTrips`, `LooseCloses` and
  `LooseCooldown`, hold of callers that break the contract. The slot of the probe does not:
  `SlotHeld` needs `HSpec`, for which `IInv` adds `ProbeSlotHeld` to `LooseInv`. For the contract there are
  `TypeCorrect`, `Backed`, `Trips`, `Closes` and `Cooldown` too.
- `TokenBucket_proofs`. The invariant ties the level to the account of what was spent and
  borrowed, and to the pause under way while it is fresh: `TypeCorrect`, `Budget`, `Bounded`,
  `FirstWaits`. `Throughput` needs `OwedBound` beside it: what the bucket has lent has been slept
  for or is still owed by a sleeper. Debts are counted as a set of pairs of task and tick, so that a step adds or
  takes away a set whose size is known and no sum needs an induction.
- `SendLoop_proofs`. The invariant is `TypeOK`, `AttemptsAccounted` and `AttemptsLeft`: an attempt
  stays below `MaxAttempts` because the retry decision compared it, and `AttemptsLeft`
  remembers that across the backoff. `TypeCorrect` and `Accounted` follow, and
  `Refinement`: under the mapping `caller <- role` every step of `SendHistory` is a step of
  `CircuitHistory!HLooseSpec` or leaves breaker, callers and record alone. An answer is an `HSucceed`,
  an `HFail` or an `HAbandon` depending on its class, a cancellation an `HAbandon` if the request was
  let through and not answered yet; that it was is `AttemptsAccounted`'s last conjunct. The
  theorems of `CircuitHistory_proofs` are then instantiated with the requests for callers, and
  become theorems of the loop: `CircuitBacked`, `CircuitTrips`, `CircuitCloses` and
  `CircuitCooldown`. `CircuitCloses` says a little more than what it comes from, for no step of the loop
  is a `reset()` (`NoReset`). What does not carry over is the slot of the probe, and that is the
  violation of `send_loop_probe`.
  `SleepBounded` needs `LevelsBounded` beside it: the global bucket is never in deficit, because only
  `pause()` makes one, and the deficit of the domain bucket is at most one pause, because a pause
  replaces the one before. How long the others sleep does not come into it. `MetricsCounted` follows
  the set of counted requests, which a step leaves alone or extends by one, and counts retries as
  pairs, like the debts of the bucket.
  `LimiterRefinement` is the second refinement: with `nap` for `sleep`, every step of `SendLedger`
  is a step of `TokenBucket!Spec` or leaves bucket, naps and account alone. `LAcquire` is its
  `Acquire`, `LDispatch` its `Wake`, an answer its `Drain`, its `Pause` or neither. It needs to know that a nap
  has ended by the time the request is dispatched (`NapInv`: it is no longer than the sleep, and only a
  request in the limiter or cancelled there has one). The theorems of `TokenBucket_proofs` are
  instantiated too. From `Throughput` and the fact that each call of the backend has paid one token
  and each sleeper one more (`CallsPaid`, again a count of pairs) follows `CallsBounded`; from
  `FirstWaits`, and the longer of two sleeps, `PauseHolds`.
- `Breaker_proofs` holds the lemmas about single methods of the breaker that the first and
  the third use.
- `DnsCache_proofs`. The invariant is `TypeOK`, `OneRefresh` and `CloseInv`. While the cache is
  open, running and registered tasks are the same, so the snapshot that `close()` takes of the
  dictionary misses none; `CloseInv` follows them through its wait. `TypeCorrect`,
  `OneAtATime`, `Quiet`.
- `WorkerPool_proofs`. The invariant puts `ItemsAccounted`, `PoolBounds` and `StoppedClean` beside three
  things they need: a worker holds an item exactly while it executes, the scaler
  removes only workers of the pool and only while it is not ended, and each stage of `stop()`
  has what the stage before waited for. That `get()` finds a first item is well-foundedness of
  the order on sequence numbers. `TypeCorrect`, `AccountsHold`, `Bounds`, `Clean`.
  `Dispatches` is the refinement: what the lemmas on `Put`, `Got` and `Done` do to the set of queued
  items, to their order and to the set of executed ones is what the actions of `Dispatcher` do. That a
  worker about to take an item leaves room for it is a count (`Room`: whoever executes is in the pool, and
  the worker is not among them). That only a shrinking pool loses an item needs `Spared`: whoever
  executes under a cancellation was chosen by the scaler, since `stop()` cancels workers only when
  nothing is executed. `NothingLost` follows: with `max_workers <= min_workers + 1` no item is lost.
- `ClientLifecycle_proofs`. That `initialize()` loses no session depends on when the pool says
  that it is not initialised: before `start()` and after `close()`, with both sessions closed.
  `PoolInv` follows `close()` through its waits to show it, `RequestInv` keeps the account of
  attempts and slots. `TypeCorrect`, `Unorphaned`, `HandedOut`, `Slots`.
- `Metrics_proofs`. Totals are sums over the domains, and what a sum does when one term changes is an
  induction over the set; so a sum is stated as the number of pairs of a domain and a
  number up to its count (`SumOf`), and a call of `record()` adds a set of pairs whose size is known.
  The properties hold between calls, so they are not inductive. `CountsInv` says what holds in the midst of
  one: the domains are ahead of the totals by what `record()` has not counted there yet
  (`Ahead`), and at zero already while `reset()` has still to zero the totals.
  `StampsAgree` says the same of the windows, age by age; ages past the
  last kept one are left out of it, because each window is cut at a moment of its own. `SnapshotInv`
  follows a snapshot: what it has summed and what it still has to read lie between its
  total and the sum of all domains. For that a domain which is not in the dictionary yet must
  count nothing (`OrderInv`). `TypeCorrect`, `CountersCorrect`, `RatesCorrect`, `SnapshotsCorrect`.

Only model-checked: the liveness properties (`ProbeResolves`, `CooldownEnds`, `RequestsEnd`,
`ItemsFinish`, `ScalerStops`, `BlockLifts`, `StaleFades`, `CloseEnds`, `BatchEnds`), which are beyond the
prover. Every invariant, every action property and both refinements that a passing run checks are
theorems. Proved and in no run are the properties of `SendLedger`, whose account grows for ever, and
`CountersBacked`, which is the induction behind `TripsOnConsecutive` and `ClosesOnConsecutive`.

## Not modelled

The two backends, decompression, the bodies of streams and the display are I/O. The
module-level functions are thin wrappers; `fetch_all()` inside a running loop holds up the thread its
own batch needs (`__init__.py:185-186`), which one caller's steps show without any interleaving. Values,
exceptions and the benchmark have no protocol. Numerical code on floating point numbers
(percentiles, and the overflow of `multiplier ** attempt` at a thousand attempts) is not stated in integers. `_inflight` (deduplication) and the workers' local
deques are declared by the code and used by nothing. A client with `circuit_breaker=False`
is the send loop without its first and fourth step and is left out.

## Plan

The order is that of importance: first what every request goes through, then what the
client owns beside it.

1. Done: breaker, bucket, send loop with its backoff and with other domains, queue and worker pool,
   DNS cache, client lifecycle, metrics, with the proofs above.
2. `DnsCache` with several hosts under one `close()`, and `close()` called again.
3. `PriorityWorkQueue` with a `maxsize`, where `put()` waits.
