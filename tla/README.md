# Verification of the act event-sourcing framework

This directory holds TLA+ models of `libs/act`, the core of the repository, and
of the parts of the adapters whose concurrency is their own: an event store,
aggregates with optimistic concurrency, *reactions* that run at least once on
every event they subscribe to, projections, webhooks, and the closing of a
stream's books. The models are read from the source; the `map` of
`PROJECT.json` traces each definition to its lines. File names below without a
directory are in `libs/act/src/internal`.

## 1. The system

| part | state it keeps | operations | model |
| --- | --- | --- | --- |
| Store (`adapters/in-memory-store.ts`, contract in `types/ports.ts`) | the log, per-stream versions, a *subscription row* per reaction target, correlate checkpoint and correlation leases | `commit`, `query`, `query_stats`, `subscribe`, `claim`, `ack`, `block`, `defer`, `reset`, `unblock`, `prioritize`, `truncate`, `restore` | `StreamRow`, `ClaimFrontier`, and in each machine what it uses |
| PostgreSQL store (`libs/act-pg`), SQLite store (`libs/act-sqlite`) | the same in tables | the same, as SQL | the event log: `StreamLog`, `PostgresLog` |
| Drain cycle (`drain-cycle.ts`, `drain.ts`, `reactions.ts`, `drain-ratio.ts`) | leases and results of one cycle | claim, fetch, dispatch, handle, block, ack | `Drain`, abstract: `Delivery` |
| Drain controller (class in `drain-cycle.ts`) | `_armed`, `_locked`, ratio, defer map, worker | `arm`, `drain`, `start`, `stop`, lane worker | `Wakeup` (flags and lock), `Controller` (time and failure) |
| Correlate (`correlate-cycle.ts`, `correlator.ts`) | checkpoint, `_armed`, correlation lease, LRU of targets | `init`, `correlate`, polling | `Wakeup`; one step in `Drain`, `CloseCycle` and `Controller` |
| Settle loop (`settle.ts`) | timer, `running`, `pending` | `schedule`, the passes, `stop` | `Wakeup`, `Controller` |
| Circuit breaker, defer timer (`circuit-breaker.ts`, `defer-timer.ts`) | failure count, cooldown, wake-up; due times | `state`, `failed`, `passed`, `stop`; `set`, `schedule`, the timer | `Controller` |
| Event sourcing (`event-sourcing.ts`) | the calls in flight | `load`, `action`, `snap`, `tombstone` | `EventSourcing` |
| Cache (`adapters/in-memory-cache.ts`) | folded states | `get`, `set`, `invalidate`, eviction | `EventSourcing` |
| Close cycle (`close-cycle.ts`) | per-stream close lock | scan, probe, guard, seed, archive, truncate; windowed prune | `CloseCycle` |
| Autoclose (`autoclose-*.ts`) | policy, window | request of a close after a reaction | the outcome of a handler (`AskClose` of `Drain`) |
| Projection fold (`projection-fold.ts`) | bounded cache of fold states | the batch handler, `clear` on reset | `Projection` |
| Webhook and receiver (`libs/act-http`), idempotency store (`libs/act-ops`) | the delivery's settled flag; claims and commits per key | `POST` with timeout and retry; claim, handle, commit or release | `Webhook` |
| Orchestrator (`act.ts`) | the above, wired per lane | `do`, `drain`, `settle`, `correlate`, `close`, `reset`, `restore`, `shutdown` | through the parts |
| Builders, registry, sensitive data, audit, csv, tracing | build-time tables | pure functions | not modelled |
| rest of `act-http`, `act-notify`, `act-otel`, `act-pino`, `act-ops`, `act-crypto`, `act-patch`, `act-diagram`, `act-tck`, inspector, examples | transports, tooling, logging | | not modelled (a notification is an input of `Wakeup`) |

How they interact. `app.do` loads a stream through the cache, commits with an
expected version, and arms the correlate cycle and the drain controllers of the
lanes whose reactions may want the events. A settle (debounced) runs
`correlate`, which scans the log past its checkpoint, resolves every event to
its target streams, and *marks* the targets' rows with the event's id. Each
drain controller then loops over `run_drain_cycle`: **claim** rows whose
watermark is behind their mark under a lease, **fetch** each row's events,
**dispatch** them to the reactions that resolve to the row, and finish with
**block** and **ack**. A handler may ask to be called later: the row keeps its
due time in the store, and the controller a timer in memory. Store calls that
fail feed a circuit breaker that skips cycles while it is open and wakes the
settle loop when its cooldown is over. Other processes do the same against the
same store; a lease (`leased_by`, `leased_until`) is all that keeps them apart.
Two handlers come with the framework: the projection fold, which keeps fold
states from one cycle to the next, and the webhook, whose other end dedups what
the retries of the drain repeat. `app.close` catches correlate up, asks the
subscription rows whether anything below the stream's head is still owed, puts a
tombstone behind the head, archives, and replaces the stream by one seed; a
windowed close prunes behind a snapshot.

What is hard, and so what the models keep:

- a lease can run out while its holder still works: a late ack meets a row that
  another worker, a reset or a close has moved;
- a process can die at any await, and the lease it held outlives it;
- a batch can fail in the middle; one event can fan out to several reactions;
- the in-process flags that say "there is work" are read and cleared around
  awaits, and a bounded scan can look like the end of the log;
- what brings a stopped loop back is a timer: of the debounce, of a due time, of
  a breaker's cooldown, each cut short, replaced or lost with the process;
- cache writes are not awaited; reactions commit without a version check;
- fold states are per process while the watermark that says what they have seen
  is shared;
- PostgreSQL draws ids before rows become visible, and probes versions in
  another transaction than it inserts in;
- a sender that has given up a request repeats it while the receiver still works
  on it, and both ends may fail on their own;
- the reads of a close (three of the log, then checkpoint, rows) are separate
  awaits, its tombstone and truncation two more, and it can be interrupted and
  resumed between any two.

What makes the parts correct:

- *drain*: no watermark passes an event that is still owed; a watermark goes
  back only on reset; what was acknowledged is not run again; attempts are
  bounded; every row ends drained or blocked;
- *wakeup*: every committed event is marked and handled in the end, without
  waiting for an unrelated commit; no checkpoint passes an unmarked event;
- *controller*: work never waits without somebody on the way to it, a parked
  row has its timer, a shutdown leaves nothing running;
- *event sourcing*: cache entries and snapshots hold ungapped folds, a load is
  current, an action is appended only to the state it decided on;
- *close*: nothing a reaction still needs is removed, nothing is removed that was
  not archived, and no event lands behind the tombstone;
- *projection*: rows are true folds, and what is acknowledged is in the table;
- *webhook*: a delivery is processed at most once, and once if acknowledged;
- *log*: rows appear in id order, a version check holds when its rows appear, a
  call is one step of the abstract log.

The hazards this code is exposed to are listed with their lines in
`PROJECT.json`, each with the properties aimed at it or the reason there is none.

## 2. Modules

| module | what it is |
| --- | --- |
| `StreamRow` | one subscription row (class `InMemoryStream`) and the transition each port method makes on it |
| `ClaimFrontier` | which of the available rows a claim may take: priority, fairness reserve, leading frontier |
| `Drain` | competing workers, one action per asynchronous step of `run_drain_cycle`, plus writers, correlate, time, operators and crashes |
| `Delivery` | what a target may rely on, without workers, leases, batches or retries; `Drain` implements it (`KeepsPromise`) |
| `Wakeup` | how an event reaches its reaction by itself: correlate, settle, poller, lane worker, notification, several processes |
| `Controller` | what drives the reactions of one process through time and failure: settle, lanes, due times, breaker, boot and shutdown |
| `EventSourcing` | the calls on one stream: load, action, retries, snapshot, caches |
| `CloseCycle` | extends `EventSourcing` with full and windowed closes, correlate and a consumer |
| `Projection` | the projection fold of several instances over one table and one row |
| `Webhook` | sender, receiver and idempotency store |
| `StreamLog` | what a store promises of its event log, one step per call |
| `PostgresLog` | the statements and transactions of the PostgreSQL store; implements `StreamLog` (`ImplementsStore`) |
| `DrainInvariants` | the strengthenings that make Drain's safety properties inductive |
| `MCDrain`, `MCWakeup`, `MCController`, `MCSourcing`, `MCClose`, `MCProjection`, `MCWebhook`, `MCPostgresLog` | instances for TLC |
| `NatSets`, `DrainProofs`, `WakeupProofs`, `ControllerProofs`, `CloseProofs` (with those of `EventSourcing`), `ProjectionProofs`, `WebhookProofs`, `PostgresLogProofs` | the proofs |

Everything between two awaits is one action. A model whose program can be set up
in several ways takes the setup as a variable chosen by `Init` and never changed
(`setup` in `Controller` and `Webhook`, `policy` in `CloseCycle`), so that one run
covers them all.

### `Drain`

`rows[t]` is the row of target `t`; `log` and `nextId` are `_events` and
`_next_id`; `phase[w]`, `claimed[w]` and `entry[w][t]` are the local variables
of the `run_drain_cycle` that worker `w` executes: what it leased, and its
`HandleResult` for each lease so far. `entry.floor` is the watermark at the
claim (`leased[i].at`), `entry.at` what will become `acked_at`, `entry.upto` the
last completed event, `entry.done` the reactions already run on the event in
hand, `entry.out` the outcome.

| action | code |
| --- | --- |
| `Claim` | `store.claim`: filter, frontiers, lease each row |
| `Fetch` | one row's query; the queries of a cycle finish in any order |
| `Dispatch` | window maximum, payloads, spent budgets, empty payloads |
| `React`, `ReactBatch` | a handler returns |
| `Throw`, `AskDefer`, `AskClose` | a handler throws an error, a `DeferSignal`, a `CloseSignal` |
| `Block`, `Ack` | the two store calls that end the cycle, in this order |
| `Commit`, `Correlate`, `Truncate`, `Reset`, `Unblock`, `Defer` | the other port methods that touch log or rows |
| `Overrun`, `Lapse`, `Due` | `leased_until` and `deferred_at` pass |
| `Crash` | the process dies between two awaits |

Clocks are abstracted to the two questions the code asks: is the lease still
running (`live`), is the schedule still ahead (`deferred`). A thrown error is
`"error"`, `"fatal"` (`NonRetryableError`) or `"mute"` (its message is empty,
which the code tells apart). Payloads are kinds of events. `accounted` and
`tally` are history variables; no guard reads them. The lag/lead ratio is an
arbitrary split, and an idle worker may always start a cycle: when it does is
`Wakeup`'s subject.

### `Wakeup`

`local[p]` holds the flags and the checkpoint of process `p`, `settle[p]` its
settle loop, `scan[p][c]` the correlate call of the loop or of the poller,
`pass[p]` its drain call; `shared`, `lease` and `rows` are the store's.
`Advanced` is what a scan that marked leaves behind: called by the settle loop
(`act.ts:1640-1670`) it arms the lanes and correlate, called by the poller
(`correlate-cycle.ts:663-680`) it arms nothing.

| action | code |
| --- | --- |
| `Commit`, `Notified` | `do` with the arming and the application's settle; the notify handler |
| `Fire`, `Judge` | the debounce timer; the end of a pass: another one, or rest and serve the pending wake-up |
| `Boot` | `CorrelateCycle.init` |
| `SettleScan`, `PollScan` | a pass of the loop, a tick of the poller calls correlate |
| `Ask` | the lease request; a refused pass returns its checkpoint |
| `Query`, `Read` | the bounded window of the log, its answer |
| `Mark`, `Marked` | `subscribe` with marks, checkpoint and lease renewal, its answer |
| `SkipDrain`, `Claim`, `Disarm`, `Ack` | `DrainController.drain`, from the loop or the lane worker |
| `Lapse`, `LeaseExpires`, `RowExpires` | a process's own view of its lease ends, the store's, a dead claimer's row lease |
| `Crash` | the process dies and comes back under a new identity |

A store call is one step when the store answers within the caller's turn
(in-memory), two when `Networked`. A claimed target is always handled: what
handlers do is `Drain`'s subject. It fetches the next `EventLimit` events of the
log, as a target without a source does, so its watermark may come to rest on an
event that is not its own (`drain-cycle.ts:262`). `Knows[p]` is the registry of a process, and
correlation leases are per registry. The LRU of subscribed targets, dynamic
resolvers that name a target nobody knew, and `release_correlation` are left out.

### `EventSourcing`

A folded state is the set of ids of the domain events folded into it: an event
missed, folded twice over a snapshot or applied to a wrong base shows. `call[c]`
holds the local variables of a `load` or `action`; `cache[k]` is the stream's
entry in the cache of one process, or of a shared one.

| action | code |
| --- | --- |
| `Begin`, `Reload` | the call arrives and reads the cache; again after a conflict |
| `Query` | the store's answer is folded; a tombstone at the head ends an action |
| `Fill` | load's own checkpoint |
| `Commit` | the store accepts: events appended, contiguity checked, entry dropped or updated |
| `Conflict` | the store refuses: entry dropped, retry or give up |
| `Snap`, `Put` | the snapshot and its version check; the action's checkpoint |
| `Stop` | an invariant fails, nothing is emitted, the process dies |
| `Evict` | the LRU, or an invalidate that arrives late |

A write to a cache happens or is lost (`Remember`). A cold load asks for the
rows from the last snapshot on; the model folds all rows above the checkpoint,
and `Fold` starts at the last snapshot in both. Time travel, sensitive fields,
schema validation and the projection fold are not modelled.

### `CloseCycle`

`closer[k]` holds the local variables of one call of `close`; `policy` says what
the application asks of its closers and calls.

| action | code |
| --- | --- |
| `Start` | the request; the cutoff of a windowed close is the present |
| `ScanMarkers`, `ScanDomain`, `ScanVersion` | the three reads of `scan_stream_heads` |
| `CatchUp`, `Probe` | correlate reached the head; no consumer has work below it |
| `Guard` | the tombstone with its expected version, or the guard of an interrupted close |
| `Seed`, `Archive`, `Truncate`, `Warm` | load the restart state, archive callback, replace the stream, prime the cache |
| `ReadCheckpoint`, `ProbeCap` | the cap of a prune |
| `Pending`, `Keep`, `Prune` | under the close lock: anything to prune, archive callback, prune |
| `Interrupt` | a store call fails, the archive throws, the process dies |
| `Correlate`, `Handle` | one step each; `Wakeup` and `Drain` have their insides |

Creation times are taken to be in id order. The load of `Seed` is one step, one
stream is closed, and the refusal of states with sensitive fields is left out.
Two assumptions are fields of `policy`: `alone` excludes commits between the
reads of a scan; `straddling = FALSE` excludes that the tombstone overtakes a
loaded action whose commit states no version, or the truncation any loaded
action. The full closes of run `close` make both, its prunes neither need nor
make them.

### `Controller`

`setup` is the build: lanes, which of them have a `cycleMs`, the breaker's
threshold, whether the store's answers are awaited, whether `shutdown()` is given a
`graceMs`, which store calls may fail and how often, what handlers return. Time
is counted down: every timer, lease, due time and cooldown holds the ticks left.

| action | code |
| --- | --- |
| `Commit` | `do` with the arming and the application's settle |
| `Fire`, `Start`, `SettleFails`, `Judge` | the settle loop: debounce, `init` with the seed of the defer timers, a failing call, the end of a pass |
| `Skip`, `Scan`, `Read`, `Mark`, `Marked` | correlate: a disarmed pass; the query and, `networked`, its answer, which disarms when nothing was found; `subscribe` with the marks and its answer, which arms. The last step of each starts the drains of the pass (`DrainAll`) |
| `WorkerTick` | the lane's own timer |
| `Claim`, `Reply`, `Finish`, `DrainFails` | a controller's cycle: the claim and its answer, outcomes and their ack with due times, a call that throws |
| `TimerFires` | the defer timer: due entries are dropped, the lane armed, the rest scheduled again |
| `Retry` | the breaker's wake-up settles |
| `Shutdown`, `StopAll`, `TearDown` | the release of the correlation lease; the stop of every timer, after which `shutdown()` waits or not (`Awaits`: the default budget is 0 unless a lane is in a cycle); the end of the cycles in flight |
| `Tick`, `Crash` | time; the process dies and boots |

`breaker.cool` is `Off` when closed and 0 when half-open. `plan` is the defer
map, `row[s].due` the schedule in the store; `Ceiling` is the longest delay
`setTimeout` takes, so a due date beyond it is waited for in pieces. Handlers
differ by their outcome only. Competing processes, paging and the poller are
`Wakeup`'s subject. `Harsh` names circumstances under which the promises are known
to fail (section 3); the runs use none.

### `Projection`

`cache[w]` holds the fold states of one instance, `table` the rows written by the
application's `flush`, `at` and `holder` the shared subscription row.

| action | code |
| --- | --- |
| `Commit`, `Snap`, `Restart` | what happens to the streams: an event, a snapshot (which takes a version), a full close with restart |
| `Claim`, `Ack` | the drain cycle around the handler |
| `FoldWarm` | the next event goes onto a cached state: skipped when it is already in, refused when it is not the next version |
| `FoldCold`, `Evict`, `Load` | the state is dropped, room is made, the head is loaded |
| `Flush`, `FlushFails`, `LoadFails` | a flush round; a flush that writes some rows and throws; a load that throws |
| `Wipe`, `Reset`, `Clear` | the operator truncates the table; `app.reset` rewinds the row, then drops the fold states of its own process |
| `Crash`, `Overrun`, `Lapse` | the process dies; the lease ends under the handler, or after it |

A state is the set of events folded. `flush` is taken to be the monotonic upsert
that the guide asks of it.

### `Webhook`

| action | code |
| --- | --- |
| `Send`, `Answer`, `Timeout` | an attempt of the reaction: fetch, its answer classified, its abort |
| `Unblock` | the operator, after a blocked row |
| `Receive` | the claim of the key and the verdict on a duplicate |
| `Handle` | the application's handler, or the rejection of its body |
| `Finish`, `Return` | the two places that finalize a delivery: commit or release, once |
| `Lose`, `Crash` | a lost request or answer; the receiver dies with its store |

The store keeps its entries in order of use and evicts the oldest claim, never a
commit. Expiry of entries and signatures are left out.

### `PostgresLog` and `StreamLog`

| action | code |
| --- | --- |
| `Probe` | `commit`: the head query, and the caller's expected version compared with it |
| `Insert`, `Conflicts` | the statement that takes the advisory lock, draws ids and inserts; the unique index refuses it |
| `Truncate`, `Prune`, `Restore` | the transaction up to its `COMMIT` |
| `Commit`, `Abort` | rows appear; everything is rolled back, ids drawn stay drawn |
| `Read` | anybody who takes a position in the log |

The id sequence is not transactional, the lock is. `StreamLog` has the same calls
as one step each, which is also the SQLite store, whose every call is one write
transaction.

## 3. What is checked

| run | instance | question |
| --- | --- | --- |
| `drain_steal` | 2 workers, 1 target with 2 reactions, 2 commits, 2 lost leases, 1 failure, 1 defer, 1 operator call | types; at-least-once (`NoSkip`); whoever holds a lease works from the row's watermark (`HolderIsCurrent`); at most `maxRetries + 1` attempts without progress (`AttemptsBounded`); `OnlyResetRewinds`; `Drain` implements `Delivery` |
| `drain_quiet` | 2 workers, 2 targets, one a batch projection, 2 commits, 1 failure with backoff, a crash, a removed event | while no lease is lost a handled prefix is not run again and a poisoned row is not retried; under fairness every row ends blocked or drained |
| `wakeup_notify` | 2 processes with a lane worker each, 1 lease, notifications, 1 commit | the event of a process refused the lease is handled; one process believes in the lease |
| `wakeup_calls` | settle and poller, late answers, window of 1, a crash, 2 commits | no checkpoint passes an unmarked event; marks are events; every event is marked |
| `controller` | 4 builds of one process, 2 streams, 2 commits, failing calls, a crash or none, shutdown with a `graceMs`; no commit during an awaited empty scan | work never waits unattended, parked rows have their timers, a shutdown is clean, every event is handled |
| `sourcing` | 2 calls in 2 processes with a cache each, 5 ids, 2 events per action, 1 retry | ungapped caches and snapshots; an action decides on the head |
| `close` | a full close, or 2 windowed ones, against one action or reaction, 3 ids | the guard holds; loads are current; nothing unhandled or unarchived is removed; a range is archived once |
| `projection` | 2 instances with caches of one entry, 2 streams, 3 events, 1 fault, 1 rebuild | rows are true folds; the acknowledged is in the table; every row catches up |
| `webhook` | an event sent up to 4 times, or 2 events on a store for one claim, 3 faults | a delivery is processed at most once, a commit stays, an acknowledged delivery was processed |
| `postgres_log` | 2 calls at a time on 2 streams, 4 ids, a reader | rows appear in id order, version checks hold, each call is one step of `StreamLog` |
| `drain_window`, `controller_forgiving` | | expect a violation, see below |

Why the bounds are enough. A hole needs two events (one passed while another is
owed), a half-handled event two reactions, a stolen lease two workers, the
shared fetch window two targets. A wake-up is lost around one cycle, so an event
that may come at any point of it is enough; a window of one makes every inert
event fill it. A stopped loop needs one failure, and a second one in another
place to be wrongly consoled; a timer shared by two streams needs two, a timer
cut short a delay above `Ceiling`. A gapped fold needs a base, an event missed and
an event on top, and a snapshot of it a fourth id; a stale entry needs a second
cache. A close needs an event, its tombstone and its seed; a prune needs an
event and a snapshot, and one event for the second closer to find. A cache of
one entry makes every second stream an eviction, and three events give one stream
a base, a gap and a next one. A duplicate overlaps a first delivery, a third may
follow the release of the second, and a fourth that of an operator's retry. A gap
needs two transactions and a reader; four ids give one stream two versions and
the other two, or a renumbering something to renumber. The budgets (`Limits`
in `MCDrain` and `MCController`), `MaxLog`, `MaxId`, `MaxVersion`, `MaxCrashes`,
`MaxFaults`, `MaxRebuilds`, `Batch` and `sent` name every bound. `drain_steal`,
`close` and `postgres_log` are reduced by the symmetry of interchangeable workers,
closers, calls and streams; no run with a liveness property is.

Fairness. In `Drain`, a started cycle goes on and an idle worker is driven again
(its poller or the settle loop calls `drain`), leases and schedules run out, and
correlate keeps scanning. In `Wakeup`, timers fire, awaited calls return and
leases run out; in `Controller` time passes as well, and nothing drives a lane but
the timers and flags that the code sets, which is what the run is about. In
`Projection` a started cycle goes on, workers are driven again, leases run out, and
an operator who has truncated the table goes on to reset the projection. All of
it follows from the event loop, `setTimeout` and clocks, but the last, which the
guide prescribes. Nobody has to commit, and no process has to be notified of more
than it was. Failures and crashes are bounded by the budgets: no policy helps a
handler that always fails with `blockOnError` off. The safety runs of `Webhook`,
`CloseCycle`, `EventSourcing` and `PostgresLog` state no fairness.

`CHECK_DEADLOCK FALSE` is set in all runs: a system whose bounds are spent and
whose rows are drained stops, as the program does between commits.

### Disagreements shown by a run

- `drain_window` (`drain-cycle.ts:262`): a row with an empty fetch is moved to
  the highest position of the other rows' fetches, past an event committed
  between those fetches.
- `controller_forgiving` (`circuit-breaker.ts:125`): a failure below the breaker's
  threshold schedules no wake-up, and a default lane has no poller: the events of
  the failed cycle wait for an unrelated commit, where `error-handling.md:161`
  promises that the lane recovers by itself.

### Disagreements reproduced by changing a constant

These are the reasons for the assumptions of the runs and theorems. Every row was
reproduced with the change it names and nothing else.

| change | what TLC finds |
| --- | --- |
| `Throws = {"mute"}` in `MCDrainSteal.cfg` | `NoSkip` violated: an error with an empty message is taken for a success (`drain-cycle.ts:319`, `reactions.ts:63`, `103`) |
| `FirstId = 0`, `EventLimit = 1`, `Throws = {"error"}`, `QuietBudget` in `MCDrainWindow.cfg` | `NoSkip` violated: id 0 counts as no event (`drain-cycle.ts:262`) |
| an `overrun` of 1 in `QuietBudget`, without the condition of `PoisonNotRetried` on lost leases | `PoisonNotRetried` violated: the block of a `NonRetryableError` finds the row in other hands |
| `Polling`, `LaneWorker`, `Networked` and `Notify` all `FALSE`, `Limit = 2`, `MaxLog = 3`, `MaxCrashes = 0` in `MCWakeupCalls.cfg` | `EventuallyMarked` violated: a window full of inert events disarms correlate (`correlate-cycle.ts:646`), so the loop that `settle.ts:158` keeps alive for this case finds nothing to do and stops before the reactive event |
| `Notify = FALSE`, `Polling = TRUE`, `LaneWorker = FALSE` in `MCWakeupNotify.cfg` | `EventuallyHandled` violated: the poller that replaces the notifications marks the target of another process's event but, calling `CorrelateCycle.correlate` past the orchestrator (`correlate-cycle.ts:672`), arms no lane and starts no drain (compare `act.ts:1652`; `cross-process-reactions.md:151` has lost wake-ups cost latency only) |
| `alone = FALSE`, `kinds = {"act"}`, `names = {"work"}` in `FullClose` | `NoReactionLost` violated: an event committed between the reads of `scan_stream_heads` raises the version the guard expects but not the head the safety probe judges; the truncation deletes it unhandled (`close-cycle.ts:456`) |
| `straddling = TRUE` in `FullClose` | `GuardHolds`, `NoReactionLost` and `LoadsAreCurrent` violated: a reaction or a creation that had loaded the stream commits behind the tombstone without a version check, and the truncation removes its event (`event-sourcing.ts:747`; `close-cycle.md:122` says a stream under guard is not written to) |
| the same with one closer that only restarts, two calls, `kinds = {"act"}`, `names = {"work"}`, `MaxId = 5`, property `DecidedOnHead` | violated: the truncation restarts versions at 0, so a version loaded before it is found again on another history (`in-memory-store.ts:1294`) |
| both closers full in one policy, `names = {"work"}`, `MaxId = 4` | `NoReactionLost` violated: the second close scans while the first one's tombstone is the head, takes that guard over without a version check after the first has truncated, and removes an event committed in between (`close-cycle.ts:598`); full closes do not take the close lock |
| `Paced` with `outcomes` `{"ok", "fail"}` | `EventuallyHandled` violated: a failure without a backoff leaves its row leased, the next claim is empty and disarms the lane (`drain-cycle.ts:619`; `concurrency-model.md:139` has the lease released) |
| `Settled` or `Paced` with `faulty` `{"ack"}` | `EventuallyHandled` violated: the ack that throws leaves the rows leased, and the retry's empty claim disarms the lane (`close-cycle.md:274` has the lane armed until it is drained) |
| `Settled` with `outcomes` `{"ok", "defer"}` and a budget of 2 delays | `NeverAbandoned` violated: the defer timer of a lane without `cycleMs` only sets the flag (`drain-cycle.ts:450`), where `close-cycle.md:289` and `extension-points.md:96` say that the drain re-arms at the due time with no commit |
| `Paced` with `networked = TRUE` | `ParkedWakes` and `EventuallyHandled` violated: an `arm()` during an awaited empty claim is overwritten by its disarm (`drain-cycle.ts:619`; compare `act.ts:1652`) |
| `Settled` with `Harsh = {"lost_arm"}` | `NeverAbandoned` and `EventuallyHandled` violated: a commit during an awaited scan that finds nothing arms correlate and schedules a settle, the scan's answer disarms unconditionally (`correlate-cycle.ts:646`), the next pass reads nothing, and the event waits for an unrelated commit (the comment at 640–644 takes an empty scan for the end of the log) |
| `Settled` or `Paced` with `grace = FALSE` | `ShutdownIsClean` violated: without a `graceMs` the budget is derived from the lanes in a cycle (`act.ts:1027–1032`); with only the settle loop at work, in `init` or correlate, it is 0, `act.ts:1048` returns at once, and the loop claims after `shutdown()` has resolved, although the comment above it and `behavior-contracts.md:203` promise the opposite. The tests of this case give `graceMs: 5000` (`shutdown-settle.spec.ts:85`, `110`) |
| `Paced` with `faulty` `{"scan", "claim"}` | `NeverAbandoned` violated: the worker's successful trial clears the wake-up that the settle loop's failure had scheduled, and nobody scans |
| `Shared` with `ticking = {}` and `threshold = 1` (two lanes without `cycleMs` behind one breaker) | `NeverAbandoned` violated in the same way by the other lane's success |
| `Harsh = {"lost_lease"}` in `MCController.cfg` | `EventuallyHandled` violated: a process that dies with a lease boots to an empty claim, which disarms the lane (`drain-cycle.ts:619`) |
| `Harsh = {"late_fault"}`, `{"late_commit"}` or `{"short_grace"}` | `ShutdownIsClean` violated: a call that fails, or a commit that comes, after the timers are stopped sets one again (`behavior-contracts.md:203` has no store operation after `shutdown()` resolves); with the last, a handler longer than the grace it was given works on, as it must |
| `StaleRestart = TRUE`, `Streams = {a}`, `MaxId = 4` in `MCProjection.cfg` | `RowsAreTrue` violated: a fold state from before a close with restart takes an event of the new history whose version happens to be its next (`projection-fold.ts:193`; the comment at 180–187 and `projections-to-database.md:163` promise the opposite). A state at the head is as exposed as one behind it, if an idle instance keeps it until the new history has reached its version: the runs and the theorem leave alone only a state at the head whose version is 0, the one that the seed has again |
| `LateClear = TRUE`, `MaxCached = 2`, `FlushEvery = 3` | `AckedIsDurable` violated: a cycle that claims between the reset of the watermark and the clearing of the fold states acknowledges what was dropped (`act.ts:1810–1820`, with the comment at 1811) |
| `AckedIsProcessed` without `setup.patient` | violated: a duplicate is answered as a success while the first delivery is still at work, the sender acknowledges, and the first delivery fails (`act-http/README.md:153` promises that a failed handler is retried) |
| `Straddling = TRUE` in `MCPostgresLog.cfg` | `CheckedOnHead` violated: a truncation or a restore between probe and insert brings versions back, so the unique index does not guard the probe (`postgres-store.ts:1008`) |
| `Kept = {sub}` | `NoGap` violated: a position that survives a restore is ahead of renumbered ids (`restore` leaves `_correlated` alone; `types/ports.ts:1109`) |

### Differences noticed in reading

- A row blocks after `maxRetries + 1` attempts (`reactions.ts:85`), where
  `error-handling.md:329` counts `maxRetries`; the spent-budget block of
  `drain-cycle.ts:164` may follow attempts that did report an error
  (`concurrency-model.md:172`); a failed attempt keeps its lease
  (`drain-cycle.ts:319`, `concurrency-model.md:139`).
- A refused lease ends the settle loop (`correlate-cycle.ts:507`, comment
  `509`); a restarted process is refused while its predecessor's lease
  runs; a row leased to a dead process makes the restarted drain disarm
  (`drain-cycle.ts:619`, `close-cycle.md:274`).
- `init` reads the shared checkpoint without the registry's key
  (`correlate-cycle.ts:346`, `extension-points.md:180`): a process with
  other reactions resumes past events it never marked. This is why
  `CoveredCorrect` assumes that all processes know the same targets.
- `close-cycle.md:89` and `185` say that a tombstoned head is dropped from the
  scan, where the code resumes it; `close-cycle.md:102` reads an unmarked row as
  pending, `close-cycle.ts:546` as not pending (a prune's cap still does the
  former).
- `settle` correlates while the breaker is open (`configuration.md:148`,
  `error-handling.md:158`); half-open lets every lane try, not one trial.
- `close-cycle.md:274` says that controllers arm at construction; `_armed` starts
  `false` and `init` arms them.
- A row that can be claimed may wait for the timer of a later one: a lane whose
  cycle parks everything it took disarms, whatever else became due meanwhile.
- `webhook/index.ts:76` says that 2xx and 3xx return successfully;
  `classify.ts:14–32` blocks on a 3xx.

## 4. What is proved

For every value of the constants that satisfies the modules' assumptions:
any sets of workers, targets, reactions, processes, calls and caches, any options,
limits and bounds.

**`Drain`.**

- `TypeCorrect`: `Spec => []TypeOK`, with `BasicCorrect`, its strengthening
  `BasicInv`. Types alone are not inductive: `MaxId` and `Current` are only
  numbers when the sets they choose from are finite and not empty, so `BasicInv`
  adds that ids are unique and below `nextId` (`LogInv`), that rows and marks do
  not point past them (`RowInv`), what a cycle carries (`EntryInv`) and that a
  running cycle has an event in hand (`RunInv`).
- `HolderCorrect`: `Spec => []HolderIsCurrent`. A worker whose lease was
  taken, reset or finished no longer holds the row; one that holds it has
  the row's watermark as its floor.
- `RewindCorrect`: `Spec => OnlyResetRewinds`, from `BasicInv` and
  `HolderIsCurrent`: every result lies at or past its floor, so every ack of a
  held row moves it forward.
- `DeliveryCorrect`: `Spec => []NoSkip`, under three assumptions: ids start at 1
  (`FirstId = 1`), errors carry a message (`ErrorsSpeak`), and no event is removed
  (`Budget["truncate"] = 0`). Each is needed: section 3 names the violation TLC
  finds without it. The invariant is `DeliveryInv`: a mark is an
  event the target must handle (`MarkInv`), so a claimed row has something to
  fetch and its fetch finds it (`WorkInv`), which is what keeps the fast-forward
  harmless; and whoever holds the lease has a batch without holes whose
  completed part is accounted for (`HolderInv`).
- `PromiseKept`: `Spec => KeepsPromise`, the refinement of `Delivery`, under the
  same assumptions and from the same invariant. One lemma for each kind of step says
  which step of the promise it is: `PromiseHandles` for a handler that
  returns, `PromiseCycle` for block and ack, `PromiseEnvironment` for the store's
  other methods, the clocks and a crash; every other step is a stutter.
- `AttemptsCorrect`: `Spec => []AttemptsBounded`, with no assumption. `AttemptInv`
  relates three counts of the same thing, the history's, the row's and the
  holder's: a row that can be claimed has counted every attempt since its last
  progress (`Rationed`), and the holder's copy is the row's until it is
  dispatched, after which what gives up has blocked the row by its ack (`Counted`).
- `PrefixCorrect`: `Spec => []PrefixRunsOnce`, where every target runs one reaction
  an event or takes its batch whole (`Simple`): with two, the one that ran is run
  again with the one that failed, by design. While nothing is disturbed a cycle's
  leases are its own to the end (`KeptInv`), what it completed is what it will
  acknowledge (`ProgressInv`), and so what was handled is behind the watermark or in
  the hands of the cycle that handled it (`BehindInv`).
- `PoisonCorrect`: `Spec => []PoisonNotRetried`, where a fatal error blocks
  (`FatalBlocks`; with `blockOnError` off a row is never blocked). `FatalInv`: the
  row is blocked or its holder is about to.

All the safety properties of `Drain` that the runs check are proved.

**`Wakeup`.**

- `TypeCorrect`: `Spec => []TypeOK`.
- `CoveredCorrect`: when all processes know the same targets (`SameKnows`),
  `Spec => []Covered`. The invariant `Safe` adds that the shared checkpoint is
  covered (`SharedSound`: a booting process takes it over), that every local one is
  (`LocalSound`), that a window being scanned starts at or below a covered
  position, also when another call of the process or a crash intervened
  (`ScanSound`), and that without a shared checkpoint no row was ever marked
  (`Unseeded`), so that the back-scan seed cannot skip anything.
- `ScannerCorrect`: `Spec => []OneScanner`, from `Believers`: a process that
  believes in its lease has it in the store, since its own clock ends first and a
  late grant counts only while it is held.
- `MarksCorrect`: `Spec => []MarksAreEvents`, from `Named`: every mark names an event
  of its target; no watermark, and no end of a drain in flight, is past the log.

**`Controller`.** For every set of lanes, streams and builds, any durations and
budgets, with `Harsh = {}`. Each theorem asks of the builds what section 3
shows to be needed.

- `TypeCorrect`: `Spec => []TypeOK`.
- `ShutdownCorrect`: `Spec => []ShutdownIsClean`, where shutdown is given a `graceMs`
  (`grace`; the default does not wait for a settle loop alone) and every outcome lets
  go of its stream (`Tame`: no failure without a backoff, no failing ack). `LaneInv`: a
  leased stream is in the hands of its lane's cycle. `EndInv`: after the timers
  are stopped nothing sets one, and at the end no cycle runs.
- `ParkedCorrect`: `Spec => []ParkedWakes`, where besides a networked store has
  handlers that ask for no delay (`Prompt`): the wake-up that comes during an
  awaited claim is lost. `ParkInv` ties the due date in the store, the entry in
  memory and the lane's timer together: an entry runs with its due date
  (`EntryInv`), `init` has given every parked stream one (`SeedInv`), and a lane
  between two cycles has its timer in time or is awake over other work (`WakeInv`).
- `AbandonedCorrect`: `Spec => []NeverAbandoned`, for builds whose lanes all have
  a worker and whose settle loop does not fail (`SelfPaced`), and for one lane
  driven by the settle loop behind a breaker that opens on the first failure
  (`Lone`). `Harsh = {}` matters here: it leaves out the commit during an awaited
  scan that finds nothing (`"lost_arm"`), after which a networked build of either
  kind is abandoned. `ScanInv` says who comes back to what is not scanned; `LoneInv` who comes
  back to a lane that rests over work: the pass that is going on, its timer, or
  the breaker's, which runs exactly as long as its cooldown.

**`EventSourcing`.** All from one invariant, `Sound`: ids and versions of the log
grow together and no version is ahead of its id (`LogSound`), every snapshot is
the fold up to its id (`SnapsSound`), every cache entry and every state a call
holds is the fold up to one of the log's events, with that event's version
(`Sits`), and what a pinned call loaded is not older than its pin
(`PinSound`). `Sits` is what makes it inductive: it turns the code's
comparison of *versions* into equality of *states*, since a fold whose version is
the head's is the fold of everything (`AtHead`), and appends do not
disturb it (`SitsStill`).

- `TypeCorrect`, `CacheCorrect` (`[]CacheFaithful`), `SnapshotCorrect`
  (`[]SnapshotFaithful`), `LoadCorrect` (`[]LoadsAreCurrent`, for a stream that is
  not pruned), `DecidedCorrect` (`DecidedOnHead`).

**`CloseCycle`.** Three assumptions on what an application asks of its closers,
each with its violation in section 3. `Careful`: where full closes are
asked for there is one closer that makes them, the tombstone overtakes no loaded
call (`~straddling`) and no call pins a version, since one read before a restart
can match again on the new history. `Separate`: closers prune, or close as a
whole. `Settled`: the reads of a full close are not interrupted by a
commit (`alone`). Windowed closes need none of them but `Separate`.

- `CloseTypeCorrect` (`[]CloseTypeOK`) and `GuardCorrect` (`[]GuardHolds`), from
  `Base` under `Careful`. Where `Sound` of `EventSourcing` could say that a fold is
  that of the events in the log, here the log shrinks, so `Base` speaks of ids and
  versions only: rows are ranked (`Ranked`), nothing was written past the head
  (`HeadInv`), no cache and no call is ahead of it, and at the head it has its
  version (`HandInv`, `CallInv`); behind a tombstone nobody who decided before it
  finds its version again (`ClosedInv`); and a closer is where its reads
  left it (`CloserInv`).
- `CloseLoadCorrect` (`[]LoadsAreCurrent`) and `CloseCacheCorrect`
  (`[]CacheFaithful`), from `Faith`: every event ever written is in the log, or a
  snapshot or seed in it stands for it (`HistInv`), what is held was folded from it
  (`FoldInv`), and the state a closer carries to its seed is the stream's (`SeedInv`).
- `ArchiveCorrect` (`ArchivedBeforeDeleted`), from `ArchiveInv`: a closer past its
  archive callback has archived what it removes.
- `ArchivedOnceCorrect` (`ArchivedOnce`) under `Careful` and `Separate`, from
  `DueInv`: one closer at a time holds the stream's lock, and what it found to
  prune is still there.
- `ReactionsCorrect` (`NoReactionLost`) under `Careful` and `Settled`, from
  `ReactInv`: what the probe has found done stays done, and nothing that a
  reaction needs comes behind it.

**`Projection`.** For any instances, streams, cache sizes, flush and batch limits.

- `TypeCorrect`: `Spec => []TypeOK`, with `RunInv`: a handler's batch is of domain
  events of the log, and there is one at hand while it is folded, evicted for or
  loaded for.
- `RowsCorrect`: `Spec => []RowsAreTrue` where no stream is restarted under a fold state
  that could go on with its new history (`~StaleRestart`). `TrueInv`: from its seed
  on a stream's versions grow (`EraInv`), a fold state is the true one at its
  event (`FoldTrue`) and an event in hand is of the stream's present history or
  in the state already (`Dated`). So the version that the handler compares says which
  event comes next, although another instance may have folded any number in between.
  The proof is what corrected the condition on a restart (section 3): with the three
  ids of the run TLC finds no counterexample to the weaker one, with five it does.
- `DurableCorrect`: `Spec => []AckedIsDurable` where an instance starts no cycle
  between the reset of the watermark and its answer (`~LateClear`). `Carried`: each event
  up to the end of a batch is in the table, still in hand, or in a fold state that is
  marked dirty, at every stage of the handler of whoever has the lease; and an
  instance that has a reset to answer has no lease.

**`Webhook`.** For any keys, requests, capacities and numbers of faults and crashes.

- `TypeCorrect`: `Spec => []TypeOK`, with `StoreInv`: a key has one entry, and a store
  over its capacity holds nothing but commits, except for the entry just made (`Spare`).
- `CommittedCorrect`: `Spec => CommittedStays`. `Sound`: what a request's status says
  of how far it is, so that a delivery that has finished does so once. Every step of
  a request is one of four kinds (`Turn`): it leaves the claim alone, takes it, handles
  under it, or gives it up.
- `AckedCorrect`: `Spec => []AckedIsProcessed`. A tentative claim has an owner and a
  commit its effect (`DoneInv`); a patient sender has one request under way, so that
  a duplicate finds a commit or nothing (`PatientInv`). Impatient senders are exempted
  by the property itself, with the reason in section 3.
- `OnceCorrect`: `Spec => []AtMostOnce`. `OnceInv`: a key has one owner at most, and its
  claim is in the store until it is given up. Nothing is evicted then, since keys in the
  store are keys that are sent (`UsedInv`) and an entry is one of its key, so there are
  no more entries than room (`RoomFits`).

**`PostgresLog`.** For any streams, writers and readers, and any batches.

- `TypeCorrect`, `LogInvariant`: `LogInv`, that a transaction in progress has the
  advisory lock, so that the log is as it found it, and that ids stay below
  the sequence.
- `NoReaderPassesAnEvent`: `Spec => NoGap` when a restore resets every position
  (`Kept = {}`). `Behind`: every reader is behind the ids that a transaction in
  progress has drawn.
- `ChecksHold`: `Spec => CheckedOnHead` when nothing is truncated, pruned or restored
  between a commit's probe and its insert (`~Straddling`). `OnHead`: at the insert the
  head is what the probe found, or a row with the next version exists and the unique
  index refuses the call.
- `Implements`: `Spec => ImplementsStore` under the same assumption; the step that
  makes rows appear is the call's step of `StreamLog`.

`NatSets` and the lemmas of each module carry the arithmetic: a bounded set of
naturals has a greatest member, what `Latest`, `Fold` and `Load` return.

Model-checked only: liveness (`EventuallyDrained`, `EventuallyHandled`,
`EventuallyMarked`, `EventuallyProjected`), as fairness and ENABLED are out of the
prover's reach. Every other property that a passing run checks is stated by a
theorem.

## 5. What is not modelled, and what is left

Not modelled, and why:

- the SQL of the adapters outside the event log (claims, acks and subscriptions of
  PostgreSQL and SQLite): each is one statement under row locks that does what
  `StreamRow` says of the in-memory store, and whether the SQL does that is what the
  repository's contract tests (`act-tck`) ask;
- server-sent events, the broker and the other transports of `act-http`,
  `act-notify`, `act-otel`, `act-pino`: they hold no state the core depends on, and a
  notification is an input of `Wakeup`;
- builders, registry, sensitive data, audit, csv, tracing, configuration,
  `act-crypto`, `act-patch`: pure functions of their inputs, without interleavings;
- inspector, diagrams, tools and sample applications: clients of the core.

Left to do: the staging of a close by autoclose after its ack, a close of
several streams in one call, and two full closers or a restart of versions as runs
of their own where the code grows a guard against them.
