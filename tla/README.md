# MeowCLI in TLA+

MeowCLI is a Go service that relays chat requests to Codex, Gemini, Antigravity
and OpenCodeGo with a pool of credentials. It picks a credential per request,
keeps its access token fresh, takes it out of the pool when it fails and puts it
back later. Many goroutines share that state through atomics, mutexes, channels
and a database, and the repository has no concurrency tests. These modules model
the request path, the pools it chooses from, and the tables in memory and in the
database that the two and the administrator share.

Run a configuration with `tlc -workers 2 -config X.cfg M`, where `M` is the
module PROJECT.json gives for it, and the proofs with `tlapm M.tla`.

## Inventory

| Part | State | Operations | What is hard | What makes it right | Module |
|---|---|---|---|---|---|
| Codex token manager (`core/codex/manager.go`, `cache.go`) | entries by credential, token cache, singleflight load, `codex` row | AccessToken cached/forced, proactive refresh, Disable, Invalidate, Prune | compare-and-swap owner against waiters on a channel; entries deleted under a refresh | one owner per entry, no lost waiter, only persisted tokens served | TokenManager |
| Codex scheduler (`core/codex/scheduler.go`) | atomic snapshot, throttle states, `checking`, `quotaRefreshing`, semaphore, refresh flight | select, record success/failure, 401/402, probe, update/store quota, refresh, import | rebuilds race with events; two ways of writing the snapshot; goroutines left behind | nothing lost for good, nothing served that was taken out, no leaked mark or slot | CodexScheduler (in part) |
| Gemini, Antigravity (`core/gemini`, `core/antigravity`) | as Codex | as Codex, with projects | as Codex, with one way each of writing the snapshot that Codex has not | as Codex | GeminiPool, AntigravityPool (in part) |
| OpenCodeGo (`core/opencodego`) | snapshot, failures | record, probe, refresh, rescore | no compare-and-swap at all | as Codex | OpenCodePool (in part) |
| Failure throttle, scores (`core/scheduling/scheduling.go`) | none | backoff, candidates, weighted pick | numeric edges, ties | doubling up to the maximum; the best are candidates | Scheduling (in part) |
| Background loops (`core/scheduling/quota_syncer.go`, `score_refresh.go`, `deadline_refresher.go`) | timers | quota sync, score refresh, deadline refresh | lost wake-ups, zero delays | the interval in force is slept, no busy loop | BackgroundLoops, `Wake` of the pools |
| Relay (`internal/bridge/relay.go`, `handler.go`, `retry.go`) | per request; bindings | attempts, retries, reports | order of outcomes, a client that leaves | bounded attempts, each outcome reported once, one answer | Relay |
| Streams (`internal/bridge/response_writer.go`, `api/codex/convert/completion`) | conversion state, pipe | convert, copy, finish | state kept between events, a body that breaks | nothing lost or doubled | ResponseStream |
| Content affinity (`internal/bridge/affinity_cache.go`) | trie, heaps, generations, Otter cache | match, bind, expire | expiry against binding, cached indexes | a match is the nearest live terminal | ContentAffinity, FlatAffinity |
| Import jobs (`internal/handler/admin_import_jobs.go`) | job table, workers | start, record, acknowledge | workers against acknowledgement | counts add up, completed means complete | ImportJobs |
| Keys (`internal/auth`, `internal/handler/admin_setup.go`, `admin_auth_keys.go`, `db/*/auth.go`) | table, key snapshot | setup, create, update, delete, load | last admin, two servers, two reloads | an admin remains, a deleted key stops working | AdminKeys |
| Models, wiring (`internal/app`, `internal/handler/admin_models.go`) | table, model cache | resolve, create, update, batch, invalidate | load against invalidation | no stale resolution | ModelTable |
| Settings (`internal/settings`, `internal/handler/admin_settings.go`) | rows, a snapshot per server, change channel | update, save, reload, restart | overlapping updates, other servers, commits whose answer is lost | an update undoes nothing that its server had read back | Settings, BackgroundLoops |
| Log store (`internal/logs`) | slice of rows and its head | insert, query, rates, clear | prune, trim and compact | the newest rows are kept, whole | RequestLog, PlainLog |
| Databases (`db/sqlite`, `db/postgres`, `internal/db`, `internal/store`) | tables of credentials and quotas | all stores and statements | two dialects, two kinds of time | the program is told the same by both | StoreTables, SqliteQueries, PostgresQueries, SqliteStore, PostgresStore, Stores (in part) |
| OAuth flows, API clients, plugins, hashing, utilities, console | - | - | - | - | not modelled |

How they interact: the relay resolves a model (ModelTable), asks the bindings
and then a scheduler for a credential and its headers, which come from the token
manager; it reports success, failure, an auth error, a quota seen in the headers
or a quota used up, and the scores weigh the error rates of the log. The
scheduler starts goroutines for probes, validations and throttle timers, and
these call the token manager and the provider. The quota syncer and the admin
handlers rebuild the snapshot from the database from the outside. A settings
change wakes the loops. The hazards, each at its line, are in PROJECT.json.

## How the modules fit together

| Module | With |
|---|---|
| MCTokenManager, MCCodexScheduler | symmetry for TokenManager and CodexScheduler |
| MCServing | EXTENDS Relay, INSTANCEs GeminiPool, AntigravityPool, OpenCodePool |
| MCTables | EXTENDS AdminKeys, INSTANCEs ContentAffinity, ResponseStream, BackgroundLoops, Settings, Stores, RequestLog, ImportJobs, ModelTable, Scheduling |
| Stores | EXTENDS StoreTables, INSTANCEs SqliteStore and PostgresStore, these INSTANCE SqliteQueries and PostgresQueries |
| ContentAffinity, RequestLog | INSTANCE their specifications FlatAffinity and PlainLog |
| TokenManagerProofs, CodexSchedulerProofs, RequestLogProofs, ContentAffinityProofs | EXTENDS its module and TLAPS |
| StreamAndScoreProofs | EXTENDS Scheduling and TLAPS, INSTANCEs ResponseStream |
| PoolsProofs (of Relay and the pools) | EXTENDS MCServing and TLAPS |
| TablesProofs | EXTENDS MCTables; INSTANCEs StreamAndScoreProofs, RequestLogProofs, ContentAffinityProofs |
| StoresProofs | EXTENDS MCTables and TLAPS |

`serving` and `tables` each check several components in one run. These share no
state, so a behaviour moves one of them, its `part`, and leaves the others where
they began; an initial state is taken for each. What one run explores is
therefore the sum of its components' states, not their product, and each
property says of which part it speaks. Nothing about how two of them meet is
lost that the modules would have said otherwise: what a component gets from
another is in its own module as a choice (the relay's `open`, the loops'
`ReplaceCurrent`, the pools' `admin` operation). The same model values serve in
several components, as credentials in one and servers in another, and since no
behaviour moves two of them the symmetry is that of each alone.

## TokenManager

One credential, because credentials share nothing in the manager but a
semaphore of 16 slots. `Procs` are the calls in progress; each has a program
counter, and every access to shared memory is one step: the sync.Map (`entry`),
an entry's `refreshing` flag and `done` channel (`cell`), the otter cache
(`cache`), the singleflight (`flight`), the row (`row`). A token is its version;
`fresh` holds the versions that are not yet within RefreshBefore of their
expiry, `blank` those that the provider minted without an access token, which
nothing looks at before the row has it (`manager.go:342-359`). Addresses of entries are reused when nobody holds them, so |Entries| =
|Procs| is enough for the checked instances. Bounds: `MaxToken` tokens minted,
`MaxDue` proactive refreshes spawned and not started.

| Run | Shows |
|---|---|
| token_safety | two calls, cached and forced, with rejected refreshes, admin changes and pruning: TypeOK; only tokens the row has held are cached or returned; one owner per entry; every blocked waiter has an owner that will close its channel; two exchanges of one refresh token at once only after an entry was dropped under a call |
| token_liveness | every call returns |
| token_disable_revived (violation) | a refresh sets a credential that was disabled meanwhile back to enabled |

The model has three more behaviours that a reader may not expect, and no
property forbids: an answer of the provider without an access token is stored and
the row enabled, then the call that refreshed fails, and the next one that loads
the row caches and serves the empty token (PersistTokens, StoreLoaded); a call that loaded the row before a disable caches its token
after the invalidation (StoreLoaded), where it stays until it expires; and a
call that loses the compare-and-swap before the winner's beginRefresh finds the
closed channel of an earlier refresh and does not wait (WaitForRefresh).

Fairness: every step of a started call, and the load. The Go runtime schedules
goroutines; the load, the exchange and the database calls have timeouts. Calls
are never forced to start, tokens never forced to expire.

`TokenManagerProofs` proves the four safety properties for any number of calls,
entries and tokens. `TypeInv` strengthens TypeOK with what the carried token is
at each program counter (an exchange's result is a real version when it is
persisted). `ProtocolInv` relates a call's place to its entry: an owner's entry
is busy, no two owners share one, a done channel is open exactly between
beginRefresh and finishRefresh, a waiter's channel belongs to an owner, and a
call whose entry differs from the map's has it in `orphans`. TypeOK alone is
not inductive and neither is any of the properties: single ownership needs the
flag, the flag needs the place of its owner. `PersistInv` adds that what is
carried after the update is in `stored`, which is of the order of storing and
serving and not of what is in a token. Each step lemma has a step per action.

## CodexScheduler

The snapshot (`avail`) is a function on the credentials in it; per tier a slot
has `live` (a quota is left), `up` (the score is not negative), `until`
(ThrottledUntil) and `fair` (the error-rate weight is positive). PickWeighted
never returns a score of 0, so `Selectable` is `up /\ fair` (a preferred
credential is taken with a score of 0 too; the liveness properties ask for more,
that anyone may take it). `me` holds each
goroutine's program counter and locals; `spawned` the goroutines started with
`go` and the timers not yet due. `routine` calls (refresh, evict, suspend,
throttle) are shared and return to `then`.

A compare-and-swap loop is one step, since a retry recomputes from what it then
finds. The Load and the Store of evict, suspend and throttle are two steps with
mu held between, and the rebuild is five: list, build, merge, store, clear. So
the steps interleave exactly where the code lets go of shared memory. The rows
of one rebuild are tested against `checking` in one step: rows are independent.
Which upstream answer comes is a choice over quotas, errors and rejections;
`DBFails` allows database errors; `LogStore` is whether a log store is set (it
only moves weights, so runs about other things leave it out; a rejection is logged
too, by the 401's validation and with the tier of the request). A change of
status, to either value, ends the windows of the quota row in the same
transaction (WithStatus). `Ops` says which upstream errors the
syncer's fetch may meet: with `unauth` or `reject` in it, it hands the
credential to HandleUnauthorized as the code does. `Threshold` is 2
in the instances instead of 3. `clock` stops at `MaxClock`, and a window may
end at `MaxClock + 1`, that is after the behaviour. `MaxClock = 0` means all
windows stay open, 1 that some pass.

Why these instances: two tiers let an edit or a quota update of one touch the
other (pool_events, pool_isolation) and two semaphore slots let two probes run;
two goroutines are a 401 or an event against a rebuild, a validation or a probe,
since a goroutine that has spawned another is free for the next call. One
instant, with windows that stay open, is enough where the question is what lifts
an open window; pool_returns has a second one so that windows end. At most one
start of each kind (operation, credential, tier, deadline) waits in `spawned`:
two equal validations or timers would be taken for one.

| Run | Shows |
|---|---|
| pool_events | TypeOK; semaphore slots and `quotaRefreshing` marks are exactly the probes in progress (ProbesAccounted); nothing but a stale rebuild or edit lifts an open throttle window |
| pool_validation | while a credential is marked nobody starts a second validation, and it always has one; only a rebuild that looked before the 401 brings it back; a joined refresh has a leader at work, whatever database calls fail |
| pool_returns, pool_weights | a tier that may be used is selectable again and again, with windows that end and with weights; no window is lifted early by a quota; a credential that stays disabled leaves the snapshot for good |
| pool_one_failure (violation) | one failure alone makes the weight, and the score, 0 |
| pool_isolation (violation) | suspending one tier undoes an update of the other |
| pool_validated_missing (violation) | the refresh after a validation skips the credential validated |

LiftedOnlyIfMissed and ReadmittedOnlyIfMissed have an exception, `StoredStale`,
because the code has it: a rebuild that listed, looked at `checking` or merged the
throttles before an event stores its rows after it, and an edit stores a copy
taken before. So a throttled tier, a tier under probe or a credential under
validation may be selectable for a while; the two properties say that this is
the only way, and EligibleReturns and DisabledLeaves that the rebuilds of the
quota syncer put right what such a race left. DisabledLeaves asks that no edit
be under way from some time on: an edit that never ceases to copy the credential
keeps it.

Fairness: goroutines run, time passes, a mutex does not starve a waiter (Go's
mutex hands over to a waiter that has starved for a millisecond), and the quota
syncer's loop comes round. The liveness properties rest on that loop: by default
it takes six hours (`QuotaSyncIntervalSeconds`), so what they show is that no
race loses a credential for ever, not that it is back soon. They assume that
database calls succeed (`DBFails = FALSE`): a database that always fails keeps
the snapshot as it is. Throttle timers and selection are not fair, and are not
needed.

`CodexSchedulerProofs` proves the type invariant and all six of the safety
properties for any number of goroutines, credentials, tiers and slots, with or
without database errors. It goes in six parts, each relative to the ones before.

`ControlInv` says where control may be: `Placed` bounds, per operation, the
places a 401's handler, a request's or the syncer's, and a validation visit and
what their calls return to;
`LeaderAtWork` ties the flight to a goroutine inside the rebuild, `JoinersWait`
every joiner to a flight. JoinersHaveLeader follows from it. It is not inductive
alone: the syncer and an admin's import walk through the same places outside the
flight, and a leader resumes wherever `then` sends it, so the return places
must be bounded. NoStuckValidation is inductive relative to it: each step either
keeps every validation, hands one over (the 401's handler or the syncer to the
goroutine it spawns) or takes the mark away with it.

`PostInv` adds what a goroutine stands at each place for, and that an operation
which needs a credential and a tier has them; its lemma `PostStep` is that every
step takes each goroutine on, about the same credential and tier, or ends it.

`ProbeInv` makes ProbesAccounted inductive: it counts the goroutines that hold a
slot and the probes that wait to start (both sets are finite because the
semaphore is; nothing is assumed of Procs), and says who answers for a mark. Six
lemmas take the actions that acquire, mark, spawn, start, unmark and release;
`QuietStep` is that no other action ends or moves a probe, through the database,
the throttling and the calls it returns from.

`TypeInv` adds what the variables and frames hold; TypeOK alone is not inductive
because StoreRows and the edits store what their frame carries, which must be a
snapshot at those places, and because `sem` keeps its range only with ProbeInv.

OneValidation is an action property: what a step does to the validations in
progress and to those that wait to start is looked at together, since a 401's
goroutine, or the syncer's, hands its validation over to the job it spawns, and
the job to the goroutine that takes it. `OnlyTheTestHands`: no step but the
test-and-set puts a goroutine on its way to start one.

ReadmittedOnlyIfMissed and LiftedOnlyIfMissed need to know what a rebuild carries.
A rebuild that has looked at `checking` carries no credential under validation,
and one that has merged no slot with an open window, but for those in `missed`;
a 401 or a window that comes in while a rebuild stands there puts itself into
`missed`. With that, the store is the only step to look at: every other one
that changes the pool scores a slot from a quota or a weight, takes a row away,
or puts back the copy of an edit.

Left out: plan types and preferred plans, the order and the random pick among
positive scores, the score refresh loop (it does not change the sign of a
score), the pass of time in the log's window, RestoreExpiredThrottled (no
statement of the code sets the status `throttled` any more).

## Relay and the other pools (run `serving`)

**Relay.** A request is a record `req[r]`: its place in the loop (`pc`), what
retryTracker keeps (`attempt`, `grace`, `graced`, `pref`), the credential in
hand, and three counts that are history: credentials chosen and not reported on
(`due`), answers begun, and who was last given the hint to wait. An action is the code between
two calls of the scheduler, the upstream or the tables of bindings; `Pool` says
which credentials can be selected after a report, and `PoolChange` that this
changes without one. The content table may name any credential here, since what
it names is ContentAffinity's matter. Four properties are about the order of
outcomes: OneAnswer, ReportsMatchAttempts, GraceOnce (the hint of a short
Retry-After is honoured once and then becomes a throttle) and UnbindsItsOwn (the
fill-first binding is taken from the credential that failed, not from one bound
meanwhile). RequestsEnd holds under weak fairness of each request's steps:
selection, headers, upstream and writes all end by themselves or by their
timeouts, and a client need not leave.

**GeminiPool, AntigravityPool, OpenCodePool** have the shape of CodexScheduler:
`avail` is the snapshot, `throttle` the failures and window of a credential,
`me` each goroutine's place and locals, `spawned` what was started with `go`.
They differ where the code does. Gemini rebuilds through a singleflight, except
for the quota syncer; its quotas and plan types are compare-and-swap (a step),
its evictions and throttles Load and Store under mu (two steps). In Antigravity
every edit is a compare-and-swap, and rebuilds run side by side. OpenCodeGo
stores its snapshot without a compare-and-swap everywhere, also after scoring it
anew. One tier stands for all and a window lasts a tick: what tiers and weights
may do to each other is what the Codex runs ask. `Mixes` are the sets of
operations that meet in one behaviour, chosen so that each rebuild, each edit
and each way back meets those it could race with; all nine operations in one
behaviour are beyond TLC, and PoolsProofs is about any mixes, that one included.

PoolsBackOnlyIfMissed says of all three what LiftedOnlyIfMissed and
ReadmittedOnlyIfMissed say of Codex: a credential that is disabled, under
validation or in a throttle window comes back, while that lasts, only by a
rebuild that had listed or merged before (`missed`) or by an edit that stores
over what another has stored since it loaded. In AntigravityPool the second does
not exist, and the property there has no such case.

Bounds: one request, two credentials, two attempts and the grace retry, so that
a hint, its retry and a second credential occur; other requests are present as
`OtherSession`, `PoolChange` and the binding and unbinding of the fill-first
model, and the theorems of PoolsProofs are about any number. Two goroutines and one credential in
a pool, `Threshold` 1 for the code's 3 (that the third failure counts is
Scheduling's), two instants.

## What is shared beside the pools (run `tables`)

**ContentAffinity** is one model's trie. A node is named by its path, so parent,
edge and children follow; what the code caches, the nearest terminal of a node
and the heap over its children, is state, with the heap as the keys it was last
fixed for. bind is two steps under `bindMu` (the trie, then the Otter entry), a
match two (the lookup, then whether the entry still lives), an expiry two (Otter
drops it, the callback prunes with the generation). The code's three walks to the
root (recomputing, propagating, pruning) are one operator, Upward, a recursive
function over the lengths of the prefixes. LookupFindsNearest compares
the cached answers with a scan of all terminals; TrieInOrder says that no node is
idle, no heap out of date and no terminal without its entry or callback;
ImplementsFlat maps the trie to FlatAffinity's one credential per conversation,
and with HitsAreCurrent that a match hands out only what lives. Conversations of
up to two elements out of two, three bindings: enough for a split, a sibling, a
rebinding while the old callback is on its way, and for `HeapThreshold` 1 for
the heap to be used.

**ResponseStream** sends the events a Codex answer may have (a tool call
announced, its arguments in parts, in one, or both, or the item at once), turns
them into chunks with the code's state, and has the client put them together.
StreamTellsAll: a client that has seen [DONE] has what the same request gets
without streaming, and nothing follows. Three items of two parts: calls of
different kinds follow each other.

**BackgroundLoops** has the two loops with their channel, timer and pass, and the
settings' channel as a number. AsleepOnCurrentInterval is the lost wake-up;
NoBusyPass says that two passes at an instant are for a row not yet tried or one
whose quota has been reset: a row that was never synced, or cannot be, does not
make the loop spin. A reset that is over does, for as long as the provider sends
it again or its row cannot be synced: the code's own exception. A pass lists the
rows first and then chooses with the time and the interval of that moment.

**Settings** has several servers on one database, calls that overlap, a commit
whose answer is lost, a reload that fails, and restarts. An update writes all of
the settings, those its request names over the snapshot in the memory of its
server, and so reverts those that were saved since that snapshot was read: by a
call that overlapped, by another server, or by an earlier call of its own server
that was answered with an error after its commit or could not reload
(`admin_settings.go:78-93`). No document says that it does not. SeenSettingsKept says
that it reverts no other: what the server had read back stays. `unseen` and
`differs` note which settings were saved since a snapshot was read. Two servers, two
calls, two settings of two values.

**Stores** sends the same calls to both databases and compares what they tell.
StoreTables are the tables; SqliteQueries and PostgresQueries each statement of
the generated code; SqliteStore and PostgresStore the methods over them, with
their conversions of times and transactions. SQLite keeps whole seconds: a second
is two ticks, and StoresAgree compares SQLite now with PostgreSQL at the end of
the second. `refused` excepts credentials of which PostgreSQL alone refused a
write (below). DeadlineCoversThrottles: the deadline the refresher waits for
comes no later than any throttle that the list of available credentials reports,
in both. One credential, since no statement relates two but counts; three writes,
so that a quota, a throttle and a change of status follow each other; each provider.

**AdminKeys**: a worker is one of two requests of one of two servers. The
transactions take the lock of the database, a plain CreateAuthKey does not, and a
handler its server's mutex; a request may fail, or commit and be answered
with an error, and a server may die and start again. LastAdminKept and SetupOnlyFirst are about the database; CacheIsCurrent
about a server that was told of every change (`behind` are the others).

**RequestLog** has the slice with its garbage, PlainLog is the sequence that its
readers may think it is; ImplementsPlainLog is the refinement, answers included.
Rows are limited to 1 or 3 and copied from two garbage rows on, so pruning,
trimming and both kinds of copies occur within three instants.

**ImportJobs**: a job's tokens are handed over an unbuffered channel to its
workers. CompletedIsWhole: the counts add up at any time, and what is shown
completed, and may be forgotten, has counted every token and told the scheduler
of every credential.

**ModelTable**: a load by singleflight in three steps against handlers in three.
ResolutionCurrent has the exception `outdated`: a load that read before a change
and stores after its invalidation, or a change by another server.

**Scheduling** goes over the rows of a snapshot and over failures in a row; the
recursive functions of the code are recursive functions, and SchedulingAsDefined
compares them with a definition: the candidates are the rows with fewer than
`bestCount` ahead of them, in order, and the wait after the n-th failure is the
base times 2^(n - 3), at most the maximum. Backoffs 2, 6, 8 give maxima that are
and are not a power of two times the base, and equal ones.

## Runs and deadlock

| Run | Distinct states | Shows |
|---|---|---|
| token_safety, token_liveness, token_disable_revived | see TokenManager | |
| pool_* | see CodexScheduler | |
| serving | 812,880 | a request is answered once, reported and ended; a credential that was taken out of a pool comes back only by what had looked before |
| tables | 269,759 | the questions of the section above |

Deadlock checking is off in every configuration: when the bounds are used up and
no external call is started, everything may be idle, and the program waits for
requests. The components run for ever and have no state in which they should be
done; that nobody waits for nobody is said by NoOrphanWaiter, JoinersHaveLeader
and the liveness properties.

## Proved

For every value of the constants, under the assumptions listed below the table.
None of these modules reaches a RECURSIVE operator. Each theorem's invariant is in
its module, with a step per action.

| Module | Inductive invariant | Why the property alone is not one |
|---|---|---|
| TokenManagerProofs | TypeInv, ProtocolInv, PersistInv | see TokenManager |
| CodexSchedulerProofs | ControlInv, then NoStuckValidation; PostInv, ProbeInv, TypeInv; what rebuilds carry | see CodexScheduler |
| PoolsProofs, Relay | RelayInv: every request's record is Sound (Records, Attempts, Owes, Answers, Remembers), and the shared variables in their types | that nothing is owed at the end needs what is owed at each place; that there are at most n attempts needs which places count; GraceOnce needs that the hint is remembered where a retry may come from. A step writes only its own record, so one request's step is all there is to look at |
| PoolsProofs, the pools | for each pool GTypeInv, GKnows and their counterparts | TypeOK needs what a goroutine carries where it stores; that a credential is back only by what had looked before needs, of each rebuild on its way, that what it carries and should not is in `missed`, from the place where it looked to the place where it stores |
| TablesProofs, AdminKeys | AdminInv: TypeOK, OneTransaction, KnownAdmin, LookedAt; CacheInv: OneInside, Current | the last admin is kept because what a transaction saw is still so when it writes: no other transaction is inside, and what CreateAuthKey adds does not hurt. The cache is current because one handler per server is between its commit and its publication |
| TablesProofs, ModelTable | ModelInv: TypeOK, LoadsCurrent, ResolutionCurrent | what a flight is about to store must be the row, or known to be old |
| TablesProofs, Settings | SeenInv: TypeOK, ServerSeen, CallSeen | what a call is about to save is the database's but for what is noted only if the snapshot it was laid over is, and that was carried by another call before |
| TablesProofs, BackgroundLoops | LoopsInv: a loop that has the channel in force has its interval; PassInv | needs that no loop has a channel of a change to come. For NoBusyPass, that what was tried counts as synced from the end of a pass to the next, and that a timer which is due at the instant of the last pass was set for another row: DelayIs says that the wait is zero for none but a row that is due |
| TablesProofs, ImportJobs | JobInv: each token is waiting, with a worker or counted; each credential told of or about to be | the counts at the end are sums over workers at each place; moving a worker moves one between two sums |
| StreamAndScoreProofs, Scheduling | SchedulingInv: Picks (Kept: the candidates are the best of the rows so far, each at its rank), Waits | see below |
| RequestLogProofs | LogInv: the slice is its garbage and then its rows, in order of time; a reader between its look and its copy finds nothing expired | see below |
| StreamAndScoreProofs, ResponseStream | StreamInv: CodexInv, OpenCodeInv | see below |
| StoresProofs | StoresInv: D!TypeOK, Good of each database, RelAt of each credential that PostgreSQL has not refused | see below |
| ContentAffinityProofs | AffinityInv: BucketsRight, BoundRight, EntriesRight, BinderRight, ReadersRight | see below |

**RequestLog implements PlainLog.** The mapping drops the garbage before `head`.
Insertions, prunings and trimmings move `head`, which is to drop rows from the
front; compaction moves the slice, which is a stutter. The prune of the code
searches from `head` for the first row that is kept, and PlainLog's filter keeps
every row that has not expired: these are equal because rows are in the order of
time, which is why LogInv carries the order and that no row is in the future.
What a reader is answered was computed before its copy; nothing of it may have
expired between, so the invariant keeps it Fresh. The recursive function that clears a
credential's rows (Remaining) is compared with a filter through the places that are
kept: Place(I, j) is the j-th of them, and that it is what the function finds is
shown by the least number for which it is not. ClearLogs, Counts and the two
ways of copying then follow from counts of places.

**ResponseStream.** Agree(s, c, u) says what a converter s and a client c know of
what the upstream u has sent when nothing is on its way. On the way are an event
not yet read, a chunk in the pipe and one in the writer's hands, so CodexInv says
that the client and the converter agree with the upstream once these have
arrived, in the order in which they will (Scanned, Written, Piped, Heard), as
long as the conversion goes on; after it has ended well the three have been
sent, and after it has ended badly [DONE] is not among them. An event of the
upstream extends Agree by one conversion (AgreeAdded and the others, one per
kind of event); every later step moves what is on its way one place on and
leaves the composition as it is. For OpenCodeGo the invariant is that once [DONE]
is in the writer's hands or out, the writer has stopped (behind the usage) or the
upstream has (it was its own [DONE], and no line is left).

**ContentAffinity implements FlatAffinity.** Most of the argument is about one
bucket, between two steps and inside one. Tree says that the nodes are closed
under common prefixes, which is what lets a child be found by one comparison and
makes the branches under two children disjoint. IsBest(T, n, v) says that v is the
nearest terminal at or below n, or that there is none; that there is one best of
any set needs that no two terminals have one number (SeqsApart). A bucket is right
when each node's `nearest` is its best and each heap is the one its children give.
In the middle of a walk to the root it is not: RightBut(T, Z) is that it is right
but for what the nodes of Z know, and that a heap may be behind on children in Z
only. Before a walk Z is the whole way to the root; each visit of Recompute takes
one node out of Z, because by then its children are right (RecomputeRight), and at the
root Z is empty. The other two walks differ in where they stop. Propagate stops
below the first node that knows a better terminal, and is right because what is
best there stays best for every node above. Pruning takes idle nodes away, and
what lies above the node where it stops is recomputed only if that is no
terminal, because a terminal is its own nearest and so nothing above it can have known what
is gone. An insertion first splits an edge and hangs the new node in, each of
which leaves a bucket that is right but for the new node and those above it
(GrownRight).

That gives for each operator of a bucket one fact: Insert gives the bucket with
one binding more or another (Inserted), ExpireTerminal with one less, or none
(Expired), and Lookup finds the nearest (Finds). AffinityInv says of the table that
every bucket is right, has no idle node and holds a terminal (BucketsRight), that numbers of bindings come from
`sequence` (BoundRight), that entries and callbacks on their way belong to
terminals (EntriesRight), what bind has inserted and not yet set (BinderRight), and what a
match carries (ReadersRight): that its terminal, if its entry lives, is still
bound to the credential that was read. LookupFindsNearest alone is not
inductive because it speaks of what lookups find and not of the heaps that decide
the next child; TrieInOrder is not because nothing in it orders the numbers of
the entries. The refinement is then that BindInsert is FlatAffinity's binding,
Callback of the current generation its unbinding, and all else a stutter.

Upward is a recursive function on the numbers up to the length of a path. Walked is
its equation, and what is proved along it is proved by the greatest number at which
it fails, which the well-foundedness of < on the numbers gives (GreatestNat).

**Scheduling.** Rank(r, i) is the number of rows ahead of row i, and RankOrders says
that ranks tell rows apart and order them as scores and places do. Kept(r, b, n)
is that the k-th of the candidates b has rank k - 1 and that no row of a rank
below n is missing. A row more leaves the rank of those it is not ahead of and moves the
others one on (RankAppended); RaiseLast, a recursive function in the code's loop,
carries it to the place that its rank says (RaiseLastIs, by the greatest number at
which the loop stops), and what falls out at the end has rank n by then
(InsertKeeps). For the waits, the doubling in a loop and the power of two are both
recursive functions on the numbers; that such a function exists is proved once
(Recursion), and that the one is the other cut off at the maximum by induction
(DoubledIs). It holds because a maximum has a half: the loop compares with half of
it, rounded down.

**Stores.** RelAt(s, p, x) is that what SQLite's tables s have of the credential x is
what PostgreSQL's p have: the same rows exist, each column is the same, and a time is
the second of the other's (Hard; Soft where NULL stands for the empty text). Good
is that the tables are in their types and refer to credentials that are there.
Each statement is one lemma per database on what it makes of a row (CredNow,
QuotaNow, Touches), and one for the pair: two rows that agreed do so
afterwards, since cutting to the second goes over to the least and
the greatest, to comparisons with a whole second, and to what is added. A call
that PostgreSQL alone refuses puts its credential into `refused`, and what
the two have of it is left open. StoresAgree is then what the lists, gets and
deadlines make of two such rows. DeadlineCoversThrottles compares two statements of
one database, and needs of it only that it is Good.

Assumptions: of TokenManager, CodexScheduler and Relay as named in each module; of
ContentAffinity AffinityOK, which is that None is not one of the values it stands
beside, that the threshold is above zero and that conversations are sequences with
their prefixes (the first two are MCTables' AffinityAssumption, the last follows from
its definition of Paths and is proved, AffinityConstants); in
the composed modules that None is no snapshot of a job (NoneAssumption), that
the retention and the row limits are numbers, the first above zero
(LogAssumption), that the two intervals are above zero (LoopsAssumption), both
of which Normalize of the settings sees to, that durations are above zero and even,
being whole seconds in nanoseconds (SchedulingAssumption), that the providers are
those that keep credentials and the clock of the stores goes beyond its start
(StoresAssumption), and of the pools what PoolAssumption
says of None, the threshold and the clock. The bounds of the clocks are numbers.
TLC evaluates each of them in the runs. The stream, the settings, the models and
the keys need none.

MCServing EXTENDS Relay and MCTables EXTENDS AdminKeys, so the runs check the
properties of these two under the same names. The other parts are INSTANCEd: for
each the lemma PartsBehave (and its like in PoolsProofs) says that the
composition does its steps only, and a short theorem takes its property to the one
of the run (StreamTold, LogKept, ImportsWhole and so on). Where the proof of a part is
in a module of its own, the instance of the proof and the instance of the run
are two instances of one module, and the theorem shows their definitions equal.

Checked on the instances only:

- TablesTypeOK, which is the types of the parts: those of AdminKeys, Settings,
  ModelTable, RequestLog, ContentAffinity, Scheduling and Stores are proved
  (AdminTypes, SettingsTypes, ModelTypes, LogTypes, AffinityTypes,
  SchedulingTypes, StoresKept).
- What is expected to be violated, and liveness under fairness (token_liveness,
  pool_returns, pool_weights, RequestsEnd), which is out of the prover's reach.

## What the models say of the code that no run checks

These were met while modelling and are exceptions of the properties, or outside
them.

- A reset time that the provider leaves out is a zero time
  (`api/antigravity/quota.go:164`, `api/gemini/quota.go:104`), which PostgreSQL's
  conversion makes NULL in a NOT NULL column: the upsert fails and the credential
  stays never synced, against the comment at `core/gemini/scheduler.go:808`.
  SQLite takes it. This is `refused`.
- A token refresh of Codex or Gemini, which writes the status too, ends the
  windows in the database; Antigravity's does not.
- A commit that is answered with an error, or a Refresh that fails, leaves a
  cache of keys behind the table: a deleted key works until the next one. Of
  settings, the next update then puts the old values back.
- `Normalize` may set ThrottleMax to the default although that is below
  ThrottleBase (`settings/service.go:271`), when the rows were not written by the
  handler, which refuses it; the first wait is then longer than the later ones.
- RecordFailure starts the count anew when a window has passed: waits double only
  for requests that fail while the window is open.
- `ErrorRatesForCredentials` ends its scan at the oldest Since of its arguments; a
  zero one, which has no bound, is overlooked when another follows it. Its callers
  leave zero ones out.
- BatchUpdateModels writes back the origin and handler it read, and so undoes an
  UpdateModel in between.
- An OpenCode import that fails after it has written some keys does not tell the
  scheduler of these.
- ReplaceModel of Codex (`api/codex/adaptor.go:111`) answers with the `response`
  inside an event, so that a line of a stream loses the event around it; the
  comment at `internal/bridge/response_writer.go:91` speaks of the field `model`.
- OpenCodeGo forgets the counts of failures at every rebuild; Gemini rebuilds
  before a validation has been unmarked, so that the credential waits for the
  next rebuild, as in Codex.

## Not modelled

- OAuth: a pending authorization is put into a cache and taken out by its state.
  Two callbacks with one state may both find it; nothing else reads it.
- Scores of quotas: arithmetic on floating-point numbers, of which the models
  keep the sign and the order; the random choice among candidates.
- The token managers of Gemini and Antigravity, near copies of the modelled one;
  the projects they look up; credits.
- In the databases: models and settings rows, migrations, ratios, the order of
  rows, pages and search texts; the filters and pages of the log.
- The clients of the providers and the formatting of requests and responses
  other than the stream above; plugins, hashing, utilities: functions of their
  arguments. The console: user interface. What the batch of admin handlers does
  beyond the tables above: listings and statistics.
- Start and shutdown of the program. Servers die and start again in
  AdminKeys, where others go on writing the database; in the pools, the models of
  the token manager and the loops a start is Init, whose rows are chosen freely.
