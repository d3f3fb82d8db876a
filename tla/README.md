# Verification of pola

pola is a Go web framework that renders React (and other) front ends inside
embedded JavaScript engines. This directory models the parts of it in which
something can go wrong *between* two correct functions: pools, loops, caches,
reloads, streams. The modules are TLA+, checked with TLC on small instances;
what matters most is proved with TLAPS for every value of the constants.

Contents: [1 the system](#1-the-system) · [2 modules](#2-modules-and-how-they-follow-the-code) ·
[3 runs](#3-runs) · [4 bounds and fairness](#4-bounds-and-fairness) · [5 proofs](#5-proofs) ·
[6 divergences](#6-divergences-met-while-modelling) · [7 abstractions](#7-abstractions) ·
[8 what is not modelled](#8-what-is-not-modelled) · [9 plan](#9-plan)

## 1 The system

A request passes the middleware (rate limiter, session, flash, JWT), reaches
`internal/webmount.go`, which asks the API routes and the page routes who
answers, then a handler or a renderer. The renderer looks into the SSR cache, leases a JavaScript VM from a pool, installs
the request's injectors (Go functions the page may call), renders, streams
Flight rows to the browser and stores what it streamed. Server actions and API
routes change data and evict cached pages. In development `pola dev` restarts
the Go process when Go sources change and, inside the process, a hot reloader
rebuilds and swaps the JavaScript bundle when front-end sources change.

| component | state it keeps | operations | talks to |
|---|---|---|---|
| `vmpool` | channel `idle`, semaphore `sem`, flag `closed` | Acquire, Release, Close | engines (factory, dispose) |
| `engine/eventloop` | task channel, stop channel | RunSync, RunAsync, Stop | every engine but goja |
| `engine/goja` | the VM: `__REQUEST__`, `__DI__`, queue of answers | SetRequestContext, SetDependencyInjection, CallAwait, clearState | bridge goroutines, `vmpool` |
| `internal/memoinjector`, `engine/polyfill` | the memo Proxy's promises | Inject, bridge calls | goja |
| `serveraction` | none | Action, Form, Invoke | goja, SSR cache |
| `renderer/nativersc` | per render: ids, maps of sent imports, queue of promises | render, drainPending, awaitPromise | goja, Flight stream, cache |
| `renderer/react` | `pool`, render dependencies | LoadBundle, serveFlight, RenderToWriter | `vmpool`, cache |
| `cache/memory` | an LRU of entries with expiry | Get, Set, Delete, Invalidate, Clear | renderers, `webmount`, hot reload |
| `bundler/esbuild` Watch | output channel, trigger | poller callback, build, offer | `watcher`, hot reload |
| `internal/hotreload`, `internal/eventbus` | current handler, subscriptions | reload, Publish, Subscribe, Close | bundler, renderer, browsers |
| `patternmatch`, `router/nextjs`, `webframework/std` | the trie and the static map of the last scan; the API routes | ScanRoutes, Resolve, match, allowedMethods | `webmount`, hot reload |
| `middleware/ratelimit` | a bucket per client in a concurrent map | Wrap, the sweeper | every request |
| `middleware/jwt`, `auth/jwt` | nothing: the token is in the browser's cookie | Wrap, Set, Clear, save with its sliding refresh | every request |
| `middleware/session`, `flash` | nothing: the values are in a signed cookie | Get, Set, Clear, save; take a flash message, Set one | every request |
| engines (goja, sobek, v8go, qjs, quickjsgo, moderncquickjs) | the bridge object, its memo, `__REQUEST__`, the output sink | SetDependencyInjection, StartRender, DrainStream, clearState | `vmpool`, `internal/memoinjector` |
| `database/migrator`, `pola db` | the schema and its ledger, shared by all processes | boot, migrate, rollback, reset, load | the database |
| `watcher` | last state of every file, two tiers of paths | poll, rescan, SetPaths | `pola dev`, bundler |
| `internal/cli` serve | overlay, child process, restart channel | the restart loop | `watcher`, `go run` |

What is hard in them, and what makes each correct:

- **vmpool.** Slots are counted by one channel, VMs travel in another, `closed`
  is under a mutex that is released before either is used. Correct: never more
  than MaxSize VMs, each with one holder, none lost or used after disposal,
  Release never blocks, blocked clients are served.
- **event loop.** A bounded channel of tasks shared by callers who wait and
  goroutines who do not; a stop that races both. Correct: each task is in one
  place and runs once, RunSync returns after its task, and returns at all.
- **goja runtime.** Bridge calls outlive the program that made them; a deadline
  races their answers; the VM goes to the next request. Correct: a program runs
  under its own context and functions only, an idle VM is clean, one function
  is called once per request when memoised, every request ends.
- **Flight streams.** Rows are sent from inside the walk of a tree, promises
  are queued, walks fail halfway, the browser hangs up. Correct: ids are unique,
  no row refers to one that never comes unless the stream is cut, imports come
  first, one failing component fails alone.
- **SSR cache.** A render takes time; mutations, expiry and eviction happen
  meanwhile. Correct: an invalidated page stays invalidated, stale pages expire.
- **hot reload.** Two goroutines and a channel that drops old outputs; pool,
  cache, dependencies and handler are swapped one after another while requests
  run. Correct: all or nothing, the last edit is what is served, no
  subscribed browser misses a reload, Close ends both goroutines.
- **routing.** A trie that backtracks, two tables and two routers that must agree,
  a rescan that replaces the tables between two lookups. Correct: the most
  specific route answers, with its own parameters, and 405 tells the truth.
- **rate limiter.** Requests use buckets without a lock while the sweeper deletes
  them. Correct: forgetting neither refuses nor admits too much.
- **sessions in cookies.** Requests under way together each answer with the
  session as they left it, and the browser keeps the last. Correct: a session
  ends when it must, a sign-out stays, a message is shown once, values survive.
- **bridge objects.** Each engine has its own idea which JavaScript object the
  bridge is: the memo wraps it, clearState replaces it, some hold one from Go.
  Correct: a program finds the functions of its own request, whatever ran before.
- **migrations.** Replicas boot together without a lock, a statement and its row
  are two transactions, processes die between them. Correct: the ledger never
  claims more than the schema has, files go in in order, a boot that succeeds is
  current.
- **pola dev.** Sources change while they are read, compiled and watched.
  Correct: no change is lost between the loop and its poller; the newest
  sources end up running.

## 2 Modules and how they follow the code

Each component has one module (state, `Init`, one action per operation or
step, `Next`, `Spec`, `FairSpec`, properties), an `MC…` module with the
definitions TLC needs, one or two `.cfg` files, and a `…Proofs` module
(StackProofs and StoreProofs serve several).
`PROJECT.json` maps every definition to the lines it stands for. A definition
whose comment begins "Mutant of" is a wrong variant of the definition after it;
it is used by nothing and exists to show that a property notices the mistake.

**VMLease** is the abstract pool: which VMs exist, who holds which. **VMPool**
is `vmpool.go` step by step: a step is a channel operation or a critical
section, so that every interleaving of Acquire, Release and Close is there. A
receive on an empty channel is a queue of waiters, as in Go. `ImplementsLease`
is the refinement: `owner` is what each goroutine carries, `live` the VMs
created and not disposed of.

**EventLoop** is `eventloop.go` with the callers of RunSync and RunAsync as
processes. The task channel is a bounded sequence followed by the queue of
blocked senders. `Stop` closes the loop. **TaskQueue** is what its callers may
rely on: one queue that is never full, one task at a time, in order.

**JSRuntime** follows a request through Acquire, its injectors,
SetRequestContext, the program's start, the polling of CallAwait (or of a
render, which has no deadline), clearState and Release. `Ask` is a bridge call
of the program, `Answer` the return of the Go function on its own goroutine,
`Cross` its effect on the loop of the VM: it resumes the program that awaits
it, whichever request the VM serves by then. The pool is only a set here; its
requests use it as VMLease has it (`UsesLease`), which VMPool implements.

**Reconciler** is one render of `nativersc`: the walk of a tree as the sequence
of what leaves a trace (a reference to a client module or a server action, a
promise that is put off, a value JSON cannot encode, a throw), the drain, the
wait for one promise, the row writer, the browser that hangs up and the Set of
the cache. **FlightStream** is what the browser is promised: rows with unique
ids, references that get their rows unless the stream is cut. `StreamSpec` is
Reconciler's refinement of it.

**RenderCache** has readers (`serveFlight`, both renderers: look, render, fill)
and writers (API routes and actions: change, invalidate) over `cache/memory`
with expiry, a full cache, and the prefix rule of `resourcePrefix` and
`Invalidate` on path segments.

**HotReload** has the poller's trigger, the Watch goroutine (initial build,
select, build, drain and offer), the HotReloader goroutine (load the bundle,
clear the cache, wire the dependencies, mount, publish), the bus with its
browsers, Close, and Flight requests served all the while, each of which reads
the renderer's pool twice.

**Poller** is `watcher.go`: the tick over the recent tier and a share of the
others, promotion with eviction, the rescan that replaces the watched set and
keeps the recent paths that are still there, in their order.
**DevServe** EXTENDS it with the loop of `pola dev`: overlay, start, watch,
select, kill, the compiler, the server's crash, the developer's edits and
Ctrl+C. HotReload's `Edit` and `Notice` abstract the same Poller.

**RouteTable** is `patternmatch`: patterns, their order (`Before`), insertion into
the trie in that order (one wild child per node, whose name is the first pattern's;
`NewRouteTable` folds `Insert` over the set of routes, the one that sorts last
outermost) and the search that goes back, a recursive function over the trie's nodes. **Routing** puts the API routes of `webframework/std`, the page router
with the static map and the trie of its last scan, and the precedence of
`mountApp` around it; a request looks into the two tables in two steps, and
`ScanRoutes` may replace them in between. `Fits` and `Beats` are the reference
definition: which patterns match a path, and which of two is more specific.

**RateLimit** is one client: `entry` is what the sync.Map holds, `buckets` every
bucket that was ever the entry, and each access to shared state (LoadOrStore, the
store of lastSeen, Allow; the sweeper's round, its look, its delete) is a step.
`level` is a bucket that is never forgotten and pays for every request: the
limiter as its documentation describes it.

**JWTSession** and **FlashSession** are a browser and the server it talks to: a
request carries the cookie it was sent with, the handler changes the request's
copy, the one save (at the first byte, or after the handler) makes an answer, and
answers arrive in any order or not at all. JWTSession has the sliding refresh,
the lifetime and time; FlashSession the values, the flash message the middleware
takes, a save that is skipped, and a restart with a new random key.

**Bridge** is one VM over its leases: `objects` is every object that was the
bridge, `bridge` the one the global names behind the caches of nested memo
Proxies, `handle` the one the Go side refers to. An engine differs in which of
them `SetDependencyInjection` empties and fills and in what clearState replaces.
JSRuntime has the asynchronous half (late answers, deadlines) for goja.

**Stack** EXTENDS these five, the layers a request passes one after another.
They share no variable, so a behaviour shows one of them (`layer`): the product
would only multiply states, and no property relates two layers.

**Migrator** is `database/migrator` and `internal/cli/db.go` over one database:
per process the command, its plan (`todo`), its copy of the ledger's row, and a
step per transaction: create the ledger, read what is pending, mark, run a
statement, record it, undo, forget, drop. Atlas's executor is external, modelled
as the code drives it. A step may be a crash or a statement the database refuses.

How they compose: VMPool guarantees JSRuntime, Reconciler and HotReload the
exclusive lease they assume (VMLease); JSRuntime guarantees Reconciler a VM that
is clean; Poller is an ordinary part of DevServe. HotReload has its own,
coarser, view of pools, because its question is *which* pool a VM returns to.

## 3 Runs

Runs that pass:

| run | asks | instance |
|---|---|---|
| `vmpool_served` | slots, custody of every VM, refinement of VMLease, blocked clients served | 3 clients, 2 closers, MinSize 1, MaxSize 2, failing factories |
| `eventloop_served` | RunSync returns, and after its task | 2 callers, 2 bridges, buffer of 1, Stop whenever no caller is in RunSync |
| `jsruntime_served` | own state, isolation, memo, end of every request | 2 requests on 1 VM, 2 functions of 2 overlapping injectors, 2 calls each, one early and hanging |
| `hotreload_served` | all-or-nothing swap, no reload lost, clean cache, latest served, shutdown | 2 requests, 1 browser, 1 edit that may break, Close at any time |
| `rendercache_served` | invalidations stay clean, pages become fresh | 2 readers, 2 writers, nested paths, capacity 1, expiry 2 |
| `reconciler_streams` | imports first, failures contained, refinement of FlightStream, end of the render | 1 client module, 1 server action, 5 ids |
| `devserve_served` | every watched path in one tier, no change missed, the newest sources run | 3 files (one the Polafile), 1 recent place, 2 ticks per round, 2 edits |
| `stack_served` | routing: the most specific route, its parameters, 405 and Allow, one scan per page; limiter: one burst ahead at most, never stricter; sessions: lifetime, sign-out, flash once, values kept; engines: own functions and results | every app of up to 3 of 13 pages or 3 of 12 API routes, 16 paths, 1 rescan; 2 requests of a client, 6 buckets, 12 ticks; 2 requests of a browser, 2 sessions, 5 seconds; 2 requests, 2 items, 1 restart; 6 engines, 3 leases, 2 overlapping injectors |
| `migrator_served` | rows backed, files in order, one statement's gap, boots current, no file half done | 2 processes, 3 commands, 2 faults, two reversible files of two statements |

Runs in which TLC finds the code to contradict what it says of itself (each
checks the one property that states it):

| run | property | what happens |
|---|---|---|
| `jsruntime_late` | NoForeignProgram | an answer that comes after the deadline resumes the old program under the next request's context |
| `migrator_race` | StatusAccurate | after two boots at once, without a fault, a file's row says it is partly applied and the status is wrong |
| `bridge_reach` | FunctionsReached | with quickjsgo the functions of the second lease are set on an object the program no longer sees |

Every property of a passing run has a mutant that breaks it under that run's
own configuration: a plausible mistake in one definition (a token returned
twice, a queue drained in the wrong order, an eviction that forgets a path).

## 4 Bounds and fairness

Bounds are constants, checked in guards and named: `MaxAsks` (calls of a
program), `MaxEdits` (saves), `MaxChanges` (mutations), `MaxId` via `Ids` (rows
of a stream), `MaxWrites` (numbers of file versions),
`MaxBuckets`, `MaxClock`, `MaxSessions`, `MaxNow`, `MaxItems`, `MaxRestarts`,
`MaxServed`, `MaxScans` (the layers of Stack), `MaxStarts`, `MaxFaults` (commands,
crashes and refusals of Migrator). Each instance is the
smallest in which the interesting case occurs, and one more actor where two can
meet: three clients for two VMs, so that two wait and are served in turn; a
buffer of one with four senders, so that senders block in both orders; a cache
of one page for two paths, so that a fill evicts; five ids, so that a model with
an import and a promise whose model refers again all fit; one recent place for
three files, so that the second promotion evicts. With one saved edit the
initial build, the rebuild and the reload overlap in every order; the proofs
cover any number. Three routes are enough for a search that goes back
over two branches; two requests of a browser for every order of their answers;
three leases for a VM that is used, cleared and used again after its first
clearing; two faults for a crash during the recovery from a crash. Larger
instances were run by hand and hold as well: three browser requests with JWT
(4.2 million states), three flash items (2 million), and three processes over
files of two and one statements in both orders. The proofs hold for every value
of all of them.

Fairness, per module, and why the code justifies it:

- VMPool: a goroutine inside Acquire, Release or Close goes on (the scheduler),
  and a holder eventually releases: every engine call is synchronous or has a
  deadline. Nobody must call Acquire or Close. Go queues blocked receivers first
  in, first out, so weak fairness is enough.
- EventLoop: the loop goroutine runs while it can. Callers need nothing.
- JSRuntime: goroutines run; bridge functions return, except those of the
  requests in `Hanging`; the deadline is strongly fair because the poll it
  competes with is enabled again and again and time does pass.
- RenderCache: renders and handlers end, time passes.
- Reconciler: the request's goroutine goes on, a walk ends, 30 seconds pass.
  Promises and the cache owe nothing: `Settle` and `Store` are unfair.
- HotReload: the poller, Watch and reload goroutines run. Requests and browsers
  owe nothing.
- Stack and Migrator: none; their properties are safety, and nothing in the code
  makes a client send or an operator type.
- DevServe: the loop, the compiler and both tickers. The developer, crashes and
  Ctrl+C are unfair.

`CHECK_DEADLOCK FALSE` appears where the bounded system may really stop:
after Close, after the last request, when the command has ended.

## 5 Proofs

All proofs assume only the `ASSUME`s of the modules: finite sets where
something is counted, positive sizes, disjoint sets of processes; and of routing
that methods, paths, apps and edited trees are of the shape the code takes
(`PathsAssumption`, `AppsAssumption`, `EditedAssumption`: any texts, any patterns,
any number of routes and pages, also patterns that go on after a catch-all).

- **VMPoolProofs**: type correctness; the invariant `TypeInv /\ WaitQueue /\
  Custody /\ SlotAccounting`. A slot count alone is not inductive: whether a
  token may be returned depends on who carries which VM at which label, and
  whether a waiter may exist on the buffer being empty. From it: slots, bound,
  custody, no loss, Release never blocks, and the refinement of VMLease, step
  by step.
- **EventLoopProofs**: `LoopInv`, which places every caller's task (queue,
  buffer, loop or done) and relates the done channel to the task's run. From
  it: types, one place per task, RunSync returns after its task. With `FullFirst`
(nobody is blocked while the buffer has room) the buffer and the blocked senders are one
sequence, and EventLoop implements TaskQueue, step by step (RunsInOrder).
- **JSRuntimeProofs**: `RuntimeInv` = types and leases, custody of VMs, bounds
  on calls, `AtHome` (where a resumed program runs), `Finished` (what clearState
  leaves) and `Memoized`. From it: clean idle VMs, own state, isolation, one
  crossing per memoised function; and `UsesLease`: Acquire and Put are Take and Give
  of VMLease, the specification PoolImplementsLease proves of VMPool, and no other
  step touches who holds what.
- **StackProofs**, one part per layer, about behaviours of that layer's own
  specification; `LayersKeepTheirs` shows that every behaviour of Stack is one of
  each of them.
  - RateLimit: `LevelLowest`, the bucket that pays for everything holds no more
    than any real one; so a refusal by a real one is a refusal by it
    (NeverStricter). OneBurstAhead needs to know where the other buckets are.
    `PartedInv`: requests part from the map only in a round of the sweeper, all
    with the same bucket, and that bucket and the one in the map together hold at
    most a burst more than the level. `Ahead`: between rounds the bucket in the
    map alone does; when it is about to be deleted it holds no more than the
    level, since nobody used it for IdleTTL; and while there is none the level
    gains Rps per tick since the round that forgot the client, which reaches Burst
    by the next round. This is where the two conditions on the constants come from
    (`Refills`, and `2 * SweepInterval <= IdleTTL` in RateAssumption, which the
    code's minute and ten minutes satisfy).
  - JWTSession: `CapInv`, every token in a cookie is anchored at its session's
    sign-in (LifetimeCapped); `OutInv`, a session that is over is carried only by
    requests that overlapped its sign-out (SignedOutStaysOut).
  - FlashSession: `OnceInv`, a message is in one place: a draft of one request, or
    the cookie and at most one request that carries it, or shown (FlashOnce);
    `Conserved`, an item of the cookie that goes is among what some request ended,
    or had raced (KeptUnlessRaced).
  - Bridge: `BridgeInv`, by which object is the bridge (`Newest`), what is in it
    (`Clean`, `Filled`) and in the Proxies (`Caches`: all nested caches of a
    function agree) a program's answers are its request's (OwnBridge), and with
    five of six engines all of them (FunctionsReached).
  - RouteTable, for every set of routes and every path. `Trie` says what the trie
    must hold of a set of routes: the nodes on their ways and no others, in each
    slot where a route ends (or has its catch-all) one of those routes with its
    name, in each wild child a name some route gives it. `TableHolds` proves that
    NewRouteTable builds it, by induction on the number of routes inserted.
    `SearchRight`: from a node on, the search finds a route that passes that node,
    fits the rest of the path and is beaten by no other that does, and none only if
    none fits; by induction from the end of the path back to the root, one case
    per branch that is taken or gone back from. `ParamsAfter` is what a pattern
    binds below a depth; Bind adds one name per step back, so at the root the
    search has the parameters of the route it found. `TableRight` puts these together.
    Which pattern is found follows from `Trie` alone: the order of insertion
    decides only between patterns of one shape.
  - Routing: `RoutingInv`, a request under way keeps the answer of the API routes
    it got and the table it took; `RoutesInv`, that table and every other was
    compiled from a tree of pages, and the framework's from a list of routes. From
    them: 405 and Allow tell the truth (AllowIsExact), a page comes from one scan,
    however many replace it (OneScan), the most specific route or page answers
    (MostSpecific) and gets its own parameters (OwnParams; the patterns of the scan
    that answers must agree on names, which `radix.go:113` makes necessary).
- **HotReloadProofs**: `BuildsInv` (builds are numbered upwards), `SwapInv` (the
  phase of the reload fixes which of pool, dependencies, handler and
  announcement are new), `RoomInPool` (a capacity that no send exceeds), `BusInv`,
  `QuietInv` (without an overlap, requests and cache are of one bundle). From them:
  types, SwappedTogether, NoReloadLost, QuietReloadIsClean. `LatestInv` is the way
  of an edit stage by stage, what each holds or, idle, has passed on (`Built`,
  `Offered`, `Announced`); from it QuietServesLatest, the safety half of
  LatestServed: fairness only has to bring the moment when nothing is under way.
- **StoreProofs**, RenderCache: types, including that the cache never exceeds its
  capacity; `CleanInv`: an entry, a render in progress and a change in progress
  are ordered, except for pages that raced. From it QuietInvalidationIsClean.
- **StoreProofs**, Migrator: four invariants, each under the history flag whose
  absence it needs, for any processes, files, statements, crashes and refusals.
  - `Flags`: what the flags say of the commands that run together, e.g. that
    without a clash a rollback or reset is alone.
  - `SchemaInv` (no clash): every row is backed (`Backed`), the files before the
    last row are whole (`Ledgered`), the row a process carries claims no more than
    the schema and the files before the one it runs are whole (`Carried`), and a
    rollback takes the last rows in turn (`Undo`). RowsBacked and FileOrder alone
    are not inductive: a process writes a row it read steps earlier.
  - `GapInv` (no overlap): a file has one statement beyond its row at most, and
    only the last row is of a file not whole (`RowsInStep`); a process goes on
    from that row and with it (`InStep`). From it OneStatementGap and, with
    SchemaInv, BootMeansCurrent.
  - `BootInv` (boots only, no fault): a file that is begun and not whole has a
    process at it that will complete it. From it WholeFiles.
- **ReconcilerProofs**: reserved, single-use, owed and built ids; then types,
  ImportsFirst, FailureContained and the refinement of FlightStream.
- **DevServeProofs**: NothingMissed with `Before` (up to the Poller's first look
  everything the loop is behind has slipped) and `Numbered` (a write of a
  watched file differs from what is on record). `Numbered` is needed because a
  file recorded as gone, made and removed again would look unchanged; that can
  only happen when a restart is due. TypeOK and InOneTier with `Tiers`, which
  holds both: the path a tick promotes is one of the round, and so not recent
  (`ShareOfRound`), only as long as the index stays within the round; and the next
  round is as long as this one (`OrderLength`) only as long as no path is in it twice.

Some of what is proved is in no run, because the proof says more: types,
VMPool's bound, waiters and Release that never blocks, one place per task of
EventLoop and its refinement of TaskQueue, clean VMs of JSRuntime and its refinement
of VMLease, QuietServesLatest (both refinements and QuietServesLatest hold in TLC
too, the last on HotReload with three edits and no requests).

The library's induction theorems take an operator as a parameter, which the
installed provers cannot instantiate. Where a proof needs induction over numbers
(routes inserted, depth in the trie, directories of a page) it shows of a *set* A of natural
numbers that it holds 0 and, with n, n + 1, and takes `A = Nat` from a lemma of its
own (`NatInductive`). The recursive functions and folds are unfolded once, by their
defining equations (`SearchUnfolds`, `TableGrows`).

Every invariant and every action property that a run checks is proved. Only
model-checked: all liveness (AcquireReturns, SyncReturns, RequestsEnd,
EventuallyFresh, RenderEnds, LatestServed, ShutsDown, LatestRuns), because TLAPS
does not reason about ENABLED, and the three contradictions.

## 6 Divergences met while modelling

With a run: see section 3. Without a run of their own, each visible in a module:

- `vmpool.go:133`: Release reads `closed`, unlocks, then sends; Close may drain
  in between and the VM stays in the buffer undisposed although line 54 and 137
  say that Close disposes of every idle VM. VMPool has the interleaving; VMPool's
  `AcquireReturns` stops at Close for a related reason: a disposal wakes nobody.
- `eventloop.go:62`: RunSync "blocks until fn and the subsequent checkpoint both
  complete"; it returns before the checkpoint. `Stop` only closes a channel
  (line 79: "terminates the event loop goroutine"), and `v8go.go:203` disposes of
  the isolate right after it while the loop may be in a task or a checkpoint.
  moderncquickjs disposes of its VM inside RunSync, and the checkpoint that
  follows runs on the closed VM.
- v8go, sobek and qjs: a render has no deadline, and a runtime that their
  `sync.Pool` drops is never disposed of: its loop's goroutine stays.
- `serve.go:75`: the Polafile is read once, before the loop. `serve.go:244` and
  README.md:1181 have it watched; an edit restarts everything with the old
  options (only the services and repositories autoloaders read it again).
- `serve.go:153-172` and `esbuild.go:152-165`: what is saved after the sources
  were read and before the Poller's first look is its baseline and never
  reported (`slipped` in DevServe).
- `watcher.go:165`: a rescan that finds only deletions forgets them silently,
  though `New` (line 50) promises a call when any watched file is modified.
- `hotreload.go:262`: a request in progress during a reload puts a page of the old
  bundle into the cache the reload cleared (`react.go:441` returns its VM to the
  new pool as well). HotReload proves that only such requests do.
- `hotreload.go:164`: the routes are scanned before the bundle is built, so that
  pages are resolved for a while that the running bundle does not have.
- `nativersc.go:182` and `handler.go:36`: a render that read before a mutation
  stores after its invalidation; without expiry the old page stays. RenderCache
  shows that only raced pages do.
- `nativersc.go:182`: what a cut-off render had sent is cached like a whole page,
  against docs/ssr-caching.md:36 (`Store` of Reconciler).
- `react.go:66` and `441`: `r.pool` is written by a reload and read by requests
  without synchronisation; a VM may return to a pool it does not come from.
- `goja.go:342` against README.md:1239: each injector empties the bridge object,
  so the functions of an earlier injector are gone.
- `webmount.go:253`: a mutation below `/api/…` evicts pages whose path begins
  with `/api`, that is none; a handler that answers with a redirect (3xx), and a
  JSON action without redirect, evict nothing.
- docs/ssr-caching.md says Revalidate 0 means no expiry; `react.go` does not
  cache such pages at all, `nativersc.go` does. It says the cache falls back to
  memory; `hotreload.go:264` goes on without one.
- `reconciler.go:130`: a value JSON cannot encode ends the drain, and the
  promises still queued get no row, against the comment at line 101.
- README.md:66 "Suspense boundaries resolve concurrently": they are awaited one
  after another in the order they were met.
- `hotreload.go:349`: nothing in `internal/pipeline.go` calls `Close`.
- `std.go:164`: an API route of another method at a page's path makes GET answer
  405 instead of the page, against routes/README.md:422. AllowIsExact holds
  nevertheless: it is about the API routes.
- `radix.go:113`: siblings `posts/[id]/…` and `posts/[slug]/…` share one node with
  one name; the second's parameter arrives under the first's name. `radix.go:137`:
  of two patterns of one shape the second is unreachable, and nothing says so.
- `jwt.go:209`: a request that was under way as another one signed out refreshes
  the session and signs the user in again (the exception in SignedOutStaysOut).
- `session.go:78`: a response carries the whole session, so the slower of two
  overlapping requests undoes what the other stored; `session.go:127`: a panic
  that a recovery outside answers leaves without the cookie, so that a message
  is shown again. The flash middleware takes the message at any request: the one
  for the HTML shell takes it before the Flight request whose page could show it.
- `middleware/flash/flash.go:26` reads `_flash` as a map; gorilla's
  `session.AddFlash` stores a list under that key, which is ignored.
- `quickjsgo.go:442`: the run `bridge_reach`. bench-suite/FAIRNESS.md:145 lays the
  empty renders of later requests to the binding.
- `migrator.go:100`: between Pending and ExecuteN another replica may apply the
  files; ExecuteN then fails with "no pending files", and so does the boot.
  Rows are written without partial hashes, so that resuming a partly applied file
  may be refused. The model lets Atlas do either.
- `migrator.go:89-104`: a boot can succeed with files still pending. It counts the
  pending files, then has Atlas execute that many; if in between another replica
  writes an older row of a file over a newer one, one more file is pending than was
  counted, and the last one is left. Three replicas and three files are needed;
  WholeFiles says what holds instead: what is begun is completed.
- `db.go:303`: rolling back a partly applied file runs the reverse of statements
  that never ran, fails, and keeps the row; boots then report an incomplete
  schema as up to date (`torn`). RowsBacked and FileOrder therefore speak of files
  no rollback or reset was cut short in. `db.go:451`: reset quotes table names with
  double quotes, which MySQL does not take for names.
- `esbuild.go:165` (see `serve.go:153` above) has no property: the code has no
  second read to hold it to.
- The mailer's renderer: a runtime acquired before LoadBundle is released into
  the new pool with the old bundle, as in `react.go:441`.
- `renderer/react/suspense.go`: SuspenseScheduler is used by nothing.

## 7 Abstractions

- LRU: any other entry may be the victim (RenderCache).
- A path is a sequence of segments; `StartsWith` is the string prefix on one.
- What a page shows is the number of changes made when it was rendered.
- HotReload: nothing new begins once Close was called; a VM released into a pool
  that was replaced is dropped; requests fetch one page.
- Reconciler: a tree is what its walk leaves behind; props are not modelled.
- HotReload: that a browser gets the message, the write to its socket and its
  reload are one step. A write that fails (`hotreload.go:379`) and a browser that
  is between two subscriptions are not covered: NoReloadLost is about browsers
  that are subscribed.
- Reconciler: what a property lookup does is not modelled; a getter or a Proxy
  that throws there (`reconciler.go:276`) would cut the render.
- JSRuntime: a program is its bridge calls; values are not modelled. The deadline
  is there for the requests in `Hanging`, whose functions may answer late or
  never; those of the other requests answer before it.
- EventLoop: the owner stops an engine only when no caller is in RunSync, and
  nothing is submitted to it afterwards by a caller; `eventloop.go:80` has no guard.
- Poller: a file is the number of its last write, so two writes always differ.
  In the code two writes of equal size in one tick of a coarse clock look equal
  if more than three seconds pass before the next look (`watcher.go:246`).
  Collecting the paths and looking at them is one step.
- DevServe: overlay generation and compilation each read the files at once.
- Routing: a path is normalised; percent-decoding, empty segments, reserved mounts,
  a page's companion files and HasRouteRelevantChange are left out. Patterns that
  are equal up to a catch-all keep the order they were registered in; the code
  compares what is written behind the catch-all, which decides nothing else than
  which of them is reachable (`patternmatch.go:145`). The sort is
  what it decides, which route is inserted before which. Of directory
  and parameter names only their order matters.
- RateLimit: one client; a tick is long against a step of a goroutine that is not
  preempted. OneBurstAhead is about limits that refill a bucket within one
  SweepInterval (a minute in the code): a client with a slower limit that comes
  back in the round that forgets it can be more than a burst ahead.
- JWTSession: a cookie that cannot be signed (`jwt.go:206`) leaves an answer without
  one, as a lost answer does, and is not a step of its own.
- JWTSession, FlashSession: what a handler changes after the first byte reaches no
  cookie, so it does nothing; a session has one value and one flash category.
- Bridge: a call takes effect at once; a program may make any calls in any order.
- Migrator: a file can be undone statement by statement or not at all; `db.go:303`
  runs what reverse statements there are. `pola db status` and `seed` only read or are outside; a file's
  statements are objects that are created and dropped.

## 8 What is not modelled

`PROJECT.json` lists every part with its reason. In short: parsing, formatting
and code generation (autoload, generators, shells, entries, openapi); build
plugins of other renderers and bundlers; how the engines' bindings convert
values; stateless middleware; server-side session stores; adapters to databases, mail and storage, whose concurrency is the
external system's; start-up wiring.

## 9 Plan

Done, in this order: VMLease and VMPool; EventLoop; JSRuntime; HotReload;
RenderCache; FlightStream and Reconciler; Poller and DevServe; a proofs module
for each; Migrator; RouteTable, Routing, RateLimit, JWTSession, FlashSession and
Bridge, composed in Stack, with StackProofs; then Migrator's proofs, the limiter's
bound, the Poller's tiers, QuietServesLatest and the lease of JSRuntime; last the
trie, its search and the routing built on them, and TaskQueue.

What remains, for whoever extends this:

1. **Composition** of VMPool with JSRuntime in one module: VMLease already is the
   interface both are proved about, but Close while a program runs is in neither.
2. **Session stores** (`session/redis`, `session/xorm`): the last write of a
   server-side session wins; Regenerate against requests that carry the old ID.
3. The **mailer's** pool of renderers across LoadBundle.
4. A one-page cache specification that RenderCache refines, as VMPool does
   VMLease, EventLoop TaskQueue and Reconciler FlightStream.
