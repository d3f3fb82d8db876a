------------------------------ MODULE HotReload ------------------------------
(***************************************************************************)
(* pola dev: how an edit of the web app reaches the browser.  The poller   *)
(* notices it and triggers the Watch goroutine of bundler/esbuild, which   *)
(* builds and hands the newest output to the HotReloader goroutine, which  *)
(* swaps the VM pool, clears the SSR cache, swaps the render dependencies  *)
(* and the handler and tells the browsers over the event bus.  Flight      *)
(* requests are served by the same renderer all the while.                 *)
(*                                                                         *)
(* The app's source is a version number, a build is named by the order it  *)
(* was made in: build 0 is the pipeline's, build 1 Watch's initial one.    *)
(***************************************************************************)
EXTENDS Naturals, FiniteSets

CONSTANTS Requests,    \* goroutines serving Flight requests of one cached page
          Browsers,    \* browser tabs
          MaxEdits,    \* bound: how often the developer saves
          PoolSize,    \* MaxSize of a VM pool, 64 in the code
          Fragile      \* versions that may fail to build or to load

ASSUME MaxEditsAssumption == MaxEdits \in Nat
ASSUME PoolSizeAssumption == PoolSize \in Nat \ {0}
ASSUME VersionAssumption == Fragile \subseteq 1..MaxEdits

Versions == 0..MaxEdits
Builds == 0..MaxEdits + 1
None == MaxEdits + 2       \* no build

VARIABLES fate,      \* what becomes of each version
          disk,      \* the version saved last
          noticed,   \* the version the poller saw last
          reported,  \* the version on disk when it last called onChange
          trigger,   \* triggerCh, of capacity 1, is full
          wpc,       \* where the Watch goroutine is
          content,   \* the version of each build
          made,      \* the last build
          outputCh,  \* the build waiting in outputCh, of capacity 1
          hpc,       \* where the HotReloader goroutine is
          cur,       \* the build it is loading
          pool,      \* the renderer's VM pool, named by its build
          deps,      \* the build of the renderer's dependencies
          live,      \* the build of the current handler
          announced, \* the last build whose reload was published
          cache,     \* the build whose VM rendered the cached page
          idle,      \* how many VMs of each build are idle in the renderer's pool
          slots,     \* how many VMs that pool made
          rpc,       \* where each request is
          rvm,       \* the VM it holds, named by its build
          rrel,      \* the pool it will release it to
          overlap,   \* has a request been in progress during a reload?
          sub,       \* browsers subscribed to "update"
          inbox,     \* subscriptions with a message waiting, capacity 1
          told,      \* the build that was announced when it subscribed
          closed     \* Close was called

editVars == <<fate, disk, noticed, reported, trigger>>
watchVars == <<wpc, content, made>>
loadVars == <<cur, pool, deps, live, announced>>
reqVars == <<rpc, rvm, rrel>>
busVars == <<sub, inbox, told>>
vars == <<editVars, watchVars, outputCh, hpc, loadVars, cache, idle, slots, reqVars,
          overlap, busVars, closed>>

\* A new pool holds one VM.
Prewarmed(p) == [b \in Builds |-> IF b = p THEN 1 ELSE 0]

Init == /\ fate \in [Versions -> {"loads", "loadFails", "buildFails"}]
        /\ \A v \in Versions \ Fragile : fate[v] = "loads"
        /\ disk = 0 /\ noticed = 0 /\ reported = 0 /\ trigger = FALSE
        /\ wpc = "start" /\ content = [b \in Builds |-> 0] /\ made = 1
        /\ outputCh = None
        /\ hpc = "idle" /\ cur = 0
        /\ pool = 0 /\ deps = 0 /\ live = 0 /\ announced = 0
        /\ cache = None
        /\ idle = Prewarmed(0) /\ slots = 1
        /\ rpc = [c \in Requests |-> "out"]
        /\ rvm = [c \in Requests |-> 0]
        /\ rrel = [c \in Requests |-> 0]
        /\ overlap = FALSE
        /\ sub = {} /\ inbox = {} /\ told = [t \in Browsers |-> 0]
        /\ closed = FALSE

-----------------------------------------------------------------------------
(* The developer and the poller                                            *)

\* Nothing new begins once the server shuts down.
Edit == /\ disk < MaxEdits
        /\ ~closed
        /\ disk' = disk + 1
        /\ UNCHANGED <<fate, noticed, reported, trigger, watchVars, outputCh, hpc, loadVars, cache, idle,
                       slots, reqVars, overlap, busVars, closed>>

\* onChange: a full triggerCh stands for this change too.
Notice == /\ wpc \notin {"start", "exited"}
          /\ noticed # disk
          /\ noticed' = disk
          /\ reported' = disk
          /\ trigger' = TRUE
          /\ UNCHANGED <<fate, disk, watchVars, outputCh, hpc, loadVars, cache, idle, slots,
                         reqVars, overlap, busVars, closed>>

-----------------------------------------------------------------------------
(* bundler/esbuild: Watch                                                  *)

WatchStep(l, m) == wpc = l /\ wpc' = m

\* The poller's first snapshot, after the initial build has read the files.
Snapshot == /\ WatchStep("start", "offer")
            /\ noticed' = disk
            /\ UNCHANGED <<fate, disk, reported, trigger, content, made, outputCh, hpc, loadVars, cache,
                           idle, slots, reqVars, overlap, busVars, closed>>

TakeTrigger == /\ WatchStep("select", "build")
               /\ trigger
               /\ trigger' = FALSE
               /\ UNCHANGED <<fate, disk, noticed, reported, content, made, outputCh, hpc, loadVars, cache,
                              idle, slots, reqVars, overlap, busVars, closed>>

Build == /\ wpc = "build"
         /\ IF fate[disk] = "buildFails"
              THEN wpc' = "select" /\ UNCHANGED <<content, made>>
              ELSE /\ wpc' = "drain"
                   /\ made' = made + 1
                   /\ content' = [content EXCEPT ![made + 1] = disk]
         /\ UNCHANGED <<editVars, outputCh, hpc, loadVars, cache, idle, slots, reqVars,
                        overlap, busVars, closed>>

\* Mutant of Drain: an output nobody has read yet is kept, the new one dropped.
DrainKeeping == /\ wpc = "drain"
                /\ wpc' = IF outputCh = None THEN "offer" ELSE "select"
                /\ UNCHANGED <<editVars, content, made, outputCh, hpc, loadVars, cache, idle,
                               slots, reqVars, overlap, busVars, closed>>

Drain == /\ WatchStep("drain", "offer")
         /\ outputCh' = None
         /\ UNCHANGED <<editVars, content, made, hpc, loadVars, cache, idle, slots, reqVars,
                        overlap, busVars, closed>>

Offer == /\ WatchStep("offer", "select")
         /\ outputCh = None
         /\ outputCh' = made
         /\ UNCHANGED <<editVars, content, made, hpc, loadVars, cache, idle, slots, reqVars,
                        overlap, busVars, closed>>

WatchExit == /\ wpc \in {"offer", "select"}
             /\ closed
             /\ wpc' = "exited"
             /\ UNCHANGED <<editVars, content, made, outputCh, hpc, loadVars, cache, idle,
                            slots, reqVars, overlap, busVars, closed>>

Watch == Snapshot \/ TakeTrigger \/ Build \/ Drain \/ Offer \/ WatchExit

-----------------------------------------------------------------------------
(* HotReloader                                                             *)

Busy == \E c \in Requests : rpc[c] # "out"

ReloadStep(l, m) == /\ hpc = l
                    /\ hpc' = m
                    /\ overlap' = (overlap \/ Busy)

Receive == /\ ReloadStep("idle", "load")
           /\ outputCh # None
           /\ cur' = outputCh
           /\ outputCh' = None
           /\ UNCHANGED <<editVars, watchVars, pool, deps, live, announced, cache, idle,
                          slots, reqVars, busVars, closed>>

Loads == fate[content[cur]] # "loadFails"

SwapPool == pool' = cur /\ idle' = Prewarmed(cur) /\ slots' = 1

\* Mutant of LoadBundle: the pool is swapped before the bundle is known to load.
LoadBundleFirst == /\ ReloadStep("load", IF Loads THEN "clear" ELSE "idle")
                   /\ SwapPool
                   /\ UNCHANGED <<editVars, watchVars, outputCh, cur, deps, live,
                                  announced, cache, reqVars, busVars, closed>>

\* renderer.LoadBundle writes r.pool, which requests read without a lock.
LoadBundle == /\ ReloadStep("load", IF Loads THEN "clear" ELSE "idle")
              /\ IF Loads THEN SwapPool ELSE UNCHANGED <<pool, idle, slots>>
              /\ UNCHANGED <<editVars, watchVars, outputCh, cur, deps, live, announced,
                             cache, reqVars, busVars, closed>>

\* Mutant of ClearCache: the cache survives.
ClearNothing == /\ ReloadStep("clear", "wire")
                /\ UNCHANGED <<editVars, watchVars, outputCh, loadVars, cache, idle, slots,
                               reqVars, busVars, closed>>

ClearCache == /\ ReloadStep("clear", "wire")
              /\ cache' = None
              /\ UNCHANGED <<editVars, watchVars, outputCh, loadVars, idle, slots, reqVars,
                             busVars, closed>>

WireRenderDeps == /\ ReloadStep("wire", "mount")
                  /\ deps' = cur
                  /\ UNCHANGED <<editVars, watchVars, outputCh, cur, pool, live, announced,
                                 cache, idle, slots, reqVars, busVars, closed>>

Mount == /\ ReloadStep("mount", "publish")
         /\ live' = cur
         /\ UNCHANGED <<editVars, watchVars, outputCh, cur, pool, deps, announced, cache,
                        idle, slots, reqVars, busVars, closed>>

\* Mutant of Publish: a subscription has no buffer and its reader is not waiting.
PublishUnbuffered == /\ ReloadStep("publish", "idle")
                     /\ announced' = cur
                     /\ UNCHANGED <<editVars, watchVars, outputCh, cur, pool, deps, live,
                                    cache, idle, slots, reqVars, busVars, closed>>

\* The message is discarded where one is waiting already.
Publish == /\ ReloadStep("publish", "idle")
           /\ announced' = cur
           /\ inbox' = inbox \cup sub
           /\ UNCHANGED <<editVars, watchVars, outputCh, cur, pool, deps, live, cache, idle,
                          slots, reqVars, sub, told, closed>>

\* Mutant of ReloaderExit: only a closed watchCh ends the goroutine, after Close
\* has lost the race against a last output.
ReloaderExitDrained == /\ hpc = "idle"
                       /\ wpc = "exited" /\ outputCh = None /\ made = live
                       /\ hpc' = "exited"
                       /\ UNCHANGED <<editVars, watchVars, outputCh, loadVars, cache, idle,
                                      slots, reqVars, overlap, busVars, closed>>

ReloaderExit == /\ hpc = "idle"
                /\ closed \/ (wpc = "exited" /\ outputCh = None)
                /\ hpc' = "exited"
                /\ UNCHANGED <<editVars, watchVars, outputCh, loadVars, cache, idle, slots,
                               reqVars, overlap, busVars, closed>>

Reload == Receive \/ LoadBundle \/ ClearCache \/ WireRenderDeps \/ Mount \/ Publish
          \/ ReloaderExit

Close == /\ ~closed
         /\ closed' = TRUE
         /\ UNCHANGED <<editVars, watchVars, outputCh, hpc, loadVars, cache, idle, slots,
                        reqVars, overlap, busVars>>

-----------------------------------------------------------------------------
(* renderer/react: a Flight request (serveFlight, RenderToWriter)          *)

ReqStep(c, l, m) == /\ rpc[c] = l
                    /\ rpc' = [rpc EXCEPT ![c] = m]
                    /\ UNCHANGED <<editVars, watchVars, outputCh, hpc, loadVars, busVars,
                                   closed>>

\* Nothing is cached, or its time to live has passed and Get removes it; a hit
\* is answered at once and changes nothing.
CacheMiss(c) == /\ ReqStep(c, "out", "acquire")
                /\ ~closed
                /\ cache' = None
                /\ overlap' = (overlap \/ hpc \notin {"idle", "exited"})
                /\ UNCHANGED <<idle, slots, rvm, rrel>>

\* prepareVM: an idle VM of the pool, whatever bundle it runs, or a new one.
AcquireIdle(c) == /\ ReqStep(c, "acquire", "defer")
                  /\ \E b \in Builds : /\ idle[b] > 0
                                       /\ idle' = [idle EXCEPT ![b] = @ - 1]
                                       /\ rvm' = [rvm EXCEPT ![c] = b]
                  /\ UNCHANGED <<cache, slots, rrel, overlap>>

AcquireNew(c) == /\ ReqStep(c, "acquire", "defer")
                 /\ \A b \in Builds : idle[b] = 0
                 /\ slots < PoolSize
                 /\ slots' = slots + 1
                 /\ rvm' = [rvm EXCEPT ![c] = pool]
                 /\ UNCHANGED <<cache, idle, rrel, overlap>>

\* "defer r.pool.Release(vm)" reads r.pool again.
Defer(c) == /\ ReqStep(c, "defer", "release")
            /\ rrel' = [rrel EXCEPT ![c] = pool]
            /\ UNCHANGED <<cache, idle, slots, rvm, overlap>>

IdleVMs == Cardinality({vm \in Builds \X (1..PoolSize) : vm[2] <= idle[vm[1]]})

\* The render is over and the deferred Release runs, if idle has room; a VM that
\* goes back to a pool the renderer has left is never seen again.
Release(c) == /\ ReqStep(c, "release", "set")
              /\ \/ /\ rrel[c] = pool
                    /\ IdleVMs < PoolSize
                    /\ idle' = [idle EXCEPT ![rvm[c]] = @ + 1]
                 \/ /\ rrel[c] # pool
                    /\ UNCHANGED idle
              /\ UNCHANGED <<cache, slots, rvm, rrel, overlap>>

\* The output is cached, unless there is none or the page does not revalidate.
CacheSet(c) == /\ ReqStep(c, "set", "out")
               /\ cache' \in {cache, rvm[c]}
               /\ rvm' = [rvm EXCEPT ![c] = 0]
               /\ rrel' = [rrel EXCEPT ![c] = 0]
               /\ UNCHANGED <<idle, slots, overlap>>

Flight(c) == \/ CacheMiss(c) \/ AcquireIdle(c) \/ AcquireNew(c) \/ Defer(c)
             \/ Release(c) \/ CacheSet(c)

-----------------------------------------------------------------------------
(* The WebSocket server and its browsers                                   *)

BusStep == UNCHANGED <<editVars, watchVars, outputCh, hpc, loadVars, cache, idle, slots,
                       reqVars, overlap, closed>>

Subscribe(t) == /\ t \notin sub
                /\ ~closed
                /\ sub' = sub \cup {t}
                /\ told' = [told EXCEPT ![t] = announced]
                /\ UNCHANGED inbox
                /\ BusStep

\* The browser reads "reload": the page, and with it the socket, goes.
Reloads(t) == /\ t \in inbox
              /\ inbox' = inbox \ {t}
              /\ sub' = sub \ {t}
              /\ told' = [told EXCEPT ![t] = 0]
              /\ BusStep

-----------------------------------------------------------------------------

Next == \/ Edit \/ Notice \/ Watch \/ Reload \/ Close
        \/ \E c \in Requests : Flight(c)
        \/ \E t \in Browsers : Subscribe(t) \/ Reloads(t)

Spec == Init /\ [][Next]_vars

\* The poller, the Watch goroutine and the HotReloader goroutine run.
FairSpec == Spec /\ WF_vars(Notice) /\ WF_vars(Watch) /\ WF_vars(Reload)

-----------------------------------------------------------------------------
(* Properties                                                              *)

TypeOK == /\ fate \in [Versions -> {"loads", "loadFails", "buildFails"}]
          /\ {disk, noticed, reported} \subseteq Versions
          /\ {trigger, overlap, closed} \subseteq BOOLEAN
          /\ wpc \in {"start", "offer", "select", "build", "drain", "exited"}
          /\ hpc \in {"idle", "load", "clear", "wire", "mount", "publish", "exited"}
          /\ content \in [Builds -> Versions]
          /\ {made, cur, pool, deps, live, announced} \subseteq Builds
          /\ {outputCh, cache} \subseteq Builds \cup {None}
          /\ idle \in [Builds -> 0..PoolSize]
          /\ slots \in 1..PoolSize
          /\ rpc \in [Requests -> {"out", "acquire", "defer", "release", "set"}]
          /\ rvm \in [Requests -> Builds] /\ rrel \in [Requests -> Builds]
          /\ sub \in SUBSET Browsers /\ inbox \in SUBSET sub
          /\ told \in [Browsers -> Builds]

\* Between two reloads pool, dependencies, handler and announcement are of one
\* build, also after a bundle that failed to load; within one they are swapped in
\* this order, so that a browser is told to reload only when all of them are new.
SwappedTogether ==
  /\ hpc = "idle" => pool = deps /\ deps = live /\ live = announced
  /\ announced <= live /\ live <= deps /\ deps <= pool /\ pool <= made

\* A subscribed browser has a message waiting as long as a build was announced
\* after it subscribed, although Publish discards messages for slow subscribers.
NoReloadLost == \A t \in sub : told[t] # announced => t \in inbox

\* If no request was ever in progress during a reload, nothing rendered by an
\* older build is in the cache between reloads.
QuietReloadIsClean == ~overlap /\ hpc = "idle" => cache \in {None, live}

\* The version of the last change the poller reported is served in the end,
\* unless it does not build or load, however saves, builds and reloads overlap.
LatestServed ==
  <>[](closed \/ fate[reported] # "loads" \/ content[announced] = reported)

\* What LatestServed says of the moments when nothing is under way: if the poller
\* has reported the last save, then no trigger that stood for several changes, no
\* output drained for a newer one and no bundle that failed before it left an older
\* version served (onChange, Watch's drain and offer, reload).
QuietServesLatest ==
  /\ wpc = "select" /\ ~trigger /\ outputCh = None /\ hpc = "idle"
  /\ reported = disk /\ fate[disk] = "loads"
  => content[announced] = disk

\* hotreload.go:349: "Close stops watching and pending operations".
ShutsDown == closed ~> wpc = "exited" /\ hpc = "exited"

=============================================================================
