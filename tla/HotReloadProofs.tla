--------------------------- MODULE HotReloadProofs ---------------------------
(***************************************************************************)
(* Proofs about HotReload, for any edits, requests and browsers: a reload  *)
(* swaps everything or nothing, no subscribed browser misses one, and when *)
(* nothing is left to do the last save is served.                          *)
(***************************************************************************)
EXTENDS HotReload, FiniteSetTheorems, TLAPS

-----------------------------------------------------------------------------
(* Builds: each one was triggered by a change, so that there are never     *)
(* more of them than changes noticed, and the initial one.                 *)

Pending == (IF trigger THEN 1 ELSE 0) + (IF wpc = "build" THEN 1 ELSE 0)

BuildsInv == /\ disk \in Versions /\ noticed \in Versions
             /\ trigger \in BOOLEAN
             /\ wpc \in {"start", "offer", "select", "build", "drain", "exited"}
             /\ made \in Builds
             /\ noticed <= disk
             /\ made + Pending <= noticed + 1
             /\ wpc = "start" => ~trigger

LEMMA InitBuilds == Init => BuildsInv
<1> SUFFICES ASSUME Init PROVE BuildsInv
  OBVIOUS
<1>1. ~trigger /\ wpc = "start"
  BY DEF Init
<1>2. Pending = 0
  BY <1>1 DEF Pending
<1>3. disk = 0 /\ noticed = 0 /\ made = 1 /\ trigger \in BOOLEAN
  BY DEF Init
<1> HIDE DEF Pending
<1> QED
  BY <1>1, <1>2, <1>3, MaxEditsAssumption DEF BuildsInv, Versions, Builds

LEMMA StepBuilds == BuildsInv /\ [Next]_vars => BuildsInv'
<1> SUFFICES ASSUME BuildsInv, [Next]_vars PROVE BuildsInv'
  OBVIOUS
<1> USE MaxEditsAssumption DEF BuildsInv, Pending, Versions, Builds
<1>1. CASE Edit
  <2>1. disk' = disk + 1 /\ disk < MaxEdits /\ UNCHANGED <<noticed, trigger, wpc, made>>
    BY <1>1 DEF Edit, watchVars
  <2>2. Pending' = Pending
    BY <2>1
  <2>3. Pending \in Nat
    OBVIOUS
  <2> HIDE DEF Pending
  <2> QED
    BY <2>1, <2>2, <2>3
<1>2. CASE Notice
  BY <1>2 DEF Notice, watchVars
<1>3. CASE Snapshot
  BY <1>3 DEF Snapshot, WatchStep
<1>4. CASE TakeTrigger
  <2>1. /\ trigger /\ ~trigger' /\ wpc = "select" /\ wpc' = "build"
        /\ UNCHANGED <<disk, noticed, made>>
    BY <1>4 DEF TakeTrigger, WatchStep
  <2>2. Pending = 1 /\ Pending' = 1
    BY <2>1
  <2>3. trigger' \in BOOLEAN
    BY <1>4 DEF TakeTrigger
  <2> HIDE DEF Pending
  <2> QED
    BY <2>1, <2>2, <2>3
<1>5. CASE Build
  BY <1>5 DEF Build, editVars
<1>6. CASE Drain \/ Offer \/ WatchExit
  BY <1>6 DEF Drain, Offer, WatchExit, WatchStep, editVars
<1>7. CASE Reload \/ Close
  BY <1>7 DEF Reload, Receive, LoadBundle, ClearCache, WireRenderDeps, Mount, Publish,
              ReloaderExit, Close, editVars, watchVars
<1>8. ASSUME NEW c \in Requests, Flight(c) PROVE BuildsInv'
  BY <1>8 DEF Flight, CacheMiss, AcquireIdle, AcquireNew, Defer, Release, CacheSet,
              ReqStep, editVars, watchVars
<1>9. ASSUME NEW t \in Browsers, Subscribe(t) \/ Reloads(t) PROVE BuildsInv'
  BY <1>9 DEF Subscribe, Reloads, BusStep, editVars, watchVars
<1>10. CASE UNCHANGED vars
  BY <1>10 DEF vars, editVars, watchVars
<1> QED
  BY <1>1, <1>2, <1>3, <1>4, <1>5, <1>6, <1>7, <1>8, <1>9, <1>10 DEF Next, Watch

LEMMA BuildsBounded == Spec => []BuildsInv
BY InitBuilds, StepBuilds, PTL DEF Spec

-----------------------------------------------------------------------------
(* The swap.  Outputs reach the HotReloader in the order they were built,  *)
(* and in each phase of a reload what was swapped is of the build being    *)
(* loaded and the rest still of the announced one.                         *)

InOrder == /\ cur \in Builds /\ pool \in Builds /\ deps \in Builds
           /\ live \in Builds /\ announced \in Builds
           /\ outputCh \in Builds \cup {None}
           /\ outputCh # None => cur <= outputCh /\ outputCh <= made
           /\ cur <= made
           /\ announced <= live /\ live <= deps /\ deps <= pool /\ pool <= cur

Phases == /\ hpc \in {"idle", "load", "clear", "wire", "mount", "publish", "exited"}
          /\ hpc \in {"idle", "load", "exited"} => pool = deps
          /\ hpc \in {"idle", "load", "clear", "wire", "exited"} => deps = live
          /\ hpc # "publish" => live = announced
          /\ hpc \in {"clear", "wire", "mount", "publish"} => pool = cur
          /\ hpc \in {"mount", "publish"} => deps = cur
          /\ hpc = "publish" => live = cur

SwapInv == InOrder /\ Phases

LEMMA InitSwap == Init => SwapInv
BY MaxEditsAssumption DEF Init, SwapInv, InOrder, Phases, Builds, None

LEMMA StepSwap == BuildsInv /\ BuildsInv' /\ SwapInv /\ [Next]_vars => SwapInv'
<1> SUFFICES ASSUME BuildsInv, BuildsInv', SwapInv, [Next]_vars PROVE SwapInv'
  OBVIOUS
<1> USE DEF SwapInv
<1>0. made \in Builds /\ made' \in Builds /\ Builds \subseteq Nat
  BY MaxEditsAssumption DEF BuildsInv, Builds
<1>1. ASSUME UNCHANGED <<loadVars, hpc, outputCh, made>> PROVE SwapInv'
  BY <1>1 DEF InOrder, Phases, loadVars
<1>2. CASE Edit \/ Notice \/ Close
  BY <1>1, <1>2 DEF Edit, Notice, Close, watchVars
<1>3. CASE Snapshot \/ TakeTrigger \/ WatchExit
  BY <1>1, <1>3 DEF Snapshot, TakeTrigger, WatchExit
<1>4. CASE Build
  <2>1. made' = made \/ made' = made + 1
    BY <1>4 DEF Build
  <2>2. UNCHANGED <<loadVars, hpc, outputCh>>
    BY <1>4 DEF Build
  <2> QED
    BY <1>0, <2>1, <2>2 DEF InOrder, Phases, loadVars
<1>5. CASE Drain
  BY <1>5 DEF Drain, InOrder, Phases, loadVars
<1>6. CASE Offer
  BY <1>0, <1>6 DEF Offer, InOrder, Phases, loadVars
<1>7. CASE Receive
  BY <1>0, <1>7 DEF Receive, ReloadStep, InOrder, Phases, watchVars
<1>8. CASE LoadBundle
  BY <1>0, <1>8 DEF LoadBundle, SwapPool, ReloadStep, InOrder, Phases, watchVars
<1>9. CASE ClearCache
  BY <1>0, <1>9 DEF ClearCache, ReloadStep, InOrder, Phases, watchVars, loadVars
<1>10. CASE WireRenderDeps
  BY <1>0, <1>10 DEF WireRenderDeps, ReloadStep, InOrder, Phases, watchVars
<1>11. CASE Mount
  BY <1>0, <1>11 DEF Mount, ReloadStep, InOrder, Phases, watchVars
<1>12. CASE Publish
  BY <1>0, <1>12 DEF Publish, ReloadStep, InOrder, Phases, watchVars
<1>13. CASE ReloaderExit
  BY <1>0, <1>13 DEF ReloaderExit, InOrder, Phases, watchVars, loadVars
<1>14. ASSUME NEW c \in Requests, Flight(c) PROVE SwapInv'
  BY <1>1, <1>14 DEF Flight, CacheMiss, AcquireIdle, AcquireNew, Defer, Release, CacheSet,
                     ReqStep, watchVars
<1>15. ASSUME NEW t \in Browsers, Subscribe(t) \/ Reloads(t) PROVE SwapInv'
  BY <1>1, <1>15 DEF Subscribe, Reloads, BusStep, watchVars
<1>16. CASE UNCHANGED vars
  BY <1>1, <1>16 DEF vars, watchVars
<1> QED
  BY <1>2, <1>3, <1>4, <1>5, <1>6, <1>7, <1>8, <1>9, <1>10, <1>11, <1>12, <1>13, <1>14,
     <1>15, <1>16 DEF Next, Watch, Reload

LEMMA SwapsInOrder == Spec => []SwapInv
<1>1. BuildsInv /\ BuildsInv' /\ SwapInv /\ [Next]_vars => SwapInv'
  BY StepSwap
<1> QED
  BY <1>1, InitSwap, BuildsBounded, PTL DEF Spec

\* Between two reloads the pool, the render dependencies, the handler and the
\* announcement (internal/hotreload.go) are of one build, also after a bundle that
\* failed to load, and within a reload they are swapped in that order.
THEOREM SwapsTogether == Spec => []SwappedTogether
<1>1. BuildsInv /\ SwapInv => SwappedTogether
  BY MaxEditsAssumption DEF BuildsInv, SwapInv, InOrder, Phases, SwappedTogether, Builds
<1> QED
  BY <1>1, BuildsBounded, SwapsInOrder, PTL

-----------------------------------------------------------------------------
(* The event bus.                                                          *)

BusInv == /\ told \in [Browsers -> Builds]
          /\ announced \in Builds
          /\ NoReloadLost

\* A browser that subscribed before a reload was announced finds a message,
\* although EventBus.Publish (internal/eventbus.go) never waits for a subscriber.
THEOREM ReloadsDelivered == Spec => []NoReloadLost
<1>1. Init => BusInv
  BY MaxEditsAssumption DEF Init, BusInv, NoReloadLost, Builds
<1>2. SwapInv' /\ BusInv /\ [Next]_vars => BusInv'
  <2> SUFFICES ASSUME SwapInv', BusInv, [Next]_vars PROVE BusInv'
    OBVIOUS
  <2> USE DEF BusInv
  <2>1. ASSUME UNCHANGED <<busVars, announced>> PROVE BusInv'
    BY <2>1 DEF NoReloadLost, busVars
  <2>2. CASE Edit \/ Notice \/ Close \/ Watch
    BY <2>1, <2>2 DEF Edit, Notice, Close, Watch, Snapshot, TakeTrigger, Build, Drain, Offer,
                      WatchExit, loadVars
  <2>3. CASE Receive \/ LoadBundle \/ ClearCache \/ WireRenderDeps \/ Mount \/ ReloaderExit
    BY <2>1, <2>3 DEF Receive, LoadBundle, ClearCache, WireRenderDeps, Mount, ReloaderExit,
                      loadVars
  <2>4. CASE Publish
    <3>1. announced' \in Builds
      BY DEF SwapInv, InOrder
    <3> QED
      BY <2>4, <3>1 DEF Publish, NoReloadLost
  <2>5. ASSUME NEW c \in Requests, Flight(c) PROVE BusInv'
    BY <2>1, <2>5 DEF Flight, CacheMiss, AcquireIdle, AcquireNew, Defer, Release, CacheSet,
                      ReqStep, loadVars
  <2>6. ASSUME NEW t \in Browsers, Subscribe(t) PROVE BusInv'
    BY <2>6 DEF Subscribe, BusStep, NoReloadLost, loadVars
  <2>7. ASSUME NEW t \in Browsers, Reloads(t) PROVE BusInv'
    <3>1. told' \in [Browsers -> Builds]
      BY <2>7, MaxEditsAssumption DEF Reloads, Builds
    <3> QED
      BY <2>7, <3>1 DEF Reloads, BusStep, NoReloadLost, loadVars
  <2>8. CASE UNCHANGED vars
    BY <2>1, <2>8 DEF vars, loadVars
  <2> QED
    BY <2>2, <2>3, <2>4, <2>5, <2>6, <2>7, <2>8 DEF Next, Reload
<1>3. BusInv => NoReloadLost
  BY DEF BusInv
<1> QED
  BY <1>1, <1>2, <1>3, SwapsInOrder, PTL DEF Spec

-----------------------------------------------------------------------------
(* Quiet reloads.  While no request was ever in progress during a reload,  *)
(* every VM in the pool or at work runs the pool's bundle, requests are    *)
(* only served between reloads, and the cache is empty from its clearing   *)
(* to the end of the reload.                                               *)

Working(c) == rpc[c] \in {"defer", "release", "set"}

ReqTypes == /\ rpc \in [Requests -> {"out", "acquire", "defer", "release", "set"}]
            /\ rvm \in [Requests -> Builds]
            /\ idle \in [Builds -> Nat]

OneBundle == /\ \A c \in Requests : Working(c) => rvm[c] = pool
             /\ \A b \in Builds : idle[b] # 0 => b = pool

BetweenReloads == hpc \notin {"idle", "exited"} => \A c \in Requests : rpc[c] = "out"

CacheNow == /\ hpc \in {"idle", "load", "exited"} => cache \in {None, live}
            /\ hpc \in {"wire", "mount", "publish"} => cache = None

QuietInv == /\ ReqTypes
            /\ ~overlap => OneBundle /\ BetweenReloads /\ CacheNow

LEMMA InitQuiet == Init => QuietInv
<1> SUFFICES ASSUME Init PROVE QuietInv
  OBVIOUS
<1>1. ReqTypes
  BY MaxEditsAssumption DEF Init, ReqTypes, Prewarmed, Builds
<1>2. OneBundle
  BY DEF Init, OneBundle, Working, Prewarmed
<1>3. BetweenReloads /\ CacheNow
  BY DEF Init, BetweenReloads, CacheNow
<1> QED
  BY <1>1, <1>2, <1>3 DEF QuietInv

\* The steps of a reload: the request types first, then, if the reload stays
\* quiet, the rest.
LEMMA ReloadQuiet ==
  ASSUME SwapInv, QuietInv, Reload
  PROVE  QuietInv'
<1>1. pool \in Builds /\ cur \in Builds
  BY DEF SwapInv, InOrder
<1>2. UNCHANGED <<rpc, rvm, rrel>>
  BY DEF Reload, Receive, LoadBundle, ClearCache, WireRenderDeps, Mount, Publish,
         ReloaderExit, reqVars
<1>3. UNCHANGED idle \/ (LoadBundle /\ SwapPool)
  BY DEF Reload, Receive, LoadBundle, ClearCache, WireRenderDeps, Mount, Publish, ReloaderExit
<1>4. ReqTypes'
  <2>1. CASE UNCHANGED idle
    BY <1>2, <2>1 DEF QuietInv, ReqTypes
  <2>2. CASE SwapPool
    BY <1>2, <2>2 DEF QuietInv, ReqTypes, SwapPool, Prewarmed
  <2> QED
    BY <1>3, <2>1, <2>2
<1>5. ASSUME ~overlap' PROVE OneBundle' /\ BetweenReloads' /\ CacheNow'
  <2>1. ~overlap
    BY <1>5 DEF Reload, Receive, LoadBundle, ClearCache, WireRenderDeps, Mount, Publish,
                ReloaderExit, ReloadStep
  <2>2. OneBundle /\ BetweenReloads /\ CacheNow
    BY <2>1 DEF QuietInv
  <2>3. CASE ReloaderExit
    BY <2>2, <2>3, <1>2
    DEF ReloaderExit, OneBundle, Working, BetweenReloads, CacheNow, loadVars
  <2>4. CASE Receive \/ LoadBundle \/ ClearCache \/ WireRenderDeps \/ Mount \/ Publish
    <3>1. ~Busy
      BY <1>5, <2>4 DEF Receive, LoadBundle, ClearCache, WireRenderDeps, Mount, Publish,
                        ReloadStep
    <3>2. \A c \in Requests : rpc'[c] = "out"
      BY <1>2, <3>1 DEF Busy
    <3>3. BetweenReloads' /\ \A c \in Requests : ~Working(c)'
      BY <3>2 DEF BetweenReloads, Working
    <3>4. CASE Receive
      BY <2>2, <3>3, <3>4 DEF Receive, ReloadStep, OneBundle, CacheNow
    <3>5. CASE LoadBundle
      <4>1. CASE Loads
        BY <3>3, <3>5, <4>1, <1>1
        DEF LoadBundle, ReloadStep, SwapPool, Prewarmed, OneBundle, CacheNow
      <4>2. CASE ~Loads
        BY <2>2, <3>3, <3>5, <4>2 DEF LoadBundle, ReloadStep, OneBundle, CacheNow
      <4> QED
        BY <4>1, <4>2
    <3>6. CASE ClearCache
      BY <2>2, <3>3, <3>6 DEF ClearCache, ReloadStep, OneBundle, CacheNow, loadVars
    <3>7. CASE WireRenderDeps
      BY <2>2, <3>3, <3>7 DEF WireRenderDeps, ReloadStep, OneBundle, CacheNow
    <3>8. CASE Mount
      BY <2>2, <3>3, <3>8 DEF Mount, ReloadStep, OneBundle, CacheNow
    <3>9. CASE Publish
      BY <2>2, <3>3, <3>9 DEF Publish, ReloadStep, OneBundle, CacheNow
    <3> QED
      BY <2>4, <3>4, <3>5, <3>6, <3>7, <3>8, <3>9
  <2> QED
    BY <2>3, <2>4 DEF Reload
<1> QED
  BY <1>4, <1>5 DEF QuietInv

\* The steps of a request.
LEMMA FlightQuiet ==
  ASSUME SwapInv, QuietInv, NEW c \in Requests, Flight(c)
  PROVE  QuietInv'
<1>1. UNCHANGED <<hpc, pool, live>>
  BY DEF Flight, CacheMiss, AcquireIdle, AcquireNew, Defer, Release, CacheSet, ReqStep, loadVars
<1>2. ReqTypes
  BY DEF QuietInv
<1>3. pool \in Builds /\ live \in Builds
  BY DEF SwapInv, InOrder
<1>4. CASE CacheMiss(c)
  <2>1. ReqTypes'
    BY <1>2, <1>4 DEF CacheMiss, ReqStep, ReqTypes
  <2>2. ASSUME ~overlap' PROVE OneBundle' /\ BetweenReloads' /\ CacheNow'
    <3>1. ~overlap /\ hpc \in {"idle", "exited"}
      BY <1>4, <2>2 DEF CacheMiss
    <3>2. OneBundle
      BY <3>1 DEF QuietInv
    <3> QED
      BY <1>1, <1>2, <1>4, <3>1, <3>2
      DEF CacheMiss, ReqStep, OneBundle, Working, BetweenReloads, CacheNow, ReqTypes
  <2> QED
    BY <2>1, <2>2 DEF QuietInv
<1>5. ASSUME ~CacheMiss(c) PROVE QuietInv'
  <2>1. rpc[c] # "out" /\ overlap' = overlap
    BY <1>5 DEF Flight, AcquireIdle, AcquireNew, Defer, Release, CacheSet, ReqStep
  <2>2. ASSUME ~overlap PROVE OneBundle /\ CacheNow /\ hpc \in {"idle", "exited"}
    BY <2>1, <2>2 DEF QuietInv, BetweenReloads
  <2>3. CASE AcquireIdle(c)
    <3>1. PICK b \in Builds : /\ idle[b] > 0
                              /\ idle' = [idle EXCEPT ![b] = @ - 1]
                              /\ rvm' = [rvm EXCEPT ![c] = b]
      BY <2>3 DEF AcquireIdle
    <3>2. ReqTypes'
      BY <1>2, <2>3, <3>1 DEF AcquireIdle, ReqStep, ReqTypes
    <3>3. ASSUME ~overlap PROVE OneBundle' /\ BetweenReloads' /\ CacheNow'
      <4>1. OneBundle /\ CacheNow /\ hpc \in {"idle", "exited"}
        BY <2>2, <3>3
      <4>2. b = pool
        BY <1>2, <3>1, <4>1 DEF OneBundle, ReqTypes
      <4>3. \A d \in Requests : Working(d)' => rvm'[d] = pool
        BY <1>2, <2>3, <3>1, <4>1, <4>2
        DEF AcquireIdle, ReqStep, OneBundle, Working, ReqTypes
      <4>4. \A a \in Builds : idle'[a] # 0 => a = pool
        BY <1>2, <3>1, <4>1, <4>2 DEF OneBundle, ReqTypes
      <4> QED
        BY <1>1, <2>3, <4>1, <4>3, <4>4 DEF AcquireIdle, OneBundle, BetweenReloads, CacheNow
    <3> QED
      BY <2>1, <3>2, <3>3 DEF QuietInv
  <2>4. CASE AcquireNew(c)
    <3>1. ReqTypes'
      BY <1>2, <1>3, <2>4 DEF AcquireNew, ReqStep, ReqTypes
    <3>2. ASSUME ~overlap PROVE OneBundle' /\ BetweenReloads' /\ CacheNow'
      BY <1>1, <1>2, <2>2, <2>4, <3>2
      DEF AcquireNew, ReqStep, OneBundle, Working, BetweenReloads, CacheNow, ReqTypes
    <3> QED
      BY <2>1, <3>1, <3>2 DEF QuietInv
  <2>5. CASE Defer(c)
    <3>1. ReqTypes'
      BY <1>2, <2>5 DEF Defer, ReqStep, ReqTypes
    <3>2. ASSUME ~overlap PROVE OneBundle' /\ BetweenReloads' /\ CacheNow'
      BY <1>1, <1>2, <2>2, <2>5, <3>2
      DEF Defer, ReqStep, OneBundle, Working, BetweenReloads, CacheNow, ReqTypes
    <3> QED
      BY <2>1, <3>1, <3>2 DEF QuietInv
  <2>6. CASE Release(c)
    <3>1. rpc[c] = "release" /\ rvm' = rvm /\ cache' = cache
      BY <2>6 DEF Release, ReqStep
    <3>2. idle' = idle \/ idle' = [idle EXCEPT ![rvm[c]] = @ + 1]
      BY <2>6 DEF Release
    <3>3. ReqTypes'
      BY <1>2, <2>6, <3>1, <3>2 DEF Release, ReqStep, ReqTypes
    <3>4. ASSUME ~overlap PROVE OneBundle' /\ BetweenReloads' /\ CacheNow'
      <4>1. OneBundle /\ CacheNow /\ hpc \in {"idle", "exited"}
        BY <2>2, <3>4
      <4>2. rvm[c] = pool
        BY <3>1, <4>1 DEF OneBundle, Working
      <4>3. \A a \in Builds : idle'[a] # 0 => a = pool
        BY <1>2, <3>2, <4>1, <4>2 DEF OneBundle, ReqTypes
      <4>4. \A d \in Requests : Working(d)' => rvm'[d] = pool
        BY <1>2, <2>6, <3>1, <4>1 DEF Release, ReqStep, OneBundle, Working, ReqTypes
      <4> QED
        BY <1>1, <3>1, <4>1, <4>3, <4>4 DEF OneBundle, BetweenReloads, CacheNow
    <3> QED
      BY <2>1, <3>3, <3>4 DEF QuietInv
  <2>7. CASE CacheSet(c)
    <3>1. ReqTypes'
      BY <1>2, <2>7, MaxEditsAssumption DEF CacheSet, ReqStep, ReqTypes, Builds
    <3>2. ASSUME ~overlap PROVE OneBundle' /\ BetweenReloads' /\ CacheNow'
      <4>1. OneBundle /\ CacheNow /\ hpc \in {"idle", "exited"}
        BY <2>2, <3>2
      <4>2. rvm[c] = pool /\ pool = live
        BY <2>7, <4>1 DEF CacheSet, ReqStep, OneBundle, Working, SwapInv, Phases
      <4>3. cache' \in {None, live}
        BY <2>7, <4>1, <4>2 DEF CacheSet, CacheNow
      <4>4. OneBundle'
        BY <1>1, <1>2, <2>7, <4>1 DEF CacheSet, ReqStep, OneBundle, Working, ReqTypes
      <4> QED
        BY <1>1, <4>1, <4>3, <4>4 DEF BetweenReloads, CacheNow
    <3> QED
      BY <2>1, <3>1, <3>2 DEF QuietInv
  <2> QED
    BY <1>5, <2>3, <2>4, <2>5, <2>6, <2>7 DEF Flight
<1> QED
  BY <1>4, <1>5

\* When no request was ever in progress during a reload, nothing that an older
\* build rendered is in the cache between reloads (internal/hotreload.go:262).
THEOREM QuietReloadsClean == Spec => []QuietReloadIsClean
<1>1. SwapInv /\ QuietInv /\ [Next]_vars => QuietInv'
  <2> SUFFICES ASSUME SwapInv, QuietInv, [Next]_vars PROVE QuietInv'
    OBVIOUS
  <2>1. ASSUME UNCHANGED <<hpc, pool, live, cache, idle, rpc, rvm, overlap>> PROVE QuietInv'
    BY <2>1 DEF QuietInv, ReqTypes, OneBundle, Working, BetweenReloads, CacheNow
  <2>2. CASE Edit \/ Notice \/ Close \/ Watch
    BY <2>1, <2>2 DEF Edit, Notice, Close, Watch, Snapshot, TakeTrigger, Build, Drain, Offer,
                      WatchExit, loadVars, reqVars
  <2>3. ASSUME NEW t \in Browsers, Subscribe(t) \/ Reloads(t) PROVE QuietInv'
    BY <2>1, <2>3 DEF Subscribe, Reloads, BusStep, loadVars, reqVars
  <2>4. CASE UNCHANGED vars
    BY <2>1, <2>4 DEF vars, loadVars, reqVars
  <2> QED
    BY <2>2, <2>3, <2>4, ReloadQuiet, FlightQuiet DEF Next
<1>2. QuietInv => QuietReloadIsClean
  BY DEF QuietInv, CacheNow, QuietReloadIsClean
<1> QED
  BY <1>1, <1>2, InitQuiet, SwapsInOrder, PTL DEF Spec

-----------------------------------------------------------------------------
(* Types.  What is not obvious of them is that the idle VMs of one build   *)
(* never exceed the pool's size, and that a subscription's message goes    *)
(* when the subscription does.                                             *)

EditTypes == /\ fate \in [Versions -> {"loads", "loadFails", "buildFails"}]
             /\ {disk, noticed, reported} \subseteq Versions
             /\ {trigger, overlap, closed} \subseteq BOOLEAN
             /\ wpc \in {"start", "offer", "select", "build", "drain", "exited"}
             /\ hpc \in {"idle", "load", "clear", "wire", "mount", "publish", "exited"}
             /\ content \in [Builds -> Versions]

LoadTypes == /\ {made, cur, pool, deps, live, announced} \subseteq Builds
             /\ {outputCh, cache} \subseteq Builds \cup {None}

PoolTypes == /\ idle \in [Builds -> 0..PoolSize]
             /\ slots \in 1..PoolSize

FlightTypes == /\ rpc \in [Requests -> {"out", "acquire", "defer", "release", "set"}]
               /\ rvm \in [Requests -> Builds] /\ rrel \in [Requests -> Builds]

BusTypes == /\ sub \in SUBSET Browsers /\ inbox \in SUBSET sub
            /\ told \in [Browsers -> Builds]

\* A build whose idle VMs alone make up the pool leaves no room for another.
LEMMA RoomInPool ==
  ASSUME idle \in [Builds -> 0..PoolSize], IdleVMs < PoolSize, NEW b \in Builds
  PROVE  idle[b] < PoolSize
<1> DEFINE all == {vm \in Builds \X (1..PoolSize) : vm[2] <= idle[vm[1]]}
           own == {<<b, i>> : i \in 1..idle[b]}
           f == [i \in 1..idle[b] |-> <<b, i>>]
<1>1. idle[b] \in 0..PoolSize /\ PoolSize \in Nat
  BY PoolSizeAssumption
<1>2. IsFiniteSet(Builds \X (1..PoolSize))
  <2>1. IsFiniteSet(Builds)
    BY FS_Interval, MaxEditsAssumption DEF Builds
  <2>2. IsFiniteSet(1..PoolSize)
    BY FS_Interval, PoolSizeAssumption
  <2> QED
    BY <2>1, <2>2, FS_Product
<1>3. IsFiniteSet(all) /\ Cardinality(all) \in Nat
  BY <1>2, FS_Subset, FS_CardinalityType
<1>4. own \subseteq all
  BY <1>1
<1>5. Cardinality(own) = idle[b]
  <2>1. IsFiniteSet(1..idle[b]) /\ Cardinality(1..idle[b]) = idle[b]
    BY <1>1, FS_Interval
  <2>2. f \in Bijection(1..idle[b], own)
    <3>1. f \in [1..idle[b] -> own]
      OBVIOUS
    <3>2. \A i, j \in 1..idle[b] : f[i] = f[j] => i = j
      OBVIOUS
    <3>3. \A t \in own : \E i \in 1..idle[b] : f[i] = t
      OBVIOUS
    <3> QED
      BY <3>1, <3>2, <3>3 DEF Bijection, Injection, Surjection, IsInjective
  <2> QED
    BY <2>1, <2>2, FS_Bijection DEF ExistsBijection
<1>6. Cardinality(own) <= Cardinality(all)
  BY <1>3, <1>4, FS_Subset
<1>7. IdleVMs = Cardinality(all)
  BY DEF IdleVMs
<1> QED
  BY <1>1, <1>3, <1>5, <1>6, <1>7, PoolSizeAssumption

LEMMA InitTypes == Init => TypeOK
<1> SUFFICES ASSUME Init PROVE TypeOK
  OBVIOUS
<1> USE MaxEditsAssumption, PoolSizeAssumption DEF Init
<1>1. EditTypes
  <2>1. trigger \in BOOLEAN /\ overlap \in BOOLEAN /\ closed \in BOOLEAN
    OBVIOUS
  <2>2. {disk, noticed, reported} \subseteq Versions /\ content \in [Builds -> Versions]
    BY DEF Versions
  <2>3. fate \in [Versions -> {"loads", "loadFails", "buildFails"}]
    OBVIOUS
  <2>4. wpc = "start" /\ hpc = "idle"
    OBVIOUS
  <2> HIDE DEF Init
  <2> QED
    BY <2>1, <2>2, <2>3, <2>4 DEF EditTypes
<1>2. LoadTypes
  BY DEF LoadTypes, Builds
<1>3. PoolTypes
  BY DEF PoolTypes, Prewarmed
<1>4. FlightTypes
  BY DEF FlightTypes, Builds
<1>5. BusTypes
  BY DEF BusTypes, Builds
<1> QED
  BY <1>1, <1>2, <1>3, <1>4, <1>5
  DEF EditTypes, LoadTypes, PoolTypes, FlightTypes, BusTypes, TypeOK

LEMMA EditTypesKept ==
  ASSUME TypeOK, BuildsInv, BuildsInv', [Next]_vars
  PROVE  EditTypes'
<1> USE DEF TypeOK, EditTypes
<1>1. {disk', noticed'} \subseteq Versions /\ trigger' \in BOOLEAN /\ made' \in Builds
      /\ wpc' \in {"start", "offer", "select", "build", "drain", "exited"}
  BY DEF BuildsInv
<1>2. ASSUME UNCHANGED <<fate, reported, content, hpc, overlap, closed>> PROVE EditTypes'
  BY <1>1, <1>2
<1>3. CASE Edit
  BY <1>2, <1>3 DEF Edit, watchVars
<1>4. CASE Notice
  BY <1>1, <1>4 DEF Notice, watchVars
<1>5. CASE Snapshot \/ TakeTrigger \/ Drain \/ Offer \/ WatchExit
  BY <1>2, <1>5 DEF Snapshot, TakeTrigger, Drain, Offer, WatchExit, editVars
<1>6. CASE Build
  <2>1. content' \in [Builds -> Versions]
    BY <1>6 DEF Build
  <2>2. UNCHANGED <<fate, reported, hpc, overlap, closed>>
    BY <1>6 DEF Build, editVars
  <2> QED
    BY <1>1, <2>1, <2>2
<1>7. CASE Reload
  <2>1. UNCHANGED <<fate, reported, content, closed>>
    BY <1>7 DEF Reload, Receive, LoadBundle, ClearCache, WireRenderDeps, Mount, Publish,
                ReloaderExit, editVars, watchVars
  <2>2. hpc' \in {"idle", "load", "clear", "wire", "mount", "publish", "exited"}
    BY <1>7 DEF Reload, Receive, LoadBundle, ClearCache, WireRenderDeps, Mount, Publish,
                ReloaderExit, ReloadStep
  <2>3. overlap' \in BOOLEAN
    BY <1>7 DEF Reload, Receive, LoadBundle, ClearCache, WireRenderDeps, Mount, Publish,
                ReloaderExit, ReloadStep, Busy
  <2> QED
    BY <1>1, <2>1, <2>2, <2>3
<1>8. CASE Close
  BY <1>1, <1>8 DEF Close, editVars, watchVars
<1>9. ASSUME NEW c \in Requests, Flight(c) PROVE EditTypes'
  <2>1. UNCHANGED <<fate, reported, content, hpc, closed>>
    BY <1>9 DEF Flight, CacheMiss, AcquireIdle, AcquireNew, Defer, Release, CacheSet, ReqStep,
                editVars, watchVars
  <2>2. overlap' \in BOOLEAN
    BY <1>9 DEF Flight, CacheMiss, AcquireIdle, AcquireNew, Defer, Release, CacheSet
  <2> QED
    BY <1>1, <2>1, <2>2
<1>10. ASSUME NEW t \in Browsers, Subscribe(t) \/ Reloads(t) PROVE EditTypes'
  BY <1>2, <1>10 DEF Subscribe, Reloads, BusStep, editVars, watchVars
<1>11. CASE UNCHANGED vars
  BY <1>2, <1>11 DEF vars, editVars, watchVars
<1> QED
  BY <1>3, <1>4, <1>5, <1>6, <1>7, <1>8, <1>9, <1>10, <1>11 DEF Next, Watch

LEMMA LoadTypesKept ==
  ASSUME TypeOK, BuildsInv', SwapInv', [Next]_vars
  PROVE  LoadTypes'
<1> USE DEF TypeOK, LoadTypes
<1>1. {made', cur', pool', deps', live', announced'} \subseteq Builds
  BY DEF BuildsInv, SwapInv, InOrder
<1>2. outputCh' \in Builds \cup {None}
  BY DEF SwapInv, InOrder
<1>3. cache' \in Builds \cup {None}
  <2>1. ASSUME NEW c \in Requests, CacheSet(c) PROVE cache' \in Builds \cup {None}
    BY <2>1 DEF CacheSet
  <2>2. ASSUME NEW c \in Requests, Flight(c), ~CacheSet(c) PROVE cache' \in {cache, None}
    BY <2>2 DEF Flight, CacheMiss, AcquireIdle, AcquireNew, Defer, Release
  <2>3. ASSUME ~(\E c \in Requests : Flight(c)) PROVE cache' \in {cache, None}
    BY <2>3 DEF Next, Edit, Notice, Close, Watch, Snapshot, TakeTrigger, Build, Drain, Offer,
           WatchExit, Reload, Receive, LoadBundle, ClearCache, WireRenderDeps, Mount, Publish,
           ReloaderExit, Subscribe, Reloads, BusStep, vars
  <2> QED
    BY <2>1, <2>2, <2>3
<1> QED
  BY <1>1, <1>2, <1>3

LEMMA PoolTypesKept ==
  ASSUME TypeOK, [Next]_vars
  PROVE  PoolTypes'
<1> USE PoolSizeAssumption DEF TypeOK, PoolTypes
<1>1. ASSUME UNCHANGED <<idle, slots>> PROVE PoolTypes'
  BY <1>1
<1>2. ASSUME ~LoadBundle, ~(\E c \in Requests : Flight(c)) PROVE UNCHANGED <<idle, slots>>
  BY <1>2 DEF Next, Edit, Notice, Close, Watch, Snapshot, TakeTrigger, Build, Drain, Offer,
              WatchExit, Reload, Receive, ClearCache, WireRenderDeps, Mount, Publish,
              ReloaderExit, Subscribe, Reloads, BusStep, vars
<1>3. CASE LoadBundle
  BY <1>1, <1>3 DEF LoadBundle, SwapPool, Prewarmed
<1>4. ASSUME NEW c \in Requests, AcquireIdle(c) PROVE PoolTypes'
  BY <1>4 DEF AcquireIdle
<1>5. ASSUME NEW c \in Requests, AcquireNew(c) PROVE PoolTypes'
  BY <1>5 DEF AcquireNew
<1>6. ASSUME NEW c \in Requests, Release(c) PROVE PoolTypes'
  <2>1. slots' = slots /\ rvm[c] \in Builds
    BY <1>6 DEF Release
  <2>2. CASE IdleVMs < PoolSize /\ idle' = [idle EXCEPT ![rvm[c]] = @ + 1]
    <3>1. idle[rvm[c]] < PoolSize
      BY <2>1, <2>2, RoomInPool
    <3> QED
      BY <2>1, <2>2, <3>1
  <2> QED
    BY <1>1, <1>6, <2>1, <2>2 DEF Release
<1>7. ASSUME NEW c \in Requests, CacheMiss(c) \/ Defer(c) \/ CacheSet(c) PROVE PoolTypes'
  BY <1>1, <1>7 DEF CacheMiss, Defer, CacheSet
<1> QED
  BY <1>1, <1>2, <1>3, <1>4, <1>5, <1>6, <1>7 DEF Flight

LEMMA FlightTypesKept ==
  ASSUME TypeOK, [Next]_vars
  PROVE  FlightTypes'
<1> USE DEF TypeOK, FlightTypes
<1>1. ASSUME ~(\E c \in Requests : Flight(c)) PROVE UNCHANGED reqVars
  BY <1>1 DEF Next, Edit, Notice, Close, Watch, Snapshot, TakeTrigger, Build, Drain, Offer,
              WatchExit, Reload, Receive, LoadBundle, ClearCache, WireRenderDeps, Mount,
              Publish, ReloaderExit, Subscribe, Reloads, BusStep, vars
<1>2. CASE UNCHANGED reqVars
  BY <1>2 DEF reqVars
<1>3. ASSUME NEW c \in Requests, CacheMiss(c) \/ AcquireNew(c) \/ Defer(c) \/ Release(c)
      PROVE  FlightTypes'
  BY <1>3 DEF CacheMiss, AcquireNew, Defer, Release, ReqStep
<1>4. ASSUME NEW c \in Requests, AcquireIdle(c) PROVE FlightTypes'
  BY <1>4 DEF AcquireIdle, ReqStep
<1>5. ASSUME NEW c \in Requests, CacheSet(c) PROVE FlightTypes'
  BY <1>5, MaxEditsAssumption DEF CacheSet, ReqStep, Builds
<1> QED
  BY <1>1, <1>2, <1>3, <1>4, <1>5 DEF Flight

LEMMA BusTypesKept ==
  ASSUME TypeOK, [Next]_vars
  PROVE  BusTypes'
<1> USE DEF TypeOK, BusTypes
<1>1. ASSUME ~Publish, ~(\E t \in Browsers : Subscribe(t) \/ Reloads(t))
      PROVE  UNCHANGED busVars
  BY <1>1 DEF Next, Edit, Notice, Close, Watch, Snapshot, TakeTrigger, Build, Drain, Offer,
              WatchExit, Reload, Receive, LoadBundle, ClearCache, WireRenderDeps, Mount,
              ReloaderExit, Flight, CacheMiss, AcquireIdle, AcquireNew, Defer, Release,
              CacheSet, ReqStep, vars
<1>2. CASE UNCHANGED busVars
  BY <1>2 DEF busVars
<1>3. CASE Publish
  BY <1>3 DEF Publish
<1>4. ASSUME NEW t \in Browsers, Subscribe(t) PROVE BusTypes'
  BY <1>4 DEF Subscribe
<1>5. ASSUME NEW t \in Browsers, Reloads(t) PROVE BusTypes'
  BY <1>5, MaxEditsAssumption DEF Reloads, Builds
<1> QED
  BY <1>1, <1>2, <1>3, <1>4, <1>5

\* Every variable keeps its type: above all the idle VMs of a pool, which VMs
\* made for another pool join and leave (vmpool.New, Renderer.RenderToWriter),
\* never exceed its size, and a message waits only for a browser that is still
\* subscribed (EventBus.Publish, wsServer).
THEOREM TypeCorrect == Spec => []TypeOK
<1>1. BuildsInv /\ BuildsInv' /\ SwapInv' /\ TypeOK /\ [Next]_vars => TypeOK'
  <2> SUFFICES ASSUME BuildsInv, BuildsInv', SwapInv', TypeOK, [Next]_vars PROVE TypeOK'
    OBVIOUS
  <2>1. EditTypes' /\ LoadTypes' /\ PoolTypes' /\ FlightTypes' /\ BusTypes'
    BY EditTypesKept, LoadTypesKept, PoolTypesKept, FlightTypesKept, BusTypesKept
  <2> QED
    BY <2>1 DEF EditTypes, LoadTypes, PoolTypes, FlightTypes, BusTypes, TypeOK
<1> QED
  BY <1>1, InitTypes, BuildsBounded, SwapsInOrder, PTL DEF Spec

-----------------------------------------------------------------------------
(* What is served when nothing is under way.  Each stage of the way from   *)
(* the disk to the browser says what it holds or, idle, what it passed on.  *)

\* The last build is of the version reported, unless another one is due.
Built == /\ disk \in Nat /\ reported \in Nat /\ reported <= disk
         /\ content \in [Builds -> Versions]
         /\ ~trigger /\ wpc # "build" /\ reported = disk /\ fate[disk] # "buildFails"
              => content[made] = disk

\* The Watch goroutine goes on when the HotReloader has the last build, or will.
Offered == wpc \in {"select", "build"} => outputCh = made \/ (outputCh = None /\ cur = made)

\* The HotReloader waits when the build it received last is announced or broken.
Announced == hpc = "idle" => announced = cur \/ fate[content[cur]] = "loadFails"

LatestInv == Built /\ Offered /\ Announced

LEMMA InitLatest == Init => LatestInv
<1> SUFFICES ASSUME Init PROVE LatestInv
  OBVIOUS
<1>1. 0 \in Versions /\ 1 \in Builds
  BY MaxEditsAssumption DEF Versions, Builds
<1> QED
  BY <1>1 DEF Init, LatestInv, Built, Offered, Announced

LEMMA BuiltKept == ASSUME BuildsInv, BuildsInv', Built, [Next]_vars PROVE Built'
<1> USE DEF Built
<1>0. Versions \subseteq Nat /\ Builds \subseteq Nat /\ made \in Builds /\ made' \in Builds
      /\ disk \in Versions /\ noticed <= disk
  BY MaxEditsAssumption DEF BuildsInv, Versions, Builds
<1>1. ASSUME UNCHANGED <<fate, disk, reported, content, made>>,
             ~trigger' /\ wpc' # "build" => ~trigger /\ wpc # "build"
      PROVE  Built'
  BY <1>1
<1>2. CASE Edit
  BY <1>0, <1>2 DEF Edit, watchVars
<1>3. CASE Notice
  BY <1>0, <1>3 DEF Notice, watchVars
<1>4. CASE Snapshot \/ TakeTrigger
  BY <1>1, <1>4 DEF Snapshot, TakeTrigger, WatchStep
<1>5. CASE Build
  <2>1. CASE fate[disk] = "buildFails"
    BY <1>5, <2>1 DEF Build, editVars
  <2>2. CASE fate[disk] # "buildFails"
    <3>1. made' = made + 1 /\ content' = [content EXCEPT ![made + 1] = disk] /\ UNCHANGED editVars
      BY <1>5, <2>2 DEF Build
    <3>2. content' \in [Builds -> Versions] /\ content'[made'] = disk
      BY <1>0, <3>1
    <3> QED
      BY <3>1, <3>2 DEF editVars
  <2> QED
    BY <2>1, <2>2
<1>6. CASE Drain \/ Offer \/ WatchExit
  BY <1>1, <1>6 DEF Drain, Offer, WatchExit, WatchStep, editVars
<1>7. CASE Reload \/ Close
  BY <1>1, <1>7 DEF Reload, Receive, LoadBundle, ClearCache, WireRenderDeps, Mount, Publish,
                    ReloaderExit, Close, editVars, watchVars
<1>8. ASSUME NEW c \in Requests, Flight(c) PROVE Built'
  BY <1>1, <1>8 DEF Flight, CacheMiss, AcquireIdle, AcquireNew, Defer, Release, CacheSet,
                    ReqStep, editVars, watchVars
<1>9. ASSUME NEW t \in Browsers, Subscribe(t) \/ Reloads(t) PROVE Built'
  BY <1>1, <1>9 DEF Subscribe, Reloads, BusStep, editVars, watchVars
<1>10. CASE UNCHANGED vars
  BY <1>1, <1>10 DEF vars, editVars, watchVars
<1> QED
  BY <1>2, <1>3, <1>4, <1>5, <1>6, <1>7, <1>8, <1>9, <1>10 DEF Next, Watch

LEMMA OfferedKept == ASSUME Offered, [Next]_vars PROVE Offered'
<1> USE DEF Offered
<1>1. ASSUME UNCHANGED <<made, outputCh, cur>>,
             wpc' \in {"select", "build"} => wpc \in {"select", "build"}
      PROVE  Offered'
  BY <1>1 DEF None
<1>2. CASE Edit \/ Notice \/ Close
  BY <1>1, <1>2 DEF Edit, Notice, Close, watchVars, loadVars
<1>3. CASE Snapshot \/ TakeTrigger \/ WatchExit
  BY <1>1, <1>3 DEF Snapshot, TakeTrigger, WatchExit, WatchStep, loadVars
<1>4. CASE Build
  <2>1. wpc = "build" /\ UNCHANGED <<outputCh, cur>>
    BY <1>4 DEF Build, loadVars
  <2>2. (wpc' = "select" /\ made' = made) \/ wpc' = "drain"
    BY <1>4 DEF Build
  <2> QED
    BY <1>1, <2>1, <2>2
<1>5. CASE Drain \/ Offer
  BY <1>5 DEF Drain, Offer, WatchStep
<1>6. CASE Receive
  BY <1>6 DEF Receive, watchVars, None
<1>7. CASE LoadBundle \/ ClearCache \/ WireRenderDeps \/ Mount \/ Publish \/ ReloaderExit
  BY <1>1, <1>7 DEF LoadBundle, ClearCache, WireRenderDeps, Mount, Publish, ReloaderExit,
                    watchVars, loadVars
<1>8. ASSUME NEW c \in Requests, Flight(c) PROVE Offered'
  BY <1>1, <1>8 DEF Flight, CacheMiss, AcquireIdle, AcquireNew, Defer, Release, CacheSet,
                    ReqStep, watchVars, loadVars
<1>9. ASSUME NEW t \in Browsers, Subscribe(t) \/ Reloads(t) PROVE Offered'
  BY <1>1, <1>9 DEF Subscribe, Reloads, BusStep, watchVars, loadVars
<1>10. CASE UNCHANGED vars
  BY <1>1, <1>10 DEF vars, watchVars, loadVars
<1> QED
  BY <1>2, <1>3, <1>4, <1>5, <1>6, <1>7, <1>8, <1>9, <1>10 DEF Next, Watch, Reload

LEMMA AnnouncedKept ==
  ASSUME BuildsInv, BuildsInv', SwapInv, Announced, content \in [Builds -> Versions], [Next]_vars
  PROVE  Announced'
<1> USE DEF Announced
<1>0. Builds \subseteq Nat /\ made \in Builds /\ made' \in Builds /\ cur \in Builds /\ cur <= made
  BY MaxEditsAssumption DEF BuildsInv, Builds, SwapInv, InOrder
<1>1. ASSUME UNCHANGED <<fate, content, cur, announced>>, hpc' = "idle" => hpc = "idle"
      PROVE  Announced'
  BY <1>1
<1>2. CASE Edit \/ Notice \/ Close
  BY <1>1, <1>2 DEF Edit, Notice, Close, editVars, watchVars, loadVars
<1>3. CASE Snapshot \/ TakeTrigger \/ Drain \/ Offer \/ WatchExit
  BY <1>1, <1>3 DEF Snapshot, TakeTrigger, Drain, Offer, WatchExit, editVars, loadVars
<1>4. CASE Build
  <2>1. UNCHANGED <<fate, cur, announced, hpc>>
    BY <1>4 DEF Build, editVars, loadVars
  <2>2. content' = content \/ content' = [content EXCEPT ![made + 1] = disk]
    BY <1>4 DEF Build
  <2>3. content'[cur] = content[cur]
    BY <1>0, <2>2
  <2> QED
    BY <2>1, <2>3
<1>5. CASE Receive \/ ClearCache \/ WireRenderDeps \/ Mount \/ ReloaderExit
  BY <1>5 DEF Receive, ClearCache, WireRenderDeps, Mount, ReloaderExit, ReloadStep
<1>6. CASE LoadBundle
  BY <1>6 DEF LoadBundle, ReloadStep, Loads, editVars, watchVars
<1>7. CASE Publish
  BY <1>7 DEF Publish, ReloadStep
<1>8. ASSUME NEW c \in Requests, Flight(c) PROVE Announced'
  BY <1>1, <1>8 DEF Flight, CacheMiss, AcquireIdle, AcquireNew, Defer, Release, CacheSet,
                    ReqStep, editVars, watchVars, loadVars
<1>9. ASSUME NEW t \in Browsers, Subscribe(t) \/ Reloads(t) PROVE Announced'
  BY <1>1, <1>9 DEF Subscribe, Reloads, BusStep, editVars, watchVars, loadVars
<1>10. CASE UNCHANGED vars
  BY <1>1, <1>10 DEF vars, editVars, watchVars, loadVars
<1> QED
  BY <1>2, <1>3, <1>4, <1>5, <1>6, <1>7, <1>8, <1>9, <1>10 DEF Next, Watch, Reload

\* When the poller, Watch and HotReloader (internal/hotreload.go, bundler/esbuild)
\* have nothing left to do, the last save is what browsers are served, unless it
\* does not build or load, whatever was coalesced, drained or broken before it.
THEOREM LatestWhenQuiet == Spec => []QuietServesLatest
<1>1. BuildsInv /\ BuildsInv' /\ SwapInv /\ LatestInv /\ [Next]_vars => LatestInv'
  BY BuiltKept, OfferedKept, AnnouncedKept DEF LatestInv, Built
<1>2. BuildsInv /\ LatestInv => QuietServesLatest
  <2>1. \A b \in Builds : b # None
    BY MaxEditsAssumption DEF Builds, None
  <2> QED
    BY <2>1 DEF BuildsInv, LatestInv, Built, Offered, Announced, QuietServesLatest
<1> QED
  BY <1>1, <1>2, InitLatest, BuildsBounded, SwapsInOrder, PTL DEF Spec
=============================================================================
