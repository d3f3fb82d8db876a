--------------------------- MODULE JSRuntimeProofs ---------------------------
(***************************************************************************)
(* JSRuntime for every set of requests, VMs and functions, every sequence  *)
(* of injectors and any number of bridge calls: type correctness, what a   *)
(* VM in the pool and a VM in use carry, that a well-behaved program stays *)
(* on its own VM, that a memoized call reaches Go once, and that requests  *)
(* use the pool as VMLease has it.                                         *)
(***************************************************************************)
EXTENDS JSRuntime, SequenceTheorems, TLAPS

-----------------------------------------------------------------------------
(* The parts of the inductive invariant                                    *)

\* The injectors or the program of r may act on its VM; it was begun.
Using(r) == pc[r] \notin {"acquire", "put", "done"}
Started(r) == pc[r] \in {"poll", "check", "release", "put", "done"}

Leased == /\ \A r \in Requests : pc[r] # "acquire" => vm[r] \in VMs
          /\ \A r \in Requests : pc[r] = "acquire" => inj[r] = 0
          /\ \A r \in Requests : pc[r] = "inject" => inj[r] < Len(Injectors)

\* A VM is held by one request, or it is in the pool.
Custody == /\ \A r \in Requests : Held(r) => vm[r] \notin idle
           /\ \A r, s \in Requests : Held(r) /\ Held(s) /\ vm[r] = vm[s] => r = s

InUse(v, r) == Using(r) /\ vm[r] = v

\* What a VM carries belongs to the request that is using it.
Bound == /\ \A v \in VMs : \A r \in Requests : ctx[v] = r => InUse(v, r)
         /\ \A v \in VMs : \A r \in Requests : \A h \in Funcs : di[v][h] = r => InUse(v, r)
         /\ \A v \in proxied : \E r \in Requests : InUse(v, r)
         /\ \A v \in VMs : memo[v] # {} => v \in proxied
         /\ \A r \in Requests : pc[r] \in {"invoke", "poll", "check"} => ctx[vm[r]] = r

\* A promise lives on the VM of the program that made the call, which is the VM
\* of the request the function was bound to.
Local(p) == Started(p.by) /\ pc[p.as] # "acquire" /\ vm[p.as] = vm[p.by]

Quiet(r) == awaits[r] = {} /\ \A v \in VMs : r \notin ready[v]
NotBegun(r) == Quiet(r) /\ r \notin settled /\ \A h \in Funcs : crossed[r][h] = 0

AtHome == /\ \A r \in Requests : ~Started(r) => NotBegun(r)
          /\ \A v \in VMs : \A r \in ready[v] : vm[r] = v
          /\ \A p \in calls : Local(p)
          /\ \A v \in VMs : \A i \in 1..Len(aux[v]) : Local(aux[v][i]) /\ vm[aux[v][i].by] = v
          /\ \A r \in Requests : \A p \in awaits[r] : Local(p) /\ vm[p.by] = vm[r]

\* A program that awaits what it calls is over once it has settled, and it has
\* settled when its request goes on.
Over(r) == r \in settled \/ (r \notin Hanging /\ pc[r] \in {"release", "put", "done"})
Finished == \A r \in Requests \ Early : Over(r) => Quiet(r)

Memoized == \A r \in Requests : \A h \in Funcs :
  /\ Using(r) /\ pc[r] # "memo" /\ di[vm[r]][h] = r => vm[r] \in proxied
  /\ crossed[r][h] <= 1
  /\ crossed[r][h] # 0 /\ pc[r] \in {"poll", "check", "release"} => h \in memo[vm[r]]

TypeInv == TypeOK /\ Leased

-----------------------------------------------------------------------------
(* Type correctness                                                        *)

LEMMA TypeInit == Init => TypeInv
  <1> SUFFICES ASSUME Init PROVE TypeInv
    OBVIOUS
  <1> USE InjectorsAssumption, MaxAsksAssumption, NoReqAssumption, NoVMAssumption
  <1>1. aux \in [VMs -> Seq(Promises)]
    BY EmptySeq DEF Init
  <1>2. Len(Injectors) \in Nat
    BY LenProperties
  <1>3. inj \in [Requests -> 0..Len(Injectors)] /\ asks \in [Requests -> 0..MaxAsks]
    BY <1>2 DEF Init
  <1>4. /\ pc \in [Requests -> Labels]
        /\ vm \in [Requests -> VMs \cup {NoVM}]
        /\ idle \in SUBSET VMs /\ turning \in SUBSET VMs /\ proxied \in SUBSET VMs
        /\ ctx \in [VMs -> Requests \cup {NoReq}]
        /\ di \in [VMs -> [Funcs -> Requests \cup {NoReq}]]
    BY DEF Init, Labels, NoBridge
  <1>5. /\ memo \in [VMs -> SUBSET Funcs]
        /\ calls \in SUBSET Promises
        /\ ready \in [VMs -> SUBSET Requests]
        /\ awaits \in [Requests -> SUBSET Promises]
        /\ settled \in SUBSET Requests
        /\ crossed \in [Requests -> [Funcs -> Nat]]
    BY DEF Init
  <1>6. Leased
    BY DEF Init, Leased
  <1> QED
    BY <1>1, <1>3, <1>4, <1>5, <1>6 DEF TypeInv, TypeOK

\* The steps of a request, without the data they write.
LEMMA LeasedStep ==
  ASSUME TypeInv, NEW r \in Requests,
         NEW l \in Labels, pc' = [pc EXCEPT ![r] = l], l # "acquire",
         pc[r] # "acquire", UNCHANGED vm,
         inj' = inj \/ (l # "inject" /\ pc[r] = "inject" /\ inj' = [inj EXCEPT ![r] = @ + 1]),
         l = "inject" => inj[r] < Len(Injectors)
  PROVE  /\ Leased'
         /\ pc' \in [Requests -> Labels]
         /\ inj' \in [Requests -> 0..Len(Injectors)]
         /\ vm' \in [Requests -> VMs \cup {NoVM}]
  <1>1. Len(Injectors) \in Nat
    BY InjectorsAssumption, LenProperties
  <1>2. pc' \in [Requests -> Labels] /\ vm' \in [Requests -> VMs \cup {NoVM}]
    BY DEF TypeInv, TypeOK
  <1>3. inj' \in [Requests -> 0..Len(Injectors)]
    <2>1. inj \in [Requests -> 0..Len(Injectors)]
      BY DEF TypeInv, TypeOK
    <2>2. ASSUME pc[r] = "inject", inj' = [inj EXCEPT ![r] = @ + 1]
          PROVE  inj' \in [Requests -> 0..Len(Injectors)]
      <3>1. inj[r] \in 0..Len(Injectors) /\ inj[r] < Len(Injectors)
        BY <2>1, <2>2 DEF TypeInv, Leased
      <3>2. inj[r] + 1 \in 0..Len(Injectors)
        BY <1>1, <3>1
      <3> QED
        BY <2>1, <2>2, <3>2
    <2> QED
      BY <2>1, <2>2
  <1>4. \A s \in Requests : pc'[s] = IF s = r THEN l ELSE pc[s]
    BY DEF TypeInv, TypeOK
  <1>5. \A s \in Requests : s # r => inj'[s] = inj[s]
    BY DEF TypeInv, TypeOK
  <1>6. l = "inject" => inj'[r] = inj[r]
    BY DEF TypeInv, TypeOK
  <1> QED
    BY <1>2, <1>3, <1>4, <1>5, <1>6 DEF TypeInv, Leased

LEMMA TypeNext == TypeInv /\ [Next]_vars => TypeInv'
  <1> SUFFICES ASSUME TypeInv, [Next]_vars PROVE TypeInv'
    OBVIOUS
  <1>a. TypeOK /\ Leased
    BY DEF TypeInv
  <1>b. Len(Injectors) \in Nat
    BY InjectorsAssumption, LenProperties
  <1>1. ASSUME NEW r \in Requests, Request(r) PROVE TypeInv'
    <2>1. CASE Acquire(r)
      <3>1. PICK v \in idle : vm' = [vm EXCEPT ![r] = v] /\ idle' = idle \ {v}
        BY <2>1 DEF Acquire
      <3>2. pc' = [pc EXCEPT ![r] = IF Injectors = <<>> THEN "context" ELSE "inject"]
        BY <2>1 DEF Acquire
      <3>3. Injectors # <<>> => 0 < Len(Injectors)
        BY InjectorsAssumption, EmptySeq, <1>b
      <3>4. pc' \in [Requests -> Labels] /\ vm' \in [Requests -> VMs \cup {NoVM}]
        BY <3>1, <3>2, <1>a DEF TypeOK, Labels
      <3>5. Leased'
        BY <2>1, <3>1, <3>2, <3>3, <1>a DEF Leased, TypeOK, Acquire
      <3>6. idle' \in SUBSET VMs
        BY <3>1, <1>a DEF TypeOK
      <3> QED
        BY <2>1, <3>4, <3>5, <3>6, <1>a DEF TypeInv, TypeOK, Acquire, vmVars, progVars
    <2>2. CASE Inject(r)
      <3>1. Leased' /\ pc' \in [Requests -> Labels] /\ inj' \in [Requests -> 0..Len(Injectors)]
              /\ vm' \in [Requests -> VMs \cup {NoVM}]
        BY <2>2, LeasedStep DEF Inject, Run, Labels
      <3>2. di' \in [VMs -> [Funcs -> Requests \cup {NoReq}]]
        <4> DEFINE bridge == [h \in Funcs |-> IF h \in Injectors[inj[r] + 1] THEN r ELSE NoReq]
        <4>1. bridge \in [Funcs -> Requests \cup {NoReq}]
          OBVIOUS
        <4>2. di' = [di EXCEPT ![vm[r]] = bridge]
          BY <2>2 DEF Inject
        <4> HIDE DEF bridge
        <4> QED
          BY <4>1, <4>2, <1>a DEF TypeOK
      <3>3. turning' \in SUBSET VMs
        BY <2>2, <1>a DEF Inject, Run, TypeOK, Leased
      <3> QED
        BY <2>2, <3>1, <3>2, <3>3, <1>a DEF TypeInv, TypeOK, Inject, progVars
    <2>3. CASE InjectFails(r)
      <3>1. Leased' /\ pc' \in [Requests -> Labels]
        BY <2>3, LeasedStep DEF InjectFails, Labels
      <3> QED
        BY <2>3, <3>1, <1>a DEF TypeInv, TypeOK, InjectFails, vmVars, progVars
    <2>4. CASE Memoize(r)
      <3>1. Leased' /\ pc' \in [Requests -> Labels]
        BY <2>4, LeasedStep DEF Memoize, Run, Labels
      <3>2. turning' \in SUBSET VMs /\ proxied' \in SUBSET VMs
        BY <2>4, <1>a DEF Memoize, Run, TypeOK, Leased
      <3> QED
        BY <2>4, <3>1, <3>2, <1>a DEF TypeInv, TypeOK, Memoize, progVars
    <2>5. CASE SetRequestContext(r)
      <3>1. Leased' /\ pc' \in [Requests -> Labels]
        BY <2>5, LeasedStep DEF SetRequestContext, Run, Labels
      <3>2. turning' \in SUBSET VMs /\ ctx' \in [VMs -> Requests \cup {NoReq}]
        BY <2>5, <1>a DEF SetRequestContext, Run, TypeOK, Leased
      <3> QED
        BY <2>5, <3>1, <3>2, <1>a DEF TypeInv, TypeOK, SetRequestContext, progVars
    <2>6. CASE Invoke(r)
      <3>1. Leased' /\ pc' \in [Requests -> Labels]
        BY <2>6, LeasedStep DEF Invoke, Run, Labels
      <3>2. turning' \in SUBSET VMs /\ ready' \in [VMs -> SUBSET Requests]
        BY <2>6, <1>a DEF Invoke, Run, TypeOK, Leased
      <3> QED
        BY <2>6, <3>1, <3>2, <1>a DEF TypeInv, TypeOK, Invoke, vmVars, progVars
    <2>7. CASE Poll(r)
      <3>1. Leased' /\ pc' \in [Requests -> Labels]
        BY <2>7, LeasedStep DEF Poll, Run, Labels
      <3>2. turning' \in SUBSET VMs
        BY <2>7, <1>a DEF Poll, Run, TypeOK, Leased
      <3> QED
        BY <2>7, <3>1, <3>2, <1>a DEF TypeInv, TypeOK, Poll, vmVars, progVars
    <2>8. CASE PollAgain(r)
      <3>1. Leased' /\ pc' \in [Requests -> Labels]
        BY <2>8, LeasedStep DEF PollAgain, Labels
      <3> QED
        BY <2>8, <3>1, <1>a DEF TypeInv, TypeOK, PollAgain, vmVars, progVars
    <2>9. CASE TimedOut(r)
      <3>1. Leased' /\ pc' \in [Requests -> Labels]
        BY <2>9, LeasedStep DEF TimedOut, Labels
      <3> QED
        BY <2>9, <3>1, <1>a DEF TypeInv, TypeOK, TimedOut, vmVars, progVars
    <2>10. CASE ClearState(r)
      <3>1. Leased' /\ pc' \in [Requests -> Labels]
        BY <2>10, LeasedStep DEF ClearState, Run, Labels
      <3>2. /\ turning' \in SUBSET VMs
            /\ ctx' \in [VMs -> Requests \cup {NoReq}]
            /\ proxied' \in SUBSET VMs
            /\ memo' \in [VMs -> SUBSET Funcs]
        BY <2>10, <1>a DEF ClearState, Run, TypeOK, Leased
      <3>3. di' \in [VMs -> [Funcs -> Requests \cup {NoReq}]]
        <4>1. NoBridge \in [Funcs -> Requests \cup {NoReq}]
          BY DEF NoBridge
        <4> QED
          BY <2>10, <4>1, <1>a DEF ClearState, TypeOK
      <3> QED
        BY <2>10, <3>1, <3>2, <3>3, <1>a DEF TypeInv, TypeOK, ClearState, progVars
    <2>11. CASE Put(r)
      <3>1. Leased' /\ pc' \in [Requests -> Labels]
        BY <2>11, LeasedStep DEF Put, Labels
      <3>2. idle' \in SUBSET VMs
        BY <2>11, <1>a DEF Put, TypeOK, Leased
      <3> QED
        BY <2>11, <3>1, <3>2, <1>a DEF TypeInv, TypeOK, Put, vmVars, progVars
    <2> QED
      BY <1>1, <2>1, <2>2, <2>3, <2>4, <2>5, <2>6, <2>7, <2>8, <2>9, <2>10, <2>11 DEF Request
  <1>2. ASSUME NEW v \in VMs, Loop(v) PROVE TypeInv'
    <2>a. (UNCHANGED reqVars) => Leased'
      BY <1>a DEF reqVars, Leased
    <2>1. CASE RunJob(v)
      <3>1. aux[v] \in Seq(Promises) /\ aux[v] # <<>>
        BY <2>1, <1>a DEF RunJob, TypeOK
      <3>2. Tail(aux[v]) \in Seq(Promises) /\ Head(aux[v]) \in Promises
        BY <3>1, HeadTailProperties
      <3>3. aux' \in [VMs -> Seq(Promises)]
        BY <2>1, <3>2, <1>a DEF RunJob, TypeOK
      <3>4. ready' \in [VMs -> SUBSET Requests] /\ awaits' \in [Requests -> SUBSET Promises]
        BY <2>1, <1>a DEF RunJob, TypeOK
      <3> QED
        BY <2>1, <2>a, <3>3, <3>4, <1>a DEF TypeInv, TypeOK, RunJob, reqVars, vmVars
    <2>2. CASE EndRun(v)
      BY <2>2, <2>a, <1>a DEF EndRun, TypeInv, TypeOK, reqVars, vmVars, progVars
    <2>3. ASSUME NEW r \in ready[v], NEW h \in Funcs, Ask(v, r, h) PROVE TypeInv'
      <3>1. r \in Requests
        BY <1>a DEF TypeOK
      <3>2. asks' \in [Requests -> 0..MaxAsks] /\ asks[r] + 1 \in 1..MaxAsks
        BY <2>3, <3>1, <1>a, MaxAsksAssumption DEF Ask, TypeOK
      <3>3. CASE v \in proxied /\ h \in memo[v]
        <4>1. Pending \in SUBSET Promises
          <5>1. \A w \in VMs : {aux[w][i] : i \in 1..Len(aux[w])} \in SUBSET Promises
            BY <1>a, ElementOfSeq DEF TypeOK
          <5> QED
            BY <5>1, <1>a DEF Pending, TypeOK
        <4>2. awaits' \in [Requests -> SUBSET Promises]
          <5> DEFINE kept == {p \in Pending : p.fn = h /\ p.as = di[v][h] /\ p.memo}
          <5>1. kept \in SUBSET Promises
            BY <4>1
          <5>2. awaits' = [awaits EXCEPT ![r] = @ \cup kept]
            BY <2>3, <3>3 DEF Ask
          <5> HIDE DEF kept
          <5> QED
            BY <5>1, <5>2, <1>a DEF TypeOK
        <4> QED
          BY <2>3, <2>a, <3>2, <3>3, <4>2, <1>a DEF TypeInv, TypeOK, Ask, reqVars
      <3>4. CASE ~(v \in proxied /\ h \in memo[v])
        <4> DEFINE p == Call(v, r, h, v \in proxied)
        <4>1. di[v][h] \in Requests
          BY <2>3, <1>a DEF Ask, TypeOK
        <4>2. p \in Promises
          BY <3>1, <3>2, <4>1 DEF Call, Promises
        <4>3. Cross(r, p)
          BY <2>3, <3>4 DEF Ask
        <4>4. p.fn = h
          BY DEF Call
        <4> HIDE DEF p
        <4>5. awaits' \in [Requests -> SUBSET Promises] /\ calls' \in SUBSET Promises
          BY <3>1, <4>2, <4>3, <1>a DEF Cross, TypeOK
        <4>6. crossed' \in [Requests -> [Funcs -> Nat]]
          <5>1. crossed[r] \in [Funcs -> Nat] /\ crossed[r][h] \in Nat
            BY <3>1, <1>a DEF TypeOK
          <5> QED
            BY <3>1, <4>3, <4>4, <5>1, <1>a DEF Cross, TypeOK
        <4>7. memo' \in [VMs -> SUBSET Funcs]
          <5>1. memo' = IF v \in proxied THEN [memo EXCEPT ![v] = @ \cup {h}] ELSE memo
            BY <2>3, <3>4 DEF Ask
          <5>2. memo \in [VMs -> SUBSET Funcs]
            BY <1>a DEF TypeOK
          <5> QED
            BY <5>1, <5>2
        <4> QED
          BY <2>3, <2>a, <3>2, <4>5, <4>6, <4>7, <1>a DEF TypeInv, TypeOK, Ask, reqVars
      <3> QED
        BY <3>3, <3>4
    <2>4. ASSUME NEW r \in ready[v], NEW h \in Funcs, AskMissing(v, r, h) PROVE TypeInv'
      <3>1. r \in Requests
        BY <1>a DEF TypeOK
      <3>2. asks' \in [Requests -> 0..MaxAsks]
        BY <2>4, <3>1, <1>a, MaxAsksAssumption DEF AskMissing, TypeOK
      <3>3. /\ settled' \in SUBSET Requests
            /\ ready' \in [VMs -> SUBSET Requests]
            /\ awaits' \in [Requests -> SUBSET Promises]
        BY <2>4, <3>1, <1>a DEF AskMissing, TypeOK
      <3> QED
        BY <2>4, <2>a, <3>2, <3>3, <1>a DEF TypeInv, TypeOK, AskMissing, reqVars, vmVars
    <2>5. ASSUME NEW r \in ready[v], Await(v, r) PROVE TypeInv'
      <3>1. ready' \in [VMs -> SUBSET Requests]
        BY <2>5, <1>a DEF Await, TypeOK
      <3> QED
        BY <2>5, <2>a, <3>1, <1>a DEF TypeInv, TypeOK, Await, reqVars, vmVars, progVars
    <2>6. ASSUME NEW r \in ready[v], Settle(v, r) PROVE TypeInv'
      <3>1. ready' \in [VMs -> SUBSET Requests] /\ settled' \in SUBSET Requests
        BY <2>6, <1>a DEF Settle, TypeOK
      <3> QED
        BY <2>6, <2>a, <3>1, <1>a DEF TypeInv, TypeOK, Settle, reqVars, vmVars
    <2> QED
      BY <1>2, <2>1, <2>2, <2>3, <2>4, <2>5, <2>6 DEF Loop, Program
  <1>3. ASSUME NEW p \in calls, Answer(p) PROVE TypeInv'
    <2>1. aux' \in [VMs -> Seq(Promises)]
      <3>1. p \in Promises /\ \A v \in VMs : Append(aux[v], p) \in Seq(Promises)
        BY <1>a, AppendProperties DEF TypeOK
      <3> QED
        BY <1>3, <3>1, <1>a DEF Answer, TypeOK
    <2>2. calls' \in SUBSET Promises /\ Leased'
      BY <1>3, <1>a DEF Answer, TypeOK, reqVars, Leased
    <2> QED
      BY <1>3, <2>1, <2>2, <1>a DEF TypeInv, TypeOK, Answer, reqVars, vmVars
  <1>4. CASE UNCHANGED vars
    BY <1>4, <1>a DEF TypeInv, TypeOK, Leased, vars, reqVars, vmVars, progVars
  <1> QED
    BY <1>1, <1>2, <1>3, <1>4 DEF Next

\* Every variable of the engine and its requests keeps its type.
THEOREM TypeCorrect == Spec => []TypeOK
  <1>1. TypeInv => TypeOK
    BY DEF TypeInv
  <1> QED
    BY <1>1, TypeInit, TypeNext, PTL DEF Spec
-----------------------------------------------------------------------------
(* The two kinds of steps                                                  *)

\* Between Acquire and Put a request keeps its VM and moves itself alone; it
\* stops using the VM by clearing it.
LEMMA RequestStep ==
  ASSUME TypeOK, NEW r \in Requests, Request(r), ~Acquire(r), ~Put(r)
  PROVE  /\ Using(r) /\ Held(r)' /\ UNCHANGED <<vm, idle>>
         /\ \A s \in Requests : s # r => pc'[s] = pc[s]
         /\ Using(r)' \/ ClearState(r)
         /\ Started(r) => Started(r)'
  <1> USE DEF Using, Held, Started, TypeOK, Labels, Run
  <1>1. CASE Inject(r)
    BY <1>1 DEF Inject
  <1>2. CASE InjectFails(r)
    BY <1>2 DEF InjectFails
  <1>3. CASE Memoize(r)
    BY <1>3 DEF Memoize
  <1>4. CASE SetRequestContext(r)
    BY <1>4 DEF SetRequestContext
  <1>5. CASE Invoke(r)
    BY <1>5 DEF Invoke
  <1>6. CASE Poll(r)
    BY <1>6 DEF Poll
  <1>7. CASE PollAgain(r)
    BY <1>7 DEF PollAgain
  <1>8. CASE TimedOut(r)
    BY <1>8 DEF TimedOut
  <1>9. CASE ClearState(r)
    BY <1>9 DEF ClearState
  <1> QED
    BY <1>1, <1>2, <1>3, <1>4, <1>5, <1>6, <1>7, <1>8, <1>9 DEF Request

\* What runs on a VM leaves the requests and the bridges alone, and memoizes
\* only behind a Proxy.
Elsewhere == /\ UNCHANGED <<pc, vm, inj, idle, ctx, di, proxied>>
             /\ \A v \in VMs : memo[v] \subseteq memo'[v]
             /\ \A v \in VMs : memo'[v] # memo[v] => v \in proxied

LEMMA LoopStep ==
  ASSUME TypeOK, (\E v \in VMs : Loop(v)) \/ (\E p \in calls : Answer(p)) \/ UNCHANGED vars
  PROVE  Elsewhere
  <1> USE DEF Elsewhere, reqVars, vmVars
  <1>1. ASSUME NEW v \in VMs, Loop(v) PROVE Elsewhere
    <2>1. CASE RunJob(v)
      BY <2>1 DEF RunJob
    <2>2. CASE EndRun(v)
      BY <2>2 DEF EndRun
    <2>3. ASSUME NEW r \in ready[v], NEW h \in Funcs, Ask(v, r, h) PROVE Elsewhere
      <3>1. UNCHANGED <<pc, vm, inj, idle, ctx, di, proxied>>
        BY <2>3 DEF Ask
      <3>2. memo' = memo \/ (v \in proxied /\ memo' = [memo EXCEPT ![v] = @ \cup {h}])
        BY <2>3 DEF Ask
      <3>3. memo \in [VMs -> SUBSET Funcs]
        BY DEF TypeOK
      <3>4. /\ \A w \in VMs : memo[w] \subseteq memo'[w]
            /\ \A w \in VMs : memo'[w] # memo[w] => w \in proxied
        BY <3>2, <3>3
      <3> QED
        BY <3>1, <3>4
    <2>4. ASSUME NEW r \in ready[v], NEW h \in Funcs, AskMissing(v, r, h) PROVE Elsewhere
      BY <2>4 DEF AskMissing
    <2>5. ASSUME NEW r \in ready[v], Await(v, r) PROVE Elsewhere
      BY <2>5 DEF Await
    <2>6. ASSUME NEW r \in ready[v], Settle(v, r) PROVE Elsewhere
      BY <2>6 DEF Settle
    <2> QED
      BY <1>1, <2>1, <2>2, <2>3, <2>4, <2>5, <2>6 DEF Loop, Program
  <1>2. ASSUME NEW p \in calls, Answer(p) PROVE Elsewhere
    BY <1>2 DEF Answer
  <1>3. CASE UNCHANGED vars
    BY <1>3 DEF vars
  <1> QED
    BY <1>1, <1>2, <1>3

-----------------------------------------------------------------------------
(* Every VM is held by one request or in the pool                          *)

LEMMA CustodyNext == TypeInv /\ Custody /\ [Next]_vars => Custody'
  <1> SUFFICES ASSUME TypeInv, Custody, [Next]_vars PROVE Custody'
    OBVIOUS
  <1>a. TypeOK /\ Leased
    BY DEF TypeInv
  <1>1. ASSUME NEW r \in Requests, Request(r) PROVE Custody'
    <2>1. CASE Acquire(r)
      <3>1. PICK v \in idle : vm' = [vm EXCEPT ![r] = v] /\ idle' = idle \ {v}
        BY <2>1 DEF Acquire
      <3>2. \A s \in Requests : s # r => pc'[s] = pc[s] /\ vm'[s] = vm[s]
        BY <2>1, <3>1, <1>a DEF Acquire, TypeOK
      <3>3. vm'[r] = v
        BY <3>1, <1>a DEF TypeOK
      <3> QED
        BY <3>1, <3>2, <3>3 DEF Custody, Held
    <2>2. CASE Put(r)
      <3>1. Held(r) /\ ~Held(r)' /\ vm' = vm /\ idle' = idle \cup {vm[r]}
        BY <2>2, <1>a DEF Put, Held, TypeOK
      <3>2. \A s \in Requests : s # r => pc'[s] = pc[s]
        BY <2>2, <1>a DEF Put, TypeOK
      <3>3. \A s \in Requests : Held(s)' => s # r /\ Held(s)
        BY <3>1, <3>2 DEF Held
      <3> QED
        BY <3>1, <3>3 DEF Custody
    <2>3. CASE ~Acquire(r) /\ ~Put(r)
      <3>1. \A s \in Requests : Held(s)' => Held(s)
        BY <1>1, <2>3, <1>a, RequestStep DEF Using, Held
      <3>2. UNCHANGED <<vm, idle>>
        BY <1>1, <2>3, <1>a, RequestStep
      <3> QED
        BY <3>1, <3>2 DEF Custody
    <2> QED
      BY <2>1, <2>2, <2>3
  <1>2. CASE ~\E r \in Requests : Request(r)
    <2>1. Elsewhere
      BY <1>2, <1>a, LoopStep DEF Next
    <2> QED
      BY <2>1 DEF Elsewhere, Custody, Held
  <1> QED
    BY <1>1, <1>2

-----------------------------------------------------------------------------
(* What a VM carries                                                       *)

LEMMA BoundNext == TypeInv /\ Custody /\ Bound /\ [Next]_vars => Bound'
  <1> SUFFICES ASSUME TypeInv, Custody, Bound, [Next]_vars PROVE Bound'
    OBVIOUS
  <1>a. TypeOK /\ Leased
    BY DEF TypeInv
  <1> USE NoReqAssumption
  <1>1. ASSUME NEW r \in Requests, Request(r) PROVE Bound'
    <2>a. ASSUME \A v \in VMs : \A s \in Requests : InUse(v, s) => InUse(v, s)',
                 UNCHANGED vmVars,
                 \A s \in Requests : pc'[s] \in {"invoke", "poll", "check"} =>
                   pc[s] \in {"invoke", "poll", "check"} /\ vm'[s] = vm[s]
          PROVE  Bound'
      <3>1. proxied \subseteq VMs
        BY <1>a DEF TypeOK
      <3> QED
        BY <2>a, <3>1 DEF Bound, vmVars
    <2>1. CASE Acquire(r)
      <3>1. \A s \in Requests : s # r => pc'[s] = pc[s] /\ vm'[s] = vm[s]
        BY <2>1, <1>a DEF Acquire, TypeOK
      <3>2. pc[r] = "acquire" /\ pc'[r] \in {"context", "inject"} /\ UNCHANGED vmVars
        BY <2>1, <1>a DEF Acquire, TypeOK
      <3> QED
        BY <2>a, <3>1, <3>2 DEF InUse, Using
    <2>2. CASE Put(r)
      <3>1. \A s \in Requests : s # r => pc'[s] = pc[s]
        BY <2>2, <1>a DEF Put, TypeOK
      <3>2. pc[r] = "put" /\ pc'[r] = "done" /\ UNCHANGED vmVars /\ vm' = vm
        BY <2>2, <1>a DEF Put, TypeOK
      <3> QED
        BY <2>a, <3>1, <3>2 DEF InUse, Using
    <2>3. CASE ~Acquire(r) /\ ~Put(r)
      <3>a. /\ Using(r) /\ vm' = vm /\ vm[r] \in VMs
            /\ \A s \in Requests : s # r => pc'[s] = pc[s]
            /\ Using(r)' \/ ClearState(r)
        BY <1>1, <2>3, <1>a, RequestStep DEF Leased, Using
      <3>b. \A v \in VMs : \A s \in Requests : s # r => (InUse(v, s)' <=> InUse(v, s))
        BY <3>a DEF InUse, Using
      <3>c. Using(r)' => \A v \in VMs : \A s \in Requests : InUse(v, s)' <=> InUse(v, s)
        BY <3>a, <3>b DEF InUse
      <3>d. InUse(vm[r], r)
        BY <3>a DEF InUse
      <3>1. CASE Inject(r)
        <4>1. /\ Using(r)' /\ UNCHANGED <<ctx, proxied, memo>>
              /\ pc'[r] \notin {"invoke", "poll", "check"}
          BY <3>1, <1>a DEF Inject, Run, Using, TypeOK
        <4>2. \A h \in Funcs : di'[vm[r]][h] \in {r, NoReq}
          BY <3>1, <3>a, <1>a DEF Inject, TypeOK
        <4>3. \A v \in VMs : v # vm[r] => di'[v] = di[v]
          BY <3>1, <1>a DEF Inject, TypeOK
        <4>4. \A v \in VMs : \A s \in Requests : \A h \in Funcs : di'[v][h] = s => InUse(v, s)'
          BY <3>c, <3>d, <4>1, <4>2, <4>3 DEF Bound
        <4>5. proxied \subseteq VMs
          BY <1>a DEF TypeOK
        <4> QED
          BY <3>a, <3>c, <4>1, <4>4, <4>5 DEF Bound
      <3>2. CASE InjectFails(r)
        <4>1. Using(r)' /\ UNCHANGED vmVars /\ pc'[r] \notin {"invoke", "poll", "check"}
          BY <3>2, <1>a DEF InjectFails, Using, TypeOK
        <4> QED
          BY <2>a, <3>a, <3>c, <4>1
      <3>3. CASE Memoize(r)
        <4>1. /\ Using(r)' /\ UNCHANGED <<ctx, di, memo>> /\ proxied' = proxied \cup {vm[r]}
              /\ pc'[r] \notin {"invoke", "poll", "check"}
          BY <3>3, <1>a DEF Memoize, Run, Using, TypeOK
        <4>2. proxied \subseteq VMs
          BY <1>a DEF TypeOK
        <4>3. \A v \in proxied' : \E s \in Requests : InUse(v, s)'
          BY <3>a, <3>c, <3>d, <4>1, <4>2 DEF Bound
        <4> QED
          BY <3>a, <3>c, <4>1, <4>3 DEF Bound
      <3>4. CASE SetRequestContext(r)
        <4>1. /\ Using(r)' /\ UNCHANGED <<di, proxied, memo>>
              /\ ctx'[vm[r]] = r
              /\ \A v \in VMs : v # vm[r] => ctx'[v] = ctx[v]
          BY <3>4, <3>a, <1>a DEF SetRequestContext, Run, Using, TypeOK
        <4>2. \A v \in VMs : \A s \in Requests : ctx'[v] = s => InUse(v, s)'
          BY <3>c, <3>d, <4>1 DEF Bound
        <4>3. \A s \in Requests : pc'[s] \in {"invoke", "poll", "check"} => ctx'[vm'[s]] = s
          <5> SUFFICES ASSUME NEW s \in Requests, s # r, pc[s] \in {"invoke", "poll", "check"}
                       PROVE  ctx'[vm[s]] = s
            BY <3>a, <4>1
          <5>1. Held(s) /\ Held(r) /\ vm[s] \in VMs /\ ctx[vm[s]] = s
            BY <3>a, <1>a DEF Held, Using, Bound, Leased
          <5>2. vm[s] # vm[r]
            BY <5>1 DEF Custody
          <5> QED
            BY <4>1, <5>1, <5>2
        <4>4. proxied \subseteq VMs
          BY <1>a DEF TypeOK
        <4> QED
          BY <3>a, <3>c, <4>1, <4>2, <4>3, <4>4 DEF Bound
      <3>5. CASE Invoke(r) \/ Poll(r) \/ PollAgain(r) \/ TimedOut(r)
        <4>1. Using(r)' /\ UNCHANGED vmVars /\ pc[r] \in {"invoke", "poll", "check"}
          BY <3>5, <1>a DEF Invoke, Poll, PollAgain, TimedOut, Run, Using, TypeOK
        <4> QED
          BY <2>a, <3>a, <3>c, <4>1
      <3>6. CASE ClearState(r)
        <4>1. /\ ctx'[vm[r]] = NoReq /\ di'[vm[r]] = NoBridge /\ memo'[vm[r]] = {}
              /\ proxied' = proxied \ {vm[r]}
              /\ \A v \in VMs : v # vm[r] =>
                   ctx'[v] = ctx[v] /\ di'[v] = di[v] /\ memo'[v] = memo[v]
              /\ pc'[r] = "put"
          BY <3>6, <3>a, <1>a DEF ClearState, Run, TypeOK
        <4>2. \A v \in VMs : v # vm[r] =>
                \A s \in Requests : InUse(v, s)' <=> InUse(v, s)
          BY <3>a, <3>b DEF InUse
        <4>3. \A v \in VMs : \A s \in Requests : ctx'[v] = s => InUse(v, s)'
          BY <4>1, <4>2 DEF Bound
        <4>4. \A v \in VMs : \A s \in Requests : \A h \in Funcs : di'[v][h] = s => InUse(v, s)'
          BY <4>1, <4>2 DEF Bound, NoBridge
        <4>5. \A v \in proxied' : \E s \in Requests : InUse(v, s)'
          <5>1. proxied \subseteq VMs
            BY <1>a DEF TypeOK
          <5> QED
            BY <4>1, <4>2, <5>1 DEF Bound
        <4>6. \A v \in VMs : memo'[v] # {} => v \in proxied'
          BY <4>1 DEF Bound
        <4>7. \A s \in Requests : pc'[s] \in {"invoke", "poll", "check"} => ctx'[vm'[s]] = s
          <5> SUFFICES ASSUME NEW s \in Requests, s # r, pc[s] \in {"invoke", "poll", "check"}
                       PROVE  ctx'[vm[s]] = s
            BY <3>a, <4>1
          <5>1. Held(s) /\ Held(r) /\ vm[s] \in VMs /\ ctx[vm[s]] = s
            BY <3>a, <1>a DEF Held, Using, Bound, Leased
          <5>2. vm[s] # vm[r]
            BY <5>1 DEF Custody
          <5> QED
            BY <4>1, <5>1, <5>2
        <4> QED
          BY <4>3, <4>4, <4>5, <4>6, <4>7 DEF Bound
      <3> QED
        BY <1>1, <2>3, <3>1, <3>2, <3>3, <3>4, <3>5, <3>6 DEF Request
    <2> QED
      BY <2>1, <2>2, <2>3
  <1>2. CASE ~\E r \in Requests : Request(r)
    <2>1. Elsewhere
      BY <1>2, <1>a, LoopStep DEF Next
    <2>2. \A v \in VMs : \A s \in Requests : InUse(v, s)' <=> InUse(v, s)
      BY <2>1 DEF Elsewhere, InUse, Using
    <2>3. proxied \subseteq VMs
      BY <1>a DEF TypeOK
    <2> QED
      BY <2>1, <2>2, <2>3 DEF Elsewhere, Bound
  <1> QED
    BY <1>1, <1>2
-----------------------------------------------------------------------------
(* Where programs run and promises live                                    *)

\* Nothing that was begun is disturbed when requests move and programs do not.
LEMMA AtHomeMoves ==
  ASSUME TypeOK, AtHome,
         UNCHANGED <<calls, aux, awaits, settled, crossed>>,
         \A s \in Requests : Started(s) => Started(s)',
         \A s \in Requests : pc[s] # "acquire" => pc'[s] # "acquire" /\ vm'[s] = vm[s],
         \A v \in VMs : \A s \in ready'[v] : Started(s)' /\ vm'[s] = v
  PROVE  AtHome'
  <1>1. \A p \in Promises : p.by \in Requests /\ p.as \in Requests
    BY DEF Promises
  <1>2. \A s \in Requests : Started(s) => pc[s] # "acquire"
    BY DEF Started
  <1>3. \A p \in Promises : Local(p) => Local(p)' /\ vm'[p.by] = vm[p.by]
    BY <1>1, <1>2 DEF Local
  <1>4. \A s \in Requests : ~Started(s)' => NotBegun(s)'
    BY DEF AtHome, NotBegun, Quiet
  <1>5. \A p \in calls' : Local(p)'
    BY <1>3 DEF AtHome, TypeOK
  <1>6. ASSUME NEW v \in VMs, NEW i \in 1..Len(aux'[v])
        PROVE  (Local(aux[v][i]) /\ vm[aux[v][i].by] = v)'
    <2>1. aux[v] \in Seq(Promises) /\ i \in 1..Len(aux[v])
      BY DEF TypeOK
    <2>2. aux[v][i] \in Promises
      BY <2>1, ElementOfSeq
    <2>3. Local(aux[v][i]) /\ vm[aux[v][i].by] = v
      BY <2>1 DEF AtHome
    <2> QED
      BY <1>3, <2>2, <2>3
  <1>7. ASSUME NEW s \in Requests, NEW p \in awaits'[s]
        PROVE  Local(p)' /\ vm'[p.by] = vm'[s]
    <2>1. p \in Promises /\ p \in awaits[s]
      BY DEF TypeOK
    <2>2. Local(p) /\ vm[p.by] = vm[s]
      BY <2>1 DEF AtHome
    <2>3. Started(s)
      BY <2>1 DEF AtHome, NotBegun, Quiet
    <2> QED
      BY <1>2, <1>3, <2>1, <2>2, <2>3
  <1>8. \A v \in VMs : \A s \in ready'[v] : vm'[s] = v
    OBVIOUS
  <1> QED
    BY <1>4, <1>5, <1>6, <1>7, <1>8 DEF AtHome

\* A program that has the thread of v has been started, on v.
LEMMA ReadyStarted ==
  ASSUME TypeOK, AtHome, NEW v \in VMs, NEW r \in ready[v]
  PROVE  r \in Requests /\ Started(r) /\ vm[r] = v
  BY DEF TypeOK, AtHome, NotBegun, Quiet

\* A step of what runs on a VM moves no request.
LEMMA LocalElsewhere ==
  ASSUME UNCHANGED <<pc, vm>>
  PROVE  /\ \A p : Local(p)' <=> Local(p)
         /\ \A s \in Requests : Started(s)' <=> Started(s)
  BY DEF Local, Started

LEMMA AtHomeRequest ==
  ASSUME TypeInv, AtHome, NEW r \in Requests, Request(r)
  PROVE  AtHome'
  <1>a. TypeOK /\ Leased
    BY DEF TypeInv
  <1>b. \A v \in VMs : \A s \in ready[v] : s \in Requests /\ Started(s) /\ vm[s] = v
    BY <1>a, ReadyStarted
  <1>1. CASE Acquire(r)
    <2>1. pc[r] = "acquire" /\ \A s \in Requests : s # r => pc'[s] = pc[s] /\ vm'[s] = vm[s]
      BY <1>1, <1>a DEF Acquire, TypeOK
    <2>2. UNCHANGED <<calls, aux, awaits, settled, crossed, ready>>
      BY <1>1 DEF Acquire, progVars
    <2>3. \A s \in Requests : Started(s) => Started(s)'
      BY <2>1 DEF Started
    <2>4. \A v \in VMs : \A s \in ready'[v] : Started(s)' /\ vm'[s] = v
      BY <1>b, <2>1, <2>2 DEF Started
    <2> QED
      BY <1>a, <2>1, <2>2, <2>3, <2>4, AtHomeMoves
  <1>2. CASE Put(r)
    <2>1. pc[r] = "put" /\ pc'[r] = "done" /\ vm' = vm
            /\ \A s \in Requests : s # r => pc'[s] = pc[s]
      BY <1>2, <1>a DEF Put, TypeOK
    <2>2. UNCHANGED <<calls, aux, awaits, settled, crossed, ready>>
      BY <1>2 DEF Put, progVars
    <2>3. \A s \in Requests : Started(s) => Started(s)'
      BY <2>1 DEF Started
    <2>4. \A v \in VMs : \A s \in ready'[v] : Started(s)' /\ vm'[s] = v
      BY <1>b, <2>1, <2>2, <2>3
    <2> QED
      BY <1>a, <2>1, <2>2, <2>3, <2>4, AtHomeMoves
  <1>3. CASE ~Acquire(r) /\ ~Put(r)
    <2>1. /\ vm' = vm /\ Held(r)'
          /\ Started(r) => Started(r)'
          /\ \A s \in Requests : s # r => pc'[s] = pc[s]
      BY <1>3, <1>a, RequestStep
    <2>2. UNCHANGED <<calls, aux, awaits, settled, crossed>>
      BY <1>3 DEF Request, Inject, InjectFails, Memoize, SetRequestContext, Invoke, Poll,
                  PollAgain, TimedOut, ClearState, progVars
    <2>3. \A s \in Requests : Started(s) => Started(s)'
      BY <2>1 DEF Started
    <2>4. \A s \in Requests : pc[s] # "acquire" => pc'[s] # "acquire" /\ vm'[s] = vm[s]
      BY <2>1 DEF Held
    <2>5. CASE Invoke(r)
      <3>1. ready' = [ready EXCEPT ![vm[r]] = {r}] /\ Started(r)'
        BY <2>5, <1>a DEF Invoke, Run, Started, TypeOK
      <3>2. \A v \in VMs : \A s \in ready'[v] : Started(s)' /\ vm'[s] = v
        BY <1>a, <1>b, <2>1, <2>3, <3>1 DEF TypeOK
      <3> QED
        BY <1>a, <2>2, <2>3, <2>4, <3>2, AtHomeMoves
    <2>6. CASE ~Invoke(r)
      <3>1. ready' = ready
        BY <1>3, <2>6 DEF Request, Inject, InjectFails, Memoize, SetRequestContext, Poll,
                          PollAgain, TimedOut, ClearState
      <3>2. \A v \in VMs : \A s \in ready'[v] : Started(s)' /\ vm'[s] = v
        BY <1>b, <2>1, <2>3, <3>1
      <3> QED
        BY <1>a, <2>2, <2>3, <2>4, <3>2, AtHomeMoves
    <2> QED
      BY <2>5, <2>6
  <1> QED
    BY <1>1, <1>2, <1>3

LEMMA AtHomeRunJob ==
  ASSUME TypeInv, AtHome, NEW v \in VMs, RunJob(v)
  PROVE  AtHome'
  <1>a. TypeOK
    BY DEF TypeInv
  <1> DEFINE p == Head(aux[v])
             W == {r \in Requests : p \in awaits[r]}
  <1>1. /\ ready' = [ready EXCEPT ![v] = W]
        /\ awaits' = [r \in Requests |-> awaits[r] \ {p}]
        /\ aux' = [aux EXCEPT ![v] = Tail(@)]
        /\ UNCHANGED <<pc, vm, calls, settled, crossed>>
        /\ aux[v] \in Seq(Promises) /\ aux[v] # <<>>
    BY <1>a DEF RunJob, reqVars, TypeOK
  <1>2. /\ Tail(aux[v]) \in Seq(Promises)
        /\ Len(Tail(aux[v])) = Len(aux[v]) - 1
        /\ \A i \in 1..Len(Tail(aux[v])) : Tail(aux[v])[i] = aux[v][i + 1]
        /\ Len(aux[v]) \in Nat /\ Len(aux[v]) > 0
    BY <1>1, HeadTailProperties, LenProperties, EmptySeq
  <1>3. Local(p) /\ vm[p.by] = v
    <2>1. 1 \in 1..Len(aux[v]) /\ p = aux[v][1]
      BY <1>1, <1>2
    <2> QED
      BY <2>1 DEF AtHome
  <1> HIDE DEF p
  <1>4. \A r \in W : Started(r) /\ vm[r] = v
    BY <1>3 DEF AtHome, NotBegun, Quiet
  <1>5. \A s \in Requests : ~Started(s)' => NotBegun(s)'
    <2> SUFFICES ASSUME NEW s \in Requests, ~Started(s) PROVE NotBegun(s)'
      BY <1>1, LocalElsewhere
    <2>1. NotBegun(s) /\ s \notin W
      BY <1>4 DEF AtHome
    <2>2. awaits'[s] = {}
      BY <1>1, <2>1 DEF NotBegun, Quiet
    <2>3. \A w \in VMs : s \notin ready'[w]
      BY <1>1, <1>a, <2>1 DEF NotBegun, Quiet, TypeOK
    <2> QED
      BY <1>1, <2>1, <2>2, <2>3 DEF NotBegun, Quiet
  <1>6. \A w \in VMs : \A s \in ready'[w] : vm'[s] = w
    BY <1>1, <1>4, <1>a DEF AtHome, TypeOK
  <1>7. \A q \in calls' : Local(q)'
    BY <1>1, LocalElsewhere DEF AtHome
  <1>8. ASSUME NEW w \in VMs, NEW i \in 1..Len(aux'[w])
        PROVE  (Local(aux[w][i]) /\ vm[aux[w][i].by] = w)'
    <2>1. PICK j \in 1..Len(aux[w]) : aux'[w][i] = aux[w][j]
      <3>1. CASE w = v
        <4>1. aux'[w] = Tail(aux[v])
          BY <3>1, <1>1, <1>a DEF TypeOK
        <4>2. i + 1 \in 1..Len(aux[v]) /\ aux'[w][i] = aux[v][i + 1]
          BY <4>1, <1>2
        <4> QED
          BY <3>1, <4>2
      <3>2. CASE w # v
        BY <3>2, <1>1, <1>a DEF TypeOK
      <3> QED
        BY <3>1, <3>2
    <2>2. Local(aux[w][j]) /\ vm[aux[w][j].by] = w
      BY DEF AtHome
    <2> QED
      BY <1>1, <2>1, <2>2, LocalElsewhere
  <1>9. \A s \in Requests : \A q \in awaits'[s] : Local(q)' /\ vm'[q.by] = vm'[s]
    BY <1>1, LocalElsewhere DEF AtHome
  <1> QED
    BY <1>5, <1>6, <1>7, <1>8, <1>9 DEF AtHome

\* A step of program r on v: only r awaits more, only new promises of r appear.
LEMMA AtHomeProgram ==
  ASSUME TypeOK, AtHome, NEW v \in VMs, NEW r \in ready[v],
         UNCHANGED <<pc, vm, aux>>,
         \A w \in VMs : ready'[w] \subseteq ready[w],
         \A s \in Requests : s # r => awaits'[s] = awaits[s] /\ crossed'[s] = crossed[s],
         settled' \subseteq settled \cup {r},
         \A p \in calls' : p \in calls \/ Local(p),
         \A p \in awaits'[r] : p \in awaits[r] \/ (Local(p) /\ vm[p.by] = vm[r])
  PROVE  AtHome'
  <1>a. r \in Requests /\ Started(r)
    BY ReadyStarted
  <1>1. \A s \in Requests : ~Started(s)' => NotBegun(s)'
    BY <1>a, LocalElsewhere DEF AtHome, NotBegun, Quiet
  <1>2. \A w \in VMs : \A s \in ready'[w] : vm'[s] = w
    BY DEF AtHome
  <1>3. \A q \in calls' : Local(q)'
    BY LocalElsewhere DEF AtHome
  <1>4. \A w \in VMs : \A i \in 1..Len(aux'[w]) :
          (Local(aux[w][i]) /\ vm[aux[w][i].by] = w)'
    BY LocalElsewhere DEF AtHome
  <1>5. \A s \in Requests : \A q \in awaits'[s] : Local(q)' /\ vm'[q.by] = vm'[s]
    BY LocalElsewhere DEF AtHome
  <1> QED
    BY <1>1, <1>2, <1>3, <1>4, <1>5 DEF AtHome
\* Who a function is bound to is using the VM.
LEMMA AskBound ==
  ASSUME TypeInv, Bound, NEW v \in VMs, NEW h \in Funcs, di[v][h] # NoReq
  PROVE  di[v][h] \in Requests /\ Using(di[v][h]) /\ vm[di[v][h]] = v
  <1>1. di[v][h] \in Requests
    BY DEF TypeInv, TypeOK
  <1> QED
    BY <1>1 DEF Bound, InUse

LEMMA AtHomeAsk ==
  ASSUME TypeInv, Bound, AtHome, NEW v \in VMs, NEW r \in ready[v], NEW h \in Funcs,
         Ask(v, r, h)
  PROVE  AtHome'
  <1>a. TypeOK
    BY DEF TypeInv
  <1>b. r \in Requests /\ Started(r) /\ vm[r] = v
    BY <1>a, ReadyStarted
  <1> DEFINE s == di[v][h]
  <1>c. s \in Requests /\ Using(s) /\ vm[s] = v
    BY AskBound DEF Ask
  <1> HIDE DEF s
  <1>1. UNCHANGED <<pc, vm, aux, ready, settled>>
    BY DEF Ask, reqVars
  <1>2. CASE v \in proxied /\ h \in memo[v]
    <2> DEFINE kept == {p \in Pending : p.fn = h /\ p.as = s /\ p.memo}
    <2>1. awaits' = [awaits EXCEPT ![r] = @ \cup kept] /\ UNCHANGED <<calls, crossed>>
      BY <1>2 DEF Ask, s
    <2>2. ASSUME NEW p \in kept PROVE Local(p) /\ vm[p.by] = vm[r]
      <3>1. Local(p)
        BY DEF Pending, AtHome
      <3> QED
        BY <1>b, <1>c, <3>1 DEF Local
    <2> HIDE DEF kept
    <2>3. awaits'[r] = awaits[r] \cup kept /\ \A q \in Requests : q # r => awaits'[q] = awaits[q]
      BY <1>a, <1>b, <2>1 DEF TypeOK
    <2> QED
      BY <1>a, <1>1, <2>1, <2>2, <2>3, AtHomeProgram
  <1>3. CASE ~(v \in proxied /\ h \in memo[v])
    <2> DEFINE p == Call(v, r, h, v \in proxied)
    <2>1. Cross(r, p)
      BY <1>3 DEF Ask
    <2>2. p.by = r /\ p.as = s
      BY DEF Call, s
    <2> HIDE DEF p
    <2>3. Local(p) /\ vm[p.by] = vm[r]
      BY <1>b, <1>c, <2>2 DEF Local, Using
    <2>4. /\ awaits'[r] = awaits[r] \cup {p}
          /\ \A q \in Requests : q # r => awaits'[q] = awaits[q]
          /\ calls' = calls \cup {p}
      BY <1>a, <1>b, <2>1 DEF Cross, TypeOK
    <2>5. \A q \in Requests : q # r => crossed'[q] = crossed[q]
      BY <1>a, <1>b, <2>1 DEF Cross, TypeOK
    <2> QED
      BY <1>a, <1>1, <2>3, <2>4, <2>5, AtHomeProgram
  <1> QED
    BY <1>2, <1>3

LEMMA AtHomeAnswer ==
  ASSUME TypeInv, AtHome, NEW q \in calls, Answer(q)
  PROVE  AtHome'
  <1>a. TypeOK
    BY DEF TypeInv
  <1>b. q \in Promises /\ Local(q)
    BY <1>a DEF TypeOK, AtHome
  <1>1. /\ UNCHANGED <<pc, vm, ready, awaits, settled, crossed>>
        /\ calls' = calls \ {q}
        /\ aux' = [aux EXCEPT ![vm[q.by]] = Append(@, q)]
    BY DEF Answer, reqVars
  <1>2. \A s \in Requests : ~Started(s)' => NotBegun(s)'
    BY <1>1, LocalElsewhere DEF AtHome, NotBegun, Quiet
  <1>3. \A w \in VMs : \A s \in ready'[w] : vm'[s] = w
    BY <1>1 DEF AtHome
  <1>4. \A p \in calls' : Local(p)'
    BY <1>1, LocalElsewhere DEF AtHome
  <1>5. ASSUME NEW w \in VMs, NEW i \in 1..Len(aux'[w])
        PROVE  (Local(aux[w][i]) /\ vm[aux[w][i].by] = w)'
    <2>0. aux[w] \in Seq(Promises) /\ Len(aux[w]) \in Nat
      BY <1>a, LenProperties DEF TypeOK
    <2>1. CASE w = vm[q.by]
      <3>1. aux'[w] = Append(aux[w], q)
        BY <1>1, <1>a, <2>1 DEF TypeOK
      <3>2. /\ Len(aux'[w]) = Len(aux[w]) + 1
            /\ \A j \in 1..Len(aux[w]) : aux'[w][j] = aux[w][j]
            /\ aux'[w][Len(aux[w]) + 1] = q
        BY <1>b, <2>0, <3>1, AppendProperties
      <3>3. CASE i \in 1..Len(aux[w])
        <4>1. Local(aux[w][i]) /\ vm[aux[w][i].by] = w
          BY <3>3 DEF AtHome
        <4> QED
          BY <1>1, <3>2, <3>3, <4>1, LocalElsewhere
      <3>4. CASE i = Len(aux[w]) + 1
        BY <1>1, <1>b, <2>1, <3>2, <3>4, LocalElsewhere
      <3>5. i \in 1..Len(aux[w]) \/ i = Len(aux[w]) + 1
        BY <2>0, <3>2
      <3> QED
        BY <3>3, <3>4, <3>5
    <2>2. CASE w # vm[q.by]
      <3>1. aux'[w] = aux[w]
        BY <1>1, <1>a, <2>2 DEF TypeOK
      <3>2. Local(aux[w][i]) /\ vm[aux[w][i].by] = w
        BY <3>1 DEF AtHome
      <3> QED
        BY <1>1, <3>1, <3>2, LocalElsewhere
    <2> QED
      BY <2>1, <2>2
  <1>6. \A s \in Requests : \A p \in awaits'[s] : Local(p)' /\ vm'[p.by] = vm'[s]
    BY <1>1, LocalElsewhere DEF AtHome
  <1> QED
    BY <1>2, <1>3, <1>4, <1>5, <1>6 DEF AtHome

LEMMA AtHomeNext == TypeInv /\ Bound /\ AtHome /\ [Next]_vars => AtHome'
  <1> SUFFICES ASSUME TypeInv, Bound, AtHome, [Next]_vars PROVE AtHome'
    OBVIOUS
  <1>a. TypeOK
    BY DEF TypeInv
  <1>1. ASSUME NEW r \in Requests, Request(r) PROVE AtHome'
    BY <1>1, AtHomeRequest
  <1>2. ASSUME NEW v \in VMs, Loop(v) PROVE AtHome'
    <2>1. CASE RunJob(v)
      BY <2>1, AtHomeRunJob
    <2>2. CASE EndRun(v)
      <3>1. UNCHANGED <<pc, vm, aux, ready, calls, awaits, settled, crossed>>
        BY <2>2 DEF EndRun, reqVars, progVars
      <3> QED
        BY <3>1, <1>a, LocalElsewhere DEF AtHome, NotBegun, Quiet
    <2>3. ASSUME NEW r \in ready[v], NEW h \in Funcs, Ask(v, r, h) PROVE AtHome'
      BY <2>3, AtHomeAsk
    <2>4. ASSUME NEW r \in ready[v], NEW h \in Funcs, AskMissing(v, r, h) PROVE AtHome'
      <3>1. /\ UNCHANGED <<pc, vm, aux, calls, crossed>>
            /\ settled' = settled \cup {r}
            /\ ready' = [ready EXCEPT ![v] = @ \ {r}]
            /\ awaits' = IF r \in Early THEN awaits ELSE [awaits EXCEPT ![r] = {}]
        BY <2>4 DEF AskMissing, reqVars
      <3>2. \A w \in VMs : ready'[w] \subseteq ready[w]
        BY <3>1, <1>a DEF TypeOK
      <3>3. /\ awaits'[r] \subseteq awaits[r]
            /\ \A s \in Requests : s # r => awaits'[s] = awaits[s]
        BY <3>1, <1>a DEF TypeOK
      <3> QED
        BY <1>a, <3>1, <3>2, <3>3, AtHomeProgram
    <2>5. ASSUME NEW r \in ready[v], Await(v, r) \/ Settle(v, r) PROVE AtHome'
      <3>1. /\ UNCHANGED <<pc, vm, aux, calls, awaits, crossed>>
            /\ settled' \subseteq settled \cup {r}
            /\ ready' = [ready EXCEPT ![v] = @ \ {r}]
        BY <2>5 DEF Await, Settle, reqVars, progVars
      <3>2. \A w \in VMs : ready'[w] \subseteq ready[w]
        BY <3>1, <1>a DEF TypeOK
      <3> QED
        BY <1>a, <3>1, <3>2, AtHomeProgram
    <2> QED
      BY <1>2, <2>1, <2>2, <2>3, <2>4, <2>5 DEF Loop, Program
  <1>3. ASSUME NEW p \in calls, Answer(p) PROVE AtHome'
    BY <1>3, AtHomeAnswer
  <1>4. CASE UNCHANGED vars
    BY <1>4, <1>a, LocalElsewhere
    DEF vars, reqVars, progVars, AtHome, NotBegun, Quiet
  <1> QED
    BY <1>1, <1>2, <1>3, <1>4 DEF Next
-----------------------------------------------------------------------------
(* A program that awaits what it calls ends before its request goes on     *)

LEMMA FinishedRequest ==
  ASSUME TypeInv, AtHome, Finished, NEW r \in Requests, Request(r)
  PROVE  Finished'
  <1>a. TypeOK
    BY DEF TypeInv
  <1>1. UNCHANGED <<awaits, settled>>
    BY DEF Request, Acquire, Put, Inject, InjectFails, Memoize, SetRequestContext, Invoke,
           Poll, PollAgain, TimedOut, ClearState, progVars
  <1>2. \A s \in Requests : s # r => pc'[s] = pc[s]
    BY <1>a DEF Request, Acquire, Put, Inject, InjectFails, Memoize, SetRequestContext,
                Invoke, Poll, PollAgain, TimedOut, ClearState, Run, TypeOK
  <1>3. ASSUME NEW s \in Requests, Quiet(s), s # r \/ ~Invoke(r) PROVE Quiet(s)'
    <2>1. CASE Invoke(r)
      <3>1. \A w \in VMs : ready'[w] \subseteq ready[w] \cup {r}
        BY <2>1, <1>a DEF Invoke, TypeOK
      <3> QED
        BY <2>1, <1>1, <1>3, <3>1 DEF Quiet
    <2>2. CASE ~Invoke(r)
      <3>1. ready' = ready
        BY <2>2 DEF Request, Acquire, Put, Inject, InjectFails, Memoize, SetRequestContext,
                    Poll, PollAgain, TimedOut, ClearState
      <3> QED
        BY <1>1, <1>3, <3>1 DEF Quiet
    <2> QED
      BY <2>1, <2>2
  <1>4. ASSUME NEW s \in Requests \ Early, Over(s)' PROVE Quiet(s)'
    <2>1. CASE s # r
      <3>1. Over(s)
        BY <1>1, <1>2, <1>4, <2>1 DEF Over
      <3> QED
        BY <1>3, <2>1, <3>1 DEF Finished
    <2>2. CASE s = r
      <3>1. CASE Over(r)
        <4>1. ~Invoke(r)
          BY <3>1, <1>a DEF Invoke, Run, Over, AtHome, Started, NotBegun
        <4> QED
          BY <1>3, <2>2, <3>1, <4>1 DEF Finished
      <3>2. CASE ~Over(r)
        <4>1. r \notin settled /\ r \notin Hanging /\ pc'[r] \in {"release", "put", "done"}
                /\ pc[r] \notin {"release", "put", "done"}
          BY <1>1, <1>4, <2>2, <3>2 DEF Over
        <4>2. InjectFails(r)
          BY <4>1, <1>a DEF Request, Acquire, Put, Inject, Memoize, SetRequestContext,
                            Invoke, Poll, PollAgain, TimedOut, ClearState, Run, TypeOK
        <4>3. ~Started(r) /\ ~Invoke(r)
          BY <4>2 DEF InjectFails, Invoke, Run, Started
        <4> QED
          BY <1>3, <2>2, <4>3 DEF AtHome, NotBegun
      <3> QED
        BY <3>1, <3>2
    <2> QED
      BY <2>1, <2>2
  <1> QED
    BY <1>4 DEF Finished

\* A step of program r on v leaves the programs that are over alone, and r
\* itself settles only with nothing left to await.
LEMMA FinishedProgram ==
  ASSUME TypeInv, AtHome, Finished, NEW v \in VMs, NEW r \in ready[v],
         UNCHANGED pc,
         \A w \in VMs : ready'[w] \subseteq ready[w],
         \A s \in Requests : s # r => awaits'[s] = awaits[s],
         \/ UNCHANGED settled
         \/ /\ settled' = settled \cup {r}
            /\ r \notin ready'[v]
            /\ r \in Early \/ awaits'[r] = {}
  PROVE  Finished'
  <1>a. r \in Requests /\ vm[r] = v
    BY ReadyStarted DEF TypeInv
  <1>1. ASSUME NEW s \in Requests \ Early, Over(s)' PROVE Quiet(s)'
    <2>1. CASE s # r
      <3>1. Over(s)
        BY <1>1, <2>1 DEF Over
      <3> QED
        BY <2>1, <3>1 DEF Finished, Quiet
    <2>2. CASE s = r
      <3>1. ~Over(r)
        BY <2>2 DEF Finished, Quiet
      <3>2. settled' # settled
        BY <1>1, <2>2, <3>1 DEF Over
      <3>3. \A w \in VMs : r \notin ready'[w]
        BY <1>a, <3>2 DEF AtHome
      <3> QED
        BY <2>2, <3>2, <3>3 DEF Quiet
    <2> QED
      BY <2>1, <2>2
  <1> QED
    BY <1>1 DEF Finished

LEMMA FinishedNext == TypeInv /\ AtHome /\ Finished /\ [Next]_vars => Finished'
  <1> SUFFICES ASSUME TypeInv, AtHome, Finished, [Next]_vars PROVE Finished'
    OBVIOUS
  <1>a. TypeOK
    BY DEF TypeInv
  <1>1. ASSUME NEW r \in Requests, Request(r) PROVE Finished'
    BY <1>1, FinishedRequest
  <1>2. ASSUME NEW v \in VMs, Loop(v) PROVE Finished'
    <2>1. CASE RunJob(v)
      <3>1. ASSUME NEW s \in Requests, Quiet(s) PROVE Quiet(s)'
        BY <2>1, <3>1, <1>a DEF RunJob, Quiet, TypeOK
      <3>2. UNCHANGED <<pc, settled>>
        BY <2>1 DEF RunJob, reqVars
      <3> QED
        BY <3>1, <3>2 DEF Finished, Over
    <2>2. CASE EndRun(v)
      BY <2>2 DEF EndRun, reqVars, progVars, Finished, Over, Quiet
    <2>3. ASSUME NEW r \in ready[v], NEW h \in Funcs, Ask(v, r, h) PROVE Finished'
      <3>1. UNCHANGED <<pc, ready, settled>>
        BY <2>3 DEF Ask, reqVars
      <3>2. \A s \in Requests : s # r => awaits'[s] = awaits[s]
        BY <2>3, <1>a DEF Ask, Cross, TypeOK
      <3> QED
        BY <3>1, <3>2, FinishedProgram
    <2>4. ASSUME NEW r \in ready[v], NEW h \in Funcs, AskMissing(v, r, h) PROVE Finished'
      <3>1. /\ UNCHANGED pc
            /\ settled' = settled \cup {r}
            /\ ready' = [ready EXCEPT ![v] = @ \ {r}]
            /\ awaits' = IF r \in Early THEN awaits ELSE [awaits EXCEPT ![r] = {}]
        BY <2>4 DEF AskMissing, reqVars
      <3>2. (\A w \in VMs : ready'[w] \subseteq ready[w]) /\ r \notin ready'[v]
        BY <3>1, <1>a DEF TypeOK
      <3>3. /\ r \in Early \/ awaits'[r] = {}
            /\ \A s \in Requests : s # r => awaits'[s] = awaits[s]
        BY <3>1, <1>a DEF TypeOK
      <3> QED
        BY <3>1, <3>2, <3>3, FinishedProgram
    <2>5. ASSUME NEW r \in ready[v], Await(v, r) PROVE Finished'
      <3>1. UNCHANGED <<pc, settled, awaits>> /\ ready' = [ready EXCEPT ![v] = @ \ {r}]
        BY <2>5 DEF Await, reqVars, progVars
      <3>2. \A w \in VMs : ready'[w] \subseteq ready[w]
        BY <3>1, <1>a DEF TypeOK
      <3> QED
        BY <3>1, <3>2, FinishedProgram
    <2>6. ASSUME NEW r \in ready[v], Settle(v, r) PROVE Finished'
      <3>1. /\ UNCHANGED <<pc, awaits>>
            /\ settled' = settled \cup {r}
            /\ ready' = [ready EXCEPT ![v] = @ \ {r}]
            /\ r \in Early \/ awaits[r] = {}
        BY <2>6 DEF Settle, reqVars
      <3>2. (\A w \in VMs : ready'[w] \subseteq ready[w]) /\ r \notin ready'[v]
        BY <3>1, <1>a DEF TypeOK
      <3> QED
        BY <3>1, <3>2, FinishedProgram
    <2> QED
      BY <1>2, <2>1, <2>2, <2>3, <2>4, <2>5, <2>6 DEF Loop, Program
  <1>3. ASSUME NEW p \in calls, Answer(p) PROVE Finished'
    BY <1>3 DEF Answer, reqVars, Finished, Over, Quiet
  <1>4. CASE UNCHANGED vars
    BY <1>4 DEF vars, reqVars, progVars, Finished, Over, Quiet
  <1> QED
    BY <1>1, <1>2, <1>3, <1>4 DEF Next
-----------------------------------------------------------------------------
(* A memoized call reaches Go once                                         *)

\* Memoized, for one request and one function.
Kept(r, h) == /\ Using(r) /\ pc[r] # "memo" /\ di[vm[r]][h] = r => vm[r] \in proxied
              /\ crossed[r][h] <= 1
              /\ crossed[r][h] # 0 /\ pc[r] \in {"poll", "check", "release"}
                   => h \in memo[vm[r]]

\* A step of a request leaves the VMs of the others alone.
LEMMA KeptOthers ==
  ASSUME TypeInv, Custody, NEW r \in Requests, Request(r), NEW s \in Requests, s # r,
         NEW h \in Funcs, Kept(s, h)
  PROVE  Kept(s, h)'
  <1>a. TypeOK /\ Leased
    BY DEF TypeInv
  <1>1. UNCHANGED crossed
    BY DEF Request, Acquire, Put, Inject, InjectFails, Memoize, SetRequestContext, Invoke,
           Poll, PollAgain, TimedOut, ClearState, progVars
  <1>2. CASE Acquire(r) \/ Put(r)
    <2>1. pc'[s] = pc[s] /\ vm'[s] = vm[s] /\ UNCHANGED vmVars
      BY <1>2, <1>a DEF Acquire, Put, TypeOK
    <2> QED
      BY <1>1, <2>1 DEF Kept, Using, vmVars
  <1>3. CASE ~Acquire(r) /\ ~Put(r)
    <2>1. Using(r) /\ vm' = vm /\ pc'[s] = pc[s]
      BY <1>3, <1>a, RequestStep
    <2>2. CASE Using(s)
      <3>1. vm[s] # vm[r] /\ vm[s] \in VMs /\ vm[r] \in VMs
        BY <1>a, <2>1, <2>2 DEF Custody, Held, Using, Leased
      <3>2. di'[vm[s]] = di[vm[s]] /\ memo'[vm[s]] = memo[vm[s]]
        BY <1>3, <1>a, <3>1 DEF Request, Inject, InjectFails, Memoize, SetRequestContext,
           Invoke, Poll, PollAgain, TimedOut, ClearState, vmVars, TypeOK
      <3>3. vm[s] \in proxied => vm[s] \in proxied'
        BY <1>3, <3>1 DEF Request, Inject, InjectFails, Memoize, SetRequestContext,
           Invoke, Poll, PollAgain, TimedOut, ClearState, vmVars
      <3> QED
        BY <1>1, <2>1, <3>2, <3>3 DEF Kept, Using
    <2>3. CASE ~Using(s)
      BY <1>1, <2>1, <2>3 DEF Kept, Using
    <2> QED
      BY <2>2, <2>3
  <1> QED
    BY <1>2, <1>3

LEMMA KeptOwn ==
  ASSUME TypeInv, Bound, AtHome, NEW r \in Requests, Request(r), NEW h \in Funcs, Kept(r, h)
  PROVE  Kept(r, h)'
  <1>a. TypeOK /\ Leased
    BY DEF TypeInv
  <1>1. UNCHANGED crossed
    BY DEF Request, Acquire, Put, Inject, InjectFails, Memoize, SetRequestContext, Invoke,
           Poll, PollAgain, TimedOut, ClearState, progVars
  <1>b. ~Started(r) => crossed'[r][h] = 0
    BY <1>1 DEF AtHome, NotBegun
  <1> USE DEF Kept
  <1>2. CASE Acquire(r)
    <2>1. ~Started(r) /\ ~Using(r) /\ UNCHANGED vmVars /\ vm'[r] \in VMs
      BY <1>2, <1>a DEF Acquire, Started, Using, TypeOK
    <2>2. di'[vm'[r]][h] # r
      BY <2>1 DEF Bound, InUse, vmVars
    <2> QED
      BY <1>b, <2>1, <2>2
  <1>3. CASE Inject(r)
    <2>1. ~Started(r) /\ pc'[r] = "memo"
      BY <1>3, <1>a DEF Inject, Run, Started, TypeOK
    <2> QED
      BY <1>b, <2>1
  <1>4. CASE InjectFails(r)
    <2>1. ~Started(r) /\ Using(r) /\ pc[r] # "memo" /\ UNCHANGED <<vm, vmVars>>
      BY <1>4 DEF InjectFails, Started, Using
    <2> QED
      BY <1>b, <2>1 DEF vmVars
  <1>5. CASE Memoize(r)
    <2>1. ~Started(r) /\ vm'[r] = vm[r] /\ vm[r] \in proxied'
      BY <1>5 DEF Memoize, Run, Started
    <2> QED
      BY <1>b, <2>1
  <1>6. CASE SetRequestContext(r) \/ Invoke(r)
    <2>1. ~Started(r) /\ Using(r) /\ pc[r] # "memo" /\ UNCHANGED <<vm, di, proxied>>
      BY <1>6 DEF SetRequestContext, Invoke, Run, Started, Using, vmVars
    <2> QED
      BY <1>b, <2>1
  <1>7. CASE Poll(r) \/ PollAgain(r) \/ TimedOut(r)
    <2>1. /\ Using(r) /\ pc[r] # "memo" /\ UNCHANGED <<vm, vmVars>>
          /\ pc[r] \in {"poll", "check", "release"}
      BY <1>7 DEF Poll, PollAgain, TimedOut, Run, Using
    <2> QED
      BY <1>1, <2>1 DEF vmVars
  <1>8. CASE ClearState(r) \/ Put(r)
    <2>1. pc'[r] \in {"put", "done"}
      BY <1>8, <1>a DEF ClearState, Put, Run, TypeOK
    <2> QED
      BY <1>1, <2>1 DEF Using
  <1> QED
    BY <1>2, <1>3, <1>4, <1>5, <1>6, <1>7, <1>8 DEF Request

\* The call of a program that reaches Go through its own bridge is its first.
LEMMA KeptAsk ==
  ASSUME TypeInv, Bound, AtHome, Memoized, NEW v \in VMs, NEW r \in ready[v],
         NEW g \in Funcs, Ask(v, r, g), NEW s \in Requests, NEW h \in Funcs
  PROVE  Kept(s, h)'
  <1>a. TypeOK
    BY DEF TypeInv
  <1>b. r \in Requests /\ Started(r) /\ vm[r] = v
    BY <1>a, ReadyStarted
  <1>c. Kept(s, h)
    BY DEF Memoized, Kept
  <1>d. /\ UNCHANGED <<pc, vm, di, proxied>>
        /\ \A w \in VMs : memo[w] \subseteq memo'[w]
    <2>1. Loop(v)
      BY DEF Loop, Program
    <2> QED
      BY <1>a, <2>1, LoopStep DEF Elsewhere
  <1>e. pc[s] # "acquire" => vm[s] \in VMs
    BY DEF TypeInv, Leased
  <1>1. crossed'[s][h] = crossed[s][h] => Kept(s, h)'
    BY <1>c, <1>d, <1>e DEF Kept, Using
  <1>2. CASE v \in proxied /\ g \in memo[v]
    <2>1. crossed' = crossed
      BY <1>2 DEF Ask
    <2> QED
      BY <1>1, <2>1
  <1>3. CASE ~(v \in proxied /\ g \in memo[v])
    <2>1. crossed' = [crossed EXCEPT ![r][g] = IF di[v][g] = r THEN @ + 1 ELSE @]
      BY <1>3 DEF Ask, Cross, Call
    <2>2. crossed[s] \in [Funcs -> Nat] /\ crossed[r] \in [Funcs -> Nat]
      BY <1>a, <1>b DEF TypeOK
    <2>3. CASE s # r \/ h # g \/ di[v][g] # r
      <3>1. crossed'[s][h] = crossed[s][h]
        BY <1>a, <1>b, <2>1, <2>2, <2>3 DEF TypeOK
      <3> QED
        BY <1>1, <3>1
    <2>4. CASE s = r /\ h = g /\ di[v][g] = r
      <3>1. Using(r) /\ pc[r] \in {"poll", "check", "release"}
        BY <1>b, <2>4 DEF Bound, InUse, Using, Started
      <3>2. v \in proxied
        BY <1>b, <1>c, <2>4, <3>1 DEF Kept
      <3>3. crossed[r][g] = 0
        BY <1>3, <1>b, <1>c, <2>4, <3>1, <3>2 DEF Kept
      <3>4. crossed'[r][g] = 1
        BY <1>a, <1>b, <2>1, <2>2, <2>4, <3>3 DEF TypeOK
      <3>5. memo' = [memo EXCEPT ![v] = @ \cup {g}]
        BY <1>3, <3>2 DEF Ask
      <3>6. g \in memo'[vm'[r]]
        BY <1>a, <1>b, <1>d, <3>5 DEF TypeOK
      <3> QED
        BY <1>b, <1>d, <2>4, <3>2, <3>4, <3>6 DEF Kept
    <2> QED
      BY <2>3, <2>4
  <1> QED
    BY <1>2, <1>3

LEMMA MemoizedNext ==
  TypeInv /\ Custody /\ Bound /\ AtHome /\ Memoized /\ [Next]_vars => Memoized'
  <1> SUFFICES ASSUME TypeInv, Custody, Bound, AtHome, Memoized, [Next]_vars,
                      NEW s \in Requests, NEW h \in Funcs
               PROVE  Kept(s, h)'
    BY DEF Memoized, Kept
  <1>a. TypeOK /\ Kept(s, h)
    BY DEF TypeInv, Memoized, Kept
  <1>1. ASSUME NEW r \in Requests, Request(r) PROVE Kept(s, h)'
    BY <1>1, <1>a, KeptOthers, KeptOwn
  <1>2. ASSUME NEW v \in VMs, NEW r \in ready[v], NEW g \in Funcs, Ask(v, r, g)
        PROVE  Kept(s, h)'
    BY <1>2, KeptAsk
  <1>3. CASE /\ ~\E r \in Requests : Request(r)
             /\ ~\E v \in VMs : \E r \in ready[v] : \E g \in Funcs : Ask(v, r, g)
    <2>1. Elsewhere
      BY <1>3, <1>a, LoopStep DEF Next
    <2>2. UNCHANGED crossed
      BY <1>3 DEF Next, Loop, RunJob, EndRun, Program, AskMissing, Await, Settle, Answer,
                  progVars, vars
    <2>3. pc[s] # "acquire" => vm[s] \in VMs
      BY DEF TypeInv, Leased
    <2> QED
      BY <1>a, <2>1, <2>2, <2>3 DEF Elsewhere, Kept, Using
  <1> QED
    BY <1>1, <1>2, <1>3

-----------------------------------------------------------------------------
(* The inductive invariant and what follows from it                        *)

RuntimeInv == TypeInv /\ Custody /\ Bound /\ AtHome /\ Finished /\ Memoized

LEMMA RuntimeInit == Init => RuntimeInv
  <1> SUFFICES ASSUME Init PROVE RuntimeInv
    OBVIOUS
  <1> USE NoReqAssumption
  <1>1. TypeInv
    BY TypeInit
  <1>2. \A r \in Requests : ~Held(r) /\ ~Using(r) /\ ~Started(r) /\ Quiet(r)
    BY DEF Init, Held, Using, Started, Quiet
  <1>3. Custody
    BY <1>2 DEF Custody
  <1>4. Bound
    BY DEF Init, Bound, NoBridge
  <1>5. AtHome
    <2>1. \A v \in VMs : Len(aux[v]) = 0
      BY DEF Init
    <2> QED
      BY <1>2, <2>1 DEF Init, AtHome, NotBegun
  <1>6. Finished
    BY <1>2 DEF Finished
  <1>7. Memoized
    BY DEF Init, Memoized, Using
  <1> QED
    BY <1>1, <1>3, <1>4, <1>5, <1>6, <1>7 DEF RuntimeInv

LEMMA RuntimeInvariant == Spec => []RuntimeInv
  <1>1. RuntimeInv /\ [Next]_vars => RuntimeInv'
    BY TypeNext, CustodyNext, BoundNext, AtHomeNext, FinishedNext, MemoizedNext DEF RuntimeInv
  <1> QED
    BY <1>1, RuntimeInit, PTL DEF Spec

\* However a request ended, with an injector that failed, a time-out or calls
\* still running, clearState leaves nothing of it on the VM it gives back.
THEOREM PoolClean == Spec => []IdleClean
  <1>1. RuntimeInv => IdleClean
    <2> SUFFICES ASSUME RuntimeInv, NEW v \in idle
                 PROVE  ctx[v] = NoReq /\ di[v] = NoBridge /\ v \notin proxied /\ memo[v] = {}
      BY DEF IdleClean
    <2>1. v \in VMs /\ TypeOK
      BY DEF RuntimeInv, TypeInv, TypeOK
    <2>2. \A r \in Requests : ~InUse(v, r)
      BY DEF RuntimeInv, Custody, InUse, Using, Held
    <2>3. ctx[v] = NoReq /\ v \notin proxied /\ memo[v] = {}
      BY <2>1, <2>2 DEF RuntimeInv, Bound, TypeOK
    <2>4. di[v] \in [Funcs -> Requests \cup {NoReq}] /\ \A h \in Funcs : di[v][h] = NoReq
      BY <2>1, <2>2 DEF RuntimeInv, Bound, TypeOK
    <2>5. di[v] = NoBridge
      BY <2>4 DEF NoBridge
    <2> QED
      BY <2>3, <2>5
  <1> QED
    BY <1>1, RuntimeInvariant, PTL

LEMMA ServedOwn == RuntimeInv => OwnState
  <1> SUFFICES ASSUME RuntimeInv, NEW r \in Requests, Serving(r)
               PROVE  ctx[vm[r]] = r /\ \A h \in Funcs : di[vm[r]][h] \in {r, NoReq}
    BY DEF OwnState
  <1>1. vm[r] \in VMs /\ Held(r) /\ TypeOK
    BY DEF RuntimeInv, TypeInv, Leased, Serving, Held
  <1>2. ctx[vm[r]] = r
    BY DEF RuntimeInv, Bound, Serving
  <1>3. ASSUME NEW h \in Funcs, di[vm[r]][h] # NoReq PROVE di[vm[r]][h] = r
    <2>1. di[vm[r]][h] \in Requests /\ Using(di[vm[r]][h]) /\ vm[di[vm[r]][h]] = vm[r]
      BY <1>1, <1>3, AskBound DEF RuntimeInv
    <2> QED
      BY <1>1, <2>1 DEF RuntimeInv, Custody, Using, Held
  <1> QED
    BY <1>2, <1>3

\* While a program is polled its VM carries the state of its own request only.
THEOREM ServedWithOwnState == Spec => []OwnState
  <1> QED
    BY ServedOwn, RuntimeInvariant, PTL

\* A program that awaits its calls, and whose calls return, has run to its end
\* before its VM changes hands, whatever other programs left running there.
THEOREM StaysAtHome == Spec => []Isolation
  <1>1. RuntimeInv => Isolation
    <2> SUFFICES ASSUME RuntimeInv, NEW v \in VMs, NEW r \in ready[v] \ (Early \cup Hanging)
                 PROVE  RunsAtHome(v, r)
      BY DEF Isolation
    <2>1. r \in Requests /\ Started(r) /\ vm[r] = v
      BY ReadyStarted DEF RuntimeInv, TypeInv
    <2>2. Serving(r)
      BY <2>1 DEF RuntimeInv, Finished, Over, Quiet, Started, Serving
    <2> QED
      BY <2>1, <2>2, ServedOwn DEF OwnState, RunsAtHome
  <1> QED
    BY <1>1, RuntimeInvariant, PTL

\* Between its injection and its end a request reaches Go once per memoized
\* call, however many injectors rewrote the bridge in between.
THEOREM CrossesOnce == Spec => []MemoOnce
  <1>1. RuntimeInv => MemoOnce
    BY DEF RuntimeInv, Memoized, MemoOnce
  <1> QED
    BY <1>1, RuntimeInvariant, PTL

-----------------------------------------------------------------------------
(* JSRuntime uses its pool as VMLease has it: a request takes a VM and gives *)
(* it back, and no other step touches who holds what.                      *)

\* The steps that leave every request's VM where it is.
LEMMA OwnersStay ==
  ASSUME TypeInv, UNCHANGED vm, \A r \in Requests : Held(r)' = Held(r)
  PROVE  UNCHANGED Lease!vars
  <1>1. owner' = owner
    BY DEF owner
  <1> QED
    BY <1>1 DEF Lease!vars

LEMMA LeaseStep ==
  ASSUME TypeInv, Custody, [Next]_vars
  PROVE  [Lease!Next]_(Lease!vars)
  <1> USE DEF TypeInv, TypeOK
  <1>1. ASSUME NEW r \in Requests, Acquire(r) PROVE Lease!Next
    <2>1. PICK v \in idle : vm' = [vm EXCEPT ![r] = v]
      BY <1>1 DEF Acquire
    <2>2. /\ pc[r] = "acquire" /\ v \in VMs
          /\ pc' = [pc EXCEPT ![r] = IF Injectors = <<>> THEN "context" ELSE "inject"]
      BY <1>1 DEF Acquire
    <2>3. owner[r] = NoVM /\ owner' = [owner EXCEPT ![r] = v]
      BY <2>1, <2>2 DEF owner, Held
    <2>4. \A s \in Requests : owner[s] # v
      BY <2>1, <2>2, NoVMAssumption DEF owner, Custody
    <2>5. Lease!Take(r, v)
      BY <2>2, <2>3, <2>4 DEF Lease!Take, Lease!Free
    <2> QED
      BY <2>2, <2>5 DEF Lease!Next
  <1>2. ASSUME NEW r \in Requests, Put(r) PROVE Lease!Next
    <2>1. pc[r] = "put" /\ pc' = [pc EXCEPT ![r] = "done"] /\ vm' = vm
      BY <1>2 DEF Put
    <2>2. vm[r] # NoVM
      BY <2>1, NoVMAssumption DEF Leased
    <2>3. owner[r] # NoVM /\ owner' = [owner EXCEPT ![r] = NoVM]
      BY <2>1, <2>2 DEF owner, Held
    <2>4. Lease!Give(r)
      BY <2>3 DEF Lease!Give
    <2> QED
      BY <2>4 DEF Lease!Next
  <1>3. ASSUME NEW r \in Requests, Request(r), ~Acquire(r), ~Put(r)
        PROVE  UNCHANGED Lease!vars
    <2>1. PICK l \in Labels \ {"acquire", "done"} : pc' = [pc EXCEPT ![r] = l]
      BY <1>3 DEF Request, Inject, InjectFails, Memoize, SetRequestContext, Invoke, Poll,
                  PollAgain, TimedOut, ClearState, Run, Labels
    <2>2. UNCHANGED vm /\ Held(r)
      BY <1>3 DEF Request, Inject, InjectFails, Memoize, SetRequestContext, Invoke, Poll,
                  PollAgain, TimedOut, ClearState, Run, Held
    <2>3. \A s \in Requests : Held(s)' = Held(s)
      BY <2>1, <2>2 DEF Held
    <2> QED
      BY <2>2, <2>3, OwnersStay
  <1>4. ASSUME UNCHANGED <<pc, vm>> PROVE UNCHANGED Lease!vars
    BY <1>4, OwnersStay DEF Held
  <1>5. ASSUME NEW v \in VMs, Loop(v) PROVE UNCHANGED <<pc, vm>>
    BY <1>5 DEF Loop, RunJob, EndRun, Program, Ask, AskMissing, Await, Settle, reqVars
  <1>6. ASSUME NEW p \in calls, Answer(p) PROVE UNCHANGED <<pc, vm>>
    BY <1>6 DEF Answer, reqVars
  <1>7. UNCHANGED vars => UNCHANGED <<pc, vm>>
    BY DEF vars, reqVars
  <1> QED
    BY <1>1, <1>2, <1>3, <1>4, <1>5, <1>6, <1>7 DEF Next

\* The pool's promise, which VMPool keeps, is all JSRuntime relies on: its
\* requests lease VMs as VMLease has it (Acquire and Put are Take and Give).
THEOREM LeasesImplemented == Spec => UsesLease
  <1>1. Init => Lease!Init
    <2> SUFFICES ASSUME Init PROVE Lease!Init
      OBVIOUS
    <2>1. owner = [r \in Requests |-> NoVM]
      BY DEF Init, owner, Held
    <2> QED
      BY <2>1 DEF Lease!Init, Fits
  <1>2. RuntimeInv /\ [Next]_vars => [Lease!Next]_(Lease!vars)
    BY LeaseStep DEF RuntimeInv
  <1> QED
    BY <1>1, <1>2, RuntimeInvariant, PTL DEF Spec, UsesLease, Lease!Spec
=============================================================================
