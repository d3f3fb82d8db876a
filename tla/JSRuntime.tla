------------------------------ MODULE JSRuntime ------------------------------
(***************************************************************************)
(* engine/goja: what one request does to the JavaScript engine (VM) it     *)
(* leases.  The request installs its injectors and its context, starts a   *)
(* program in the VM (a server action, a metadata call or a render), polls *)
(* until the program has settled and releases the VM, cleared.             *)
(*                                                                         *)
(* A program calls Go through the bridge object.  A call runs on its own   *)
(* goroutine and its answer is queued on the loop of the VM, where it      *)
(* resumes the programs that await it.  The loop only turns inside run():  *)
(* fn first, then the queued answers.  Answers may come late or never.     *)
(*                                                                         *)
(* A promise is named by the program that made the call and its number,    *)
(* and holds the function called, the request the function was bound to    *)
(* and whether the memoizing Proxy kept it.                                *)
(***************************************************************************)
EXTENDS Naturals, Sequences, FiniteSets

CONSTANTS Requests,   \* the requests, each served once
          VMs,        \* the VMs of the pool
          Funcs,      \* the functions injectors put on the bridge
          Injectors,  \* the sequence of injectors, each the set of its functions
          Actions,    \* the requests that run CallAwait; the others stream a render
          MaxAsks,    \* bound: how often the program of a request calls the bridge
          Early,      \* requests whose program may settle with calls outstanding
          Hanging,    \* actions whose bridge functions may outlast the deadline or never return
          NoReq,      \* no request
          NoVM        \* no VM

ASSUME InjectorsAssumption == Injectors \in Seq(SUBSET Funcs)
ASSUME ActionsAssumption == Actions \subseteq Requests
ASSUME AbandonAssumption == Early \subseteq Requests /\ Hanging \subseteq Actions
ASSUME MaxAsksAssumption == MaxAsks \in Nat
ASSUME NoReqAssumption == NoReq \notin Requests
ASSUME NoVMAssumption == NoVM \notin VMs

VARIABLES pc,        \* what each request does next
          vm,        \* the VM each request holds
          inj,       \* how many injectors each request has applied
          idle,      \* the VMs in the pool
          turning,   \* VMs whose loop runs queued answers
          ctx,       \* __REQUEST__ of each VM
          di,        \* the bridge of each VM: who each function is bound to
          proxied,   \* VMs whose bridge carries the memoizing Proxy
          memo,      \* the functions in the Proxy's cache, for each VM
          calls,     \* promises whose goroutine has not answered
          aux,       \* the answers queued on each loop
          ready,     \* programs that have the VM's thread
          awaits,    \* the promises each program awaits
          asks,      \* how often each program called the bridge
          settled,   \* requests whose program has settled
          crossed    \* how often each program reached Go through its own bridge

reqVars == <<pc, vm, inj, idle>>
vmVars == <<ctx, di, proxied, memo>>
progVars == <<calls, awaits, asks, settled, crossed>>
vars == <<reqVars, turning, vmVars, aux, ready, progVars>>

Labels == {"acquire", "inject", "memo", "context", "invoke", "poll", "check",
           "release", "put", "done"}
Promises == [by : Requests, n : 1..MaxAsks, fn : Funcs, as : Requests, memo : BOOLEAN]

NoBridge == [f \in Funcs |-> NoReq]

Init == /\ pc = [r \in Requests |-> "acquire"]
        /\ vm = [r \in Requests |-> NoVM]
        /\ inj = [r \in Requests |-> 0]
        /\ idle = VMs
        /\ turning = {}
        /\ ctx = [v \in VMs |-> NoReq]
        /\ di = [v \in VMs |-> NoBridge]
        /\ proxied = {}
        /\ memo = [v \in VMs |-> {}]
        /\ calls = {}
        /\ aux = [v \in VMs |-> <<>>]
        /\ ready = [v \in VMs |-> {}]
        /\ awaits = [r \in Requests |-> {}]
        /\ asks = [r \in Requests |-> 0]
        /\ settled = {}
        /\ crossed = [r \in Requests |-> [f \in Funcs |-> 0]]

-----------------------------------------------------------------------------
(* run(fn) and the event loop of goja_nodejs                               *)

\* Request r at label l enters run() on its VM and continues at m after it.
Run(r, l, m) == /\ pc[r] = l
                /\ vm[r] \notin turning
                /\ turning' = turning \cup {vm[r]}
                /\ pc' = [pc EXCEPT ![r] = m]

\* The next queued answer settles its promise and resumes who awaits it.
RunJob(v) == /\ v \in turning
             /\ ready[v] = {}
             /\ aux[v] # <<>>
             /\ LET p == Head(aux[v])
                    W == {r \in Requests : p \in awaits[r]}
                IN /\ ready' = [ready EXCEPT ![v] = W]
                   /\ awaits' = [r \in Requests |-> awaits[r] \ {p}]
             /\ aux' = [aux EXCEPT ![v] = Tail(@)]
             /\ UNCHANGED <<reqVars, turning, vmVars, calls, asks, settled, crossed>>

EndRun(v) == /\ v \in turning
             /\ ready[v] = {}
             /\ aux[v] = <<>>
             /\ turning' = turning \ {v}
             /\ UNCHANGED <<reqVars, vmVars, aux, ready, progVars>>

-----------------------------------------------------------------------------
(* The goroutine of a bridge call: fn(args), then loop.RunOnLoop.          *)

Answer(p) == /\ p \in calls
             /\ calls' = calls \ {p}
             /\ aux' = [aux EXCEPT ![vm[p.by]] = Append(@, p)]
             /\ UNCHANGED <<reqVars, turning, vmVars, ready, awaits, asks, settled, crossed>>

-----------------------------------------------------------------------------
(* The program of request r, with the thread of VM v                       *)

Pending == calls \cup UNION {{aux[v][i] : i \in 1..Len(aux[v])} : v \in VMs}

Call(v, r, f, m) == [by |-> r, n |-> asks[r] + 1, fn |-> f, as |-> di[v][f], memo |-> m]

\* r calls Go: the goroutine of promise p starts, and r awaits p.
Cross(r, p) == /\ awaits' = [awaits EXCEPT ![r] = @ \cup {p}]
               /\ calls' = calls \cup {p}
               /\ crossed' = [crossed EXCEPT ![r][p.fn] = IF p.as = r THEN @ + 1 ELSE @]

\* Mutant of Ask: the Proxy keeps a result, not the promise of one.
AskForgetting(v, r, f) ==
  /\ r \in ready[v]
  /\ asks[r] < MaxAsks
  /\ di[v][f] # NoReq
  /\ asks' = [asks EXCEPT ![r] = @ + 1]
  /\ Cross(r, Call(v, r, f, v \in proxied))
  /\ UNCHANGED <<reqVars, turning, vmVars, aux, ready, settled>>

\* r calls bridge function f; a memoized call does not reach Go again.
Ask(v, r, f) ==
  /\ r \in ready[v]
  /\ asks[r] < MaxAsks
  /\ di[v][f] # NoReq
  /\ asks' = [asks EXCEPT ![r] = @ + 1]
  /\ IF v \in proxied /\ f \in memo[v]
       THEN /\ awaits' = [awaits EXCEPT ![r] = @ \cup
                 {p \in Pending : p.fn = f /\ p.as = di[v][f] /\ p.memo}]
            /\ UNCHANGED <<calls, memo, crossed>>
       ELSE /\ Cross(r, Call(v, r, f, v \in proxied))
            /\ memo' = IF v \in proxied THEN [memo EXCEPT ![v] = @ \cup {f}] ELSE memo
  /\ UNCHANGED <<reqVars, turning, ctx, di, proxied, aux, ready, settled>>

\* A function that is not on the bridge: a TypeError, which rejects the program
\* and drops its continuation; in an Early program another branch may go on.
AskMissing(v, r, f) ==
  /\ r \in ready[v]
  /\ asks[r] < MaxAsks
  /\ di[v][f] = NoReq
  /\ asks' = [asks EXCEPT ![r] = @ + 1]
  /\ settled' = settled \cup {r}
  /\ ready' = [ready EXCEPT ![v] = @ \ {r}]
  /\ awaits' = IF r \in Early THEN awaits ELSE [awaits EXCEPT ![r] = {}]
  /\ UNCHANGED <<reqVars, turning, vmVars, aux, calls, crossed>>

Await(v, r) == /\ r \in ready[v]
               /\ awaits[r] # {}
               /\ ready' = [ready EXCEPT ![v] = @ \ {r}]
               /\ UNCHANGED <<reqVars, turning, vmVars, aux, progVars>>

\* Early: a call that is not awaited, or Promise.all rejected by a sibling.
Settle(v, r) == /\ r \in ready[v]
                /\ r \in Early \/ awaits[r] = {}
                /\ settled' = settled \cup {r}
                /\ ready' = [ready EXCEPT ![v] = @ \ {r}]
                /\ UNCHANGED <<reqVars, turning, vmVars, aux, calls, awaits, asks, crossed>>

-----------------------------------------------------------------------------
(* The request: serveraction.Invoke, collectMetadata, RenderToWriter       *)

Acquire(r) == /\ pc[r] = "acquire"
              /\ \E v \in idle :
                   /\ vm' = [vm EXCEPT ![r] = v]
                   /\ idle' = idle \ {v}
              /\ pc' = [pc EXCEPT ![r] = IF Injectors = <<>> THEN "context" ELSE "inject"]
              /\ UNCHANGED <<inj, turning, vmVars, aux, ready, progVars>>

\* SetDependencyInjection: every key goes, then the functions of this injector
\* come.  The Proxy stays in place over the same object.
Inject(r) == /\ Run(r, "inject", "memo")
             /\ di' = [di EXCEPT ![vm[r]] =
                         [f \in Funcs |-> IF f \in Injectors[inj[r] + 1] THEN r ELSE NoReq]]
             /\ inj' = [inj EXCEPT ![r] = @ + 1]
             /\ UNCHANGED <<vm, idle, ctx, proxied, memo, aux, ready, progVars>>

InjectFails(r) == /\ pc[r] = "inject"
                  /\ vm[r] \notin turning
                  /\ pc' = [pc EXCEPT ![r] = "release"]
                  /\ UNCHANGED <<vm, inj, idle, turning, vmVars, aux, ready, progVars>>

\* Mutant of Memoize: the script is not evaluated.
MemoizeNothing(r) ==
  /\ Run(r, "memo", IF inj[r] < Len(Injectors) THEN "inject" ELSE "context")
  /\ UNCHANGED <<vm, inj, idle, vmVars, aux, ready, progVars>>

\* MemoInjector evaluates BridgeMemoSrc after each injector.
Memoize(r) == /\ Run(r, "memo", IF inj[r] < Len(Injectors) THEN "inject" ELSE "context")
              /\ proxied' = proxied \cup {vm[r]}
              /\ UNCHANGED <<vm, inj, idle, ctx, di, memo, aux, ready, progVars>>

\* Mutant of SetRequestContext: a context is only ever replaced.
ReplaceContext(r) ==
  /\ Run(r, "context", "invoke")
  /\ ctx' = [ctx EXCEPT ![vm[r]] = IF @ = NoReq THEN @ ELSE r]
  /\ UNCHANGED <<vm, inj, idle, di, proxied, memo, aux, ready, progVars>>

SetRequestContext(r) == /\ Run(r, "context", "invoke")
                        /\ ctx' = [ctx EXCEPT ![vm[r]] = r]
                        /\ UNCHANGED <<vm, inj, idle, di, proxied, memo, aux, ready, progVars>>

\* The first run of CallAwait, or startRender.
Invoke(r) == /\ Run(r, "invoke", "poll")
             /\ ready' = [ready EXCEPT ![vm[r]] = {r}]
             /\ UNCHANGED <<vm, inj, idle, vmVars, aux, progVars>>

\* Mutant of Poll: a pending promise is taken for a settled one.
PollOnce(r) == /\ Run(r, "poll", "release")
               /\ UNCHANGED <<vm, inj, idle, vmVars, aux, ready, progVars>>

\* The state of the promise is read before this run turns the loop.
Poll(r) == /\ Run(r, "poll", IF r \in settled THEN "release" ELSE "check")
           /\ UNCHANGED <<vm, inj, idle, vmVars, aux, ready, progVars>>

PollAgain(r) == /\ pc[r] = "check"
                /\ vm[r] \notin turning
                /\ pc' = [pc EXCEPT ![r] = "poll"]
                /\ UNCHANGED <<vm, inj, idle, turning, vmVars, aux, ready, progVars>>

\* Mutant of TimedOut: every poll starts the 30 s anew.
DeadlineRestarts(r) == /\ r \in Hanging
                       /\ pc[r] = "check"
                       /\ vm[r] \notin turning
                       /\ pc' = [pc EXCEPT ![r] = "poll"]
                       /\ UNCHANGED <<vm, inj, idle, turning, vmVars, aux, ready, progVars>>

TimedOut(r) == /\ r \in Hanging
               /\ pc[r] = "check"
               /\ vm[r] \notin turning
               /\ pc' = [pc EXCEPT ![r] = "release"]
               /\ UNCHANGED <<vm, inj, idle, turning, vmVars, aux, ready, progVars>>

\* clearState, the reset function of the pool.
ClearState(r) == /\ Run(r, "release", "put")
                 /\ ctx' = [ctx EXCEPT ![vm[r]] = NoReq]
                 /\ di' = [di EXCEPT ![vm[r]] = NoBridge]
                 /\ proxied' = proxied \ {vm[r]}
                 /\ memo' = [memo EXCEPT ![vm[r]] = {}]
                 /\ UNCHANGED <<vm, inj, idle, aux, ready, progVars>>

Put(r) == /\ pc[r] = "put"
          /\ vm[r] \notin turning
          /\ idle' = idle \cup {vm[r]}
          /\ pc' = [pc EXCEPT ![r] = "done"]
          /\ UNCHANGED <<vm, inj, turning, vmVars, aux, ready, progVars>>

-----------------------------------------------------------------------------

Request(r) == \/ Acquire(r) \/ Inject(r) \/ InjectFails(r) \/ Memoize(r)
              \/ SetRequestContext(r) \/ Invoke(r) \/ Poll(r) \/ PollAgain(r)
              \/ TimedOut(r) \/ ClearState(r) \/ Put(r)

Program(v) == \E r \in ready[v] :
                \/ \E f \in Funcs : Ask(v, r, f) \/ AskMissing(v, r, f)
                \/ Await(v, r) \/ Settle(v, r)

Loop(v) == RunJob(v) \/ EndRun(v) \/ Program(v)

Next == \/ \E r \in Requests : Request(r)
        \/ \E v \in VMs : Loop(v)
        \/ \E p \in calls : Answer(p)

Spec == Init /\ [][Next]_vars

\* The goroutines of the requests and the loop they turn are scheduled, and the
\* deadline of CallAwait passes.  Bridge functions return, those bound to a
\* Hanging request excepted.
FairSpec == /\ Spec
            /\ \A r \in Requests : WF_vars(Request(r)) /\ SF_vars(TimedOut(r))
            /\ \A v \in VMs : WF_vars(Loop(v))
            /\ \A p \in Promises : p.as \notin Hanging => WF_vars(Answer(p))

-----------------------------------------------------------------------------
(* Refinement: the VM each request has leased.  The VMs are made before.   *)

Held(r) == pc[r] \notin {"acquire", "done"}
owner == [r \in Requests |-> IF Held(r) THEN vm[r] ELSE NoVM]
Fits(vms) == vms \subseteq VMs

Lease == INSTANCE VMLease WITH Users <- Requests, VM <- VMs, live <- VMs

-----------------------------------------------------------------------------
(* Properties                                                              *)

TypeOK == /\ pc \in [Requests -> Labels]
          /\ vm \in [Requests -> VMs \cup {NoVM}]
          /\ inj \in [Requests -> 0..Len(Injectors)]
          /\ idle \in SUBSET VMs
          /\ turning \in SUBSET VMs
          /\ ctx \in [VMs -> Requests \cup {NoReq}]
          /\ di \in [VMs -> [Funcs -> Requests \cup {NoReq}]]
          /\ proxied \in SUBSET VMs
          /\ memo \in [VMs -> SUBSET Funcs]
          /\ calls \in SUBSET Promises
          /\ aux \in [VMs -> Seq(Promises)]
          /\ ready \in [VMs -> SUBSET Requests]
          /\ awaits \in [Requests -> SUBSET Promises]
          /\ asks \in [Requests -> 0..MaxAsks]
          /\ settled \in SUBSET Requests
          /\ crossed \in [Requests -> [Funcs -> Nat]]

Serving(r) == pc[r] \in {"poll", "check"}

\* A VM in the pool carries nothing of the requests it served, however they
\* ended: no __REQUEST__, no bridge function, no Proxy and no cached promise.
IdleClean == \A v \in idle : /\ ctx[v] = NoReq
                             /\ di[v] = NoBridge
                             /\ v \notin proxied
                             /\ memo[v] = {}

\* While the program of r is being polled its VM carries the context of r and
\* functions bound to r only, whatever the requests before it left running.
OwnState == \A r \in Requests : Serving(r) =>
              /\ ctx[vm[r]] = r
              /\ \A f \in Funcs : di[vm[r]][f] \in {r, NoReq}

RunsAtHome(v, r) == /\ ctx[v] \in {r, NoReq}
                    /\ \A f \in Funcs : di[v][f] \in {r, NoReq}

\* A program that awaits all its calls, and whose calls return, never runs under
\* another request's context or bridge, whatever others leave behind on its VM.
Isolation == \A v \in VMs : \A r \in ready[v] \ (Early \cup Hanging) : RunsAtHome(v, r)

\* engine/goja/goja.go:495: "clearState removes per-request state from the
\* runtime": no program at all runs under another request's context or bridge.
NoForeignProgram == \A v \in VMs : \A r \in ready[v] : RunsAtHome(v, r)

\* docs/ssr-caching.md:63: within one request "only the first call crosses the
\* Go-JS boundary", however the calls of its program overlap.
MemoOnce == \A r \in Requests : \A f \in Funcs : crossed[r][f] <= 1

\* Every request is served and gives its VM back: an action although its bridge
\* functions hang, a render, which has no deadline, because they return.
RequestsEnd == \A r \in Requests : <>(pc[r] = "done")

\* Requests ask of the pool what it promises and no more: a VM nobody holds is
\* taken, and given back by its holder, once, however the request ends.
UsesLease == Lease!Spec
=============================================================================
