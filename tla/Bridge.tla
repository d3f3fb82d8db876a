-------------------------------- MODULE Bridge --------------------------------
(***************************************************************************)
(* The bridge object __DEPENDENCY_INJECTION__ of one VM over the requests  *)
(* it serves, for every engine that renders React.  Each has its own idea  *)
(* of which JavaScript object the bridge is: the memo replaces it by a     *)
(* Proxy, clearState by a new object, and some engines hold on to one from *)
(* Go.                                                                     *)
(***************************************************************************)
EXTENDS Naturals, Sequences

CONSTANTS Engines,   \* the engines that may be in use
          Functions, \* names of functions
          Injectors, \* the functions of each injector, in the order they run
          MaxServed  \* bound: leases of the VM

ASSUME BridgeAssumption ==
    /\ Engines \subseteq {"goja", "sobek", "v8go", "qjs", "quickjsgo", "moderncquickjs"}
    /\ Injectors \in Seq(SUBSET Functions)

VARIABLES engine,  \* the engine of this VM
          objects, \* every object that has been the bridge: its functions, __memoized__
          bridge,  \* the global: an object behind the caches of nested Proxies, innermost first
          handle,  \* the object the Runtime refers to (r.di, r.jsi)
          diFuncs, \* moderncquickjs: the functions its wrappers look up by name
          context, \* __REQUEST__
          sink,    \* where the program's output goes
          at,      \* what the VM is used for
          served,  \* leases so far; also the number of the present one
          injected \* injectors that have run

bridgeVars == <<engine, objects, bridge, handle, diFuncs, context, sink, at, served, injected>>

None == 0
NoFunctions == [f \in Functions |-> None]
NewObject == [functions |-> NoFunctions, memoized |-> FALSE]

\* These engines set the functions on the object they hold, the others on the
\* global.
HoldsHandle == engine \in {"goja", "sobek", "quickjsgo"}

NewBridge == [target |-> 1, caches |-> <<>>]

BridgeInit == /\ engine \in Engines
              /\ objects = <<NewObject>> /\ bridge = NewBridge
              /\ handle = 1 /\ diFuncs = NoFunctions
              /\ context = None /\ sink = None
              /\ at = "idle" /\ served = 0 /\ injected = 0

-----------------------------------------------------------------------------
(* What the program finds                                                   *)

\* A Proxy returns what is no function as it is; of a function it caches the
\* result, asking the Proxy below at the first call.
Holds(f) == {i \in DOMAIN bridge.caches : bridge.caches[i][f] # None}

Call(f) == IF engine = "moderncquickjs" THEN diFuncs[f]
           ELSE objects[bridge.target].functions[f]

Answer(f) == IF objects[bridge.target].functions[f] = None THEN None
             ELSE IF Holds(f) = {} THEN Call(f)
             ELSE LET outer == CHOOSE i \in Holds(f) : \A j \in Holds(f) : j <= i
                  IN  bridge.caches[outer][f]

-----------------------------------------------------------------------------
(* A request                                                                *)

Lease(use) == /\ at = "idle" /\ served < MaxServed
              /\ at' = use /\ served' = served + 1 /\ injected' = 0
              /\ UNCHANGED <<engine, objects, bridge, handle, diFuncs, context, sink>>

PrepareVM == Lease("injecting")

\* At the start and after a reload a VM is asked for the document's shell,
\* without injectors and without a context.
ExtractDocumentProps == Lease("extracting")

Given(names) == [f \in Functions |-> IF f \in names THEN served ELSE None]

\* goja and sobek delete the keys of the object they hold, the others those of
\* the global; v8go only the functions it set.
Emptied == IF engine \in {"goja", "sobek"} THEN handle ELSE bridge.target

EmptiedObjects ==
    [objects EXCEPT ![Emptied] = [functions |-> NoFunctions,
                                  memoized |-> engine = "v8go" /\ @.memoized]]

\* The objects once a further injector's functions are set.
SetDependencyInjection(names) ==
    [EmptiedObjects EXCEPT ![IF HoldsHandle THEN handle ELSE bridge.target].functions =
        [f \in Functions |-> IF f \in names THEN served ELSE @[f]]]

\* One injector, with the memo that wraps it: the flag __memoized__ went with the
\* keys, except with v8go, so that a further Proxy nests over the one in place.
Inject ==
    /\ at = "injecting" /\ injected < Len(Injectors)
    /\ LET names == Injectors[injected + 1]
           filled == SetDependencyInjection(names)
       IN  /\ diFuncs' = IF engine = "moderncquickjs" THEN Given(names) ELSE diFuncs
           /\ objects' = [filled EXCEPT ![bridge.target].memoized = TRUE]
           /\ bridge' = IF filled[bridge.target].memoized THEN bridge
                        ELSE [bridge EXCEPT !.caches = Append(@, NoFunctions)]
    /\ injected' = injected + 1
    /\ UNCHANGED <<engine, handle, context, sink, at, served>>

SetRequestContext == /\ at = "injecting" /\ injected = Len(Injectors)
                     /\ context' = served /\ at' = "ready"
                     /\ UNCHANGED <<engine, objects, bridge, handle, diFuncs, sink, served, injected>>

\* The stream's handle, the output function or the writer; goja and sobek
\* keep the stream outside the VM.
StartRender == /\ at = "ready"
               /\ at' = "running"
               /\ sink' = IF engine \in {"goja", "sobek"} THEN None ELSE served
               /\ UNCHANGED <<engine, objects, bridge, handle, diFuncs, context, served, injected>>

Ask(f) == /\ at = "running" /\ Answer(f) # None
          /\ bridge' = [bridge EXCEPT !.caches =
                [i \in DOMAIN @ |-> IF \A j \in Holds(f) : j < i
                                      THEN [@[i] EXCEPT ![f] = Answer(f)] ELSE @[i]]]
          /\ UNCHANGED <<engine, objects, handle, diFuncs, context, sink, at, served, injected>>

\* Three engines clear their sink at the end: qjs unless the render failed,
\* the others also after some failures.
DrainStream(failed) ==
    /\ at = "running"
    /\ at' = "drained"
    /\ \/ /\ engine \in {"quickjsgo", "moderncquickjs"} \/ (engine = "qjs" /\ ~failed)
          /\ sink' = None
       \/ /\ failed \/ engine \in {"goja", "sobek", "v8go"}
          /\ UNCHANGED sink
    /\ UNCHANGED <<engine, objects, bridge, handle, diFuncs, context, served, injected>>

\* An injector, the context or the start of the render fails.
GiveUp == /\ at \in {"injecting", "ready"}
          /\ at' = "drained"
          /\ UNCHANGED <<engine, objects, bridge, handle, diFuncs, context, sink, served, injected>>

\* Mutant of ResetBridge: the functions go, the Proxy and its cache stay.
KeepBridge == /\ objects' = [objects EXCEPT ![bridge.target].functions = NoFunctions]
              /\ UNCHANGED <<bridge, handle>>

\* Every engine gives the VM a new bridge, some after they emptied the old one;
\* goja and sobek remember the new one.
ResetBridge ==
    /\ objects' = Append(IF engine \in {"goja", "sobek", "v8go"}
                           THEN [objects EXCEPT ![Emptied].functions = NoFunctions]
                           ELSE objects, NewObject)
    /\ bridge' = [target |-> Len(objects'), caches |-> <<>>]
    /\ handle' = IF engine \in {"goja", "sobek"} THEN Len(objects') ELSE handle

ClearState == /\ at \in {"drained", "extracting"}
              /\ ResetBridge
              /\ diFuncs' = NoFunctions /\ context' = None /\ sink' = None
              /\ at' = "idle"
              /\ UNCHANGED <<engine, served, injected>>

\* A reload loads another bundle into a new VM.
NewRuntime == /\ at = "idle"
              /\ objects' = <<NewObject>> /\ bridge' = NewBridge /\ handle' = 1
              /\ served' = 0 /\ injected' = 0
              /\ UNCHANGED <<engine, diFuncs, context, sink, at>>

BridgeNext == \/ NewRuntime
              \/ PrepareVM \/ ExtractDocumentProps \/ Inject \/ SetRequestContext \/ StartRender
              \/ GiveUp \/ ClearState
              \/ \E f \in Functions : Ask(f)
              \/ \E failed \in BOOLEAN : DrainStream(failed)

BridgeSpec == BridgeInit /\ [][BridgeNext]_bridgeVars

-----------------------------------------------------------------------------
(* Properties                                                               *)

\* The functions a program is entitled to: those of the injector that ran last.
Entitled == IF Injectors = <<>> THEN {} ELSE Injectors[Len(Injectors)]

\* Whatever has run on a VM before (renders that failed or were given up half
\* injected, nested memos), a program finds under __DEPENDENCY_INJECTION__ the
\* functions of its own request and results of its own request only
\* (SetDependencyInjection, BridgeMemoSrc, clearState); on a VM in the pool
\* nothing of a request is left.  quickjsgo keeps to this by losing functions.
OwnBridge ==
    /\ at \in {"idle", "extracting"} =>
           context = None /\ sink = None /\ \A f \in Functions : Answer(f) = None
    /\ at = "running" =>
           /\ context = served /\ sink \in {None, served}
           /\ \A f \in Functions : \/ Answer(f) = IF f \in Entitled THEN served ELSE None
                                   \/ engine = "quickjsgo" /\ served > 1 /\ Answer(f) = None

\* "SetDependencyInjection installs bridge functions on __DEPENDENCY_INJECTION__"
\* (quickjsgo.go): the program finds them there, on every lease of the VM.
FunctionsReached == at = "running" => \A f \in Entitled : Answer(f) = served
=============================================================================
