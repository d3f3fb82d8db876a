------------------------------- MODULE VMPool -------------------------------
(***************************************************************************)
(* vmpool.Pool: a bounded pool of JavaScript VMs built from two buffered   *)
(* channels and a mutex.  `idle` carries the VMs ready for use, `sem` one  *)
(* token per VM that exists or is being made.  Clients call Acquire and    *)
(* Release, Closers call Close; every channel operation and every critical *)
(* section is a step of its own.                                           *)
(*                                                                         *)
(* A Go channel with a blocked receiver hands the next value sent straight *)
(* to the receiver that has waited longest, so `waiters` is a queue and    *)
(* `idle` is empty while somebody waits.                                   *)
(***************************************************************************)
EXTENDS Naturals, Sequences, FiniteSets, Functions

CONSTANTS Clients,   \* goroutines that call Acquire and then Release
          Closers,   \* goroutines that call Close
          VM,        \* the objects the factory may return
          NoVM,
          MinSize, MaxSize

ASSUME SizesAssumption == /\ MinSize \in Nat \ {0}
                          /\ MaxSize \in Nat
                          /\ MinSize <= MaxSize
ASSUME ProcsAssumption == /\ IsFiniteSet(Clients)
                          /\ IsFiniteSet(Closers)
                          /\ Clients \cap Closers = {}
ASSUME NoVMAssumption == NoVM \notin VM

Procs == Clients \cup Closers

VARIABLES idle,      \* the values buffered in channel idle
          sem,       \* the number of tokens in channel sem
          closed,
          waiters,   \* the clients blocked receiving from idle, oldest first
          live,      \* the VMs the factory made and nobody disposed of
          pc,
          vm         \* the VM in a goroutine's hands, or NoVM

vars == <<idle, sem, closed, waiters, live, pc, vm>>

(***************************************************************************)
(* "out": in no call.  Acquire: "trySlot", "create", "unslot", "toWait",   *)
(* "blocked"; "using" between Acquire and Release.  Release: "put",        *)
(* "dispose", "free".  Close: "drain", "drainDispose", "drainFree".        *)
(***************************************************************************)
Labels == {"out", "trySlot", "create", "unslot", "toWait", "blocked", "using",
           "put", "dispose", "free", "drain", "drainDispose", "drainFree"}

Goto(p, l) == pc' = [pc EXCEPT ![p] = l]

\* New returned: MinSize VMs made and buffered, one token each.
Init == /\ idle \in [1..MinSize -> VM]
        /\ IsInjective(idle)
        /\ sem = MinSize
        /\ closed = FALSE
        /\ waiters = <<>>
        /\ live = {idle[i] : i \in 1..MinSize}
        /\ pc = [p \in Procs |-> "out"]
        /\ vm = [p \in Procs |-> NoVM]

-----------------------------------------------------------------------------
(* Acquire                                                                 *)

\* Receive the oldest idle VM and go to label l.
Receive(p, l) == /\ idle # <<>>
                 /\ vm' = [vm EXCEPT ![p] = Head(idle)]
                 /\ idle' = Tail(idle)
                 /\ Goto(p, l)

AcquireIdle(c) == /\ pc[c] = "out"
                  /\ Receive(c, "using")
                  /\ UNCHANGED <<sem, closed, waiters, live>>

AcquireNoIdle(c) == /\ pc[c] = "out"
                    /\ idle = <<>>
                    /\ Goto(c, "trySlot")
                    /\ UNCHANGED <<idle, sem, closed, waiters, live, vm>>

TakeSlot(c) == /\ pc[c] = "trySlot"
               /\ sem < MaxSize
               /\ sem' = sem + 1
               /\ Goto(c, "create")
               /\ UNCHANGED <<idle, closed, waiters, live, vm>>

NoSlot(c) == /\ pc[c] = "trySlot"
             /\ sem = MaxSize
             /\ Goto(c, "toWait")
             /\ UNCHANGED <<idle, sem, closed, waiters, live, vm>>

FactoryOK(c, v) == /\ pc[c] = "create"
                   /\ v \notin live
                   /\ live' = live \cup {v}
                   /\ vm' = [vm EXCEPT ![c] = v]
                   /\ Goto(c, "using")
                   /\ UNCHANGED <<idle, sem, closed, waiters>>

FactoryError(c) == /\ pc[c] = "create"
                   /\ Goto(c, "unslot")
                   /\ UNCHANGED <<idle, sem, closed, waiters, live, vm>>

\* Receive a token from sem, blocking while there is none.
FreeSlot(p, from, to) == /\ pc[p] = from
                         /\ sem > 0
                         /\ sem' = sem - 1
                         /\ Goto(p, to)
                         /\ UNCHANGED <<idle, closed, waiters, live, vm>>

\* Mutant of AcquireFails: the early return leaks the slot.
AcquireFailsKeepingSlot(c) == /\ pc[c] = "unslot"
                              /\ Goto(c, "out")
                              /\ UNCHANGED <<idle, sem, closed, waiters, live, vm>>

\* The factory failed: the slot goes back and Acquire returns the error.
AcquireFails(c) == FreeSlot(c, "unslot", "out")

WaitReceive(c) == /\ pc[c] = "toWait"
                  /\ Receive(c, "using")
                  /\ UNCHANGED <<sem, closed, waiters, live>>

WaitBlocks(c) == /\ pc[c] = "toWait"
                 /\ idle = <<>>
                 /\ waiters' = Append(waiters, c)
                 /\ Goto(c, "blocked")
                 /\ UNCHANGED <<idle, sem, closed, live, vm>>

-----------------------------------------------------------------------------
(* Release                                                                 *)

\* Mutant of ReleaseOpen: the VM is sent to idle here and once more by PutIdle.
ReleaseOpenTwice(c) == /\ pc[c] = "using"
                       /\ ~closed
                       /\ idle' = Append(idle, vm[c])
                       /\ Goto(c, "put")
                       /\ UNCHANGED <<sem, closed, waiters, live, vm>>

\* The VM is reset and `closed` read under the mutex, released again before
\* anything is done with the VM.
ReleaseOpen(c) == /\ pc[c] = "using"
                  /\ ~closed
                  /\ Goto(c, "put")
                  /\ UNCHANGED <<idle, sem, closed, waiters, live, vm>>

ReleaseClosed(c) == /\ pc[c] = "using"
                    /\ closed
                    /\ Goto(c, "dispose")
                    /\ UNCHANGED <<idle, sem, closed, waiters, live, vm>>

PutIdle(c) == /\ pc[c] = "put"
              /\ waiters = <<>>
              /\ Len(idle) < MaxSize
              /\ idle' = Append(idle, vm[c])
              /\ vm' = [vm EXCEPT ![c] = NoVM]
              /\ Goto(c, "out")
              /\ UNCHANGED <<sem, closed, waiters, live>>

\* Mutant of PutHandOff: the value is buffered and nobody is woken.
PutWithoutWakeup(c) == /\ pc[c] = "put"
                       /\ idle' = Append(idle, vm[c])
                       /\ vm' = [vm EXCEPT ![c] = NoVM]
                       /\ Goto(c, "out")
                       /\ UNCHANGED <<sem, closed, waiters, live>>

PutHandOff(c) == /\ pc[c] = "put"
                 /\ waiters # <<>>
                 /\ LET w == Head(waiters) IN
                      /\ vm' = [vm EXCEPT ![w] = vm[c], ![c] = NoVM]
                      /\ pc' = [pc EXCEPT ![w] = "using", ![c] = "out"]
                 /\ waiters' = Tail(waiters)
                 /\ UNCHANGED <<idle, sem, closed, live>>

DisposeOne(p, from, to) == /\ pc[p] = from
                           /\ live' = live \ {vm[p]}
                           /\ vm' = [vm EXCEPT ![p] = NoVM]
                           /\ Goto(p, to)
                           /\ UNCHANGED <<idle, sem, closed, waiters>>

\* Mutant of ReleaseDispose: the VM is disposed of and then returned to the pool
\* all the same.
ReleaseDisposesAndPuts(c) == /\ pc[c] = "dispose"
                             /\ live' = live \ {vm[c]}
                             /\ Goto(c, "put")
                             /\ UNCHANGED <<idle, sem, closed, waiters, vm>>

ReleaseDispose(c) == DisposeOne(c, "dispose", "free")
ReleaseFree(c) == FreeSlot(c, "free", "out")

-----------------------------------------------------------------------------
(* Close.  A second Close finds `closed` set and returns: no step.         *)

CloseBegin(k) == /\ pc[k] = "out"
                 /\ ~closed
                 /\ closed' = TRUE
                 /\ Goto(k, "drain")
                 /\ UNCHANGED <<idle, sem, waiters, live, vm>>

DrainTake(k) == /\ pc[k] = "drain"
                /\ Receive(k, "drainDispose")
                /\ UNCHANGED <<sem, closed, waiters, live>>

DrainDispose(k) == DisposeOne(k, "drainDispose", "drainFree")
DrainFree(k) == FreeSlot(k, "drainFree", "drain")

DrainDone(k) == /\ pc[k] = "drain"
                /\ idle = <<>>
                /\ Goto(k, "out")
                /\ UNCHANGED <<idle, sem, closed, waiters, live, vm>>

-----------------------------------------------------------------------------
Acquire(c) == \/ AcquireIdle(c)
              \/ AcquireNoIdle(c)
              \/ TakeSlot(c)
              \/ NoSlot(c)
              \/ \E v \in VM : FactoryOK(c, v)
              \/ FactoryError(c)
              \/ AcquireFails(c)
              \/ WaitReceive(c)
              \/ WaitBlocks(c)

Release(c) == \/ ReleaseOpen(c)
              \/ ReleaseClosed(c)
              \/ PutIdle(c)
              \/ PutHandOff(c)
              \/ ReleaseDispose(c)
              \/ ReleaseFree(c)

Close(k) == \/ CloseBegin(k)
            \/ DrainTake(k)
            \/ DrainDispose(k)
            \/ DrainFree(k)
            \/ DrainDone(k)

Next == \/ \E c \in Clients : Acquire(c) \/ Release(c)
        \/ \E k \in Closers : Close(k)

Spec == Init /\ [][Next]_vars

(***************************************************************************)
(* A goroutine inside a call keeps running, and a caller gives its VM back *)
(* (every call into an engine returns: it is synchronous or has a          *)
(* deadline).  Nobody is obliged to call Acquire or Close.                 *)
(***************************************************************************)
FairSpec ==
  /\ Spec
  /\ \A c \in Clients : WF_vars(pc[c] # "out" /\ (Acquire(c) \/ Release(c)))
  /\ \A k \in Closers : WF_vars(pc[k] # "out" /\ Close(k))

-----------------------------------------------------------------------------
(* Properties                                                              *)

TypeOK == /\ idle \in Seq(VM)
          /\ sem \in 0..MaxSize
          /\ closed \in BOOLEAN
          /\ waiters \in Seq(Clients)
          /\ live \in SUBSET VM
          /\ pc \in [Procs -> Labels]
          /\ vm \in [Procs -> VM \cup {NoVM}]

\* A slot taken whose VM does not exist yet, or no longer exists.
Pending == {p \in Procs : pc[p] \in {"create", "unslot", "free", "drainFree"}}

\* The token count always equals the VMs that exist plus those being made or
\* just disposed of: no path of Acquire, Release or Close loses or duplicates
\* a slot, also when the factory fails or Close drains concurrently.
SlotAccounting == /\ IsFiniteSet(live)
                  /\ sem = Cardinality(live) + Cardinality(Pending)

Fits(vms) == IsFiniteSet(vms) /\ Cardinality(vms) <= MaxSize

\* "MaxSize is the hard upper bound on concurrent VMs".
LiveBound == Fits(live)

Holding == {"using", "put", "dispose", "drainDispose"}
HandsFull == \A p \in Procs : vm[p] # NoVM <=> pc[p] \in Holding

\* In the hands of one goroutine or once in the idle buffer, and not disposed of.
SoleCustody ==
  /\ HandsFull
  /\ \A p \in Procs : vm[p] # NoVM => vm[p] \in live
  /\ \A p, q \in Procs : vm[p] = vm[q] /\ vm[p] # NoVM => p = q
  /\ \A i \in 1..Len(idle) : /\ idle[i] \in live
                             /\ \A p \in Procs : vm[p] # idle[i]
  /\ \A i, j \in 1..Len(idle) : idle[i] = idle[j] => i = j

NoVMLost == \A v \in live : \/ \E i \in 1..Len(idle) : idle[i] = v
                            \/ \E p \in Procs : vm[p] = v

\* A VM that exists is in exactly one place, the hands of one goroutine or the
\* idle buffer, however Acquire, Release and Close overlap: none is used by two,
\* used after its disposal, or lost.
Custody == SoleCustody /\ NoVMLost

\* A client waits only while nothing is idle, and is queued exactly once.
WaitQueue == /\ idle # <<>> => waiters = <<>>
             /\ \A i \in 1..Len(waiters) : pc[waiters[i]] = "blocked"
             /\ \A i, j \in 1..Len(waiters) : waiters[i] = waiters[j] => i = j
             /\ \A c \in Procs : pc[c] = "blocked"
                                   => \E i \in 1..Len(waiters) : waiters[i] = c

\* Release sends on idle outside the mutex; the buffer has room for every VM
\* that may be released, so the send never blocks.
PutNeverBlocks == \A c \in Clients : pc[c] = "put" => Len(idle) < MaxSize

\* The pool implements exclusive leases on at most MaxSize VMs.
Lease == INSTANCE VMLease WITH Users <- Procs, owner <- vm
ImplementsLease == Lease!Spec

\* A client that blocks in Acquire is served in the end, although factories fail;
\* once Close has run, Release wakes nobody any more and the promise lapses.
AcquireReturns == \A c \in Clients : pc[c] = "blocked" ~> pc[c] = "using" \/ closed
=============================================================================
