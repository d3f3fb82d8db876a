---------------------------- MODULE VMPoolProofs ----------------------------
(***************************************************************************)
(* VMPool for every set of clients, closers and VMs and every MinSize and  *)
(* MaxSize: type correctness, slot accounting and the bound on live VMs,   *)
(* sole custody of every VM, and that the pool implements VMLease.         *)
(***************************************************************************)
EXTENDS VMPool, FiniteSetTheorems, SequenceTheorems, TLAPS

-----------------------------------------------------------------------------
(* Type correctness.  That a goroutine about to return a VM has one in its  *)
(* hands is needed to type the idle buffer, so the two are proved together. *)

TypeInv == TypeOK /\ HandsFull

LEMMA TypeInit == Init => TypeInv
  <1> SUFFICES ASSUME Init PROVE TypeInv
    OBVIOUS
  <1>1. idle \in Seq(VM)
    BY SizesAssumption, SeqDef DEF Init
  <1>2. waiters \in Seq(Clients)
    BY EmptySeq DEF Init
  <1>3. live \in SUBSET VM
    BY DEF Init
  <1>4. pc \in [Procs -> Labels] /\ vm \in [Procs -> VM \cup {NoVM}] /\ HandsFull
    BY DEF Init, Labels, HandsFull, Holding
  <1>5. sem \in 0..MaxSize
    <2>1. sem = MinSize
      BY DEF Init
    <2> QED
      BY <2>1, SizesAssumption
  <1>6. closed \in BOOLEAN
    BY DEF Init
  <1> QED
    BY <1>1, <1>2, <1>3, <1>4, <1>5, <1>6 DEF TypeInv, TypeOK

LEMMA TypeNext == TypeInv /\ [Next]_vars => TypeInv'
  <1> SUFFICES ASSUME TypeInv, [Next]_vars PROVE TypeInv'
    OBVIOUS
  <1> USE SizesAssumption, NoVMAssumption
      DEF TypeInv, TypeOK, HandsFull, Holding, Labels, Procs, Goto
  <1>1. ASSUME NEW c \in Clients, Acquire(c) PROVE TypeInv'
    <2>1. CASE AcquireIdle(c)
      BY <2>1, HeadTailProperties DEF AcquireIdle, Receive
    <2>2. CASE AcquireNoIdle(c)
      BY <2>2 DEF AcquireNoIdle
    <2>3. CASE TakeSlot(c)
      BY <2>3 DEF TakeSlot
    <2>4. CASE NoSlot(c)
      BY <2>4 DEF NoSlot
    <2>5. ASSUME NEW v \in VM, FactoryOK(c, v) PROVE TypeInv'
      BY <2>5 DEF FactoryOK
    <2>6. CASE FactoryError(c)
      BY <2>6 DEF FactoryError
    <2>7. CASE AcquireFails(c)
      BY <2>7 DEF AcquireFails, FreeSlot
    <2>8. CASE WaitReceive(c)
      BY <2>8, HeadTailProperties DEF WaitReceive, Receive
    <2>9. CASE WaitBlocks(c)
      BY <2>9, AppendProperties DEF WaitBlocks
    <2> QED
      BY <1>1, <2>1, <2>2, <2>3, <2>4, <2>5, <2>6, <2>7, <2>8, <2>9 DEF Acquire
  <1>2. ASSUME NEW c \in Clients, Release(c) PROVE TypeInv'
    <2>1. CASE ReleaseOpen(c)
      BY <2>1 DEF ReleaseOpen
    <2>2. CASE ReleaseClosed(c)
      BY <2>2 DEF ReleaseClosed
    <2>3. CASE PutIdle(c)
      <3>1. vm[c] \in VM
        BY <2>3 DEF PutIdle
      <3> QED
        BY <2>3, <3>1, AppendProperties DEF PutIdle
    <2>4. CASE PutHandOff(c)
      <3>1. vm[c] \in VM
        BY <2>4 DEF PutHandOff
      <3>2. Head(waiters) \in Clients /\ Tail(waiters) \in Seq(Clients)
        BY <2>4, HeadTailProperties DEF PutHandOff
      <3> QED
        BY <2>4, <3>1, <3>2 DEF PutHandOff
    <2>5. CASE ReleaseDispose(c)
      BY <2>5 DEF ReleaseDispose, DisposeOne
    <2>6. CASE ReleaseFree(c)
      BY <2>6 DEF ReleaseFree, FreeSlot
    <2> QED
      BY <1>2, <2>1, <2>2, <2>3, <2>4, <2>5, <2>6 DEF Release
  <1>3. ASSUME NEW k \in Closers, Close(k) PROVE TypeInv'
    <2>1. CASE CloseBegin(k)
      BY <2>1 DEF CloseBegin
    <2>2. CASE DrainTake(k)
      BY <2>2, HeadTailProperties DEF DrainTake, Receive
    <2>3. CASE DrainDispose(k)
      BY <2>3 DEF DrainDispose, DisposeOne
    <2>4. CASE DrainFree(k)
      BY <2>4 DEF DrainFree, FreeSlot
    <2>5. CASE DrainDone(k)
      BY <2>5 DEF DrainDone
    <2> QED
      BY <1>3, <2>1, <2>2, <2>3, <2>4, <2>5 DEF Close
  <1>4. CASE UNCHANGED vars
    BY <1>4 DEF vars
  <1> QED
    BY <1>1, <1>2, <1>3, <1>4 DEF Next

LEMMA TypeInvariant == Spec => []TypeInv
  <1>1. QED
    BY TypeInit, TypeNext, PTL DEF Spec

\* Every variable of the pool keeps its type whatever the interleaving.
THEOREM TypeCorrect == Spec => []TypeOK
  <1>1. TypeInv => TypeOK
    BY DEF TypeInv
  <1>2. QED
    BY <1>1, TypeInvariant, PTL

-----------------------------------------------------------------------------
(* The tokens of sem count the VMs that exist and those on their way.      *)

LEMMA PendingFinite == IsFiniteSet(Procs) /\ IsFiniteSet(Pending)
  <1>1. IsFiniteSet(Procs)
    BY ProcsAssumption, FS_Union DEF Procs
  <1> QED
    BY <1>1, FS_Subset DEF Pending

LEMMA SlotsInit == Init => SlotAccounting
  <1> SUFFICES ASSUME Init PROVE SlotAccounting
    OBVIOUS
  <1>1. Pending = {}
    BY DEF Init, Pending
  <1>2. idle \in Surjection(1..MinSize, live)
    BY DEF Init, Surjection
  <1>3. idle \in Injection(1..MinSize, live)
    BY <1>2, Zenon DEF Init, Injection, IsInjective, Surjection
  <1>4. IsFiniteSet(1..MinSize) /\ Cardinality(1..MinSize) = MinSize
    BY SizesAssumption, FS_Interval
  <1>5. IsFiniteSet(live) /\ Cardinality(live) = MinSize
    BY <1>2, <1>3, <1>4, FS_Surjection
  <1> QED
    BY <1>1, <1>5, FS_EmptySet, SizesAssumption DEF Init, SlotAccounting

LEMMA SlotsNext ==
  TypeInv /\ SoleCustody /\ WaitQueue /\ SlotAccounting /\ [Next]_vars
    => SlotAccounting'
  <1> SUFFICES ASSUME TypeInv, SoleCustody, WaitQueue, SlotAccounting, [Next]_vars
               PROVE  SlotAccounting'
    OBVIOUS
  <1> USE DEF TypeInv, TypeOK, Labels, Goto, SlotAccounting
  <1>p. Cardinality(Pending) \in Nat /\ Cardinality(live) \in Nat
    BY PendingFinite, FS_CardinalityType
  \* A step that leaves sem, live and Pending alone.
  <1>a. ASSUME sem' = sem, live' = live, Pending' = Pending
        PROVE  SlotAccounting'
    BY <1>a
  \* A slot is taken for a VM to be made.
  <1>b. ASSUME NEW p \in Procs, p \notin Pending, Pending' = Pending \cup {p},
               live' = live, sem' = sem + 1
        PROVE  SlotAccounting'
    <2>1. Cardinality(Pending') = Cardinality(Pending) + 1
      BY <1>b, PendingFinite, FS_AddElement, Zenon
    <2> QED
      BY <1>b, <2>1, <1>p
  \* A slot is given back.
  <1>c. ASSUME NEW p \in Pending, Pending' = Pending \ {p},
               live' = live, sem' = sem - 1
        PROVE  SlotAccounting'
    <2>1. Cardinality(Pending') = Cardinality(Pending) - 1
      BY <1>c, PendingFinite, FS_RemoveElement, Zenon
    <2> QED
      BY <1>c, <2>1, <1>p
  <1>d. ASSUME NEW p \in Procs, DisposeOne(p, pc[p], "free") \/ DisposeOne(p, pc[p], "drainFree"),
               pc[p] \in {"dispose", "drainDispose"}
        PROVE  SlotAccounting'
    <2>1. p \notin Pending /\ Pending' = Pending \cup {p}
      BY <1>d DEF Pending, DisposeOne
    <2>2. vm[p] \in live /\ live' = live \ {vm[p]} /\ sem' = sem
      BY <1>d DEF SoleCustody, HandsFull, Holding, DisposeOne
    <2>3. Cardinality(Pending') = Cardinality(Pending) + 1
      BY <2>1, PendingFinite, FS_AddElement, Zenon
    <2>4. IsFiniteSet(live') /\ Cardinality(live') = Cardinality(live) - 1
      <3> DEFINE v == vm[p]
      <3>1. v \in live /\ live' = live \ {v} /\ IsFiniteSet(live)
        BY <2>2
      <3> HIDE DEF v
      <3> QED
        BY <3>1, FS_RemoveElement, Zenon
    <2> QED
      BY <2>2, <2>3, <2>4, <1>p
  <1>1. ASSUME NEW c \in Clients, Acquire(c) PROVE SlotAccounting'
    <2>0. c \in Procs
      BY DEF Procs
    <2>1. CASE AcquireIdle(c)
      BY <2>0, <2>1, <1>a DEF AcquireIdle, Receive, Pending
    <2>2. CASE AcquireNoIdle(c)
      BY <2>0, <2>2, <1>a DEF AcquireNoIdle, Pending
    <2>3. CASE TakeSlot(c)
      <3>1. c \notin Pending /\ Pending' = Pending \cup {c}
        BY <2>0, <2>3 DEF TakeSlot, Pending
      <3> QED
        BY <2>0, <2>3, <3>1, <1>b DEF TakeSlot
    <2>4. CASE NoSlot(c)
      BY <2>0, <2>4, <1>a DEF NoSlot, Pending
    <2>5. ASSUME NEW v \in VM, FactoryOK(c, v) PROVE SlotAccounting'
      <3>1. c \in Pending /\ Pending' = Pending \ {c}
        BY <2>0, <2>5 DEF FactoryOK, Pending
      <3>2. v \notin live /\ live' = live \cup {v} /\ sem' = sem
        BY <2>5 DEF FactoryOK
      <3>3. Cardinality(Pending') = Cardinality(Pending) - 1
        BY <3>1, PendingFinite, FS_RemoveElement, Zenon
      <3>4. IsFiniteSet(live') /\ Cardinality(live') = Cardinality(live) + 1
        BY <3>2, FS_AddElement, Zenon
      <3> QED
        BY <3>2, <3>3, <3>4, <1>p
    <2>6. CASE FactoryError(c)
      BY <2>0, <2>6, <1>a DEF FactoryError, Pending
    <2>7. CASE AcquireFails(c)
      <3>1. c \in Pending /\ Pending' = Pending \ {c}
        BY <2>0, <2>7 DEF AcquireFails, FreeSlot, Pending
      <3> QED
        BY <2>7, <3>1, <1>c DEF AcquireFails, FreeSlot
    <2>8. CASE WaitReceive(c)
      BY <2>0, <2>8, <1>a DEF WaitReceive, Receive, Pending
    <2>9. CASE WaitBlocks(c)
      BY <2>0, <2>9, <1>a DEF WaitBlocks, Pending
    <2> QED
      BY <1>1, <2>1, <2>2, <2>3, <2>4, <2>5, <2>6, <2>7, <2>8, <2>9 DEF Acquire
  <1>2. ASSUME NEW c \in Clients, Release(c) PROVE SlotAccounting'
    <2>0. c \in Procs
      BY DEF Procs
    <2>1. CASE ReleaseOpen(c)
      BY <2>0, <2>1, <1>a DEF ReleaseOpen, Pending
    <2>2. CASE ReleaseClosed(c)
      BY <2>0, <2>2, <1>a DEF ReleaseClosed, Pending
    <2>3. CASE PutIdle(c)
      BY <2>0, <2>3, <1>a DEF PutIdle, Pending
    <2>4. CASE PutHandOff(c)
      <3>1. Head(waiters) \in Procs /\ pc[Head(waiters)] = "blocked"
        BY <2>4, HeadTailProperties, EmptySeq DEF PutHandOff, WaitQueue, Procs
      <3>2. Pending' = Pending
        BY <2>0, <2>4, <3>1 DEF PutHandOff, Pending
      <3> QED
        BY <2>4, <3>2, <1>a DEF PutHandOff
    <2>5. CASE ReleaseDispose(c)
      BY <2>0, <2>5, <1>d DEF ReleaseDispose, DisposeOne
    <2>6. CASE ReleaseFree(c)
      <3>1. c \in Pending /\ Pending' = Pending \ {c}
        BY <2>0, <2>6 DEF ReleaseFree, FreeSlot, Pending
      <3> QED
        BY <2>6, <3>1, <1>c DEF ReleaseFree, FreeSlot
    <2> QED
      BY <1>2, <2>1, <2>2, <2>3, <2>4, <2>5, <2>6 DEF Release
  <1>3. ASSUME NEW k \in Closers, Close(k) PROVE SlotAccounting'
    <2>0. k \in Procs
      BY DEF Procs
    <2>1. CASE CloseBegin(k)
      BY <2>0, <2>1, <1>a DEF CloseBegin, Pending
    <2>2. CASE DrainTake(k)
      BY <2>0, <2>2, <1>a DEF DrainTake, Receive, Pending
    <2>3. CASE DrainDispose(k)
      BY <2>0, <2>3, <1>d DEF DrainDispose, DisposeOne
    <2>4. CASE DrainFree(k)
      <3>1. k \in Pending /\ Pending' = Pending \ {k}
        BY <2>0, <2>4 DEF DrainFree, FreeSlot, Pending
      <3> QED
        BY <2>4, <3>1, <1>c DEF DrainFree, FreeSlot
    <2>5. CASE DrainDone(k)
      BY <2>0, <2>5, <1>a DEF DrainDone, Pending
    <2> QED
      BY <1>3, <2>1, <2>2, <2>3, <2>4, <2>5 DEF Close
  <1>4. CASE UNCHANGED vars
    BY <1>4, <1>a DEF vars, Pending
  <1> QED
    BY <1>1, <1>2, <1>3, <1>4 DEF Next

-----------------------------------------------------------------------------
(* Blocked clients are exactly the queued ones, and they queue only while  *)
(* nothing is idle.                                                        *)

LEMMA WaitInit == Init => WaitQueue
  BY DEF Init, WaitQueue

LEMMA WaitNext == TypeInv /\ WaitQueue /\ [Next]_vars => WaitQueue'
  <1> SUFFICES ASSUME TypeInv, WaitQueue, [Next]_vars PROVE WaitQueue'
    OBVIOUS
  <1> USE DEF TypeInv, TypeOK, Labels, Goto
  \* A running goroutine moves on and nothing is queued, sent or received.
  <1>a. ASSUME NEW p \in Procs, NEW l \in Labels, pc[p] # "blocked", l # "blocked",
               Goto(p, l), idle' = idle, waiters' = waiters
        PROVE  WaitQueue'
    BY <1>a DEF WaitQueue, Procs
  <1>b. ASSUME NEW p \in Procs, NEW l \in Labels, pc[p] # "blocked", l # "blocked",
               Receive(p, l), waiters' = waiters
        PROVE  WaitQueue'
    BY <1>b, HeadTailProperties, EmptySeq DEF WaitQueue, Procs, Receive
  <1>1. ASSUME NEW c \in Clients, Acquire(c) PROVE WaitQueue'
    <2>0. c \in Procs
      BY DEF Procs
    <2>1. CASE AcquireIdle(c)
      BY <2>0, <2>1, <1>b DEF AcquireIdle
    <2>2. CASE AcquireNoIdle(c)
      BY <2>0, <2>2, <1>a DEF AcquireNoIdle
    <2>3. CASE TakeSlot(c)
      BY <2>0, <2>3, <1>a DEF TakeSlot
    <2>4. CASE NoSlot(c)
      BY <2>0, <2>4, <1>a DEF NoSlot
    <2>5. ASSUME NEW v \in VM, FactoryOK(c, v) PROVE WaitQueue'
      BY <2>0, <2>5, <1>a DEF FactoryOK
    <2>6. CASE FactoryError(c)
      BY <2>0, <2>6, <1>a DEF FactoryError
    <2>7. CASE AcquireFails(c)
      BY <2>0, <2>7, <1>a DEF AcquireFails, FreeSlot
    <2>8. CASE WaitReceive(c)
      BY <2>0, <2>8, <1>b DEF WaitReceive
    <2>9. CASE WaitBlocks(c)
      <3>1. /\ waiters' \in Seq(Clients)
            /\ Len(waiters') = Len(waiters) + 1
            /\ \A i \in 1..Len(waiters) : waiters'[i] = waiters[i]
            /\ waiters'[Len(waiters) + 1] = c
        BY <2>9, AppendProperties DEF WaitBlocks
      <3>2. \A i \in 1..Len(waiters) : waiters[i] # c
        BY <2>9 DEF WaitBlocks, WaitQueue
      <3>3. Len(waiters) \in Nat
        BY LenProperties
      <3>4. pc' = [pc EXCEPT ![c] = "blocked"] /\ idle' = <<>>
        BY <2>9 DEF WaitBlocks
      <3>5. ASSUME NEW i \in 1..Len(waiters') PROVE pc'[waiters'[i]] = "blocked"
        <4>1. CASE i = Len(waiters) + 1
          BY <2>0, <3>1, <3>4, <4>1
        <4>2. CASE i \in 1..Len(waiters)
          <5> DEFINE x == waiters[i]
          <5>1. x \in Procs /\ pc[x] = "blocked" /\ waiters'[i] = x
            BY <3>1, <4>2, ElementOfSeq DEF WaitQueue, Procs
          <5> HIDE DEF x
          <5> QED
            BY <2>0, <3>4, <5>1
        <4> QED
          BY <3>1, <3>3, <4>1, <4>2
      <3>6. \A i, j \in 1..Len(waiters') : waiters'[i] = waiters'[j] => i = j
        BY <3>1, <3>2, <3>3 DEF WaitQueue
      <3>7. ASSUME NEW q \in Procs, pc'[q] = "blocked"
            PROVE  \E i \in 1..Len(waiters') : waiters'[i] = q
        <4>1. CASE q = c
          BY <3>1, <3>3, <4>1
        <4>2. CASE q # c
          <5>1. PICK i \in 1..Len(waiters) : waiters[i] = q
            BY <2>0, <3>4, <3>7, <4>2 DEF WaitQueue
          <5> QED
            BY <3>1, <3>3, <5>1
        <4> QED
          BY <4>1, <4>2
      <3> QED
        BY <3>4, <3>5, <3>6, <3>7 DEF WaitQueue
    <2> QED
      BY <1>1, <2>1, <2>2, <2>3, <2>4, <2>5, <2>6, <2>7, <2>8, <2>9 DEF Acquire
  <1>2. ASSUME NEW c \in Clients, Release(c) PROVE WaitQueue'
    <2>0. c \in Procs
      BY DEF Procs
    <2>1. CASE ReleaseOpen(c)
      BY <2>0, <2>1, <1>a DEF ReleaseOpen
    <2>2. CASE ReleaseClosed(c)
      BY <2>0, <2>2, <1>a DEF ReleaseClosed
    <2>3. CASE PutIdle(c)
      BY <2>0, <2>3 DEF PutIdle, WaitQueue
    <2>4. CASE PutHandOff(c)
      <3> DEFINE w == Head(waiters)
      <3>1. waiters # <<>> /\ idle = <<>> /\ idle' = <<>>
        BY <2>4 DEF PutHandOff, WaitQueue
      <3>2. /\ w = waiters[1] /\ w \in Procs /\ 1 \in 1..Len(waiters)
            /\ Len(waiters') = Len(waiters) - 1
            /\ \A i \in 1..Len(waiters') : waiters'[i] = waiters[i + 1]
            /\ Len(waiters) \in Nat
        BY <2>4, <3>1, HeadTailProperties, EmptySeq, LenProperties DEF PutHandOff, Procs
      <3>3. pc' = [pc EXCEPT ![w] = "using", ![c] = "out"] /\ pc[c] = "put"
        BY <2>4 DEF PutHandOff
      <3>4. pc[w] = "blocked"
        BY <3>2 DEF WaitQueue
      <3> HIDE DEF w
      <3>5. \A i \in 1..Len(waiters') : i + 1 \in 1..Len(waiters) /\ waiters[i + 1] # w
        BY <3>2 DEF WaitQueue
      <3>6. ASSUME NEW i \in 1..Len(waiters') PROVE pc'[waiters'[i]] = "blocked"
        <4> DEFINE x == waiters[i + 1]
        <4>1. waiters'[i] = x /\ x # w
          BY <3>2, <3>5
        <4>2. x \in Procs
          BY <3>5, ElementOfSeq DEF Procs
        <4>3. pc[x] = "blocked"
          BY <3>5 DEF WaitQueue
        <4> HIDE DEF x
        <4> QED
          BY <2>0, <3>3, <4>1, <4>2, <4>3
      <3>7. \A i, j \in 1..Len(waiters') : waiters'[i] = waiters'[j] => i = j
        BY <3>2, <3>5 DEF WaitQueue
      <3>8. ASSUME NEW q \in Procs, pc'[q] = "blocked"
            PROVE  \E i \in 1..Len(waiters') : waiters'[i] = q
        <4>1. pc[q] = "blocked" /\ q # w
          BY <2>0, <3>2, <3>3, <3>8
        <4>2. PICK i \in 1..Len(waiters) : waiters[i] = q
          BY <4>1 DEF WaitQueue
        <4>3. i - 1 \in 1..Len(waiters') /\ waiters'[i - 1] = q
          BY <3>2, <4>1, <4>2
        <4> QED
          BY <4>3
      <3> QED
        BY <3>1, <3>6, <3>7, <3>8 DEF WaitQueue
    <2>5. CASE ReleaseDispose(c)
      BY <2>0, <2>5, <1>a DEF ReleaseDispose, DisposeOne
    <2>6. CASE ReleaseFree(c)
      BY <2>0, <2>6, <1>a DEF ReleaseFree, FreeSlot
    <2> QED
      BY <1>2, <2>1, <2>2, <2>3, <2>4, <2>5, <2>6 DEF Release
  <1>3. ASSUME NEW k \in Closers, Close(k) PROVE WaitQueue'
    <2>0. k \in Procs
      BY DEF Procs
    <2>1. CASE CloseBegin(k)
      BY <2>0, <2>1, <1>a DEF CloseBegin
    <2>2. CASE DrainTake(k)
      BY <2>0, <2>2, <1>b DEF DrainTake
    <2>3. CASE DrainDispose(k)
      BY <2>0, <2>3, <1>a DEF DrainDispose, DisposeOne
    <2>4. CASE DrainFree(k)
      BY <2>0, <2>4, <1>a DEF DrainFree, FreeSlot
    <2>5. CASE DrainDone(k)
      BY <2>0, <2>5, <1>a DEF DrainDone
    <2> QED
      BY <1>3, <2>1, <2>2, <2>3, <2>4, <2>5 DEF Close
  <1>4. CASE UNCHANGED vars
    BY <1>4 DEF vars, WaitQueue
  <1> QED
    BY <1>1, <1>2, <1>3, <1>4 DEF Next

-----------------------------------------------------------------------------
(* Every VM that exists is in exactly one place.                           *)

LEMMA CustodyInit == Init => Custody
  <1> SUFFICES ASSUME Init PROVE Custody
    OBVIOUS
  <1>1. Len(idle) = MinSize /\ DOMAIN idle = 1..MinSize
    BY SizesAssumption DEF Init
  <1>2. \A p \in Procs : vm[p] = NoVM /\ pc[p] = "out"
    BY DEF Init
  <1>3. \A i \in 1..MinSize : idle[i] \in VM /\ idle[i] \in live
    BY DEF Init
  <1>4. \A i, j \in 1..MinSize : idle[i] = idle[j] => i = j
    BY <1>1, Zenon DEF Init, IsInjective
  <1>5. \A v \in live : \E i \in 1..MinSize : idle[i] = v
    BY DEF Init
  <1> QED
    BY <1>1, <1>2, <1>3, <1>4, <1>5, NoVMAssumption
    DEF Custody, SoleCustody, NoVMLost, HandsFull, Holding

LEMMA CustodyNext ==
  TypeInv /\ TypeInv' /\ WaitQueue /\ Custody /\ [Next]_vars => Custody'
  <1> SUFFICES ASSUME TypeInv, TypeInv', WaitQueue, Custody, [Next]_vars
               PROVE  Custody'
    OBVIOUS
  <1> USE NoVMAssumption DEF TypeInv, TypeOK, Custody
  <1>a. ASSUME idle' = idle, live' = live, vm' = vm PROVE Custody'
    BY <1>a DEF SoleCustody, NoVMLost
  <1>b. ASSUME NEW p \in Procs, NEW l, Receive(p, l), pc[p] \notin Holding,
               live' = live
        PROVE  Custody'
    <2> DEFINE v == Head(idle)
    <2>1. /\ v = idle[1] /\ 1 \in 1..Len(idle) /\ Len(idle) \in Nat
          /\ idle' \in Seq(VM)
          /\ Len(idle') = Len(idle) - 1
          /\ \A i \in 1..Len(idle') : idle'[i] = idle[i + 1]
      BY <1>b, HeadTailProperties, EmptySeq, LenProperties DEF Receive
    <2>2. vm' = [vm EXCEPT ![p] = v] /\ vm[p] = NoVM
      BY <1>b DEF Receive, HandsFull
    <2>3. v \in live /\ \A q \in Procs : vm[q] # v
      BY <2>1 DEF SoleCustody
    <2> HIDE DEF v
    <2>4. \A i \in 1..Len(idle') : i + 1 \in 1..Len(idle) /\ idle[i + 1] # v
      BY <2>1 DEF SoleCustody
    <2>a. \A q \in Procs : vm'[q] # NoVM => vm'[q] \in live
      BY <2>2, <2>3 DEF SoleCustody
    <2>b. \A q, r \in Procs : vm'[q] = vm'[r] /\ vm'[q] # NoVM => q = r
      BY <2>2, <2>3 DEF SoleCustody
    <2>c. ASSUME NEW i \in 1..Len(idle')
          PROVE  idle'[i] \in live /\ \A q \in Procs : vm'[q] # idle'[i]
      <3> DEFINE x == idle[i + 1]
      <3>1. idle'[i] = x /\ x # v
        BY <2>1, <2>4
      <3>2. x \in live /\ \A q \in Procs : vm[q] # x
        BY <2>4 DEF SoleCustody
      <3> HIDE DEF x
      <3> QED
        BY <2>2, <3>1, <3>2
    <2>d. ASSUME NEW i \in 1..Len(idle'), NEW j \in 1..Len(idle'), idle'[i] = idle'[j]
          PROVE  i = j
      <3>1. idle[i + 1] = idle[j + 1]
        BY <2>1, <2>d
      <3>2. i + 1 = j + 1
        BY <2>4, <3>1 DEF SoleCustody
      <3> QED
        BY <3>2
    <2>5. SoleCustody'
      BY <1>b, <2>a, <2>b, <2>c, <2>d DEF SoleCustody
    <2>6. ASSUME NEW u \in live
          PROVE  (\E i \in 1..Len(idle') : idle'[i] = u) \/ (\E q \in Procs : vm'[q] = u)
      <3>1. CASE u = v
        BY <2>2, <3>1
      <3>2. CASE \E q \in Procs : vm[q] = u
        BY <2>2, <3>2
      <3>3. ASSUME NEW i \in 1..Len(idle), idle[i] = u, u # v
            PROVE  \E j \in 1..Len(idle') : idle'[j] = u
        <4>1. i - 1 \in 1..Len(idle') /\ idle'[i - 1] = u
          BY <2>1, <3>3
        <4> QED
          BY <4>1
      <3> QED
        BY <3>1, <3>2, <3>3 DEF NoVMLost
    <2> QED
      BY <1>b, <2>5, <2>6 DEF NoVMLost
  <1>c. ASSUME NEW p \in Procs, NEW l, NEW m, DisposeOne(p, l, m), l \in Holding
        PROVE  Custody'
    <2>1. vm[p] # NoVM /\ vm[p] \in live
      BY <1>c DEF DisposeOne, HandsFull, SoleCustody
    <2>2. /\ live' = live \ {vm[p]}
          /\ vm' = [vm EXCEPT ![p] = NoVM]
          /\ idle' = idle
      BY <1>c DEF DisposeOne
    <2>3. SoleCustody'
      BY <2>1, <2>2 DEF SoleCustody
    <2>4. NoVMLost'
      BY <2>1, <2>2 DEF SoleCustody, NoVMLost
    <2> QED
      BY <2>3, <2>4
  <1>1. ASSUME NEW c \in Clients, Acquire(c) PROVE Custody'
    <2>0. c \in Procs
      BY DEF Procs
    <2>1. CASE AcquireIdle(c)
      BY <2>0, <2>1, <1>b DEF AcquireIdle, Holding
    <2>2. CASE AcquireNoIdle(c)
      BY <2>2, <1>a DEF AcquireNoIdle
    <2>3. CASE TakeSlot(c)
      BY <2>3, <1>a DEF TakeSlot
    <2>4. CASE NoSlot(c)
      BY <2>4, <1>a DEF NoSlot
    <2>5. ASSUME NEW v \in VM, FactoryOK(c, v) PROVE Custody'
      <3>1. /\ v \notin live /\ live' = live \cup {v} /\ vm[c] = NoVM
            /\ vm' = [vm EXCEPT ![c] = v] /\ idle' = idle
        BY <2>0, <2>5 DEF FactoryOK, HandsFull, Holding
      <3>2. SoleCustody'
        BY <2>0, <3>1 DEF SoleCustody
      <3>3. NoVMLost'
        BY <2>0, <3>1 DEF NoVMLost
      <3> QED
        BY <3>2, <3>3
    <2>6. CASE FactoryError(c)
      BY <2>6, <1>a DEF FactoryError
    <2>7. CASE AcquireFails(c)
      BY <2>7, <1>a DEF AcquireFails, FreeSlot
    <2>8. CASE WaitReceive(c)
      BY <2>0, <2>8, <1>b DEF WaitReceive, Holding
    <2>9. CASE WaitBlocks(c)
      BY <2>9, <1>a DEF WaitBlocks
    <2> QED
      BY <1>1, <2>1, <2>2, <2>3, <2>4, <2>5, <2>6, <2>7, <2>8, <2>9 DEF Acquire
  <1>2. ASSUME NEW c \in Clients, Release(c) PROVE Custody'
    <2>0. c \in Procs
      BY DEF Procs
    <2>1. CASE ReleaseOpen(c)
      BY <2>1, <1>a DEF ReleaseOpen
    <2>2. CASE ReleaseClosed(c)
      BY <2>2, <1>a DEF ReleaseClosed
    <2>3. CASE PutIdle(c)
      <3> DEFINE v == vm[c]
      <3>1. v \in VM /\ v \in live
        BY <2>0, <2>3 DEF PutIdle, HandsFull, Holding, SoleCustody
      <3>2. /\ idle' \in Seq(VM)
            /\ Len(idle') = Len(idle) + 1
            /\ \A i \in 1..Len(idle) : idle'[i] = idle[i]
            /\ idle'[Len(idle) + 1] = v
            /\ Len(idle) \in Nat
        BY <2>3, <3>1, AppendProperties, LenProperties DEF PutIdle
      <3>3. vm' = [vm EXCEPT ![c] = NoVM] /\ live' = live
        BY <2>3 DEF PutIdle
      <3>4. \A i \in 1..Len(idle) : idle[i] # v /\ idle[i] \in VM
        BY <2>0, ElementOfSeq DEF SoleCustody
      <3>5. \A q \in Procs : vm'[q] # v /\ (vm'[q] # NoVM => vm'[q] = vm[q])
        BY <2>0, <3>1, <3>3 DEF SoleCustody
      <3> HIDE DEF v
      <3>a. \A q \in Procs : vm'[q] # NoVM => vm'[q] \in live
        BY <3>5 DEF SoleCustody
      <3>b. \A q, r \in Procs : vm'[q] = vm'[r] /\ vm'[q] # NoVM => q = r
        BY <3>5 DEF SoleCustody
      <3>c. ASSUME NEW i \in 1..Len(idle')
            PROVE  idle'[i] \in live /\ \A q \in Procs : vm'[q] # idle'[i]
        <4>1. CASE i = Len(idle) + 1
          BY <3>1, <3>2, <3>5, <4>1
        <4>2. CASE i \in 1..Len(idle)
          BY <3>2, <3>4, <3>5, <4>2 DEF SoleCustody
        <4> QED
          BY <3>2, <4>1, <4>2
      <3>d. ASSUME NEW i \in 1..Len(idle'), NEW j \in 1..Len(idle'), idle'[i] = idle'[j]
            PROVE  i = j
        <4>1. CASE i \in 1..Len(idle) /\ j \in 1..Len(idle)
          <5>1. idle[i] = idle[j]
            BY <3>2, <3>d, <4>1
          <5> QED
            BY <4>1, <5>1 DEF SoleCustody
        <4>2. CASE i = Len(idle) + 1 \/ j = Len(idle) + 1
          BY <3>2, <3>4, <3>d, <4>2
        <4> QED
          BY <3>2, <4>1, <4>2
      <3>6. SoleCustody'
        BY <3>3, <3>a, <3>b, <3>c, <3>d DEF SoleCustody
      <3>7. ASSUME NEW u \in live
            PROVE  (\E i \in 1..Len(idle') : idle'[i] = u) \/ (\E q \in Procs : vm'[q] = u)
        <4>1. CASE u = v
          BY <3>2, <4>1
        <4>2. ASSUME NEW q \in Procs, vm[q] = u, u # v PROVE vm'[q] = u
          BY <2>0, <3>3, <4>2 DEF v
        <4>3. ASSUME NEW i \in 1..Len(idle), idle[i] = u
              PROVE  \E j \in 1..Len(idle') : idle'[j] = u
          BY <3>2, <4>3
        <4> QED
          BY <4>1, <4>2, <4>3 DEF NoVMLost
      <3> QED
        BY <3>3, <3>6, <3>7 DEF NoVMLost
    <2>4. CASE PutHandOff(c)
      <3> DEFINE w == Head(waiters)
      <3>1. w \in Procs /\ pc[w] = "blocked"
        BY <2>4, HeadTailProperties, EmptySeq DEF PutHandOff, WaitQueue, Procs
      <3>2. /\ vm' = [vm EXCEPT ![w] = vm[c], ![c] = NoVM]
            /\ idle' = idle /\ live' = live /\ pc[c] = "put"
        BY <2>4 DEF PutHandOff
      <3> HIDE DEF w
      <3>3. vm[w] = NoVM /\ vm[c] # NoVM /\ c # w
        BY <2>0, <3>1, <3>2 DEF HandsFull, Holding
      <3>4. SoleCustody'
        BY <2>0, <3>1, <3>2, <3>3 DEF SoleCustody
      <3>5. ASSUME NEW u \in live
            PROVE  (\E i \in 1..Len(idle) : idle[i] = u) \/ (\E q \in Procs : vm'[q] = u)
        <4>1. CASE u = vm[c]
          <5>1. vm'[w] = u
            BY <2>0, <3>1, <3>2, <3>3, <4>1
          <5> QED
            BY <3>1, <5>1
        <4>2. ASSUME NEW q \in Procs, vm[q] = u, u # vm[c] PROVE vm'[q] = u
          BY <2>0, <3>1, <3>2, <3>3, <4>2
        <4> QED
          BY <4>1, <4>2 DEF NoVMLost
      <3> QED
        BY <3>2, <3>4, <3>5 DEF NoVMLost
    <2>5. CASE ReleaseDispose(c)
      BY <2>0, <2>5, <1>c DEF ReleaseDispose, Holding
    <2>6. CASE ReleaseFree(c)
      BY <2>6, <1>a DEF ReleaseFree, FreeSlot
    <2> QED
      BY <1>2, <2>1, <2>2, <2>3, <2>4, <2>5, <2>6 DEF Release
  <1>3. ASSUME NEW k \in Closers, Close(k) PROVE Custody'
    <2>0. k \in Procs
      BY DEF Procs
    <2>1. CASE CloseBegin(k)
      BY <2>1, <1>a DEF CloseBegin
    <2>2. CASE DrainTake(k)
      BY <2>0, <2>2, <1>b DEF DrainTake, Holding
    <2>3. CASE DrainDispose(k)
      BY <2>0, <2>3, <1>c DEF DrainDispose, Holding
    <2>4. CASE DrainFree(k)
      BY <2>4, <1>a DEF DrainFree, FreeSlot
    <2>5. CASE DrainDone(k)
      BY <2>5, <1>a DEF DrainDone
    <2> QED
      BY <1>3, <2>1, <2>2, <2>3, <2>4, <2>5 DEF Close
  <1>4. CASE UNCHANGED vars
    BY <1>4, <1>a DEF vars
  <1> QED
    BY <1>1, <1>2, <1>3, <1>4 DEF Next

-----------------------------------------------------------------------------
(* The inductive invariant: none of its parts is preserved without others. *)

IInv == TypeInv /\ WaitQueue /\ Custody /\ SlotAccounting

LEMMA Inductive == Spec => []IInv
  <1>1. Init => IInv
    BY TypeInit, WaitInit, CustodyInit, SlotsInit DEF IInv
  <1>2. IInv /\ [Next]_vars => IInv'
    <2> SUFFICES ASSUME IInv, [Next]_vars PROVE IInv'
      OBVIOUS
    <2>1. TypeInv'
      BY TypeNext DEF IInv
    <2>2. WaitQueue'
      BY WaitNext DEF IInv
    <2>3. Custody'
      BY <2>1, CustodyNext DEF IInv
    <2>4. SlotAccounting'
      BY SlotsNext DEF IInv, Custody
    <2> QED
      BY <2>1, <2>2, <2>3, <2>4 DEF IInv
  <1>3. QED
    BY <1>1, <1>2, PTL DEF Spec

\* No path through Acquire, Release and Close loses or duplicates a slot.
THEOREM SlotsAccounted == Spec => []SlotAccounting
  <1>1. IInv => SlotAccounting
    BY DEF IInv
  <1>2. QED
    BY <1>1, Inductive, PTL

\* MaxSize is a hard upper bound on the VMs that exist, whatever Acquire,
\* Release, Close and failing factories do concurrently.
THEOREM LiveBounded == Spec => []LiveBound
  <1>1. IInv => LiveBound
    BY PendingFinite, FS_CardinalityType, SizesAssumption
    DEF IInv, TypeInv, TypeOK, SlotAccounting, LiveBound, Fits
  <1>2. QED
    BY <1>1, Inductive, PTL

\* No VM is ever in two hands, in a hand and in the buffer, or used after it
\* was disposed of, and none that exists is out of everybody's reach (Acquire,
\* Release, Close).
THEOREM CustodyHolds == Spec => []Custody
  <1>1. IInv => Custody
    BY DEF IInv
  <1>2. QED
    BY <1>1, Inductive, PTL

\* Whoever waits is queued once, and nobody waits while a VM is idle.
THEOREM WaitersQueued == Spec => []WaitQueue
  <1>1. IInv => WaitQueue
    BY DEF IInv
  <1>2. QED
    BY <1>1, Inductive, PTL

\* Release sends outside the mutex and yet never blocks: the idle buffer and
\* the VM about to be returned are distinct live VMs, at most MaxSize of them.
THEOREM SendsNeverBlock == Spec => []PutNeverBlocks
  <1>1. IInv => PutNeverBlocks
    <2> SUFFICES ASSUME IInv, NEW c \in Clients, pc[c] = "put"
                 PROVE  Len(idle) < MaxSize
      BY DEF PutNeverBlocks
    <2> DEFINE rest == live \ {vm[c]}
    <2>1. c \in Procs /\ vm[c] \in live
      BY DEF IInv, Custody, SoleCustody, TypeInv, HandsFull, Holding, Procs
    <2>2. Len(idle) \in Nat /\ idle \in [1..Len(idle) -> VM]
      BY LenProperties DEF IInv, TypeInv, TypeOK
    <2>3. \A i \in 1..Len(idle) : idle[i] \in rest
      BY <2>1 DEF IInv, Custody, SoleCustody
    <2>4. idle \in Injection(1..Len(idle), rest)
      <3>1. idle \in [1..Len(idle) -> rest]
        BY <2>2, <2>3
      <3>2. \A i, j \in 1..Len(idle) : idle[i] = idle[j] => i = j
        BY DEF IInv, Custody, SoleCustody
      <3> QED
        BY <3>1, <3>2 DEF Injection, IsInjective
    <2>5. /\ IsFiniteSet(rest) /\ Cardinality(rest) = Cardinality(live) - 1
          /\ Cardinality(live) <= MaxSize /\ Cardinality(live) \in Nat
      <3>1. IsFiniteSet(live) /\ Cardinality(live) \in Nat
        BY FS_CardinalityType DEF IInv, SlotAccounting
      <3>2. IsFiniteSet(rest) /\ Cardinality(rest) = Cardinality(live) - 1
        BY <2>1, <3>1, FS_RemoveElement
      <3>3. Cardinality(live) <= MaxSize
        BY <3>1, PendingFinite, FS_CardinalityType, SizesAssumption
        DEF IInv, TypeInv, TypeOK, SlotAccounting
      <3> QED
        BY <3>1, <3>2, <3>3
    <2>6. IsFiniteSet(1..Len(idle)) /\ Cardinality(1..Len(idle)) = Len(idle)
      BY <2>2, FS_Interval
    <2> HIDE DEF rest
    <2>7. Cardinality(1..Len(idle)) <= Cardinality(rest)
      BY <2>4, <2>5, FS_Injection
    <2> QED
      BY <2>2, <2>5, <2>6, <2>7, SizesAssumption
  <1>2. QED
    BY <1>1, Inductive, PTL

-----------------------------------------------------------------------------
(* The pool implements VMLease: each step creates, takes, gives back, hands *)
(* over or destroys one VM, or changes nothing a lease can see.             *)

LEMMA LeaseInit == Init => Lease!Init
  <1> SUFFICES ASSUME Init PROVE Lease!Init
    OBVIOUS
  <1>1. TypeOK /\ SlotAccounting
    BY TypeInit, SlotsInit DEF TypeInv
  <1>2. Fits(live)
    BY <1>1, PendingFinite, FS_CardinalityType, SizesAssumption
    DEF TypeOK, SlotAccounting, Fits
  <1>3. vm = [p \in Procs |-> NoVM]
    BY DEF Init
  <1>4. live \in SUBSET VM
    BY <1>1 DEF TypeOK
  <1> QED
    BY <1>2, <1>3, <1>4 DEF Lease!Init

LEMMA LeaseStep == IInv /\ [Next]_vars => [Lease!Next]_(Lease!vars)
  <1> SUFFICES ASSUME IInv, [Next]_vars PROVE [Lease!Next]_(Lease!vars)
    OBVIOUS
  <1> USE NoVMAssumption
      DEF IInv, TypeInv, TypeOK, Custody, SoleCustody, HandsFull, Holding
  <1>a. ASSUME live' = live, vm' = vm PROVE [Lease!Next]_(Lease!vars)
    BY <1>a DEF Lease!vars
  <1>b. ASSUME NEW p \in Procs, NEW l, Receive(p, l), pc[p] \notin Holding, live' = live
        PROVE  Lease!Next
    <2>1. Head(idle) = idle[1] /\ 1 \in 1..Len(idle) /\ Head(idle) \in VM
      BY <1>b, HeadTailProperties, EmptySeq, LenProperties DEF Receive
    <2>2. Lease!Take(p, Head(idle))
      BY <1>b, <2>1 DEF Receive, Lease!Take, Lease!Free
    <2> QED
      BY <2>1, <2>2 DEF Lease!Next
  <1>c. ASSUME NEW p \in Procs, NEW l, NEW m, DisposeOne(p, l, m), l \in Holding
        PROVE  Lease!Next
    <2>1. vm[p] \in live
      BY <1>c DEF DisposeOne
    <2>2. live' = live \ {vm[p]} /\ vm' = [vm EXCEPT ![p] = NoVM]
      BY <1>c DEF DisposeOne
    <2>3. Lease!Destroy(p)
      BY <2>1, <2>2 DEF Lease!Destroy
    <2> QED
      BY <2>3 DEF Lease!Next
  <1>1. ASSUME NEW c \in Clients, Acquire(c) PROVE [Lease!Next]_(Lease!vars)
    <2>0. c \in Procs
      BY DEF Procs
    <2>1. CASE AcquireIdle(c)
      BY <2>0, <2>1, <1>b DEF AcquireIdle
    <2>2. CASE AcquireNoIdle(c)
      BY <2>2, <1>a DEF AcquireNoIdle
    <2>3. CASE TakeSlot(c)
      BY <2>3, <1>a DEF TakeSlot
    <2>4. CASE NoSlot(c)
      BY <2>4, <1>a DEF NoSlot
    <2>5. ASSUME NEW v \in VM, FactoryOK(c, v) PROVE [Lease!Next]_(Lease!vars)
      <3>1. Pending # {}
        BY <2>0, <2>5 DEF FactoryOK, Pending
      <3>2. Fits(live \cup {v})
        <4>1. Cardinality(Pending) \in Nat /\ Cardinality(Pending) # 0
          BY <3>1, PendingFinite, FS_CardinalityType, FS_EmptySet
        <4>2. Cardinality(live) \in Nat
          BY FS_CardinalityType DEF SlotAccounting
        <4>3. IsFiniteSet(live \cup {v}) /\ Cardinality(live \cup {v}) = Cardinality(live) + 1
          BY <2>5, FS_AddElement, Zenon DEF FactoryOK, SlotAccounting
        <4> QED
          BY <4>1, <4>2, <4>3, SizesAssumption DEF SlotAccounting, Fits
      <3>3. /\ vm[c] = NoVM /\ v \notin live
            /\ live' = live \cup {v} /\ vm' = [vm EXCEPT ![c] = v]
        BY <2>0, <2>5 DEF FactoryOK
      <3>4. Lease!Create(c, v)
        BY <3>2, <3>3 DEF Lease!Create
      <3> QED
        BY <2>0, <3>4 DEF Lease!Next
    <2>6. CASE FactoryError(c)
      BY <2>6, <1>a DEF FactoryError
    <2>7. CASE AcquireFails(c)
      BY <2>7, <1>a DEF AcquireFails, FreeSlot
    <2>8. CASE WaitReceive(c)
      BY <2>0, <2>8, <1>b DEF WaitReceive
    <2>9. CASE WaitBlocks(c)
      BY <2>9, <1>a DEF WaitBlocks
    <2> QED
      BY <1>1, <2>1, <2>2, <2>3, <2>4, <2>5, <2>6, <2>7, <2>8, <2>9 DEF Acquire
  <1>2. ASSUME NEW c \in Clients, Release(c) PROVE [Lease!Next]_(Lease!vars)
    <2>0. c \in Procs
      BY DEF Procs
    <2>1. CASE ReleaseOpen(c)
      BY <2>1, <1>a DEF ReleaseOpen
    <2>2. CASE ReleaseClosed(c)
      BY <2>2, <1>a DEF ReleaseClosed
    <2>3. CASE PutIdle(c)
      <3>1. vm[c] # NoVM /\ vm' = [vm EXCEPT ![c] = NoVM] /\ live' = live
        BY <2>0, <2>3 DEF PutIdle
      <3>2. Lease!Give(c)
        BY <3>1 DEF Lease!Give
      <3> QED
        BY <2>0, <3>2 DEF Lease!Next
    <2>4. CASE PutHandOff(c)
      <3> DEFINE w == Head(waiters)
      <3>1. w \in Procs /\ pc[w] = "blocked"
        BY <2>4, HeadTailProperties, EmptySeq DEF PutHandOff, WaitQueue, Procs
      <3>2. vm' = [vm EXCEPT ![w] = vm[c], ![c] = NoVM] /\ live' = live /\ pc[c] = "put"
        BY <2>4 DEF PutHandOff
      <3> HIDE DEF w
      <3>3. Lease!Transfer(c, w)
        BY <2>0, <3>1, <3>2 DEF Lease!Transfer
      <3> QED
        BY <2>0, <3>1, <3>3 DEF Lease!Next
    <2>5. CASE ReleaseDispose(c)
      BY <2>0, <2>5, <1>c DEF ReleaseDispose
    <2>6. CASE ReleaseFree(c)
      BY <2>6, <1>a DEF ReleaseFree, FreeSlot
    <2> QED
      BY <1>2, <2>1, <2>2, <2>3, <2>4, <2>5, <2>6 DEF Release
  <1>3. ASSUME NEW k \in Closers, Close(k) PROVE [Lease!Next]_(Lease!vars)
    <2>0. k \in Procs
      BY DEF Procs
    <2>1. CASE CloseBegin(k)
      BY <2>1, <1>a DEF CloseBegin
    <2>2. CASE DrainTake(k)
      BY <2>0, <2>2, <1>b DEF DrainTake
    <2>3. CASE DrainDispose(k)
      BY <2>0, <2>3, <1>c DEF DrainDispose
    <2>4. CASE DrainFree(k)
      BY <2>4, <1>a DEF DrainFree, FreeSlot
    <2>5. CASE DrainDone(k)
      BY <2>5, <1>a DEF DrainDone
    <2> QED
      BY <1>3, <2>1, <2>2, <2>3, <2>4, <2>5 DEF Close
  <1>4. CASE UNCHANGED vars
    BY <1>4, <1>a DEF vars
  <1> QED
    BY <1>1, <1>2, <1>3, <1>4 DEF Next

\* The pool grants exclusive leases on at most MaxSize VMs.
THEOREM PoolImplementsLease == Spec => ImplementsLease
  <1>1. QED
    BY LeaseInit, LeaseStep, Inductive, PTL DEF Spec, ImplementsLease, Lease!Spec
=============================================================================
