--------------------------- MODULE EventLoopProofs ---------------------------
(***************************************************************************)
(* EventLoop for every set of callers and bridges and every buffer: type   *)
(* correctness, that each task is in one place, and that RunSync returns   *)
(* only after its task.                                                    *)
(***************************************************************************)
EXTENDS EventLoop, SequenceTheorems, TLAPS

-----------------------------------------------------------------------------
(* Where a goroutine occurs in a queue                                     *)

In(c, q) == \E i \in 1..Len(q) : q[i] = c
Once(c, q) == \A i, j \in 1..Len(q) : q[i] = c /\ q[j] = c => i = j

LEMMA AppendIn ==
  ASSUME NEW q \in Seq(Procs), NEW p \in Procs, NEW c
  PROVE  /\ Append(q, p) \in Seq(Procs)
         /\ Len(Append(q, p)) = Len(q) + 1
         /\ In(c, Append(q, p)) <=> In(c, q) \/ c = p
         /\ Once(c, q) /\ ~(c = p /\ In(c, q)) => Once(c, Append(q, p))
  <1>1. /\ Append(q, p) \in Seq(Procs)
        /\ Len(Append(q, p)) = Len(q) + 1
        /\ \A i \in 1..Len(q) : Append(q, p)[i] = q[i]
        /\ Append(q, p)[Len(q) + 1] = p
    BY AppendProperties
  <1>2. Len(q) \in Nat
    BY LenProperties
  <1>3. 1..Len(Append(q, p)) = 1..Len(q) \cup {Len(q) + 1}
    BY <1>1, <1>2
  <1>4. Len(q) + 1 \notin 1..Len(q)
    BY <1>2
  <1>5. In(c, Append(q, p)) <=> In(c, q) \/ c = p
    BY <1>1, <1>3 DEF In
  <1>6. Once(c, q) /\ ~(c = p /\ In(c, q)) => Once(c, Append(q, p))
    <2> SUFFICES ASSUME Once(c, q), ~(c = p /\ In(c, q)),
                        NEW i \in 1..Len(Append(q, p)), NEW j \in 1..Len(Append(q, p)),
                        Append(q, p)[i] = c, Append(q, p)[j] = c
                 PROVE  i = j
      BY DEF Once
    <2>1. CASE i \in 1..Len(q) /\ j \in 1..Len(q)
      BY <2>1, <1>1 DEF Once
    <2>2. CASE i = Len(q) + 1 /\ j \in 1..Len(q)
      BY <2>2, <1>1 DEF In
    <2>3. CASE i \in 1..Len(q) /\ j = Len(q) + 1
      BY <2>3, <1>1 DEF In
    <2> QED
      BY <1>3, <2>1, <2>2, <2>3
  <1> QED
    BY <1>1, <1>5, <1>6

LEMMA TailIn ==
  ASSUME NEW q \in Seq(Procs), q # <<>>, NEW c
  PROVE  /\ Head(q) \in Procs
         /\ Tail(q) \in Seq(Procs)
         /\ Len(Tail(q)) = Len(q) - 1
         /\ In(c, q) <=> In(c, Tail(q)) \/ c = Head(q)
         /\ Once(c, q) => Once(c, Tail(q)) /\ ~(c = Head(q) /\ In(c, Tail(q)))
  <1>1. /\ Head(q) \in Procs
        /\ Tail(q) \in Seq(Procs)
        /\ Len(Tail(q)) = Len(q) - 1
        /\ \A i \in 1..Len(Tail(q)) : Tail(q)[i] = q[i + 1]
    BY HeadTailProperties
  <1>2. Len(q) \in Nat /\ Len(q) > 0
    BY LenProperties, EmptySeq
  <1>3. Head(q) = q[1]
    BY <1>2
  <1>4. In(c, q) <=> In(c, Tail(q)) \/ c = Head(q)
    <2>1. ASSUME NEW i \in 1..Len(q), q[i] = c PROVE In(c, Tail(q)) \/ c = Head(q)
      <3>1. CASE i = 1
        BY <2>1, <3>1, <1>3
      <3>2. CASE i # 1
        <4>1. i - 1 \in 1..Len(Tail(q)) /\ (i - 1) + 1 = i
          BY <3>2, <1>1, <1>2
        <4> QED
          BY <4>1, <2>1, <1>1 DEF In
      <3> QED
        BY <3>1, <3>2
    <2>2. ASSUME NEW i \in 1..Len(Tail(q)), Tail(q)[i] = c PROVE In(c, q)
      <3>1. i + 1 \in 1..Len(q)
        BY <1>1, <1>2
      <3> QED
        BY <3>1, <2>2, <1>1 DEF In
    <2>3. 1 \in 1..Len(q)
      BY <1>2
    <2> QED
      BY <2>1, <2>2, <2>3, <1>3 DEF In
  <1>5. Once(c, q) => Once(c, Tail(q)) /\ ~(c = Head(q) /\ In(c, Tail(q)))
    <2> SUFFICES ASSUME Once(c, q)
                 PROVE  Once(c, Tail(q)) /\ ~(c = Head(q) /\ In(c, Tail(q)))
      OBVIOUS
    <2>1. \A i \in 1..Len(Tail(q)) : i + 1 \in 1..Len(q) /\ i + 1 # 1
      BY <1>1, <1>2
    <2>2. Once(c, Tail(q))
      <3> SUFFICES ASSUME NEW i \in 1..Len(Tail(q)), NEW j \in 1..Len(Tail(q)),
                          Tail(q)[i] = c, Tail(q)[j] = c
                   PROVE  i = j
        BY DEF Once
      <3>1. i + 1 = j + 1
        BY <2>1, <1>1 DEF Once
      <3> QED
        BY <3>1
    <2>3. ASSUME c = Head(q), In(c, Tail(q)) PROVE FALSE
      <3>1. PICK i \in 1..Len(Tail(q)) : Tail(q)[i] = c
        BY <2>3 DEF In
      <3>2. q[i + 1] = c /\ q[1] = c /\ 1 \in 1..Len(q)
        BY <3>1, <2>3, <1>1, <1>2, <1>3
      <3> QED
        BY <3>2, <2>1 DEF Once
    <2> QED
      BY <2>2, <2>3
  <1> QED
    BY <1>1, <1>4, <1>5

-----------------------------------------------------------------------------
(* Type correctness                                                        *)

LEMMA EmptyQueue == ASSUME NEW q \in Seq(Procs) PROVE Len(q) \in Nat /\ (q # <<>> => Len(q) > 0)
  BY LenProperties, EmptySeq

LEMMA TypeInit == Init => TypeOK
  <1> SUFFICES ASSUME Init PROVE TypeOK
    OBVIOUS
  <1>1. taskCh \in Seq(Procs) /\ Len(taskCh) <= Cap /\ senders \in Seq(Procs)
    BY CapAssumption, EmptySeq DEF Init
  <1> QED
    BY <1>1 DEF Init, TypeOK, LoopLabels, Labels

LEMMA TypeNext == TypeOK /\ [Next]_vars => TypeOK'
  <1> SUFFICES ASSUME TypeOK, [Next]_vars PROVE TypeOK'
    OBVIOUS
  <1> USE CapAssumption DEF TypeOK, LoopLabels, Labels
  <1>1. ASSUME NEW p \in Procs, Submit(p) PROVE TypeOK'
    <2>a. Len(taskCh) \in Nat
      BY EmptyQueue
    <2>1. CASE Len(taskCh) < Cap
      <3>1. Append(taskCh, p) \in Seq(Procs) /\ Len(Append(taskCh, p)) = Len(taskCh) + 1
        BY AppendIn
      <3>2. taskCh' \in Seq(Procs) /\ Len(taskCh') <= Cap
        BY <1>1, <2>1, <2>a, <3>1 DEF Submit
      <3>3. pc' \in [Procs -> Labels]
        BY <1>1, <2>1 DEF Submit, Sent
      <3> QED
        BY <1>1, <2>1, <3>2, <3>3 DEF Submit
    <2>2. CASE ~(Len(taskCh) < Cap)
      <3>1. Append(senders, p) \in Seq(Procs)
        BY AppendIn
      <3> QED
        BY <1>1, <2>2, <3>1 DEF Submit
    <2> QED
      BY <2>1, <2>2
  <1>2. CASE Receive
    <2>1. taskCh # <<>> /\ Head(taskCh) \in Procs /\ Tail(taskCh) \in Seq(Procs)
            /\ Len(Tail(taskCh)) = Len(taskCh) - 1 /\ Len(taskCh) \in Nat
      BY <1>2, TailIn, EmptyQueue DEF Receive
    <2>2. CASE senders = <<>>
      BY <1>2, <2>1, <2>2 DEF Receive
    <2>3. CASE senders # <<>>
      <3>1. Head(senders) \in Procs /\ Tail(senders) \in Seq(Procs)
        BY <2>3, TailIn
      <3>2. /\ Append(Tail(taskCh), Head(senders)) \in Seq(Procs)
            /\ Len(Append(Tail(taskCh), Head(senders))) = Len(Tail(taskCh)) + 1
        BY <2>1, <3>1, AppendIn
      <3>3. taskCh' \in Seq(Procs) /\ Len(taskCh') <= Cap
        <4>1. taskCh' = Append(Tail(taskCh), Head(senders))
          BY <1>2, <2>3 DEF Receive
        <4>2. Len(taskCh') = (Len(taskCh) - 1) + 1
          BY <2>1, <3>2, <4>1
        <4>3. Len(taskCh) <= Cap
          OBVIOUS
        <4> HIDE DEF TypeOK
        <4>4. Len(taskCh') <= Cap
          BY <2>1, <4>2, <4>3
        <4> QED
          BY <3>2, <4>1, <4>4
      <3>4. pc' \in [Procs -> Labels]
        BY <1>2, <2>3, <3>1 DEF Receive, Sent
      <3>5. senders' \in Seq(Procs)
        BY <1>2, <2>3, <3>1 DEF Receive
      <3>6. loop' \in LoopLabels /\ cur' \in Procs /\ UNCHANGED <<ran, stopCh>>
        BY <1>2, <2>1 DEF Receive
      <3> QED
        BY <3>3, <3>4, <3>5, <3>6 DEF Receive
    <2> QED
      BY <2>2, <2>3
  <1>3. CASE RunTask
    BY <1>3 DEF RunTask
  <1>4. CASE CloseDone
    BY <1>4 DEF CloseDone
  <1>5. CASE Checkpoint
    BY <1>5 DEF Checkpoint
  <1>6. CASE Exit
    BY <1>6 DEF Exit
  <1>7. CASE Stop
    BY <1>7 DEF Stop
  <1>9. CASE UNCHANGED vars
    BY <1>9 DEF vars
  <1> QED
    BY <1>1, <1>2, <1>3, <1>4, <1>5, <1>6, <1>7, <1>9 DEF Next, Procs

\* Every variable of the loop keeps its type; the buffer never exceeds Cap.
THEOREM TypeCorrect == Spec => []TypeOK
  <1> QED
    BY TypeInit, TypeNext, PTL DEF Spec
-----------------------------------------------------------------------------
(* Where the task of a caller is.  TaskInOnePlace is not inductive: that a  *)
(* blocked sender is queued once has to be known when it is let in.         *)

InHand(c) == Running /\ cur = c

Placed(c) == /\ pc[c] = "sending" <=> In(c, senders)
             /\ pc[c] = "waiting" <=> In(c, taskCh) \/ InHand(c)
             /\ ~(In(c, taskCh) /\ InHand(c))
             /\ Once(c, taskCh)
             /\ Once(c, senders)

\* The loop closes done only for a caller whose fn has run.
DoneAfterRun == loop = "close" /\ cur \in Callers => cur \in ran

LoopInv == TypeOK /\ (\A c \in Callers : Placed(c)) /\ DoneAfterRun /\ ReturnsAfterRun

LEMMA LoopInvInit == Init => LoopInv
  <1> SUFFICES ASSUME Init PROVE LoopInv
    OBVIOUS
  <1>1. Len(<<>>) = 0
    OBVIOUS
  <1>2. ASSUME NEW c \in Callers PROVE Placed(c)
    <2>1. ~In(c, taskCh) /\ ~In(c, senders) /\ Once(c, taskCh) /\ Once(c, senders)
      BY <1>1 DEF Init, In, Once
    <2> QED
      BY <2>1 DEF Init, Placed, InHand, Running, Procs
  <1> QED
    BY <1>2, TypeInit DEF Init, LoopInv, DoneAfterRun, ReturnsAfterRun, Procs

LEMMA PlacedSubmit ==
  ASSUME LoopInv, NEW p \in Procs, Submit(p), NEW c \in Callers
  PROVE  Placed(c)'
  <1>1. Placed(c) /\ TypeOK /\ pc[p] \in {"out", "returned"} /\ c \in Procs
    BY DEF LoopInv, Submit, Procs
  <1>2. InHand(c)' <=> InHand(c)
    BY DEF Submit, InHand, Running
  <1>3. CASE Len(taskCh) < Cap
    <2>1. /\ In(c, taskCh)' <=> In(c, taskCh) \/ c = p
          /\ Once(c, taskCh) /\ ~(c = p /\ In(c, taskCh)) => Once(c, taskCh)'
      <3>1. taskCh' = Append(taskCh, p) /\ taskCh \in Seq(Procs)
        BY <1>1, <1>3 DEF Submit, TypeOK
      <3> QED
        BY <3>1, AppendIn
    <2>2. In(c, senders)' <=> In(c, senders)
      BY <1>3 DEF Submit, In
    <2>3. Once(c, senders)' <=> Once(c, senders)
      BY <1>3 DEF Submit, Once
    <2>4. CASE c = p
      <3>1. pc'[c] = "waiting"
        BY <1>1, <1>3, <2>4 DEF Submit, Sent, TypeOK
      <3> QED
        BY <1>1, <1>2, <2>1, <2>2, <2>3, <2>4, <3>1 DEF Placed
    <2>5. CASE c # p
      <3>1. pc'[c] = pc[c]
        BY <1>1, <1>3, <2>5 DEF Submit, TypeOK
      <3> QED
        BY <1>1, <1>2, <2>1, <2>2, <2>3, <2>5, <3>1 DEF Placed
    <2> QED
      BY <2>4, <2>5
  <1>4. CASE ~(Len(taskCh) < Cap)
    <2>1. /\ In(c, senders)' <=> In(c, senders) \/ c = p
          /\ Once(c, senders) /\ ~(c = p /\ In(c, senders)) => Once(c, senders)'
      <3>1. senders' = Append(senders, p) /\ senders \in Seq(Procs)
        BY <1>1, <1>4 DEF Submit, TypeOK
      <3> QED
        BY <3>1, AppendIn
    <2>2. In(c, taskCh)' <=> In(c, taskCh)
      BY <1>4 DEF Submit, In
    <2>3. Once(c, taskCh)' <=> Once(c, taskCh)
      BY <1>4 DEF Submit, Once
    <2>4. CASE c = p
      <3>1. pc'[c] = "sending"
        BY <1>1, <1>4, <2>4 DEF Submit, TypeOK
      <3> QED
        BY <1>1, <1>2, <2>1, <2>2, <2>3, <2>4, <3>1 DEF Placed
    <2>5. CASE c # p
      <3>1. pc'[c] = pc[c]
        BY <1>1, <1>4, <2>5 DEF Submit, TypeOK
      <3> QED
        BY <1>1, <1>2, <2>1, <2>2, <2>3, <2>5, <3>1 DEF Placed
    <2> QED
      BY <2>4, <2>5
  <1> QED
    BY <1>3, <1>4

LEMMA PlacedReceive ==
  ASSUME LoopInv, Receive, NEW c \in Callers
  PROVE  Placed(c)'
  <1>1. /\ Placed(c) /\ TypeOK /\ c \in Procs
        /\ loop = "select" /\ taskCh # <<>> /\ cur' = Head(taskCh) /\ loop' = "task"
        /\ taskCh \in Seq(Procs) /\ senders \in Seq(Procs)
    BY DEF LoopInv, Receive, TypeOK, Procs
  <1>2. ~InHand(c) /\ (InHand(c)' <=> c = Head(taskCh))
    BY <1>1 DEF InHand, Running
  <1>3. /\ Tail(taskCh) \in Seq(Procs)
        /\ In(c, taskCh) <=> In(c, Tail(taskCh)) \/ c = Head(taskCh)
        /\ Once(c, Tail(taskCh)) /\ ~(c = Head(taskCh) /\ In(c, Tail(taskCh)))
    <2>1. Once(c, taskCh)
      BY <1>1 DEF Placed
    <2> QED
      BY <1>1, <2>1, TailIn
  <1>4. CASE senders = <<>>
    <2>1. pc'[c] = pc[c] /\ taskCh' = Tail(taskCh) /\ senders' = senders
      BY <1>4 DEF Receive
    <2>2. /\ In(c, taskCh)' <=> In(c, Tail(taskCh))
          /\ Once(c, taskCh)' <=> Once(c, Tail(taskCh))
          /\ In(c, senders)' <=> In(c, senders)
          /\ Once(c, senders)' <=> Once(c, senders)
      BY <2>1 DEF In, Once
    <2> QED
      BY <1>1, <1>2, <1>3, <2>1, <2>2 DEF Placed
  <1>5. CASE senders # <<>>
    <2> DEFINE s == Head(senders)
    <2>1. /\ s \in Procs
          /\ In(c, senders) <=> In(c, Tail(senders)) \/ c = s
          /\ Once(c, senders) => Once(c, Tail(senders)) /\ ~(c = s /\ In(c, Tail(senders)))
      BY <1>1, <1>5, TailIn
    <2>2. /\ In(c, Append(Tail(taskCh), s)) <=> In(c, Tail(taskCh)) \/ c = s
          /\ Once(c, Tail(taskCh)) /\ ~(c = s /\ In(c, Tail(taskCh)))
               => Once(c, Append(Tail(taskCh), s))
      BY <1>3, <2>1, AppendIn
    <2>3. /\ taskCh' = Append(Tail(taskCh), s)
          /\ senders' = Tail(senders)
          /\ pc' = [pc EXCEPT ![s] = Sent(s)]
      BY <1>5 DEF Receive
    <2>4. /\ In(c, taskCh)' <=> In(c, Tail(taskCh)) \/ c = s
          /\ Once(c, Tail(taskCh)) /\ ~(c = s /\ In(c, Tail(taskCh))) => Once(c, taskCh)'
          /\ In(c, senders)' <=> In(c, Tail(senders))
          /\ Once(c, senders)' <=> Once(c, Tail(senders))
      BY <2>2, <2>3
    <2>5. CASE c = s
      <3>1. pc'[c] = "waiting"
        BY <1>1, <2>3, <2>5 DEF Sent, TypeOK
      <3>2. pc[c] = "sending"
        BY <1>1, <2>1, <2>5 DEF Placed
      <3> HIDE DEF s
      <3> QED
        BY <1>1, <1>2, <1>3, <2>1, <2>4, <2>5, <3>1, <3>2 DEF Placed
    <2>6. CASE c # s
      <3>1. pc'[c] = pc[c]
        BY <1>1, <2>1, <2>3, <2>6 DEF TypeOK
      <3> HIDE DEF s
      <3> QED
        BY <1>1, <1>2, <1>3, <2>1, <2>4, <2>6, <3>1 DEF Placed
    <2> QED
      BY <2>5, <2>6
  <1> QED
    BY <1>4, <1>5

\* A step that leaves the queues alone moves a caller only from InHand.
LEMMA PlacedElse ==
  ASSUME LoopInv, NEW c \in Callers, UNCHANGED <<taskCh, senders>>,
         InHand(c)' => InHand(c),
         pc'[c] = IF InHand(c) /\ ~InHand(c)' THEN "returned" ELSE pc[c]
  PROVE  Placed(c)'
  <1>1. Placed(c)
    BY DEF LoopInv
  <1>2. /\ In(c, taskCh)' <=> In(c, taskCh)
        /\ Once(c, taskCh)' <=> Once(c, taskCh)
        /\ In(c, senders)' <=> In(c, senders)
        /\ Once(c, senders)' <=> Once(c, senders)
    BY DEF In, Once
  <1> QED
    BY <1>1, <1>2 DEF Placed

LEMMA PlacedNext == LoopInv /\ [Next]_vars => \A c \in Callers : Placed(c)'
  <1> SUFFICES ASSUME LoopInv, [Next]_vars, NEW c \in Callers PROVE Placed(c)'
    OBVIOUS
  <1> USE DEF InHand, Running
  <1>1. CASE \E p \in Procs : Submit(p)
    BY <1>1, PlacedSubmit
  <1>2. CASE Receive
    BY <1>2, PlacedReceive
  <1>3. CASE RunTask
    BY <1>3, PlacedElse DEF RunTask
  <1>4. CASE CloseDone
    <2>1. pc'[c] = IF InHand(c) THEN "returned" ELSE pc[c]
      BY <1>4 DEF CloseDone, LoopInv, TypeOK, Procs
    <2>2. UNCHANGED <<taskCh, senders>> /\ ~InHand(c)'
      BY <1>4 DEF CloseDone
    <2> QED
      BY <2>1, <2>2, PlacedElse
  <1>5. CASE Checkpoint
    BY <1>5, PlacedElse DEF Checkpoint
  <1>6. CASE Exit
    BY <1>6, PlacedElse DEF Exit
  <1>7. CASE Stop
    BY <1>7, PlacedElse DEF Stop
  <1>9. CASE UNCHANGED vars
    BY <1>9, PlacedElse DEF vars
  <1> QED
    BY <1>1, <1>2, <1>3, <1>4, <1>5, <1>6, <1>7, <1>9 DEF Next, Procs

-----------------------------------------------------------------------------
(* RunSync returns after its task                                          *)

\* A caller whose task the loop has run does not submit before it returns, so
\* nothing takes it out of ran meanwhile.
LEMMA RanNext == LoopInv /\ [Next]_vars => DoneAfterRun' /\ ReturnsAfterRun'
  <1> SUFFICES ASSUME LoopInv, [Next]_vars PROVE DoneAfterRun' /\ ReturnsAfterRun'
    OBVIOUS
  <1>a. TypeOK /\ DoneAfterRun /\ ReturnsAfterRun /\ \A c \in Callers : Placed(c)
    BY DEF LoopInv
  <1> USE DEF DoneAfterRun, ReturnsAfterRun
  <1>1. ASSUME NEW p \in Procs, Submit(p) PROVE DoneAfterRun' /\ ReturnsAfterRun'
    <2>1. loop = "close" /\ cur \in Callers => cur # p
      BY <1>1, <1>a DEF Submit, Placed, InHand, Running
    <2>2. DoneAfterRun'
      BY <1>1, <1>a, <2>1 DEF Submit
    <2>3. \A c \in Callers : pc'[c] = "returned" => c # p /\ pc[c] = "returned"
      BY <1>1, <1>a DEF Submit, Sent, TypeOK, Procs
    <2> QED
      BY <1>1, <1>a, <2>2, <2>3 DEF Submit
  <1>2. CASE Receive
    <2>1. \A c \in Callers : pc'[c] = "returned" => pc[c] = "returned"
      BY <1>2, <1>a DEF Receive, Sent, TypeOK, Procs
    <2> QED
      BY <1>2, <1>a, <2>1 DEF Receive
  <1>3. CASE RunTask
    BY <1>3, <1>a DEF RunTask
  <1>4. CASE CloseDone
    <2>1. \A c \in Callers : pc'[c] = "returned" => pc[c] = "returned" \/ c = cur
      BY <1>4, <1>a DEF CloseDone, TypeOK, Procs
    <2> QED
      BY <1>4, <1>a, <2>1 DEF CloseDone
  <1>5. CASE Checkpoint
    BY <1>5, <1>a DEF Checkpoint
  <1>6. CASE Exit
    BY <1>6, <1>a DEF Exit
  <1>7. CASE Stop
    BY <1>7, <1>a DEF Stop
  <1>9. CASE UNCHANGED vars
    BY <1>9, <1>a DEF vars
  <1> QED
    BY <1>1, <1>2, <1>3, <1>4, <1>5, <1>6, <1>7, <1>9 DEF Next, Procs

LEMMA LoopInvariant == Spec => []LoopInv
  <1>1. LoopInv /\ [Next]_vars => LoopInv'
    <2> SUFFICES ASSUME LoopInv, [Next]_vars PROVE LoopInv'
      OBVIOUS
    <2>1. TypeOK'
      BY TypeNext DEF LoopInv
    <2> QED
      BY <2>1, PlacedNext, RanNext DEF LoopInv
  <1> QED
    BY <1>1, LoopInvInit, PTL DEF Spec

\* RunSync of eventloop.go returns only after fn has run, whoever else submits,
\* however full the buffer and whenever the loop is stopped.
THEOREM ReturnsAfterTask == Spec => []ReturnsAfterRun
  <1>1. LoopInv => ReturnsAfterRun
    BY DEF LoopInv
  <1> QED
    BY <1>1, LoopInvariant, PTL

\* No task of RunSync is lost, doubled or run while it is still queued.
THEOREM TaskKept == Spec => []TaskInOnePlace
  <1>1. LoopInv => TaskInOnePlace
    <2> SUFFICES ASSUME LoopInv, NEW c \in Callers
                 PROVE  /\ pc[c] = "sending" <=> In(c, senders)
                        /\ In(c, taskCh) => pc[c] = "waiting"
                        /\ InHand(c) => pc[c] = "waiting"
                        /\ pc[c] = "waiting" => In(c, taskCh) \/ InHand(c)
                        /\ In(c, taskCh) => ~InHand(c)
                        /\ Once(c, taskCh)
      BY Zenon DEF TaskInOnePlace, In, InHand, Once
    <2> QED
      BY DEF LoopInv, Placed
  <1> QED
    BY <1>1, LoopInvariant, PTL


-----------------------------------------------------------------------------
(* The bounded channel and its blocked senders are one queue that is never  *)
(* full: TaskQueue.                                                         *)

Awaiting == {c \in Callers : pc[c] \in {"sending", "waiting"}}

Queue == INSTANCE TaskQueue WITH
           Submitters <- Procs,
           queue <- taskCh \o senders,
           current <- IF Running THEN <<cur>> ELSE <<>>,
           awaiting <- Awaiting

\* A sender blocks only when the buffer is full, and a receive fills the place it
\* makes: else a later task could overtake a blocked one.
FullFirst == senders # <<>> => Len(taskCh) = Cap

LEMMA FullFirstInit == Init => FullFirst
  BY DEF Init, FullFirst

LEMMA FullFirstNext == TypeOK /\ FullFirst /\ [Next]_vars => FullFirst'
  <1> SUFFICES ASSUME TypeOK, FullFirst, [Next]_vars PROVE FullFirst'
    OBVIOUS
  <1>1. taskCh \in Seq(Procs) /\ senders \in Seq(Procs) /\ Len(taskCh) \in Nat /\ Len(taskCh) <= Cap
    BY EmptyQueue DEF TypeOK
  <1>2. ASSUME NEW p \in Procs, Submit(p) PROVE FullFirst'
    <2>1. CASE Len(taskCh) < Cap
      <3>1. senders = <<>>
        BY <1>1, <2>1, CapAssumption DEF FullFirst
      <3>2. senders' = senders
        BY <1>2, <2>1 DEF Submit
      <3> QED
        BY <3>1, <3>2 DEF FullFirst
    <2>2. CASE ~(Len(taskCh) < Cap)
      <3>1. taskCh' = taskCh
        BY <1>2, <2>2 DEF Submit
      <3>2. Len(taskCh) = Cap
        BY <1>1, <2>2, CapAssumption
      <3> QED
        BY <3>1, <3>2 DEF FullFirst
    <2> QED
      BY <2>1, <2>2
  <1>3. CASE Receive
    <2>1. CASE senders = <<>>
      BY <1>3, <2>1 DEF Receive, FullFirst
    <2>2. CASE senders # <<>>
      <3>1. taskCh # <<>> /\ taskCh' = Append(Tail(taskCh), Head(senders))
        BY <1>3, <2>2 DEF Receive
      <3>2. /\ Tail(taskCh) \in Seq(Procs) /\ Len(Tail(taskCh)) = Len(taskCh) - 1
            /\ Head(senders) \in Procs
        BY <1>1, <2>2, <3>1, TailIn
      <3>3. Len(Append(Tail(taskCh), Head(senders))) = Len(Tail(taskCh)) + 1
        BY <3>2, AppendIn
      <3>4. Len(taskCh) = Cap
        BY <2>2 DEF FullFirst
      <3>5. Len(taskCh') = Cap
        BY <1>1, <3>1, <3>2, <3>3, <3>4, CapAssumption
      <3> QED
        BY <3>5 DEF FullFirst
    <2> QED
      BY <2>1, <2>2
  <1>4. CASE RunTask \/ CloseDone \/ Checkpoint \/ Exit \/ Stop \/ UNCHANGED vars
    <2>1. UNCHANGED <<taskCh, senders>>
      BY <1>4 DEF RunTask, CloseDone, Checkpoint, Exit, Stop, vars
    <2> QED
      BY <2>1 DEF FullFirst
  <1> QED
    BY <1>2, <1>3, <1>4 DEF Next, Procs

LEMMA QueueInit == Init => Queue!Init
  <1> SUFFICES ASSUME Init PROVE Queue!Init
    OBVIOUS
  <1>1. taskCh \o senders = <<>>
    BY DEF Init
  <1>2. Awaiting = {}
    BY DEF Init, Awaiting, Procs
  <1> QED
    BY <1>1, <1>2 DEF Init, Queue!Init, Running

LEMMA SubmitJoins ==
  ASSUME LoopInv, FullFirst, NEW p \in Procs, Submit(p)
  PROVE  Queue!Submit(p)
  <1>1. /\ taskCh \in Seq(Procs) /\ senders \in Seq(Procs) /\ Len(taskCh) \in Nat /\ Len(taskCh) <= Cap
        /\ pc \in [Procs -> Labels] /\ pc[p] \in {"out", "returned"}
    BY EmptyQueue DEF LoopInv, TypeOK, Submit
  <1>2. p \notin Awaiting
    BY <1>1 DEF Awaiting
  <1>3. (taskCh \o senders)' = Append(taskCh \o senders, p)
    <2>1. CASE Len(taskCh) < Cap
      <3>1. senders = <<>> /\ senders' = <<>> /\ taskCh' = Append(taskCh, p)
        BY <1>1, <2>1, CapAssumption DEF Submit, FullFirst
      <3>2. Append(taskCh, p) \o <<>> = Append(taskCh, p) /\ taskCh \o <<>> = taskCh
        BY <1>1, AppendIn, ConcatEmptySeq
      <3> QED
        BY <3>1, <3>2
    <2>2. CASE ~(Len(taskCh) < Cap)
      <3>1. senders' = Append(senders, p) /\ taskCh' = taskCh
        BY <2>2 DEF Submit
      <3>2. taskCh \o Append(senders, p) = Append(taskCh \o senders, p)
        BY <1>1, AppendIn
      <3> QED
        BY <3>1, <3>2
    <2> QED
      BY <2>1, <2>2
  <1>4. Awaiting' = Awaiting \cup ({p} \cap Callers)
    <2>1. pc'[p] = "sending" \/ pc'[p] = Sent(p)
      BY <1>1 DEF Submit
    <2>2. p \in Callers => pc'[p] \in {"sending", "waiting"}
      BY <2>1 DEF Sent
    <2>3. \A c \in Callers : c # p => pc'[c] = pc[c]
      BY <1>1 DEF Submit, Procs
    <2> QED
      BY <2>2, <2>3 DEF Awaiting
  <1>5. UNCHANGED (IF Running THEN <<cur>> ELSE <<>>)
    BY DEF Submit, Running
  <1> QED
    BY <1>2, <1>3, <1>4, <1>5 DEF Queue!Submit

LEMMA ReceiveBegins ==
  ASSUME LoopInv, FullFirst, Receive
  PROVE  Queue!Begin
  <1>1. /\ taskCh \in Seq(Procs) /\ senders \in Seq(Procs) /\ taskCh # <<>>
        /\ pc \in [Procs -> Labels] /\ loop = "select" /\ loop' = "task" /\ cur' = Head(taskCh)
    BY DEF LoopInv, TypeOK, Receive
  <1>2. taskCh \o senders # <<>> /\ Head(taskCh \o senders) = Head(taskCh)
    BY <1>1
  <1>3. Tail(taskCh \o senders) = Tail(taskCh) \o senders
    BY <1>1
  <1>4. CASE senders = <<>>
    <2>1. taskCh' = Tail(taskCh) /\ UNCHANGED <<senders, pc>>
      BY <1>4 DEF Receive
    <2>2. Awaiting' = Awaiting
      BY <2>1 DEF Awaiting
    <2>3. (taskCh \o senders)' = Tail(taskCh \o senders)
      BY <1>3, <2>1
    <2> QED
      BY <1>1, <1>2, <2>2, <2>3 DEF Queue!Begin, Running
  <1>5. CASE senders # <<>>
    <2> DEFINE s == Head(senders)
    <2>1. /\ taskCh' = Append(Tail(taskCh), s) /\ senders' = Tail(senders)
          /\ pc' = [pc EXCEPT ![s] = Sent(s)]
      BY <1>5 DEF Receive
    <2>2. s \in Procs /\ Tail(taskCh) \in Seq(Procs) /\ Tail(senders) \in Seq(Procs)
      BY <1>1, <1>5, TailIn
    <2>3. Append(Tail(taskCh), s) \o Tail(senders) = Tail(taskCh) \o senders
      BY <1>1, <1>5, <2>2
    <2>4. s \in Callers => pc[s] = "sending"
      <3>1. In(s, senders)
        BY <1>1, <1>5, TailIn
      <3> QED
        BY <3>1 DEF LoopInv, Placed
    <2>5. Awaiting' = Awaiting
      <3>1. s \in Callers => pc'[s] = "waiting"
        BY <1>1, <2>1, <2>2 DEF Sent
      <3>2. \A c \in Callers : c # s => pc'[c] = pc[c]
        BY <1>1, <2>1 DEF Procs
      <3> QED
        BY <2>4, <3>1, <3>2 DEF Awaiting
    <2>6. (taskCh \o senders)' = Tail(taskCh \o senders)
      BY <1>3, <2>1, <2>3
    <2> QED
      BY <1>1, <1>2, <2>5, <2>6 DEF Queue!Begin, Running
  <1> QED
    BY <1>4, <1>5

LEMMA CloseDoneEnds ==
  ASSUME LoopInv, CloseDone
  PROVE  Queue!End
  <1>1. pc \in [Procs -> Labels] /\ cur \in Procs /\ loop = "close" /\ loop' = "checkpoint"
    BY DEF LoopInv, TypeOK, CloseDone
  <1>2. Awaiting' = Awaiting \ {cur}
    <2>1. cur \in Callers => pc'[cur] = "returned"
      BY <1>1 DEF CloseDone
    <2>2. \A c \in Callers : c # cur => pc'[c] = pc[c]
      BY <1>1 DEF CloseDone, Procs
    <2> QED
      BY <2>1, <2>2 DEF Awaiting
  <1>3. UNCHANGED (taskCh \o senders)
    BY DEF CloseDone
  <1>4. Head(<<cur>>) = cur /\ <<cur>> # <<>>
    OBVIOUS
  <1> QED
    BY <1>1, <1>2, <1>3, <1>4 DEF Queue!End, Running

LEMMA OthersStutter ==
  ASSUME RunTask \/ Checkpoint \/ Exit \/ Stop \/ UNCHANGED vars
  PROVE  UNCHANGED Queue!vars
  <1>1. UNCHANGED <<taskCh, senders, cur, pc>>
    BY DEF RunTask, Checkpoint, Exit, Stop, vars
  <1>2. Running' = Running
    BY DEF RunTask, Checkpoint, Exit, Stop, vars, Running
  <1>3. Awaiting' = Awaiting
    BY <1>1 DEF Awaiting
  <1> QED
    BY <1>1, <1>2, <1>3 DEF Queue!vars

\* However small the buffer and however many goroutines block on it, the loop is a
\* queue that is never full: tasks begin in the order in which RunSync and RunAsync
\* were called, one at a time, and RunSync goes on when its own has ended.
THEOREM RunsInOrder == Spec => Queue!Spec
  <1>1. LoopInv /\ FullFirst /\ [Next]_vars => [Queue!Next]_Queue!vars
    <2> SUFFICES ASSUME LoopInv, FullFirst, [Next]_vars PROVE [Queue!Next]_Queue!vars
      OBVIOUS
    <2>1. ASSUME NEW p \in Procs, Submit(p) PROVE Queue!Next
      BY <2>1, SubmitJoins DEF Queue!Next
    <2>2. CASE Receive
      BY <2>2, ReceiveBegins DEF Queue!Next
    <2>3. CASE CloseDone
      BY <2>3, CloseDoneEnds DEF Queue!Next
    <2>4. CASE RunTask \/ Checkpoint \/ Exit \/ Stop \/ UNCHANGED vars
      BY <2>4, OthersStutter
    <2> QED
      BY <2>1, <2>2, <2>3, <2>4 DEF Next, Procs
  <1>2. LoopInv => TypeOK
    BY DEF LoopInv
  <1>3. Spec => []FullFirst
    BY <1>2, FullFirstInit, FullFirstNext, LoopInvariant, PTL DEF Spec
  <1> QED
    BY <1>1, <1>3, QueueInit, LoopInvariant, PTL DEF Spec, Queue!Spec
=============================================================================
