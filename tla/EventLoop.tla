------------------------------ MODULE EventLoop ------------------------------
(***************************************************************************)
(* engine/eventloop: one goroutine runs every task of a JavaScript engine, *)
(* a checkpoint (the microtask drain) after each.  Callers submit with     *)
(* RunSync and wait, Bridges (the goroutines behind injected Go functions) *)
(* submit with RunAsync, and the owner of the engine may Stop the loop.    *)
(*                                                                         *)
(* A task is named by the goroutine that submitted it.  A Go channel that  *)
(* is full queues its senders; a receive lets the oldest of them in.       *)
(***************************************************************************)
EXTENDS Naturals, Sequences, FiniteSets

CONSTANTS Callers,   \* goroutines that call RunSync
          Bridges,   \* goroutines that call RunAsync
          Cap        \* the buffer of taskCh, 256 in the code

ASSUME CapAssumption == Cap \in Nat \ {0}
ASSUME DisjointAssumption == Callers \cap Bridges = {}

Procs == Callers \cup Bridges

VARIABLES taskCh,     \* the buffered tasks, oldest first
          senders,    \* the goroutines blocked sending on taskCh, oldest first
          loop,       \* where the loop goroutine is
          cur,        \* the task it last received (any value before the first)
          pc,         \* where each submitting goroutine is
          ran,        \* callers whose latest fn has run to its end
          stopCh      \* closed by Stop

vars == <<taskCh, senders, loop, cur, pc, ran, stopCh>>

LoopLabels == {"select", "task", "close", "checkpoint", "exited"}
\* "waiting": blocked on <-done.  "returned": RunSync has returned.
Labels == {"out", "sending", "waiting", "returned"}

Init == /\ taskCh = <<>>
        /\ senders = <<>>
        /\ loop = "select"
        /\ cur \in Procs
        /\ pc = [p \in Procs |-> "out"]
        /\ ran = {}
        /\ stopCh = "open"

-----------------------------------------------------------------------------
(* RunSync and RunAsync                                                    *)

Sent(p) == IF p \in Callers THEN "waiting" ELSE "out"

Submit(p) == /\ pc[p] \in {"out", "returned"}
             /\ IF Len(taskCh) < Cap
                  THEN /\ taskCh' = Append(taskCh, p)
                       /\ pc' = [pc EXCEPT ![p] = Sent(p)]
                       /\ UNCHANGED senders
                  ELSE /\ senders' = Append(senders, p)
                       /\ pc' = [pc EXCEPT ![p] = "sending"]
                       /\ UNCHANGED taskCh
             /\ ran' = ran \ {p}
             /\ UNCHANGED <<loop, cur, stopCh>>

-----------------------------------------------------------------------------
(* The loop goroutine                                                      *)

\* Mutant of Receive: the oldest blocked sender is let in and forgotten.
ReceiveLosingSender ==
  /\ loop = "select"
  /\ taskCh # <<>>
  /\ cur' = Head(taskCh)
  /\ loop' = "task"
  /\ taskCh' = Tail(taskCh)
  /\ IF senders = <<>>
       THEN UNCHANGED <<senders, pc>>
       ELSE LET s == Head(senders) IN
              /\ senders' = Tail(senders)
              /\ pc' = [pc EXCEPT ![s] = Sent(s)]
  /\ UNCHANGED <<ran, stopCh>>

\* select takes any ready case: also a task after Stop.
Receive == /\ loop = "select"
           /\ taskCh # <<>>
           /\ cur' = Head(taskCh)
           /\ loop' = "task"
           /\ IF senders = <<>>
                THEN /\ taskCh' = Tail(taskCh)
                     /\ UNCHANGED <<senders, pc>>
                ELSE LET s == Head(senders) IN
                       /\ taskCh' = Append(Tail(taskCh), s)
                       /\ senders' = Tail(senders)
                       /\ pc' = [pc EXCEPT ![s] = Sent(s)]
           /\ UNCHANGED <<ran, stopCh>>

\* Mutant of RunTask: done is closed before fn has run.
RunTaskClosingFirst == /\ loop = "task"
                       /\ loop' = "close"
                       /\ pc' = [pc EXCEPT ![cur] = IF cur \in Callers THEN "returned" ELSE @]
                       /\ UNCHANGED <<taskCh, senders, cur, ran, stopCh>>

RunTask == /\ loop = "task"
           /\ ran' = ran \cup ({cur} \cap Callers)
           /\ loop' = "close"
           /\ UNCHANGED <<taskCh, senders, cur, pc, stopCh>>

\* close(done), the end of the task RunSync wrapped around fn.
CloseDone == /\ loop = "close"
             /\ pc' = IF cur \in Callers THEN [pc EXCEPT ![cur] = "returned"] ELSE pc
             /\ loop' = "checkpoint"
             /\ UNCHANGED <<taskCh, senders, cur, ran, stopCh>>

Checkpoint == /\ loop = "checkpoint"
              /\ loop' = "select"
              /\ UNCHANGED <<taskCh, senders, cur, pc, ran, stopCh>>

Exit == /\ loop = "select"
        /\ stopCh = "closed"
        /\ loop' = "exited"
        /\ UNCHANGED <<taskCh, senders, cur, pc, ran, stopCh>>

-----------------------------------------------------------------------------
(* The owner of the engine.                                                *)

\* The owner stops an engine it is not waiting for.
Stop == /\ stopCh = "open"
        /\ \A c \in Callers : pc[c] \in {"out", "returned"}
        /\ stopCh' = "closed"
        /\ UNCHANGED <<taskCh, senders, loop, cur, pc, ran>>

\* Once the owner stopped the loop it makes no further call.
Next == \/ \E c \in Callers : stopCh = "open" /\ Submit(c)
        \/ \E b \in Bridges : Submit(b)
        \/ Receive \/ RunTask \/ CloseDone \/ Checkpoint \/ Exit
        \/ Stop

Spec == Init /\ [][Next]_vars

\* The loop goroutine runs as long as it can: a task and its checkpoint end.
FairSpec == Spec /\ WF_vars(Receive \/ RunTask \/ CloseDone \/ Checkpoint)

-----------------------------------------------------------------------------
(* Properties                                                              *)

TypeOK == /\ taskCh \in Seq(Procs) /\ Len(taskCh) <= Cap
          /\ senders \in Seq(Procs)
          /\ loop \in LoopLabels
          /\ cur \in Procs
          /\ pc \in [Procs -> Labels]
          /\ ran \in SUBSET Callers
          /\ stopCh \in {"open", "closed"}

\* RunSync returns to its caller only after fn has run to its end, so what fn
\* assigned (the result and error variables of Runtime.run) is there to read.
ReturnsAfterRun == \A c \in Callers : pc[c] = "returned" => c \in ran

Running == loop \in {"task", "close"}

\* A caller blocked in RunSync has its task in exactly one place: the buffer,
\* the queue of blocked senders or the hands of the loop.  No task is lost or
\* run twice when the buffer is full.
TaskInOnePlace ==
  \A c \in Callers :
    /\ pc[c] = "sending" <=> \E i \in 1..Len(senders) : senders[i] = c
    /\ (\E i \in 1..Len(taskCh) : taskCh[i] = c) => pc[c] = "waiting"
    /\ Running /\ cur = c => pc[c] = "waiting"
    /\ pc[c] = "waiting" => (\E i \in 1..Len(taskCh) : taskCh[i] = c) \/ (Running /\ cur = c)
    /\ \A i \in 1..Len(taskCh) : taskCh[i] = c =>
         /\ ~(Running /\ cur = c)
         /\ \A j \in 1..Len(taskCh) : taskCh[j] = c => i = j

\* Unless the loop is stopped every RunSync returns, however many bridges
\* compete for the buffer.
SyncReturns == \A c \in Callers : pc[c] \in {"sending", "waiting"} ~> pc[c] = "returned"
=============================================================================
