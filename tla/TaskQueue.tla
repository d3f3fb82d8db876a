------------------------------ MODULE TaskQueue ------------------------------
(***************************************************************************)
(* What the event loop of an engine promises those that submit to it,      *)
(* without channels: tasks wait in one queue that is never full, they      *)
(* begin in the order they were submitted, one ends before the next one    *)
(* begins, and a caller goes on when its own has ended.  EventLoop         *)
(* implements this specification.                                          *)
(***************************************************************************)
EXTENDS Sequences

CONSTANTS Submitters,   \* who submits tasks
          Callers       \* those of them that wait for the task's end

VARIABLES queue,      \* tasks submitted and not begun, oldest first
          current,    \* the task that runs, if any: a sequence of one or none
          awaiting    \* the callers whose task has not ended

vars == <<queue, current, awaiting>>

Init == /\ queue = <<>>
        /\ current = <<>>
        /\ awaiting = {}

Submit(p) == /\ p \notin awaiting
             /\ queue' = Append(queue, p)
             /\ awaiting' = awaiting \cup ({p} \cap Callers)
             /\ UNCHANGED current

Begin == /\ current = <<>>
         /\ queue # <<>>
         /\ current' = <<Head(queue)>>
         /\ queue' = Tail(queue)
         /\ UNCHANGED awaiting

End == /\ current # <<>>
       /\ current' = <<>>
       /\ awaiting' = awaiting \ {Head(current)}
       /\ UNCHANGED queue

Next == \/ \E p \in Submitters : Submit(p)
        \/ Begin
        \/ End

Spec == Init /\ [][Next]_vars
=============================================================================
