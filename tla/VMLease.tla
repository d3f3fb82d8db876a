------------------------------ MODULE VMLease ------------------------------
(***************************************************************************)
(* What a bounded VM pool (package vmpool) promises its callers, without   *)
(* channels, locks or program counters: no more VMs exist than fit, each   *)
(* VM has at most one holder, and only a VM that exists is held, passed on or *)
(* destroyed.  VMPool implements this specification.                       *)
(***************************************************************************)
CONSTANTS Users, VM, NoVM,
          Fits(_)    \* may this set of VMs exist at one time?

VARIABLES live,    \* the VMs created and not yet disposed
          owner    \* the VM each user holds, or NoVM

vars == <<live, owner>>

Free(v) == \A u \in Users : owner[u] # v

\* The pool is born with some VMs, none of them held.
Init == /\ live \in SUBSET VM
        /\ Fits(live)
        /\ owner = [u \in Users |-> NoVM]

Create(u, v) == /\ owner[u] = NoVM
                /\ v \notin live
                /\ Fits(live \cup {v})
                /\ live' = live \cup {v}
                /\ owner' = [owner EXCEPT ![u] = v]

Take(u, v) == /\ owner[u] = NoVM
              /\ v \in live
              /\ Free(v)
              /\ owner' = [owner EXCEPT ![u] = v]
              /\ UNCHANGED live

Give(u) == /\ owner[u] # NoVM
           /\ owner' = [owner EXCEPT ![u] = NoVM]
           /\ UNCHANGED live

\* The holder hands its VM straight to a waiting user.
Transfer(u, w) == /\ owner[u] # NoVM
                  /\ owner[w] = NoVM
                  /\ owner' = [owner EXCEPT ![w] = owner[u], ![u] = NoVM]
                  /\ UNCHANGED live

Destroy(u) == /\ owner[u] \in live
              /\ live' = live \ {owner[u]}
              /\ owner' = [owner EXCEPT ![u] = NoVM]

Next == \E u \in Users :
           \/ \E v \in VM : Create(u, v) \/ Take(u, v)
           \/ Give(u)
           \/ \E w \in Users : Transfer(u, w)
           \/ Destroy(u)

Spec == Init /\ [][Next]_vars
=============================================================================
