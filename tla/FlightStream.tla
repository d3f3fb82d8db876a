---------------------------- MODULE FlightStream ----------------------------
(***************************************************************************)
(* What the browser's Flight parser is promised by a renderer: a stream of *)
(* rows, each with an id no other row has, that refer to one another by id *)
(* and of which row 0 is the page.  A stream that ends in order leaves no  *)
(* reference without its row; one that is cut off may leave any.           *)
(***************************************************************************)
EXTENDS Naturals

CONSTANT Ids   \* ids a row may have

VARIABLES defined,   \* ids whose row was sent
          wanted,    \* ids a row refers to, and 0, whose row was not sent
          status     \* "open", "complete" or "cut"

vars == <<defined, wanted, status>>

Init == defined = {} /\ wanted = {0} /\ status = "open"

SendRow(id, refs) == /\ status = "open"
                     /\ id \notin defined
                     /\ defined' = defined \cup {id}
                     /\ wanted' = (wanted \cup refs) \ (defined \cup {id})
                     /\ UNCHANGED status

Complete == /\ status = "open"
            /\ wanted = {}
            /\ status' = "complete"
            /\ UNCHANGED <<defined, wanted>>

Cut == /\ status = "open"
       /\ status' = "cut"
       /\ UNCHANGED <<defined, wanted>>

Next == \/ \E id \in Ids, refs \in SUBSET Ids : SendRow(id, refs)
        \/ Complete
        \/ Cut

Spec == Init /\ [][Next]_vars
=============================================================================
