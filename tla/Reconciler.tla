----------------------------- MODULE Reconciler -----------------------------
(***************************************************************************)
(* renderer/nativersc: one render of a page.  Go walks the element tree of *)
(* the page, sends a row for every client module and server action it      *)
(* meets, puts every promise it meets in a queue, sends the page as row 0  *)
(* and then settles the queue, first in first out, one row for each.       *)
(*                                                                         *)
(* A walk is the sequence of the values it meets that leave a trace: plain *)
(* values, containers and the components it calls are not shown, so every  *)
(* tree is some sequence.  A promise is named by the id of its row.        *)
(***************************************************************************)
EXTENDS Naturals, Sequences

CONSTANTS Clients,   \* client module exports
          Servers,   \* server actions passed by value
          MaxId      \* bound: rows a render reserves

ASSUME MaxIdAssumption == MaxId \in Nat \ {0}
ASSUME KeysAssumption == (Clients \cup Servers) \cap {"model", "error", "none"} = {}

Modules == Clients \cup Servers
Ids == 0..(MaxId - 1)
None == MaxId

VARIABLES pc,         \* where the render is
          cur,        \* the row being walked, awaited or refused
          refs, bad,  \* of the model being built: the ids it refers to; json cannot encode it
          counter,    \* flightWriter.counter
          rows,       \* the rows sent
          rowOf,      \* clientRefs and serverRefs
          pending,    \* the queue
          promise,    \* the state of every promise
          conn,       \* the client's connection
          teed,       \* a row reached the buffer of the teeWriter
          stored      \* what serveFlight put in the cache: nothing, or the stream as it ended

walkVars == <<pc, cur, refs, bad>>
cacheVars == <<teed, stored>>
vars == <<pc, cur, refs, bad, counter, rows, rowOf, pending, promise, conn, teed, stored>>

Labels == {"walk", "write", "drain", "await", "refuse", "complete", "cut"}
Row(id, tag, to) == [id |-> id, tag |-> tag, refs |-> to]

Init == /\ pc = "walk" /\ cur = 0 /\ refs = {} /\ bad = FALSE
        /\ counter = 1
        /\ rows = <<>>
        /\ rowOf = [m \in Modules |-> None]
        /\ pending = <<>>
        /\ promise = [i \in Ids |-> "pending"]
        /\ conn = "up"
        /\ teed = FALSE /\ stored = "none"

-----------------------------------------------------------------------------
(* walkValue, inside one run of the event loop                             *)

\* The walk returns an error: of the page, render returns it; of a promise's
\* value, drainPending sends an error row.
WalkFails == /\ pc' = IF cur = 0 THEN "cut" ELSE "refuse"
             /\ refs' = {} /\ bad' = FALSE

ReferKnown(m) == /\ pc = "walk"
                 /\ rowOf[m] # None
                 /\ refs' = refs \cup {rowOf[m]}
                 /\ UNCHANGED <<pc, cur, bad, counter, rows, rowOf, pending, promise, conn, cacheVars>>

\* Mutant of ReferNew: the map is not filled, every use sends a row.
ReferNewForgetting(m) ==
  /\ pc = "walk" /\ rowOf[m] = None /\ counter < MaxId
  /\ counter' = counter + 1
  /\ rows' = Append(rows, Row(counter, m, {})) /\ teed' = TRUE
  /\ refs' = refs \cup {counter}
  /\ UNCHANGED <<pc, cur, bad, rowOf, pending, promise, conn, stored>>

\* clientRefID and serverRefID: the map is filled once the row is sent.
ReferNew(m) == /\ pc = "walk"
               /\ rowOf[m] = None
               /\ counter < MaxId
               /\ counter' = counter + 1 /\ teed' = TRUE
               /\ IF conn = "up"
                    THEN /\ rows' = Append(rows, Row(counter, m, {}))
                         /\ rowOf' = [rowOf EXCEPT ![m] = counter]
                         /\ refs' = refs \cup {counter}
                         /\ UNCHANGED <<pc, bad>>
                    ELSE WalkFails /\ UNCHANGED <<rows, rowOf>>
               /\ UNCHANGED <<cur, pending, promise, conn, stored>>

deferAsync == /\ pc = "walk"
              /\ counter < MaxId
              /\ counter' = counter + 1
              /\ pending' = Append(pending, counter)
              /\ refs' = refs \cup {counter}
              /\ UNCHANGED <<pc, cur, bad, rows, rowOf, promise, conn, cacheVars>>

\* NaN, Infinity or a symbol: exported as it is, refused by json.Marshal later.
Unencodable == /\ pc = "walk"
               /\ bad' = TRUE
               /\ UNCHANGED <<pc, cur, refs, counter, rows, rowOf, pending, promise, conn, cacheVars>>

\* Mutant of Throws: drainPending returns the error of a walk.
ThrowsCutting == /\ pc = "walk"
                 /\ pc' = "cut" /\ refs' = {} /\ bad' = FALSE
                 /\ UNCHANGED <<cur, counter, rows, rowOf, pending, promise, conn, cacheVars>>

\* A component throws.
Throws == /\ pc = "walk"
          /\ WalkFails
          /\ UNCHANGED <<cur, counter, rows, rowOf, pending, promise, conn, cacheVars>>

Walked == /\ pc = "walk"
          /\ pc' = "write"
          /\ UNCHANGED <<cur, refs, bad, counter, rows, rowOf, pending, promise, conn, cacheVars>>

-----------------------------------------------------------------------------
(* render and drainPending                                                 *)

writeModel == /\ pc = "write"
              /\ teed' = (teed \/ ~bad)
              /\ IF ~bad /\ conn = "up"
                   THEN rows' = Append(rows, Row(cur, "model", refs)) /\ pc' = "drain"
                   ELSE pc' = "cut" /\ UNCHANGED rows
              /\ UNCHANGED <<cur, refs, bad, counter, rowOf, pending, promise, conn, stored>>

NextPending == /\ pc = "drain"
               /\ pending # <<>>
               /\ cur' = Head(pending)
               /\ pending' = Tail(pending)
               /\ pc' = "await"
               /\ UNCHANGED <<refs, bad, counter, rows, rowOf, promise, conn, cacheVars>>

Drained == /\ pc = "drain"
           /\ pending = <<>>
           /\ pc' = "complete"
           /\ UNCHANGED <<cur, refs, bad, counter, rows, rowOf, pending, promise, conn, cacheVars>>

\* Mutant of writeError: the row of a refused promise is left out.
writeErrorSkipped == /\ pc = "refuse"
                     /\ pc' = IF conn = "up" THEN "drain" ELSE "cut"
                     /\ UNCHANGED <<cur, refs, bad, counter, rows, rowOf, pending, promise, conn, cacheVars>>

writeError == /\ pc = "refuse"
              /\ teed' = TRUE
              /\ IF conn = "up"
                   THEN rows' = Append(rows, Row(cur, "error", {})) /\ pc' = "drain"
                   ELSE pc' = "cut" /\ UNCHANGED rows
              /\ UNCHANGED <<cur, refs, bad, counter, rowOf, pending, promise, conn, stored>>

-----------------------------------------------------------------------------
(* awaitPromise: the loop is run in short bursts until a handler fires or  *)
(* pendingTimeout has passed                                               *)

Fulfilled == /\ pc = "await"
             /\ promise[cur] = "fulfilled"
             /\ pc' = "walk" /\ refs' = {} /\ bad' = FALSE
             /\ UNCHANGED <<cur, counter, rows, rowOf, pending, promise, conn, cacheVars>>

Rejected == /\ pc = "await"
            /\ promise[cur] = "rejected"
            /\ pc' = "refuse"
            /\ UNCHANGED <<cur, refs, bad, counter, rows, rowOf, pending, promise, conn, cacheVars>>

\* Mutant of TimedOut: the deadline is set anew in every burst and never passes.
TimedOutNever == FALSE /\ UNCHANGED vars

TimedOut == /\ pc = "await"
            /\ promise[cur] = "pending"
            /\ pc' = "refuse"
            /\ UNCHANGED <<cur, refs, bad, counter, rows, rowOf, pending, promise, conn, cacheVars>>

-----------------------------------------------------------------------------
(* The program and the client                                              *)

\* A promise the walk has met settles; the bursts for another let it.
Settle(i) == /\ i < counter
             /\ promise[i] = "pending"
             /\ \/ \E n \in 1..Len(pending) : pending[n] = i
                \/ pc = "await" /\ cur = i
             /\ \E s \in {"fulfilled", "rejected"} : promise' = [promise EXCEPT ![i] = s]
             /\ UNCHANGED <<walkVars, counter, rows, rowOf, pending, conn, cacheVars>>

\* From then on every write fails.
Disconnect == /\ conn = "up"
              /\ pc \notin {"complete", "cut"}
              /\ conn' = "down"
              /\ UNCHANGED <<walkVars, counter, rows, rowOf, pending, promise, cacheVars>>

\* The end of serveFlight, whether RenderToWriter returned an error or not.
Store == /\ pc \in {"complete", "cut"}
         /\ teed /\ stored = "none"
         /\ stored' = pc
         /\ UNCHANGED <<walkVars, counter, rows, rowOf, pending, promise, conn, teed>>

Walk == \/ \E m \in Modules : ReferKnown(m) \/ ReferNew(m)
        \/ deferAsync \/ Unencodable \/ Throws \/ Walked
Drain == writeModel \/ NextPending \/ Drained \/ writeError
Await == Fulfilled \/ Rejected \/ TimedOut

Next == Walk \/ Drain \/ Await \/ (\E i \in Ids : Settle(i)) \/ Disconnect \/ Store

Spec == Init /\ [][Next]_vars

\* The goroutine of the request goes on, a walk meets finitely many values and
\* the 30 seconds of a promise that stays pending pass.  Promises owe nothing.
FairSpec == Spec /\ WF_vars(Throws \/ Walked) /\ WF_vars(Drain) /\ WF_vars(Await)

-----------------------------------------------------------------------------
(* Properties                                                              *)

Tags == Modules \cup {"model", "error"}
RowIds == {rows[n].id : n \in 1..Len(rows)}
Promised == UNION {rows[n].refs : n \in 1..Len(rows)}

TypeOK == /\ pc \in Labels
          /\ cur \in Ids
          /\ refs \in SUBSET Ids
          /\ bad \in BOOLEAN
          /\ counter \in 1..MaxId
          /\ rows \in Seq([id : Ids, tag : Tags, refs : SUBSET Ids])
          /\ rowOf \in [Modules -> Ids \cup {None}]
          /\ pending \in Seq(Ids)
          /\ promise \in [Ids -> {"pending", "fulfilled", "rejected"}]
          /\ conn \in {"up", "down"}
          /\ teed \in BOOLEAN
          /\ stored \in {"none", "complete", "cut"}

\* A module or an action has one row, and it precedes every row that refers to
\* it: when the parser meets the reference it has the import (clientRefs,
\* serverRefs and the row sent from inside the walk).
ImportsFirst ==
  \A n, k \in 1..Len(rows) :
    /\ rows[n].tag \in Modules /\ rows[k].tag = rows[n].tag => n = k
    /\ rows[n].tag \in Modules /\ rows[n].id \in rows[k].refs => n < k

\* Once the page was sent, a promise that rejects, throws or times out ends in
\* an error row of its own: the render is cut only by the connection or by a
\* value json cannot encode.
FailureContained == pc = "cut" /\ 0 \in RowIds => conn = "down" \/ bad

\* The stream the client parses: every row has an id of its own, and a render
\* that ends without an error leaves no reference without its row, also those
\* met while the queue was drained.
Stream == INSTANCE FlightStream WITH
  Ids <- Ids,
  defined <- RowIds,
  wanted <- (Promised \cup {0}) \ RowIds,
  status <- IF pc \in {"complete", "cut"} THEN pc ELSE "open"
StreamSpec == Stream!Spec

\* A render ends whatever its promises do.
RenderEnds == <>(pc \in {"complete", "cut"})
=============================================================================
