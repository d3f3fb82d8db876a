-------------------------- MODULE ReconcilerProofs --------------------------
(***************************************************************************)
(* What a Flight stream may be, for any modules and any number of rows.    *)
(* The argument follows an id: it is reserved once, and from then on it is *)
(* the id of a row that was sent, or waits in the queue, or is the one the *)
(* render works on.                                                        *)
(***************************************************************************)
EXTENDS Reconciler, TLAPS

Busy == pc \in {"walk", "write", "await", "refuse"}
Queue == {pending[n] : n \in 1..Len(pending)}

Reserved == \A r \in RowIds \cup Promised \cup refs \cup Queue \cup {cur} : r < counter

Single == /\ \A n, k \in 1..Len(rows) : rows[n].id = rows[k].id => n = k
          /\ \A n, k \in 1..Len(pending) : pending[n] = pending[k] => n = k
          /\ Queue \cap RowIds = {}
          /\ Busy => cur \notin RowIds \cup Queue

Owed == pc # "cut" =>
          \A r \in Promised \cup {0} : r \in RowIds \cup Queue \/ (Busy /\ r = cur)

Built == pc \in {"walk", "write"} => refs \subseteq RowIds \cup Queue

Memo == /\ \A n \in 1..Len(rows) : rows[n].tag \in Modules => rowOf[rows[n].tag] = rows[n].id
        /\ \A m \in Modules : rowOf[m] # None => rowOf[m] \in RowIds

IInv == /\ TypeOK /\ Reserved /\ Single /\ Owed /\ Built /\ Memo
        /\ ImportsFirst /\ FailureContained

-----------------------------------------------------------------------------
LEMMA Appended ==
  ASSUME NEW S, NEW s \in Seq(S), NEW e \in S
  PROVE  /\ Append(s, e) \in Seq(S)
         /\ Len(Append(s, e)) = Len(s) + 1
         /\ Append(s, e)[Len(s) + 1] = e
         /\ \A n \in 1..Len(s) : Append(s, e)[n] = s[n]
         /\ 1..Len(Append(s, e)) = 1..Len(s) \cup {Len(s) + 1}
OBVIOUS

LEMMA Headless ==
  ASSUME NEW S, NEW s \in Seq(S), s # <<>>
  PROVE  /\ Tail(s) \in Seq(S)
         /\ Len(Tail(s)) = Len(s) - 1
         /\ Head(s) = s[1] /\ Head(s) \in S
         /\ \A n \in 1..Len(Tail(s)) : Tail(s)[n] = s[n + 1] /\ n + 1 \in 1..Len(s)
         /\ \A n \in 1..Len(s) : n # 1 => n - 1 \in 1..Len(Tail(s))
         /\ 1 \in 1..Len(s)
OBVIOUS

RowType == [id : Ids, tag : Tags, refs : SUBSET Ids]

\* The effect of a row on the sets the invariant speaks of.
LEMMA Sent ==
  ASSUME TypeOK, NEW id \in Ids, NEW t \in Tags, NEW to \in SUBSET Ids,
         rows' = Append(rows, Row(id, t, to))
  PROVE  /\ rows' \in Seq(RowType)
         /\ Len(rows') = Len(rows) + 1
         /\ 1..Len(rows') = 1..Len(rows) \cup {Len(rows) + 1}
         /\ rows'[Len(rows) + 1] = Row(id, t, to)
         /\ \A n \in 1..Len(rows) : rows'[n] = rows[n]
         /\ RowIds' = RowIds \cup {id}
         /\ Promised' = Promised \cup to
<1> DEFINE e == Row(id, t, to)
<1>1. rows \in Seq(RowType) /\ e \in RowType
  BY DEF TypeOK, RowType, Row
<1>2. /\ rows' \in Seq(RowType)
      /\ Len(rows') = Len(rows) + 1
      /\ 1..Len(rows') = 1..Len(rows) \cup {Len(rows) + 1}
      /\ rows'[Len(rows) + 1] = e
      /\ \A n \in 1..Len(rows) : rows'[n] = rows[n]
  BY <1>1, Appended
<1>3. RowIds' = RowIds \cup {id}
  <2>1. e.id = id
    BY DEF Row
  <2> HIDE DEF e
  <2> QED BY <1>2, <2>1 DEF RowIds
<1>4. Promised' = Promised \cup to
  <2>1. e.refs = to
    BY DEF Row
  <2> HIDE DEF e
  <2>2. {rows'[n].refs : n \in 1..Len(rows')} = {rows[n].refs : n \in 1..Len(rows)} \cup {to}
    BY <1>2, <2>1
  <2>3. Promised' = UNION {rows'[n].refs : n \in 1..Len(rows')}
    BY DEF Promised
  <2> QED BY <2>2, <2>3 DEF Promised
<1> QED BY <1>2, <1>3, <1>4

LEMMA RowsKept ==
  ASSUME UNCHANGED rows
  PROVE  RowIds' = RowIds /\ Promised' = Promised
BY DEF RowIds, Promised

LEMMA QueueKept ==
  ASSUME UNCHANGED pending
  PROVE  Queue' = Queue
BY DEF Queue

LEMMA SetsTyped ==
  ASSUME TypeOK
  PROVE  RowIds \subseteq Ids /\ Promised \subseteq Ids /\ Queue \subseteq Ids
<1>1. \A n \in 1..Len(rows) : rows[n] \in RowType
  <2>1. rows \in Seq(RowType)
    BY DEF TypeOK, RowType
  <2> QED
    BY <2>1
<1>2. \A n \in 1..Len(rows) : rows[n].id \in Ids /\ rows[n].refs \in SUBSET Ids
  BY <1>1 DEF RowType
<1>3. \A n \in 1..Len(pending) : pending[n] \in Ids
  BY DEF TypeOK
<1>4. RowIds \subseteq Ids
  BY <1>2 DEF RowIds
<1>5. Promised \subseteq Ids
  BY <1>2 DEF Promised
<1>6. Queue \subseteq Ids
  BY <1>3 DEF Queue
<1> QED BY <1>4, <1>5, <1>6

-----------------------------------------------------------------------------
LEMMA InitIInv == Init => IInv
<1> SUFFICES ASSUME Init PROVE IInv
  OBVIOUS
<1>1. TypeOK
  <2>1. rows \in Seq([id : Ids, tag : Tags, refs : SUBSET Ids]) /\ pending \in Seq(Ids)
    BY DEF Init
  <2>2. cur \in Ids /\ counter \in 1..MaxId
    BY MaxIdAssumption DEF Init, Ids
  <2>3. /\ pc \in Labels /\ refs \in SUBSET Ids /\ bad \in BOOLEAN /\ conn \in {"up", "down"}
        /\ teed \in BOOLEAN /\ stored \in {"none", "complete", "cut"}
        /\ rowOf \in [Modules -> Ids \cup {None}]
        /\ promise \in [Ids -> {"pending", "fulfilled", "rejected"}]
    BY DEF Init, Labels
  <2> QED
    BY <2>1, <2>2, <2>3 DEF TypeOK
<1>2. Len(rows) = 0 /\ Len(pending) = 0
  BY DEF Init
<1>3. RowIds = {} /\ Promised = {} /\ Queue = {}
  BY <1>2 DEF RowIds, Promised, Queue
<1>4. Reserved
  BY <1>3 DEF Init, Reserved
<1>5. Single /\ ImportsFirst
  BY <1>2, <1>3 DEF Single, ImportsFirst
<1>6. Owed /\ Built
  BY <1>3 DEF Init, Owed, Built, Busy
<1>7. Memo
  BY <1>2 DEF Init, Memo
<1>8. FailureContained
  BY DEF Init, FailureContained
<1> QED
  BY <1>1, <1>4, <1>5, <1>6, <1>7, <1>8 DEF IInv

\* Every step keeps the types.
LEMMA TypeStep == TypeOK /\ [Next]_vars => TypeOK'
<1> SUFFICES ASSUME TypeOK, [Next]_vars PROVE TypeOK'
  OBVIOUS
<1> USE MaxIdAssumption DEF Ids, None, Labels, cacheVars
<1>1. ASSUME NEW m \in Modules, ReferKnown(m) PROVE TypeOK'
  BY <1>1 DEF ReferKnown, TypeOK
<1>2. ASSUME NEW m \in Modules, ReferNew(m) PROVE TypeOK'
  <2>1. counter \in Ids /\ counter' \in 1..MaxId
    BY <1>2 DEF ReferNew, TypeOK
  <2>2. CASE conn = "up"
    <3>1. rows' = Append(rows, Row(counter, m, {}))
      BY <1>2, <2>2 DEF ReferNew
    <3>2. rows' \in Seq(RowType)
      BY <2>1, <3>1, Sent DEF Tags
    <3>3. UNCHANGED <<pc, bad, cur, pending, promise, conn, stored>> /\ teed' \in BOOLEAN
      BY <1>2, <2>2 DEF ReferNew
    <3>4. refs' \in SUBSET Ids /\ rowOf' \in [Modules -> Ids \cup {None}]
      BY <1>2, <2>1, <2>2 DEF ReferNew, TypeOK
    <3> QED
      BY <2>1, <3>2, <3>3, <3>4 DEF TypeOK, RowType
  <2>3. CASE conn # "up"
    BY <1>2, <2>1, <2>3 DEF ReferNew, WalkFails, TypeOK
  <2> QED
    BY <2>2, <2>3
<1>3. CASE deferAsync
  BY <1>3 DEF deferAsync, TypeOK
<1>4. CASE Unencodable
  BY <1>4 DEF Unencodable, TypeOK
<1>5. CASE Throws
  BY <1>5 DEF Throws, WalkFails, TypeOK
<1>6. CASE Walked
  BY <1>6 DEF Walked, TypeOK
<1>7. CASE writeModel
  <2>1. CASE ~bad /\ conn = "up"
    <3>1. rows' = Append(rows, Row(cur, "model", refs))
      BY <1>7, <2>1 DEF writeModel
    <3>2. rows' \in Seq(RowType)
      BY <3>1, Sent DEF TypeOK, Tags
    <3> QED
      BY <1>7, <2>1, <3>2 DEF writeModel, TypeOK, RowType
  <2>2. CASE ~(~bad /\ conn = "up")
    BY <1>7, <2>2 DEF writeModel, TypeOK
  <2> QED
    BY <2>1, <2>2
<1>8. CASE NextPending
  <2>1. Head(pending) \in Ids /\ Tail(pending) \in Seq(Ids)
    BY <1>8, Headless DEF NextPending, TypeOK
  <2> QED
    BY <1>8, <2>1 DEF NextPending, TypeOK
<1>9. CASE Drained
  BY <1>9 DEF Drained, TypeOK
<1>10. CASE writeError
  <2>1. CASE conn = "up"
    <3>1. rows' = Append(rows, Row(cur, "error", {}))
      BY <1>10, <2>1 DEF writeError
    <3>2. rows' \in Seq(RowType)
      BY <3>1, Sent DEF TypeOK, Tags
    <3> QED
      BY <1>10, <2>1, <3>2 DEF writeError, TypeOK, RowType
  <2>2. CASE conn # "up"
    BY <1>10, <2>2 DEF writeError, TypeOK
  <2> QED
    BY <2>1, <2>2
<1>11. CASE Await
  BY <1>11 DEF Await, Fulfilled, Rejected, TimedOut, TypeOK
<1>12. ASSUME NEW i \in Ids, Settle(i) PROVE TypeOK'
  BY <1>12 DEF Settle, walkVars, TypeOK
<1>13. CASE Disconnect
  BY <1>13 DEF Disconnect, walkVars, TypeOK
<1>14. CASE Store
  BY <1>14 DEF Store, walkVars, TypeOK
<1>15. CASE UNCHANGED vars
  BY <1>15 DEF vars, TypeOK
<1> QED
  BY <1>1, <1>2, <1>3, <1>4, <1>5, <1>6, <1>7, <1>8, <1>9, <1>10, <1>11, <1>12, <1>13, <1>14, <1>15
  DEF Next, Walk, Drain

-----------------------------------------------------------------------------
\* A step that sends nothing and leaves the queue alone.
LEMMA QuietStep ==
  ASSUME IInv, TypeOK', FailureContained',
         UNCHANGED <<rows, rowOf, pending, cur>>,
         counter' >= counter,
         refs' \subseteq refs \cup RowIds,
         Busy' => Busy,
         Busy => Busy' \/ pc' = "cut",
         pc' # "cut" => pc # "cut",
         pc' \in {"walk", "write"} => pc \in {"walk", "write"} \/ refs' = {}
  PROVE  IInv'
<1>1. RowIds' = RowIds /\ Promised' = Promised /\ Queue' = Queue
  BY RowsKept, QueueKept
<1>2. RowIds \subseteq Ids /\ Promised \subseteq Ids /\ Queue \subseteq Ids
  BY SetsTyped DEF IInv
<1>3. Reserved'
  <2> SUFFICES ASSUME NEW r \in RowIds \cup Promised \cup refs' \cup Queue \cup {cur}
               PROVE  r < counter'
    BY <1>1 DEF Reserved
  <2>1. r < counter
    BY DEF IInv, Reserved
  <2>2. r \in Nat /\ counter \in Nat /\ counter' \in Nat
    BY <1>2, MaxIdAssumption DEF IInv, TypeOK, Ids
  <2> QED
    BY <2>1, <2>2
<1>4. Single'
  BY <1>1 DEF IInv, Single
<1>5. Owed'
  BY <1>1 DEF IInv, Owed
<1>6. Built'
  BY <1>1 DEF IInv, Built
<1>7. Memo'
  BY <1>1 DEF IInv, Memo
<1>8. ImportsFirst'
  BY DEF IInv, ImportsFirst
<1> QED
  BY <1>3, <1>4, <1>5, <1>6, <1>7, <1>8 DEF IInv

\* The row of the page or of a promise is sent.
LEMMA FinishStep ==
  ASSUME IInv, TypeOK', FailureContained',
         NEW t \in {"model", "error"}, NEW to \in SUBSET Ids,
         to \subseteq RowIds \cup Queue,
         rows' = Append(rows, Row(cur, t, to)),
         UNCHANGED <<rowOf, pending, cur, refs, counter>>,
         pc \in {"write", "refuse"}, pc' = "drain"
  PROVE  IInv'
<1>1. cur \in Ids /\ cur \notin RowIds \cup Queue
  BY DEF IInv, TypeOK, Single, Busy
<1>2. /\ 1..Len(rows') = 1..Len(rows) \cup {Len(rows) + 1}
      /\ rows'[Len(rows) + 1] = Row(cur, t, to)
      /\ \A n \in 1..Len(rows) : rows'[n] = rows[n]
      /\ RowIds' = RowIds \cup {cur}
      /\ Promised' = Promised \cup to
  BY <1>1, Sent DEF IInv, Tags
<1>3. Queue' = Queue
  BY QueueKept
<1>4. Len(rows) \in Nat
  BY DEF IInv, TypeOK
<1>5. \A n \in 1..Len(rows) : rows[n].id \in RowIds
  BY DEF RowIds
<1>6. Row(cur, t, to).id = cur /\ Row(cur, t, to).refs = to /\ Row(cur, t, to).tag = t
  BY DEF Row
<1>7. t \notin Modules
  BY KeysAssumption DEF Modules
<1>8. Reserved'
  BY <1>2, <1>3 DEF IInv, Reserved
<1>9. Single'
  <2>1. \A n, k \in 1..Len(rows') : rows'[n].id = rows'[k].id => n = k
    BY <1>1, <1>2, <1>4, <1>5, <1>6 DEF IInv, Single
  <2>2. ~Busy'
    BY DEF Busy
  <2> QED
    BY <1>1, <1>2, <1>3, <2>1, <2>2 DEF IInv, Single
<1>10. Owed'
  <2>1. pc # "cut"
    OBVIOUS
  <2> QED
    BY <1>2, <1>3, <2>1 DEF IInv, Owed
<1>11. Built'
  BY DEF Built
<1>12. Memo'
  BY <1>2, <1>4, <1>6, <1>7 DEF IInv, Memo
<1>13. ImportsFirst'
  <2> SUFFICES ASSUME NEW n \in 1..Len(rows'), NEW k \in 1..Len(rows'), rows'[n].tag \in Modules
               PROVE  /\ rows'[k].tag = rows'[n].tag => n = k
                      /\ rows'[n].id \in rows'[k].refs => n < k
    BY DEF ImportsFirst
  <2>1. n \in 1..Len(rows)
    BY <1>2, <1>6, <1>7
  <2>2. CASE k \in 1..Len(rows)
    BY <1>2, <2>1, <2>2 DEF IInv, ImportsFirst
  <2>3. CASE k = Len(rows) + 1
    BY <1>2, <1>4, <1>6, <1>7, <2>1, <2>3
  <2> QED
    BY <1>2, <2>2, <2>3
<1> QED
  BY <1>8, <1>9, <1>10, <1>11, <1>12, <1>13 DEF IInv

\* A module met for the first time: its row is sent from inside the walk.
LEMMA ModuleStep ==
  ASSUME IInv, TypeOK', NEW m \in Modules, ReferNew(m), conn = "up"
  PROVE  IInv'
<1>1. /\ pc = "walk" /\ rowOf[m] = None
      /\ counter \in Ids /\ counter \in Nat /\ counter' = counter + 1
      /\ rows' = Append(rows, Row(counter, m, {}))
      /\ rowOf' = [rowOf EXCEPT ![m] = counter]
      /\ refs' = refs \cup {counter}
      /\ UNCHANGED <<pc, bad, cur, pending, promise, conn>>
  BY MaxIdAssumption DEF IInv, TypeOK, ReferNew, Ids
<1>2. /\ 1..Len(rows') = 1..Len(rows) \cup {Len(rows) + 1}
      /\ rows'[Len(rows) + 1] = Row(counter, m, {})
      /\ \A n \in 1..Len(rows) : rows'[n] = rows[n]
      /\ RowIds' = RowIds \cup {counter}
      /\ Promised' = Promised \cup {}
  <2>1. m \in Tags /\ {} \in SUBSET Ids /\ TypeOK
    BY DEF IInv, Tags
  <2>2. counter \in Ids /\ rows' = Append(rows, Row(counter, m, {}))
    BY <1>1
  <2> QED
    BY <2>1, <2>2, Sent
<1>3. Queue' = Queue
  BY <1>1, QueueKept
<1>4. Len(rows) \in Nat
  BY DEF IInv, TypeOK
<1>5. \A n \in 1..Len(rows) : rows[n].id \in RowIds /\ rows[n].refs \subseteq Promised
  BY DEF RowIds, Promised
<1>6. LET e == Row(counter, m, {}) IN e.id = counter /\ e.refs = {} /\ e.tag = m
  BY DEF Row
<1>7. counter \notin RowIds \cup Promised \cup Queue \cup {cur}
  BY <1>1 DEF IInv, Reserved
<1>8. Reserved'
  <2>1. RowIds \subseteq Ids /\ Promised \subseteq Ids /\ Queue \subseteq Ids
    BY SetsTyped DEF IInv
  <2> SUFFICES ASSUME NEW r \in RowIds \cup Promised \cup refs \cup Queue \cup {cur, counter}
               PROVE  r < counter + 1
    BY <1>1, <1>2, <1>3 DEF Reserved
  <2>2. r \in Nat
    BY <1>1, <2>1, MaxIdAssumption DEF IInv, TypeOK, Ids
  <2>3. r < counter \/ r = counter
    BY DEF IInv, Reserved
  <2> QED
    BY <1>1, <2>2, <2>3
<1>9. Single'
  <2>1. \A n, k \in 1..Len(rows') : rows'[n].id = rows'[k].id => n = k
    BY <1>2, <1>4, <1>5, <1>6, <1>7 DEF IInv, Single
  <2> QED
    BY <1>1, <1>2, <1>3, <1>7, <2>1 DEF IInv, Single, Busy
<1>10. Owed'
  BY <1>1, <1>2, <1>3 DEF IInv, Owed, Busy
<1>11. Built'
  BY <1>1, <1>2, <1>3 DEF IInv, Built
<1>12. Memo'
  <2>1. \A n \in 1..Len(rows) : rows[n].tag # m
    <3> SUFFICES ASSUME NEW n \in 1..Len(rows), rows[n].tag = m PROVE FALSE
      OBVIOUS
    <3>1. rows[n].id = None
      BY <1>1 DEF IInv, Memo
    <3>2. rows[n].id \in Ids
      BY <1>5, SetsTyped DEF IInv
    <3> QED
      BY <3>1, <3>2, MaxIdAssumption DEF Ids, None
  <2>2. rowOf \in [Modules -> Ids \cup {None}]
    BY DEF IInv, TypeOK
  <2>3. \A n \in 1..Len(rows') : rows'[n].tag \in Modules => rowOf'[rows'[n].tag] = rows'[n].id
    BY <1>1, <1>2, <1>4, <1>6, <2>1, <2>2 DEF IInv, Memo
  <2>4. \A k \in Modules : rowOf'[k] # None => rowOf'[k] \in RowIds'
    BY <1>1, <1>2, <2>2 DEF IInv, Memo
  <2> QED
    BY <2>3, <2>4 DEF Memo
<1>13. ImportsFirst'
  <2> SUFFICES ASSUME NEW n \in 1..Len(rows'), NEW k \in 1..Len(rows'), rows'[n].tag \in Modules
               PROVE  /\ rows'[k].tag = rows'[n].tag => n = k
                      /\ rows'[n].id \in rows'[k].refs => n < k
    BY DEF ImportsFirst
  <2>1. rows'[k].tag = rows'[n].tag => n = k
    <3>1. ASSUME rows'[k].tag = rows'[n].tag PROVE rows'[k].id = rows'[n].id
      BY <1>12, <3>1 DEF Memo
    <3> QED
      BY <1>9, <3>1 DEF Single
  <2>2. ASSUME rows'[n].id \in rows'[k].refs PROVE n < k
    <3>1. k \in 1..Len(rows)
      BY <1>2, <1>6, <2>2
    <3>2. rows'[n].id # counter
      BY <1>2, <1>5, <1>7, <2>2, <3>1
    <3>3. n \in 1..Len(rows)
      BY <1>2, <1>6, <3>2
    <3> QED
      BY <1>2, <2>2, <3>1, <3>3 DEF IInv, ImportsFirst
  <2> QED
    BY <2>1, <2>2
<1>14. FailureContained'
  BY <1>1 DEF FailureContained
<1> QED
  BY <1>8, <1>9, <1>10, <1>11, <1>12, <1>13, <1>14 DEF IInv

\* A promise is put in the queue.
LEMMA DeferStep == ASSUME IInv, TypeOK', deferAsync PROVE IInv'
<1>1. /\ pc = "walk" /\ counter \in Ids /\ counter \in Nat /\ counter' = counter + 1
      /\ pending' = Append(pending, counter)
      /\ refs' = refs \cup {counter}
      /\ UNCHANGED <<pc, cur, bad, rows, rowOf, promise, conn>>
  BY MaxIdAssumption DEF IInv, TypeOK, deferAsync, Ids
<1>2. RowIds' = RowIds /\ Promised' = Promised
  BY <1>1, RowsKept
<1>3. /\ 1..Len(pending') = 1..Len(pending) \cup {Len(pending) + 1}
      /\ pending'[Len(pending) + 1] = counter
      /\ \A n \in 1..Len(pending) : pending'[n] = pending[n]
      /\ Len(pending) \in Nat
  BY <1>1, Appended DEF IInv, TypeOK
<1>4. Queue' = Queue \cup {counter}
  BY <1>3 DEF Queue
<1>5. counter \notin RowIds \cup Promised \cup Queue \cup {cur}
  BY <1>1 DEF IInv, Reserved
<1>6. Reserved'
  <2>1. RowIds \subseteq Ids /\ Promised \subseteq Ids /\ Queue \subseteq Ids
    BY SetsTyped DEF IInv
  <2> SUFFICES ASSUME NEW r \in RowIds \cup Promised \cup refs \cup Queue \cup {cur, counter}
               PROVE  r < counter + 1
    BY <1>1, <1>2, <1>4 DEF Reserved
  <2>2. r \in Nat
    BY <1>1, <2>1, MaxIdAssumption DEF IInv, TypeOK, Ids
  <2>3. r < counter \/ r = counter
    BY DEF IInv, Reserved
  <2> QED
    BY <1>1, <2>2, <2>3
<1>7. Single'
  <2>1. \A n \in 1..Len(pending) : pending[n] # counter
    BY <1>5 DEF Queue
  <2>2. \A n, k \in 1..Len(pending') : pending'[n] = pending'[k] => n = k
    BY <1>3, <2>1 DEF IInv, Single
  <2> QED
    BY <1>1, <1>2, <1>4, <1>5, <2>2 DEF IInv, Single, Busy
<1>8. Owed'
  BY <1>1, <1>2, <1>4 DEF IInv, Owed, Busy
<1>9. Built'
  BY <1>1, <1>2, <1>4 DEF IInv, Built
<1>10. Memo' /\ ImportsFirst'
  BY <1>1, <1>2 DEF IInv, Memo, ImportsFirst
<1>11. FailureContained'
  BY <1>1 DEF FailureContained
<1> QED
  BY <1>6, <1>7, <1>8, <1>9, <1>10, <1>11 DEF IInv

\* The head of the queue becomes the one the render works on.
LEMMA NextPendingStep == ASSUME IInv, TypeOK', NextPending PROVE IInv'
<1>1. /\ pc = "drain" /\ pc' = "await" /\ pending # <<>> /\ pending \in Seq(Ids)
      /\ cur' = Head(pending) /\ pending' = Tail(pending)
      /\ UNCHANGED <<refs, bad, counter, rows, rowOf, promise, conn>>
  BY DEF IInv, TypeOK, NextPending
<1>2. RowIds' = RowIds /\ Promised' = Promised
  BY <1>1, RowsKept
<1>3. /\ cur' = pending[1] /\ 1 \in 1..Len(pending) /\ Len(pending') = Len(pending) - 1
      /\ \A n \in 1..Len(pending') : pending'[n] = pending[n + 1] /\ n + 1 \in 1..Len(pending)
      /\ \A n \in 1..Len(pending) : n # 1 => n - 1 \in 1..Len(pending')
      /\ Len(pending) \in Nat
  BY <1>1, Headless
<1>4. Queue = Queue' \cup {cur'}
  <2>1. \A n \in 1..Len(pending) : pending[n] \in Queue' \cup {cur'}
    <3> SUFFICES ASSUME NEW n \in 1..Len(pending), n # 1 PROVE pending[n] \in Queue'
      BY <1>3
    <3>1. pending'[n - 1] = pending[n]
      BY <1>3
    <3> QED
      BY <1>3, <3>1 DEF Queue
  <2>2. Queue' \subseteq Queue
    BY <1>3 DEF Queue
  <2>3. cur' \in Queue
    BY <1>3 DEF Queue
  <2> QED
    BY <2>1, <2>2, <2>3 DEF Queue
<1>5. cur' \notin Queue'
  BY <1>3 DEF IInv, Single, Queue
<1>6. Reserved'
  BY <1>1, <1>2, <1>4 DEF IInv, Reserved
<1>7. Single'
  <2>1. \A n, k \in 1..Len(pending') : pending'[n] = pending'[k] => n = k
    <3> SUFFICES ASSUME NEW n \in 1..Len(pending'), NEW k \in 1..Len(pending'),
                        pending'[n] = pending'[k]
                 PROVE  n = k
      OBVIOUS
    <3>1. n + 1 = k + 1
      BY <1>3 DEF IInv, Single
    <3> QED
      BY <3>1, <1>3
  <2> QED
    BY <1>1, <1>2, <1>4, <1>5, <2>1 DEF IInv, Single, Busy
<1>8. Owed'
  BY <1>1, <1>2, <1>4 DEF IInv, Owed, Busy
<1>9. Built' /\ Memo' /\ ImportsFirst' /\ FailureContained'
  BY <1>1, <1>2 DEF IInv, Built, Memo, ImportsFirst, FailureContained
<1> QED
  BY <1>6, <1>7, <1>8, <1>9 DEF IInv

-----------------------------------------------------------------------------
LEMMA StepIInv == IInv /\ [Next]_vars => IInv'
<1> SUFFICES ASSUME IInv, [Next]_vars PROVE IInv'
  OBVIOUS
<1>t. TypeOK'
  BY TypeStep DEF IInv
<1>c. counter \in Nat
  BY MaxIdAssumption DEF IInv, TypeOK
<1>1. ASSUME NEW m \in Modules, ReferKnown(m) PROVE IInv'
  <2>1. rowOf[m] \in RowIds
    BY <1>1 DEF ReferKnown, IInv, Memo
  <2>2. FailureContained'
    BY <1>1 DEF ReferKnown, FailureContained
  <2> QED
    BY <1>1, <1>t, <1>c, <2>1, <2>2, QuietStep DEF ReferKnown, Busy
<1>2. ASSUME NEW m \in Modules, ReferNew(m) PROVE IInv'
  <2>1. CASE conn = "up"
    BY <1>2, <1>t, <2>1, ModuleStep
  <2>2. CASE conn # "up"
    <3>1. /\ UNCHANGED <<rows, rowOf, pending, cur, conn>> /\ counter' = counter + 1
          /\ refs' = {} /\ pc = "walk" /\ pc' \in {"cut", "refuse"}
      BY <1>2, <2>2 DEF ReferNew, WalkFails
    <3>2. FailureContained'
      BY <2>2, <3>1 DEF FailureContained, IInv, TypeOK
    <3> QED
      BY <1>t, <1>c, <3>1, <3>2, QuietStep DEF Busy
  <2> QED
    BY <2>1, <2>2
<1>3. CASE deferAsync
  BY <1>3, <1>t, DeferStep
<1>4. CASE Unencodable
  <2>1. FailureContained'
    BY <1>4 DEF Unencodable, FailureContained
  <2> QED
    BY <1>4, <1>t, <1>c, <2>1, QuietStep DEF Unencodable, Busy
<1>5. CASE Throws
  <2>1. /\ UNCHANGED <<rows, rowOf, pending, cur, counter>>
        /\ refs' = {} /\ pc = "walk" /\ pc' = IF cur = 0 THEN "cut" ELSE "refuse"
    BY <1>5 DEF Throws, WalkFails
  <2>2. cur \notin RowIds
    BY <2>1 DEF IInv, Single, Busy
  <2>3. FailureContained'
    BY <2>1, <2>2, RowsKept DEF FailureContained
  <2> QED
    BY <1>t, <1>c, <2>1, <2>3, QuietStep DEF Busy
<1>6. CASE Walked
  <2>1. FailureContained'
    BY <1>6 DEF Walked, FailureContained
  <2> QED
    BY <1>6, <1>t, <1>c, <2>1, QuietStep DEF Walked, Busy
<1>7. CASE writeModel
  <2>1. CASE ~bad /\ conn = "up"
    <3>1. /\ rows' = Append(rows, Row(cur, "model", refs)) /\ pc = "write" /\ pc' = "drain"
          /\ UNCHANGED <<rowOf, pending, cur, refs, counter>>
      BY <1>7, <2>1 DEF writeModel
    <3>2. refs \subseteq RowIds \cup Queue /\ refs \in SUBSET Ids
      BY <3>1 DEF IInv, Built, TypeOK
    <3>3. FailureContained'
      BY <3>1 DEF FailureContained
    <3> QED
      BY <1>t, <3>1, <3>2, <3>3, FinishStep
  <2>2. CASE ~(~bad /\ conn = "up")
    <3>1. /\ UNCHANGED <<rows, rowOf, pending, cur, counter, refs, bad, conn>>
          /\ pc = "write" /\ pc' = "cut"
      BY <1>7, <2>2 DEF writeModel
    <3>2. FailureContained'
      BY <2>2, <3>1 DEF FailureContained, IInv, TypeOK
    <3> QED
      BY <1>t, <1>c, <3>1, <3>2, QuietStep DEF Busy
  <2> QED
    BY <2>1, <2>2
<1>8. CASE NextPending
  BY <1>8, <1>t, NextPendingStep
<1>9. CASE Drained
  <2>1. FailureContained'
    BY <1>9 DEF Drained, FailureContained
  <2> QED
    BY <1>9, <1>t, <1>c, <2>1, QuietStep DEF Drained, Busy
<1>10. CASE writeError
  <2>1. CASE conn = "up"
    <3>1. /\ rows' = Append(rows, Row(cur, "error", {})) /\ pc = "refuse" /\ pc' = "drain"
          /\ UNCHANGED <<rowOf, pending, cur, refs, counter>>
      BY <1>10, <2>1 DEF writeError
    <3>2. FailureContained'
      BY <3>1 DEF FailureContained
    <3> QED
      BY <1>t, <3>1, <3>2, FinishStep
  <2>2. CASE conn # "up"
    <3>1. /\ UNCHANGED <<rows, rowOf, pending, cur, counter, refs, bad, conn>>
          /\ pc = "refuse" /\ pc' = "cut"
      BY <1>10, <2>2 DEF writeError
    <3>2. FailureContained'
      BY <2>2, <3>1 DEF FailureContained, IInv, TypeOK
    <3> QED
      BY <1>t, <1>c, <3>1, <3>2, QuietStep DEF Busy
  <2> QED
    BY <2>1, <2>2
<1>11. CASE Await
  <2>1. FailureContained'
    BY <1>11 DEF Await, Fulfilled, Rejected, TimedOut, FailureContained
  <2> QED
    BY <1>11, <1>t, <1>c, <2>1, QuietStep DEF Await, Fulfilled, Rejected, TimedOut, Busy
<1>12. ASSUME NEW i \in Ids, Settle(i) PROVE IInv'
  <2>1. UNCHANGED <<pc, cur, refs, bad, counter, rows, rowOf, pending, conn>>
    BY <1>12 DEF Settle, walkVars
  <2>2. FailureContained'
    BY <2>1, RowsKept DEF FailureContained, IInv
  <2> QED
    BY <1>t, <1>c, <2>1, <2>2, QuietStep DEF Busy
<1>13. CASE Disconnect
  <2>1. UNCHANGED <<pc, cur, refs, bad, counter, rows, rowOf, pending>> /\ pc # "cut"
    BY <1>13 DEF Disconnect, walkVars
  <2>2. FailureContained'
    BY <2>1 DEF FailureContained
  <2> QED
    BY <1>t, <1>c, <2>1, <2>2, QuietStep DEF Busy
<1>14. CASE Store \/ UNCHANGED vars
  <2>1. UNCHANGED <<pc, cur, refs, bad, counter, rows, rowOf, pending, conn>>
    BY <1>14 DEF Store, walkVars, vars
  <2>2. FailureContained'
    BY <2>1, RowsKept DEF FailureContained, IInv
  <2> QED
    BY <1>t, <1>c, <2>1, <2>2, QuietStep DEF Busy
<1> QED
  BY <1>1, <1>2, <1>3, <1>4, <1>5, <1>6, <1>7, <1>8, <1>9, <1>10, <1>11, <1>12, <1>13, <1>14
  DEF Next, Walk, Drain

LEMMA Invariance == Spec => []IInv
BY InitIInv, StepIInv, PTL DEF Spec

\* Every variable keeps its type: ids, rows and the queue of a render.
THEOREM TypeCorrect == Spec => []TypeOK
<1>1. IInv => TypeOK
  BY DEF IInv
<1> QED
  BY <1>1, Invariance, PTL

\* A module has one row, sent before every row that refers to it.
THEOREM ImportsPrecede == Spec => []ImportsFirst
<1>1. IInv => ImportsFirst
  BY DEF IInv
<1> QED
  BY <1>1, Invariance, PTL

\* After the page only the connection or the encoder cuts a render.
THEOREM OnlyWritesCut == Spec => []FailureContained
<1>1. IInv => FailureContained
  BY DEF IInv
<1> QED
  BY <1>1, Invariance, PTL

-----------------------------------------------------------------------------
(* The stream implements FlightStream: a row is sent, the stream ends, or  *)
(* nothing the parser sees happens.                                        *)

Open == pc \notin {"complete", "cut"}

LEMMA SendMaps ==
  ASSUME IInv, Open, Open', NEW id \in Ids, id \notin RowIds, NEW t \in Tags, NEW to \in SUBSET Ids,
         rows' = Append(rows, Row(id, t, to))
  PROVE  Stream!SendRow(id, to)
<1>1. RowIds' = RowIds \cup {id} /\ Promised' = Promised \cup to
  BY Sent DEF IInv
<1> QED
  BY <1>1 DEF Stream!SendRow, Open

\* A step that sends nothing is not seen, or cuts the stream.
LEMMA SilentMaps ==
  ASSUME UNCHANGED rows, \/ UNCHANGED pc
                         \/ Open /\ pc' # "complete"
  PROVE  [Stream!Next]_(Stream!vars)
<1>1. CASE UNCHANGED pc
  BY <1>1, RowsKept DEF Stream!vars
<1>2. CASE Open /\ Open'
  BY <1>2, RowsKept DEF Stream!vars, Open
<1>3. CASE Open /\ pc' = "cut"
  <2>1. Stream!Cut
    BY <1>3, RowsKept DEF Stream!Cut, Open
  <2> QED
    BY <2>1 DEF Stream!Next
<1> QED
  BY <1>1, <1>2, <1>3 DEF Open

LEMMA StepMaps == IInv /\ [Next]_vars => [Stream!Next]_(Stream!vars)
<1> SUFFICES ASSUME IInv, [Next]_vars PROVE [Stream!Next]_(Stream!vars)
  OBVIOUS
<1>1. ASSUME NEW id \in Ids, NEW to \in SUBSET Ids, Stream!SendRow(id, to)
      PROVE  [Stream!Next]_(Stream!vars)
  BY <1>1 DEF Stream!Next
<1>2. CASE \/ \E m \in Modules : ReferKnown(m)
           \/ deferAsync \/ Unencodable \/ Throws \/ Walked \/ NextPending \/ Await
  <2>1. UNCHANGED rows /\ Open /\ pc' # "complete"
    BY <1>2 DEF ReferKnown, deferAsync, Unencodable, Throws, WalkFails, Walked, NextPending,
                Await, Fulfilled, Rejected, TimedOut, Open
  <2> QED
    BY <2>1, SilentMaps
<1>3. ASSUME NEW m \in Modules, ReferNew(m) PROVE [Stream!Next]_(Stream!vars)
  <2>1. CASE conn = "up"
    <3>1. /\ rows' = Append(rows, Row(counter, m, {})) /\ Open /\ Open'
          /\ counter \in Ids /\ counter \in Nat
      BY <1>3, <2>1, MaxIdAssumption DEF ReferNew, Open, IInv, TypeOK, Ids
    <3>2. counter \notin RowIds
      BY <3>1 DEF IInv, Reserved
    <3>3. m \in Tags /\ {} \in SUBSET Ids
      BY DEF Tags
    <3> QED
      BY <1>1, <3>1, <3>2, <3>3, SendMaps
  <2>2. CASE conn # "up"
    <3>1. UNCHANGED rows /\ Open /\ pc' # "complete"
      BY <1>3, <2>2 DEF ReferNew, WalkFails, Open
    <3> QED
      BY <3>1, SilentMaps
  <2> QED
    BY <2>1, <2>2
<1>4. ASSUME NEW t \in {"model", "error"}, NEW to \in SUBSET Ids, pc \in {"write", "refuse"},
             pc' = "drain", rows' = Append(rows, Row(cur, t, to))
      PROVE  [Stream!Next]_(Stream!vars)
  <2>1. Open /\ Open' /\ cur \in Ids /\ cur \notin RowIds /\ t \in Tags
    BY <1>4 DEF Open, IInv, TypeOK, Single, Busy, Tags
  <2> QED
    BY <1>1, <1>4, <2>1, SendMaps
<1>5. CASE writeModel
  <2>1. CASE ~bad /\ conn = "up"
    <3>1. /\ rows' = Append(rows, Row(cur, "model", refs)) /\ refs \in SUBSET Ids
          /\ pc = "write" /\ pc' = "drain"
      BY <1>5, <2>1 DEF writeModel, IInv, TypeOK
    <3> QED
      BY <1>4, <3>1
  <2>2. CASE ~(~bad /\ conn = "up")
    <3>1. UNCHANGED rows /\ Open /\ pc' # "complete"
      BY <1>5, <2>2 DEF writeModel, Open
    <3> QED
      BY <3>1, SilentMaps
  <2> QED
    BY <2>1, <2>2
<1>6. CASE writeError
  <2>1. CASE conn = "up"
    <3>1. rows' = Append(rows, Row(cur, "error", {})) /\ pc = "refuse" /\ pc' = "drain"
      BY <1>6, <2>1 DEF writeError
    <3> QED
      BY <1>4, <3>1
  <2>2. CASE conn # "up"
    <3>1. UNCHANGED rows /\ Open /\ pc' # "complete"
      BY <1>6, <2>2 DEF writeError, Open
    <3> QED
      BY <3>1, SilentMaps
  <2> QED
    BY <2>1, <2>2
<1>7. CASE Drained
  <2>1. UNCHANGED rows /\ pc = "drain" /\ pc' = "complete" /\ pending = <<>>
    BY <1>7 DEF Drained
  <2>2. Queue = {} /\ ~Busy
    BY <2>1 DEF Queue, Busy
  <2>3. (Promised \cup {0}) \ RowIds = {}
    BY <2>1, <2>2 DEF IInv, Owed
  <2>4. Stream!Complete
    BY <2>1, <2>3, RowsKept DEF Stream!Complete
  <2> QED
    BY <2>4 DEF Stream!Next
<1>8. CASE (\E i \in Ids : Settle(i)) \/ Disconnect \/ Store \/ UNCHANGED vars
  <2>1. UNCHANGED rows /\ UNCHANGED pc
    BY <1>8 DEF Settle, Disconnect, Store, walkVars, vars
  <2> QED
    BY <2>1, SilentMaps
<1> QED
  BY <1>2, <1>3, <1>5, <1>6, <1>7, <1>8 DEF Next, Walk, Drain

LEMMA InitMaps == Init => Stream!Init
<1> SUFFICES ASSUME Init PROVE Stream!Init
  OBVIOUS
<1>1. Len(rows) = 0 /\ pc = "walk"
  BY DEF Init
<1>2. RowIds = {} /\ Promised = {}
  BY <1>1 DEF RowIds, Promised
<1> QED
  BY <1>1, <1>2 DEF Stream!Init

\* Every row has an id of its own, and a render that ends without an error
\* leaves no reference without its row.
THEOREM StreamImplemented == Spec => StreamSpec
BY InitMaps, StepMaps, Invariance, PTL DEF Spec, StreamSpec, Stream!Spec
=============================================================================
