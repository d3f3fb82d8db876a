--------------------------- MODULE DevServeProofs ---------------------------
(***************************************************************************)
(* NothingMissed, the types and the Poller's tiers, for any set of files,  *)
(* sizes of the tiers and number of edits.  NothingMissed is not           *)
(* inductive: that nothing is missed once the Poller has taken its first   *)
(* look depends on what slipped, or not, before it did.  InOneTier is one  *)
(* with the types: a tick draws the path it promotes from its share of the *)
(* round, which is a share of the round only while the index is in range.  *)
(***************************************************************************)
EXTENDS DevServe, FiniteSetTheorems, TLAPS

\* The parts of the type the argument needs.
Types == /\ disk \in [Files -> Nat]
         /\ items \in [Files -> Nat]
         /\ overlay \in [Files -> Nat] /\ built \in [Files -> Nat]
         /\ writes \in Nat
         /\ slipped \subseteq Files
         /\ pc \in Labels /\ child \in Childs /\ restartCh \in BOOLEAN

\* Up to the first look a file the loop is behind has slipped.
Before == /\ pc \in {"overlay", "start"} => child = "none"
          /\ pc = "start" => \A f \in Files \ slipped : f # Polafile => disk[f] = overlay[f]
          /\ pc = "watch" => \A f \in Files \ slipped : ~Behind(f)

\* Writes are numbered upwards, and no file is on record as gone unless a
\* restart is due: the next write of a watched file is news.
Numbered == /\ \A f \in Files : disk[f] <= writes
            /\ \A f \in Files : items[f] = Unwatched \/ items[f] <= writes
            /\ pc = "select" /\ ~restartCh => \A f \in Files : items[f] # Missing

IInv == Types /\ Before /\ Numbered /\ NothingMissed

LEMMA Inits == Init => IInv
<1> SUFFICES ASSUME Init PROVE IInv
  OBVIOUS
<1> USE WritesAssumption
<1>1. Types
  <2>1. disk \in [Files -> Nat] BY DEF Init
  <2>2. Unwatched \in Nat BY DEF Unwatched
  <2>3. items \in [Files -> Nat] BY <2>2 DEF Init
  <2>. QED BY <2>1, <2>3 DEF Init, Types, Labels, Childs
<1>2. Before /\ NothingMissed
  BY DEF Init, Before, NothingMissed
<1>3. Numbered
  BY DEF Init, Numbered
<1>. QED
  BY <1>1, <1>2, <1>3 DEF IInv

\* What a tick that looks at the files keeps.
LEMMA TypesKept == ASSUME Types, [Next]_vars PROVE Types'
<1> USE WritesAssumption, PolafileAssumption DEF Types, Labels, Childs, States, Missing, Unwatched
<1>1. CASE Overlay BY <1>1 DEF Overlay, pollVars
<1>2. CASE StartChild BY <1>2 DEF StartChild, pollVars
<1>3. CASE Watch
  <2>1. \A f \in Files : (IF f \in Collected THEN disk[f] ELSE Unwatched) \in Nat
    OBVIOUS
  <2>2. items' = [f \in Files |-> IF f \in Collected THEN disk[f] ELSE Unwatched]
    BY <1>3 DEF Watch, Snapshot
  <2>3. items' \in [Files -> Nat]
    BY <2>1, <2>2, Zenon
  <2>. QED BY <1>3, <2>3 DEF Watch
<1>4. CASE Restart \/ Killed \/ Ended \/ Interrupted
  BY <1>4 DEF Restart, Killed, Ended, Interrupted, pollVars
<1>5. CASE Compile \/ Crash BY <1>5 DEF Compile, Crash, pollVars
<1>6. CASE Write
  <2>1. PICK f \in Files, new \in {Missing, writes + 1} :
          /\ disk' = [disk EXCEPT ![f] = new]
          /\ writes' = writes + 1
          /\ slipped' = IF Slips(f, new) THEN slipped \cup {f} ELSE slipped
          /\ UNCHANGED <<pollVars, serveVars>>
    BY <1>6 DEF Write
  <2>2. new \in Nat OBVIOUS
  <2>. QED BY <2>1, <2>2 DEF pollVars, serveVars
<1>7. CASE PollChange
  <2>1. \A f \in Files : Look(f) => items' \in [Files -> Nat] BY DEF Look
  <2>2. items' \in [Files -> Nat] \/ items' = items
    <3>1. CASE PollRecent
      BY <3>1 DEF PollRecent, Look
    <3>2. CASE PollSample
      BY <3>2 DEF PollSample, Look
    <3>. QED BY <1>7, <3>1, <3>2 DEF PollChange, PollFinds
  <2>. QED BY <1>7, <2>2 DEF PollChange
<1>8. CASE PollQuiet BY <1>8 DEF PollQuiet, PollNothing, serveVars
<1>9. CASE RescanChange BY <1>9 DEF RescanChange, RescanFinds, SetPaths
<1>10. CASE RescanQuiet BY <1>10 DEF RescanQuiet, RescanForgets, SetPaths, serveVars, Watched
<1>11. CASE UNCHANGED vars BY <1>11 DEF vars, pollVars, serveVars
<1>. QED
  BY <1>1, <1>2, <1>3, <1>4, <1>5, <1>6, <1>7, <1>8, <1>9, <1>10, <1>11
     DEF Next, Loop, Poll, Rescan

LEMMA NumbersKept == ASSUME Types, Numbered, [Next]_vars PROVE Numbered'
<1> USE DEF Types, Numbered
<1>1. CASE Overlay \/ StartChild \/ Restart \/ Killed \/ Ended \/ Interrupted
  BY <1>1 DEF Overlay, StartChild, Restart, Killed, Ended, Interrupted, pollVars
<1>2. CASE Watch
  <2>1. \A f \in Files : items'[f] = Unwatched \/ (items'[f] = disk[f] /\ disk[f] # Missing)
    BY <1>2 DEF Watch, Snapshot, Collected
  <2>2. Unwatched # Missing
    BY WritesAssumption DEF Unwatched, Missing
  <2>. QED BY <1>2, <2>1, <2>2 DEF Watch
<1>3. CASE Compile \/ Crash
  BY <1>3 DEF Compile, Crash, pollVars
<1>4. CASE Write
  <2>1. PICK f \in Files, new \in {Missing, writes + 1} :
          /\ disk' = [disk EXCEPT ![f] = new]
          /\ writes' = writes + 1
          /\ UNCHANGED <<pollVars, serveVars>>
    BY <1>4 DEF Write
  <2>. QED BY <2>1 DEF pollVars, serveVars, Missing
<1>5. CASE PollChange
  <2>1. /\ restartCh' = TRUE
        /\ UNCHANGED <<disk, writes>>
        /\ \E x : Look(x)
    <3>1. CASE PollRecent BY <1>5, <3>1 DEF PollChange, PollRecent
    <3>2. CASE PollSample BY <1>5, <3>2 DEF PollChange, PollSample
    <3>. QED BY <1>5, <3>1, <3>2 DEF PollChange, PollFinds
  <2>. QED BY <2>1 DEF Look
<1>6. CASE PollQuiet BY <1>6 DEF PollQuiet, PollNothing, serveVars
<1>7. CASE RescanChange
  BY <1>7 DEF RescanChange, RescanFinds, SetPaths
<1>8. CASE RescanQuiet
  <2>1. /\ Collected \subseteq Watched
        /\ SetPaths
        /\ UNCHANGED <<disk, writes, serveVars>>
    BY <1>8 DEF RescanQuiet, RescanForgets
  <2>2. \A f \in Files : items'[f] = items[f] \/ items'[f] = Unwatched
    BY <2>1 DEF SetPaths, Keep
  <2>3. Unwatched # Missing
    BY WritesAssumption DEF Unwatched, Missing
  <2>. QED BY <2>1, <2>2, <2>3 DEF serveVars, Unwatched
<1>9. CASE UNCHANGED vars BY <1>9 DEF vars, pollVars, serveVars
<1>. QED
  BY <1>1, <1>2, <1>3, <1>4, <1>5, <1>6, <1>7, <1>8, <1>9
     DEF Next, Loop, Poll, Rescan

LEMMA Steps == ASSUME IInv, [Next]_vars PROVE IInv'
<1>11. Types' BY TypesKept DEF IInv
<1>12. Numbered' BY NumbersKept DEF IInv
<1> SUFFICES Before' /\ NothingMissed' BY <1>11, <1>12 DEF IInv
<1> USE PolafileAssumption DEF IInv, Types, Before, NothingMissed, Behind, Findable
<1>1. CASE Overlay BY <1>1 DEF Overlay
<1>2. CASE StartChild BY <1>2 DEF StartChild
<1>3. CASE Watch
  BY <1>3 DEF Watch
<1>4. CASE Restart \/ Killed \/ Ended \/ Interrupted
  BY <1>4 DEF Restart, Killed, Ended, Interrupted
<1>5. CASE Compile \/ Crash
  BY <1>5 DEF Compile, Crash, pollVars, Watched, Collected, Changed
<1>6. CASE Write
  <2>1. PICK f \in Files, new \in {Missing, writes + 1} :
          /\ disk' = [disk EXCEPT ![f] = new]
          /\ slipped' = IF Slips(f, new) THEN slipped \cup {f} ELSE slipped
          /\ UNCHANGED <<pollVars, serveVars>>
    BY <1>6 DEF Write
  <2>2. \A g \in Files : g # f => disk'[g] = disk[g] BY <2>1
  <2>3. Before'
    BY <2>1, <2>2 DEF Slips, serveVars
  <2>4. NothingMissed'
    <3> SUFFICES ASSUME pc' = "select", ~restartCh', NEW g \in Files \ slipped', Behind(g)'
                 PROVE Findable(g)'
      OBVIOUS
    <3>1. pc = "select" /\ ~restartCh /\ g \notin slipped
      BY <2>1 DEF serveVars
    <3>2. Watched' = Watched /\ items' = items
      BY <2>1 DEF pollVars, Watched
    <3>3. CASE g # f
      <4>1. Behind(g) BY <2>1, <2>2, <3>3 DEF serveVars
      <4>2. Findable(g) BY <3>1, <4>1
      <4>. QED BY <2>2, <3>2, <3>3, <4>2 DEF Changed, Collected
    <3>4. CASE g = f
      <4>1. disk'[f] = new BY <2>1
      <4>2. ~Slips(f, new) BY <2>1, <3>4
      <4>3. CASE f \in Watched
        \* A watched file is written: its number is new, or it is gone.
        <5>1. items[f] # disk'[f]
          BY <3>1, <4>1, <4>3 DEF Numbered, Watched
        <5>. QED BY <3>2, <3>4, <4>3, <5>1 DEF Changed
      <4>4. CASE f \notin Watched
        <5>1. new # Missing BY <3>1, <4>2, <4>4 DEF Slips
        <5>. QED BY <3>2, <3>4, <4>1, <4>4, <5>1 DEF Collected
      <4>. QED BY <4>3, <4>4
    <3>. QED BY <3>3, <3>4
  <2>. QED BY <2>3, <2>4
<1>7. CASE PollChange \/ RescanChange
  BY <1>7 DEF PollChange, RescanChange
<1>8. CASE PollQuiet
  BY <1>8 DEF PollQuiet, PollNothing, serveVars, Watched, Collected, Changed
<1>9. CASE RescanQuiet
  <2> SUFFICES ASSUME pc' = "select", ~restartCh', NEW g \in Files \ slipped', Behind(g)'
               PROVE Findable(g)'
    BY <1>9 DEF RescanQuiet, serveVars
  <2>1. /\ Collected \subseteq Watched
        /\ slipped' = slipped \cup {f \in Watched \ Collected : items[f] # Missing}
        /\ UNCHANGED <<disk, writes, serveVars>>
        /\ SetPaths
    BY <1>9 DEF RescanQuiet, RescanForgets
  <2>2. Findable(g)
    BY <2>1 DEF serveVars
  <2>3. g \in Watched /\ items[g] # disk[g]
    BY <2>1, <2>2 DEF Changed
  <2>4. g \in Collected
    BY <2>1, <2>3 DEF Collected
  <2>5. items'[g] = items[g]
    BY <2>1, <2>3, <2>4 DEF SetPaths, Keep
  <2>. QED BY <2>1, <2>3, <2>5 DEF Watched, Changed
<1>10. CASE UNCHANGED vars
  BY <1>10 DEF vars, pollVars, serveVars, Watched, Collected, Changed
<1>. QED
  BY <1>1, <1>2, <1>3, <1>4, <1>5, <1>6, <1>7, <1>8, <1>9, <1>10
     DEF Next, Loop, Poll, Rescan
-----------------------------------------------------------------------------
\* While the loop waits, a file it is behind, and whose change did not slip
\* through, is one the Poller's next ticks find (serve.go, watcher.go).
THEOREM NoneMissed == Spec => []NothingMissed
<1>1. Init => IInv BY Inits
<1>2. IInv /\ [Next]_vars => IInv' BY Steps
<1>3. IInv => NothingMissed BY DEF IInv
<1>. QED BY <1>1, <1>2, <1>3, PTL DEF Spec
-----------------------------------------------------------------------------
(* The Poller's tiers.                                                      *)

\* Orders and the paths they put in order.
LEMMA OrdersCover ==
    ASSUME NEW S, IsFiniteSet(S), NEW q \in Orders(S)
    PROVE  /\ q \in Seq(S) /\ DOMAIN q = 1..Len(q) /\ Len(q) = Cardinality(S) /\ Len(q) \in Nat
           /\ Range(q) = S /\ IsInjective(q)
<1> DEFINE n == Cardinality(S)
<1>1. n \in Nat
  BY FS_CardinalityType
<1>2. q \in [1..n -> S] /\ IsInjective(q)
  BY DEF Orders
<1>3. IsFiniteSet(1..n) /\ Cardinality(1..n) = n
  BY <1>1, FS_Interval
<1> HIDE DEF n
<1>4. q \in Seq(S) /\ Len(q) = n /\ DOMAIN q = 1..n
  BY <1>1, <1>2
<1>5. q \in Injection(1..n, S)
  BY <1>2 DEF Injection
<1>6. q \in Surjection(1..n, S)
  BY <1>3, <1>5, FS_Injection DEF n
<1>7. Range(q) = S
  BY <1>2, <1>6 DEF Surjection, Range
<1> QED
  BY <1>1, <1>2, <1>4, <1>7 DEF n

\* An order has as many places as paths.
LEMMA OrderLength ==
    ASSUME NEW q \in Seq(Files), IsInjective(q)
    PROVE  IsFiniteSet(Range(q)) /\ Cardinality(Range(q)) = Len(q)
<1>1. Len(q) \in Nat /\ q \in [1..Len(q) -> Range(q)] /\ Range(q) \subseteq Files
  BY DEF Range
<1>2. q \in Bijection(1..Len(q), Range(q))
  BY <1>1 DEF Bijection, Injection, Surjection, Range
<1>3. Cardinality(Range(q)) = Len(q)
  BY <1>1, <1>2, FS_CountingElements DEF ExistsBijection
<1>4. IsFiniteSet(Range(q))
  BY <1>1, FilesAssumption, FS_Subset
<1> QED
  BY <1>3, <1>4

LEMMA SequenceParts ==
    ASSUME NEW S, NEW q \in Seq(S)
    PROVE  /\ DOMAIN q = 1..Len(q) /\ Len(q) \in Nat
           /\ \A i \in DOMAIN q : q[i] \in S /\ q[i] \in Range(q)
           /\ Range(q) \subseteq S
BY DEF Range

LEMMA AppendParts ==
    ASSUME NEW S, NEW q \in Seq(S), NEW e \in S
    PROVE  /\ Append(q, e) \in Seq(S) /\ Len(Append(q, e)) = Len(q) + 1
           /\ DOMAIN Append(q, e) = 1..(Len(q) + 1)
           /\ Append(q, e)[Len(q) + 1] = e
           /\ \A i \in 1..Len(q) : Append(q, e)[i] = q[i]
<1>1. Append(q, e) \in Seq(S) /\ Len(Append(q, e)) = Len(q) + 1
  OBVIOUS
<1>2. DOMAIN Append(q, e) = 1..(Len(q) + 1)
  BY <1>1
<1>3. Append(q, e)[Len(q) + 1] = e
  OBVIOUS
<1>4. \A i \in 1..Len(q) : Append(q, e)[i] = q[i]
  OBVIOUS
<1> QED
  BY <1>1, <1>2, <1>3, <1>4

LEMMA TailParts ==
    ASSUME NEW S, NEW q \in Seq(S), q # <<>>
    PROVE  /\ Tail(q) \in Seq(S) /\ Len(Tail(q)) = Len(q) - 1 /\ Len(q) \in Nat /\ Len(q) > 0
           /\ \A i \in 1..(Len(q) - 1) : Tail(q)[i] = q[i + 1]
<1>1. Len(q) \in Nat /\ Len(q) > 0
  OBVIOUS
<1>2. Tail(q) \in Seq(S) /\ Len(Tail(q)) = Len(q) - 1
  OBVIOUS
<1>3. \A i \in 1..(Len(q) - 1) : Tail(q)[i] = q[i + 1]
  OBVIOUS
<1> QED
  BY <1>1, <1>2, <1>3

\* The types of what the Poller keeps, and every watched path in one tier.
Tiers == /\ items \in [Files -> States \cup {Unwatched}]
         /\ recent \in Seq(Files) /\ Len(recent) <= MaxRecent
         /\ scanOrder \in Seq(Files) /\ scanIndex \in 0..Len(scanOrder)
         /\ InOneTier

Disk == disk \in [Files -> States]

LEMMA NumbersKnown == /\ MaxRecent \in Nat /\ MaxRecent > 0 /\ MinItems \in Nat /\ Intervals \in Nat
                      /\ Intervals > 0 /\ MaxWrites \in Nat /\ Unwatched \notin States
                      /\ States \subseteq Nat
BY RecentAssumption, ItemsAssumption, WritesAssumption DEF Unwatched, States

\* A new round over the watched paths that are not recent.
LEMMA Rebuilt ==
    ASSUME NEW W, NEW L, W \subseteq Files, rebuildScanOrder(W, L)
    PROVE  /\ scanOrder' \in Seq(Files) /\ scanIndex' \in 0..Len(scanOrder')
           /\ Range(scanOrder') = W \ L /\ IsInjective(scanOrder')
<1>1. IsFiniteSet(W \ L)
  BY FilesAssumption, FS_Subset
<1>2. scanOrder' \in Orders(W \ L) /\ scanIndex' = 0
  BY DEF rebuildScanOrder
<1>3. /\ scanOrder' \in Seq(W \ L) /\ Len(scanOrder') \in Nat /\ Range(scanOrder') = W \ L
      /\ IsInjective(scanOrder')
  BY <1>1, <1>2, OrdersCover
<1> QED
  BY <1>2, <1>3

LEMMA SnapshotTiers == ASSUME Disk, Snapshot PROVE Tiers'
<1>1. items' = [f \in Files |-> IF f \in Collected THEN disk[f] ELSE Unwatched]
  BY DEF Snapshot
<1>2. items' \in [Files -> States \cup {Unwatched}]
  BY <1>1 DEF Disk
<1>3. Watched' = Collected
  BY <1>1, NumbersKnown DEF Watched, Collected, Disk
<1>4. /\ scanOrder' \in Seq(Files) /\ scanIndex' \in 0..Len(scanOrder')
      /\ Range(scanOrder') = Collected \ {} /\ IsInjective(scanOrder')
  <2>1. Collected \subseteq Files /\ rebuildScanOrder(Collected, {})
    BY DEF Snapshot, Collected
  <2> QED
    BY <2>1, Rebuilt
<1>5. recent' = <<>> /\ Len(recent') = 0 /\ Range(recent') = {} /\ IsInjective(recent')
  BY DEF Snapshot, Range, IsInjective
<1> QED
  BY <1>2, <1>3, <1>4, <1>5, NumbersKnown DEF Tiers, InOneTier

\* The paths a tick looks at are of the round it is in and the next.
LEMMA ShareOfRound ==
    ASSUME Tiers, NEW next \in Orders(Range(scanOrder))
    PROVE  /\ itemsPerIter \in 0..Len(scanOrder)
           /\ next \in Seq(Files) /\ Len(next) = Len(scanOrder)
           /\ Range(next) = Range(scanOrder) /\ IsInjective(next)
           /\ \A i \in 1..Len(Share(next)) : Share(next)[i] \in Range(scanOrder)
<1> DEFINE total == Len(scanOrder)
<1>1. total \in Nat /\ scanIndex \in 0..total /\ scanOrder \in Seq(Files) /\ IsInjective(scanOrder)
  BY DEF Tiers, InOneTier
<1>2. itemsPerIter \in 0..total
  <2> DEFINE share == (total + Intervals - 1) \div Intervals
             k == IF share < MinItems THEN MinItems ELSE share
  <2>1. share \in Nat
    BY <1>1, NumbersKnown, SMT
  <2> HIDE DEF share
  <2>2. k \in Nat
    BY <2>1, NumbersKnown
  <2> HIDE DEF k
  <2>3. itemsPerIter = Least(k, total)
    BY DEF itemsPerIter, k, share
  <2> QED
    BY <1>1, <2>2, <2>3 DEF Least
<1>3. IsFiniteSet(Range(scanOrder)) /\ Cardinality(Range(scanOrder)) = total
  BY <1>1, OrderLength
<1>4. /\ next \in Seq(Range(scanOrder)) /\ Len(next) = total
      /\ Range(next) = Range(scanOrder) /\ IsInjective(next)
  BY <1>3, OrdersCover
<1>5. Range(scanOrder) \subseteq Files /\ scanOrder \in Seq(Range(scanOrder))
  BY <1>1, SequenceParts
<1>6. next \in Seq(Files)
  BY <1>4, <1>5
<1>7. Share(next) \in Seq(Range(scanOrder))
  <2> DEFINE left == Least(itemsPerIter, total - scanIndex)
             a == SubSeq(scanOrder, scanIndex + 1, scanIndex + left)
             b == SubSeq(next, 1, itemsPerIter - left)
  <2>1. left \in Nat /\ left <= itemsPerIter /\ left <= total - scanIndex
    BY <1>1, <1>2 DEF Least
  <2>2. Share(next) = a \o b
    BY DEF Share
  <2> HIDE DEF left, total
  <2>3. a \in Seq(Range(scanOrder))
    BY <1>1, <1>2, <1>5, <2>1 DEF total
  <2>4. b \in Seq(Range(scanOrder))
    BY <1>1, <1>2, <1>4, <2>1 DEF total
  <2> HIDE DEF a, b
  <2> QED
    BY <2>2, <2>3, <2>4
<1> QED
  BY <1>2, <1>4, <1>6, <1>7

\* A look at a watched path keeps what is watched.
LEMMA LookKeepsWatched ==
    ASSUME Disk, Tiers, NEW f \in Watched, Look(f)
    PROVE  Watched' = Watched /\ items' \in [Files -> States \cup {Unwatched}]
<1>1. f \in Files /\ items[f] # Unwatched /\ disk[f] \in States
  BY DEF Watched, Disk
<1>2. items' \in [Files -> States \cup {Unwatched}]
  BY <1>1 DEF Look, Tiers
<1>3. \A g \in Files : items'[g] # Unwatched <=> items[g] # Unwatched
  BY <1>1, NumbersKnown DEF Look, Tiers
<1>4. Unwatched' = Unwatched
  BY DEF Unwatched
<1> QED
  BY <1>2, <1>3, <1>4 DEF Watched

LEMMA RecentPollTiers == ASSUME Disk, Tiers, PollRecent PROVE Tiers'
<1>1. PICK i \in 1..Len(recent) : Look(recent[i])
  BY DEF PollRecent
<1>2. UNCHANGED <<recent, scanOrder, scanIndex>>
  BY DEF PollRecent
<1>3. i \in DOMAIN recent /\ recent[i] \in Range(recent)
  BY <1>1, SequenceParts DEF Tiers
<1>4. recent[i] \in Watched
  BY <1>3 DEF Tiers, InOneTier
<1>5. Watched' = Watched /\ items' \in [Files -> States \cup {Unwatched}]
  BY <1>1, <1>4, LookKeepsWatched
<1> QED
  BY <1>2, <1>5 DEF Tiers, InOneTier

\* A path added to the recent ones, the oldest of which may leave.
LEMMA Added ==
    ASSUME Tiers, NEW f \in Files, f \notin Range(recent),
           recent' = Append(IF Len(recent) >= MaxRecent THEN Tail(recent) ELSE recent, f)
    PROVE  /\ recent' \in Seq(Files) /\ Len(recent') <= MaxRecent
           /\ Range(recent') \subseteq Range(recent) \cup {f} /\ IsInjective(recent')
<1>1. /\ recent \in Seq(Files) /\ DOMAIN recent = 1..Len(recent) /\ Len(recent) \in Nat
      /\ Len(recent) <= MaxRecent
      /\ \A i, j \in 1..Len(recent) : recent[i] = recent[j] => i = j
      /\ \A i \in 1..Len(recent) : recent[i] \in Range(recent)
  BY SequenceParts DEF Tiers, InOneTier, IsInjective
<1> DEFINE base == IF Len(recent) >= MaxRecent THEN Tail(recent) ELSE recent
<1>2. /\ base \in Seq(Files) /\ Len(base) \in Nat /\ Len(base) < MaxRecent
      /\ \A i \in 1..Len(base) : base[i] \in Range(recent)
      /\ \A i, j \in 1..Len(base) : base[i] = base[j] => i = j
  <2>1. CASE Len(recent) >= MaxRecent
    <3>1. base = Tail(recent)
      BY <2>1
    <3>2. recent # <<>> /\ Len(recent) = MaxRecent
      <4>0. Len(recent) \in Nat /\ Len(recent) <= MaxRecent
        BY <1>1
      <4>1. Len(recent) = MaxRecent /\ Len(recent) # 0
        BY <2>1, <4>0, RecentAssumption
      <4>2. Len(<<>>) = 0
        OBVIOUS
      <4> QED
        BY <4>1, <4>2, Zenon
    <3>3. /\ base \in Seq(Files) /\ Len(base) = Len(recent) - 1
          /\ \A i \in 1..Len(base) : base[i] = recent[i + 1] /\ i + 1 \in 1..Len(recent)
      BY <1>1, <3>1, <3>2, TailParts
    <3> HIDE DEF base
    <3>4. \A i, j \in 1..Len(base) : base[i] = base[j] => i = j
      <4> SUFFICES ASSUME NEW i \in 1..Len(base), NEW j \in 1..Len(base), base[i] = base[j]
                   PROVE  i = j
        OBVIOUS
      <4>1. i + 1 = j + 1
        BY <1>1, <3>3
      <4> QED
        BY <1>1, <3>3, <4>1
    <3> QED
      BY <1>1, <3>2, <3>3, <3>4, NumbersKnown
  <2>2. CASE ~(Len(recent) >= MaxRecent)
    BY <1>1, <2>2, NumbersKnown
  <2> QED
    BY <2>1, <2>2
<1>3. recent' = Append(base, f)
  OBVIOUS
<1> HIDE DEF base
<1>4. /\ recent' \in Seq(Files) /\ Len(recent') = Len(base) + 1
      /\ recent'[Len(base) + 1] = f
      /\ \A i \in 1..Len(base) : recent'[i] = base[i]
      /\ DOMAIN recent' = 1..(Len(base) + 1)
  <2>1. base \in Seq(Files) /\ f \in Files
    BY <1>2
  <2>2. /\ Append(base, f) \in Seq(Files) /\ Len(Append(base, f)) = Len(base) + 1
        /\ DOMAIN Append(base, f) = 1..(Len(base) + 1)
        /\ Append(base, f)[Len(base) + 1] = f
        /\ \A i \in 1..Len(base) : Append(base, f)[i] = base[i]
    BY <2>1, AppendParts
  <2> QED
    BY <1>3, <2>2, Zenon
<1>5. \A i \in 1..(Len(base) + 1) : i \in 1..Len(base) \/ i = Len(base) + 1
  BY <1>2
<1>6. Range(recent') \subseteq Range(recent) \cup {f}
  <2> SUFFICES ASSUME NEW i \in DOMAIN recent' PROVE recent'[i] \in Range(recent) \cup {f}
    BY DEF Range
  <2> QED
    BY <1>2, <1>4, <1>5
<1>7. IsInjective(recent')
  <2> SUFFICES ASSUME NEW i \in DOMAIN recent', NEW j \in DOMAIN recent', recent'[i] = recent'[j]
               PROVE  i = j
    BY DEF IsInjective
  <2> QED
    BY <1>2, <1>4, <1>5
<1> QED
  BY <1>2, <1>4, <1>6, <1>7, NumbersKnown

LEMMA SamplePollTiers == ASSUME Disk, Tiers, PollSample PROVE Tiers'
<1>1. PICK next \in Orders(Range(scanOrder)) : \E i \in 1..Len(Share(next)) :
        Look(Share(next)[i]) /\ Promoted(Share(next)[i])
  BY DEF PollSample
<1>2. PICK i \in 1..Len(Share(next)) : Look(Share(next)[i]) /\ Promoted(Share(next)[i])
  BY <1>1
<1> DEFINE f == Share(next)[i]
<1>3. f \in Range(scanOrder)
  BY <1>2, ShareOfRound
<1>4. Look(f) /\ Promoted(f)
  BY <1>2
<1> HIDE DEF f
<1>5. f \in Watched /\ f \in Files /\ f \notin Range(recent) /\ Range(recent) \subseteq Watched
  BY <1>3 DEF Tiers, InOneTier, Watched
<1>6. Watched' = Watched /\ items' \in [Files -> States \cup {Unwatched}]
  BY <1>4, <1>5, LookKeepsWatched
<1>7. /\ recent' \in Seq(Files) /\ Len(recent') <= MaxRecent
      /\ Range(recent') \subseteq Range(recent) \cup {f} /\ IsInjective(recent')
  BY <1>4, <1>5, Added DEF Promoted
<1>8. /\ scanOrder' \in Seq(Files) /\ scanIndex' \in 0..Len(scanOrder')
      /\ Range(scanOrder') = Watched \ Range(recent') /\ IsInjective(scanOrder')
  <2>1. Watched \subseteq Files /\ rebuildScanOrder(Watched, Range(recent'))
    BY <1>4 DEF Promoted, Watched
  <2> QED
    BY <2>1, Rebuilt
<1>9. Range(recent') \subseteq Watched
  BY <1>5, <1>7
<1>10. InOneTier'
  BY <1>6, <1>7, <1>8, <1>9 DEF InOneTier
<1> QED
  BY <1>6, <1>7, <1>8, <1>10 DEF Tiers

LEMMA QuietPollTiers == ASSUME Tiers, PollNothing PROVE Tiers'
<1>1. PICK next \in Orders(Range(scanOrder)) :
        IF scanIndex + itemsPerIter <= Len(scanOrder)
          THEN scanIndex' = scanIndex + itemsPerIter /\ UNCHANGED scanOrder
          ELSE scanIndex' = scanIndex + itemsPerIter - Len(scanOrder) /\ scanOrder' = next
  BY DEF PollNothing
<1>2. UNCHANGED <<items, recent>> /\ Watched' = Watched
  BY DEF PollNothing, Watched, Unwatched
<1>3. /\ itemsPerIter \in 0..Len(scanOrder)
      /\ next \in Seq(Files) /\ Len(next) = Len(scanOrder)
      /\ Range(next) = Range(scanOrder) /\ IsInjective(next)
  BY ShareOfRound
<1>4. Len(scanOrder) \in Nat /\ scanIndex \in 0..Len(scanOrder)
  BY DEF Tiers
<1>5. CASE scanIndex + itemsPerIter <= Len(scanOrder)
  <2>1. scanIndex' = scanIndex + itemsPerIter /\ scanOrder' = scanOrder
    BY <1>1, <1>5
  <2>2. scanIndex' \in 0..Len(scanOrder')
    BY <1>3, <1>4, <1>5, <2>1
  <2> QED
    BY <1>2, <2>1, <2>2 DEF Tiers, InOneTier
<1>6. CASE ~(scanIndex + itemsPerIter <= Len(scanOrder))
  <2>1. scanIndex' = scanIndex + itemsPerIter - Len(scanOrder) /\ scanOrder' = next
    BY <1>1, <1>6
  <2>2. scanIndex' \in 0..Len(scanOrder')
    BY <1>3, <1>4, <1>6, <2>1
  <2> QED
    BY <1>2, <1>3, <2>1, <2>2 DEF Tiers, InOneTier
<1> QED
  BY <1>5, <1>6

LEMMA KeptRecent ==
    ASSUME Tiers, KeepRecent
    PROVE  /\ recent' \in Seq(Files) /\ Len(recent') <= MaxRecent
           /\ Range(recent') = Range(recent) \cap Collected /\ IsInjective(recent')
<1> DEFINE K == {i \in DOMAIN recent : Keep(recent[i])}
<1>1. PICK kept \in Orders(K) : recent' = [i \in DOMAIN kept |-> recent[kept[i]]]
  BY DEF KeepRecent
<1>2. /\ DOMAIN recent = 1..Len(recent) /\ Len(recent) \in Nat /\ Len(recent) <= MaxRecent
      /\ \A i \in 1..Len(recent) : recent[i] \in Files
      /\ IsInjective(recent)
  BY SequenceParts DEF Tiers, InOneTier
<1>3. IsFiniteSet(K) /\ Cardinality(K) \in Nat /\ Cardinality(K) <= Len(recent)
  <2>1. IsFiniteSet(1..Len(recent)) /\ Cardinality(1..Len(recent)) = Len(recent)
    BY <1>2, FS_Interval
  <2>2. K \subseteq 1..Len(recent)
    BY <1>2
  <2> HIDE DEF K
  <2> QED
    BY <2>1, <2>2, FS_Subset, FS_CardinalityType
<1>4. \A i \in K : i \in DOMAIN recent /\ recent[i] \in Files /\ recent[i] \in Collected
  BY <1>2 DEF Keep
<1>5. \A i \in DOMAIN recent : recent[i] \in Collected => i \in K
  BY DEF Keep
<1> HIDE DEF K
<1>6. /\ DOMAIN kept = 1..Len(kept) /\ Len(kept) = Cardinality(K) /\ Len(kept) \in Nat
      /\ Range(kept) = K /\ IsInjective(kept)
  BY <1>3, OrdersCover
<1>7. \A i \in DOMAIN kept : kept[i] \in K
  BY <1>6 DEF Range
<1>8. recent' \in [1..Len(kept) -> Files]
  BY <1>1, <1>4, <1>6, <1>7
<1>9. recent' \in Seq(Files) /\ Len(recent') = Len(kept)
  BY <1>6, <1>8
<1>10. Range(recent') \subseteq Range(recent) \cap Collected
  BY <1>1, <1>4, <1>7 DEF Range
<1>11. Range(recent) \cap Collected \subseteq Range(recent')
  <2> SUFFICES ASSUME NEW i \in DOMAIN recent, recent[i] \in Collected
               PROVE  recent[i] \in Range(recent')
    BY DEF Range
  <2>1. i \in Range(kept)
    BY <1>5, <1>6
  <2>2. PICK j \in DOMAIN kept : kept[j] = i
    BY <2>1 DEF Range
  <2> QED
    BY <1>1, <2>2 DEF Range
<1>12. IsInjective(recent')
  BY <1>1, <1>2, <1>4, <1>6, <1>7 DEF IsInjective
<1> QED
  BY <1>2, <1>3, <1>6, <1>9, <1>10, <1>11, <1>12, NumbersKnown

LEMMA SetPathsTiers == ASSUME Disk, Tiers, SetPaths PROVE Tiers'
<1>1. items' = [f \in Files |-> IF ~Keep(f) THEN Unwatched
                                ELSE IF f \in Watched THEN items[f] ELSE disk[f]]
  BY DEF SetPaths
<1>2. items' \in [Files -> States \cup {Unwatched}]
  BY <1>1 DEF Disk, Tiers
<1>3. \A f \in Files : items'[f] # Unwatched <=> f \in Collected
  BY <1>1, NumbersKnown DEF Keep, Watched, Disk
<1>4. Watched' = Collected
  BY <1>3 DEF Watched, Collected, Unwatched
<1>5. /\ recent' \in Seq(Files) /\ Len(recent') <= MaxRecent
      /\ Range(recent') = Range(recent) \cap Collected /\ IsInjective(recent')
  BY KeptRecent DEF SetPaths
<1>6. /\ scanOrder' \in Seq(Files) /\ scanIndex' \in 0..Len(scanOrder')
      /\ Range(scanOrder') = Collected \ Range(recent') /\ IsInjective(scanOrder')
  <2>1. Collected \subseteq Files /\ rebuildScanOrder(Collected, Range(recent'))
    BY DEF SetPaths, Collected
  <2> QED
    BY <2>1, Rebuilt
<1>7. InOneTier'
  BY <1>4, <1>5, <1>6 DEF InOneTier
<1> QED
  BY <1>2, <1>5, <1>6, <1>7 DEF Tiers

LEMMA TiersStay ==
    ASSUME Tiers, UNCHANGED pollVars
    PROVE  Tiers'
<1>1. UNCHANGED <<items, recent, scanOrder, scanIndex>>
  BY DEF pollVars
<1>2. Watched' = Watched
  BY <1>1 DEF Watched, Unwatched
<1> QED
  BY <1>1, <1>2 DEF Tiers, InOneTier

-----------------------------------------------------------------------------
(* The types of the whole, which the tiers are a part of.                   *)

LoopTypes == /\ Disk
             /\ writes \in 1..MaxWrites
             /\ pc \in Labels /\ child \in Childs /\ restartCh \in BOOLEAN
             /\ overlay \in Sources /\ built \in Sources
             /\ slipped \subseteq Files

LEMMA TiersInit == Init => LoopTypes /\ Tiers
<1> SUFFICES ASSUME Init PROVE LoopTypes /\ Tiers
  OBVIOUS
<1>1. {0, 1} \subseteq States
  BY NumbersKnown, WritesAssumption DEF States
<1>2. disk \in [Files -> States]
  BY <1>1 DEF Init
<1>3. overlay \in Sources /\ built \in Sources
  BY <1>2 DEF Init, Sources
<1>4. writes \in 1..MaxWrites /\ slipped \subseteq Files
  BY NumbersKnown, WritesAssumption DEF Init
<1>5. LoopTypes
  BY <1>2, <1>3, <1>4 DEF Init, LoopTypes, Disk, Labels, Childs
<1>6. items \in [Files -> States \cup {Unwatched}] /\ Watched = {}
  BY DEF Init, Watched
<1>7. /\ recent = <<>> /\ scanOrder = <<>> /\ scanIndex = 0 /\ Range(<<>>) = {}
      /\ IsInjective(<<>>) /\ Len(<<>>) = 0 /\ <<>> \in Seq(Files)
  BY DEF Init, Range, IsInjective
<1> QED
  BY <1>5, <1>6, <1>7, NumbersKnown DEF Tiers, InOneTier

LEMMA TiersStep == ASSUME LoopTypes, Tiers, [Next]_vars PROVE LoopTypes' /\ Tiers'
<1>0. Disk
  BY DEF LoopTypes
<1> USE DEF Labels, Childs
<1>1. CASE Overlay
  <2>1. [disk EXCEPT ![Polafile] = overlay[Polafile]] \in Sources
    BY PolafileAssumption DEF LoopTypes, Disk, Sources
  <2> QED
    BY <1>1, <2>1, TiersStay DEF Overlay, LoopTypes, Disk
<1>2. CASE StartChild
  BY <1>2, TiersStay DEF StartChild, LoopTypes, Disk
<1>3. CASE Watch
  BY <1>0, <1>3, SnapshotTiers DEF Watch, LoopTypes, Disk
<1>4. CASE Restart \/ Killed \/ Ended \/ Interrupted
  BY <1>4, TiersStay DEF Restart, Killed, Ended, Interrupted, LoopTypes, Disk
<1>5. CASE Compile \/ Crash
  BY <1>5, TiersStay DEF Compile, Crash, LoopTypes, Disk, Sources
<1>6. CASE Write
  <2>1. PICK f \in Files, new \in {Missing, writes + 1} :
          /\ writes < MaxWrites
          /\ disk' = [disk EXCEPT ![f] = new]
          /\ writes' = writes + 1
          /\ slipped' = IF Slips(f, new) THEN slipped \cup {f} ELSE slipped
          /\ UNCHANGED <<pollVars, serveVars>>
    BY <1>6 DEF Write
  <2>2. writes \in 1..MaxWrites
    BY DEF LoopTypes
  <2>3. new \in States /\ writes' \in 1..MaxWrites
    BY <2>1, <2>2, NumbersKnown DEF States, Missing
  <2>4. disk' \in [Files -> States] /\ slipped' \subseteq Files
    BY <2>1, <2>3 DEF LoopTypes, Disk
  <2> QED
    BY <2>1, <2>3, <2>4, TiersStay DEF LoopTypes, Disk, serveVars
<1>7. CASE PollChange
  <2>1. Tiers'
    BY <1>0, <1>7, RecentPollTiers, SamplePollTiers DEF PollChange, PollFinds
  <2> QED
    BY <1>7, <2>1 DEF PollChange, LoopTypes, Disk
<1>8. CASE PollQuiet
  BY <1>8, QuietPollTiers DEF PollQuiet, LoopTypes, Disk, serveVars
<1>9. CASE RescanChange
  BY <1>0, <1>9, SetPathsTiers DEF RescanChange, RescanFinds, LoopTypes, Disk
<1>10. CASE RescanQuiet
  <2>1. Tiers'
    BY <1>0, <1>10, SetPathsTiers DEF RescanQuiet, RescanForgets
  <2> QED
    BY <1>10, <2>1 DEF RescanQuiet, LoopTypes, Disk, serveVars, Watched
<1>11. CASE UNCHANGED vars
  BY <1>11, TiersStay DEF vars, serveVars, LoopTypes, Disk
<1> QED
  BY <1>1, <1>2, <1>3, <1>4, <1>5, <1>6, <1>7, <1>8, <1>9, <1>10, <1>11
     DEF Next, Loop, Poll, Rescan

-----------------------------------------------------------------------------
\* Every variable has its type: the bound on the recent paths and the index
\* of the round are the Poller's (promoteToRecent, poll).
THEOREM TypeCorrect == Spec => []TypeOK
<1>1. LoopTypes /\ Tiers => TypeOK
  BY DEF LoopTypes, Tiers, TypeOK, PollerTypeOK, Disk
<1> QED
  BY <1>1, TiersInit, TiersStep, PTL DEF Spec

\* Every watched path is in one tier, and once: what promoteToRecent evicts and
\* what SetPaths keeps is looked at again, and no tick reports a path twice.
THEOREM OneTierEach == Spec => []InOneTier
<1>1. LoopTypes /\ Tiers => InOneTier
  BY DEF Tiers
<1> QED
  BY <1>1, TiersInit, TiersStep, PTL DEF Spec
=============================================================================
