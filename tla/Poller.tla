------------------------------- MODULE Poller -------------------------------
(***************************************************************************)
(* watcher: finds out by polling which files changed.  A few files that    *)
(* changed lately are looked at every tick, the others a share per tick in *)
(* shuffled rounds; a slower ticker collects the paths anew.  The actions  *)
(* here end in a tick's verdict; what onChange does is its user's.         *)
(*                                                                         *)
(* A file on disk is the number of its last write, Missing if there is     *)
(* none: two writes differ in size, time or content (checkPath).           *)
(***************************************************************************)
EXTENDS Naturals, Sequences, FiniteSets, Functions

CONSTANTS Files,
          MaxRecent,    \* maxRecentItems, 16 in the code
          MinItems,     \* minItemsPerIter, 64
          Intervals,    \* maxIntervalsBeforeUpdate, 20
          MaxWrites     \* bound: writes to the disk

ASSUME FilesAssumption == IsFiniteSet(Files)
ASSUME RecentAssumption == MaxRecent \in Nat \ {0}
ASSUME ItemsAssumption == MinItems \in Nat \ {0} /\ Intervals \in Nat \ {0}
ASSUME WritesAssumption == MaxWrites \in Nat \ {0}

VARIABLES disk,        \* what every file holds
          items,       \* its state when it was last looked at, if it is watched
          recent,      \* recentPaths
          scanOrder,   \* the other watched paths, shuffled
          scanIndex

pollVars == <<items, recent, scanOrder, scanIndex>>

Missing == 0
Unwatched == MaxWrites + 1
States == 0..MaxWrites

Least(a, b) == IF a < b THEN a ELSE b

Watched == {f \in Files : items[f] # Unwatched}
Collected == {f \in Files : disk[f] # Missing}

\* The orders a shuffle of the paths S may leave.
Orders(S) == {q \in [1..Cardinality(S) -> S] : IsInjective(q)}

\* rebuildScanOrder
rebuildScanOrder(watched, lately) == /\ scanOrder' \in Orders(watched \ lately)
                                     /\ scanIndex' = 0

\* New and the first SetPaths.
Snapshot == /\ items' = [f \in Files |-> IF f \in Collected THEN disk[f] ELSE Unwatched]
            /\ recent' = <<>>
            /\ rebuildScanOrder(Collected, {})

-----------------------------------------------------------------------------
(* poll                                                                    *)

Changed(f) == items[f] # disk[f]
Look(f) == items' = [items EXCEPT ![f] = disk[f]]

itemsPerIter == LET total == Len(scanOrder)
                    share == (total + Intervals - 1) \div Intervals
                IN  Least(IF share < MinItems THEN MinItems ELSE share, total)

\* A recent path changed: the first of them is reported.
PollRecent == \E i \in 1..Len(recent) :
                /\ Changed(recent[i])
                /\ \A j \in 1..(i - 1) : ~Changed(recent[j])
                /\ Look(recent[i])
                /\ UNCHANGED <<recent, scanOrder, scanIndex>>

\* The paths a tick looks at when next is the round that follows this one.
Share(next) == LET left == Least(itemsPerIter, Len(scanOrder) - scanIndex)
               IN  SubSeq(scanOrder, scanIndex + 1, scanIndex + left)
                     \o SubSeq(next, 1, itemsPerIter - left)

\* Mutant of Promoted: recentSet keeps the path that was evicted.
PromotedKeepingSet(f) ==
    /\ recent' = Append(IF Len(recent) >= MaxRecent THEN Tail(recent) ELSE recent, f)
    /\ rebuildScanOrder(Watched, Range(recent) \cup {f})

\* promoteToRecent: the oldest recent path goes back to the others.
Promoted(f) == /\ recent' = Append(IF Len(recent) >= MaxRecent THEN Tail(recent) ELSE recent, f)
               /\ rebuildScanOrder(Watched, Range(recent'))

PollSample == \E next \in Orders(Range(scanOrder)) : \E i \in 1..Len(Share(next)) :
                LET f == Share(next)[i] IN
                  /\ \A g \in Range(recent) : ~Changed(g)
                  /\ Changed(f)
                  /\ \A j \in 1..(i - 1) : ~Changed(Share(next)[j])
                  /\ Look(f)
                  /\ Promoted(f)

\* Mutant of PollNothing: every tick starts at the head of the round.
PollNothingStuck == /\ \A g \in Range(recent) : ~Changed(g)
                    /\ \A f \in Range(SubSeq(scanOrder, 1, itemsPerIter)) : ~Changed(f)
                    /\ scanIndex' = itemsPerIter
                    /\ UNCHANGED <<items, recent, scanOrder>>

PollNothing == \E next \in Orders(Range(scanOrder)) :
                 /\ \A g \in Range(recent) : ~Changed(g)
                 /\ \A f \in Range(Share(next)) : ~Changed(f)
                 /\ IF scanIndex + itemsPerIter <= Len(scanOrder)
                      THEN /\ scanIndex' = scanIndex + itemsPerIter
                           /\ UNCHANGED scanOrder
                      ELSE /\ scanIndex' = scanIndex + itemsPerIter - Len(scanOrder)
                           /\ scanOrder' = next
                 /\ UNCHANGED <<items, recent>>

PollFinds == PollRecent \/ PollSample

-----------------------------------------------------------------------------
(* rescan and SetPaths                                                     *)

Keep(f) == f \in Collected

\* The recent paths that are kept, in their order.
KeepRecent == \E kept \in Orders({i \in DOMAIN recent : Keep(recent[i])}) :
                /\ \A i, j \in DOMAIN kept : i < j => kept[i] < kept[j]
                /\ recent' = [i \in DOMAIN kept |-> recent[kept[i]]]

\* Mutant of SetPaths: every path is looked at anew.
SetPathsAfresh == /\ items' = [f \in Files |-> IF Keep(f) THEN disk[f] ELSE Unwatched]
                  /\ KeepRecent
                  /\ rebuildScanOrder(Collected, Range(recent'))

\* A watched path keeps its last state, a new one is looked at.
SetPaths == /\ items' = [f \in Files |-> IF ~Keep(f) THEN Unwatched
                                         ELSE IF f \in Watched THEN items[f] ELSE disk[f]]
            /\ KeepRecent
            /\ rebuildScanOrder(Collected, Range(recent'))

RescanFinds == ~(Collected \subseteq Watched) /\ SetPaths

\* Paths are gone: they are forgotten without a word.
RescanForgets == /\ Collected \subseteq Watched
                 /\ Cardinality(Collected) # Cardinality(Watched)
                 /\ SetPaths

-----------------------------------------------------------------------------
PollerTypeOK == /\ disk \in [Files -> States]
                /\ items \in [Files -> States \cup {Unwatched}]
                /\ recent \in Seq(Files) /\ Len(recent) <= MaxRecent
                /\ scanOrder \in Seq(Files)
                /\ scanIndex \in 0..Len(scanOrder)

\* Every watched path is in one of the tiers, and once: no tick passes it over for
\* good or reports it twice (promoteToRecent's eviction, SetPaths, the rounds of poll).
InOneTier == /\ Range(recent) \cup Range(scanOrder) = Watched
             /\ Range(recent) \cap Range(scanOrder) = {}
             /\ IsInjective(recent) /\ IsInjective(scanOrder)
=============================================================================
