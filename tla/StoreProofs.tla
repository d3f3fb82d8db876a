----------------------------- MODULE StoreProofs -----------------------------
(***************************************************************************)
(* Proofs about the two stores that are written without a lock across the  *)
(* steps of a writer: the cache of rendered pages (RenderCache), for any   *)
(* requests, mutations, pages, paths, expiry and capacity; and the         *)
(* database that is migrated (Migrator), for any processes, files and      *)
(* statements, any crashes and refusals.                                   *)
(***************************************************************************)
EXTENDS RenderCache, Migrator, FiniteSetTheorems, WellFoundedInduction, TLAPS

-----------------------------------------------------------------------------
(* RenderCache: the cache keeps to its capacity, and an invalidation leaves *)
(* nothing older behind but what a render in flight puts there.             *)

\* The type invariant, split into what holds of each variable by itself, the
\* capacity, and that a request beyond its look-up has a page.
Types == /\ data \in Changes
         /\ entry \in [Pages -> Entries \cup {None}]
         /\ rpc \in [Readers -> {"out", "remove", "render", "set"}]
         /\ rpage \in [Readers -> Pages \cup {None}]
         /\ rsaw \in [Readers -> Changes]
         /\ wpc \in [Writers -> {"out", "made"}]
         /\ wtarget \in [Writers -> Targets \cup {None}]
         /\ wmade \in [Writers -> Changes]
         /\ floor \in [Pages -> Changes]
         /\ racing \in SUBSET Pages

Capacity == Cardinality(Cached) <= Size
Asked == \A c \in Readers : rpc[c] # "out" => rpage[c] \in Pages

TypeInv == Types /\ Capacity /\ Asked

\* A smaller set of pages fits too.
LEMMA SmallerFits ==
  ASSUME NEW S, NEW T, IsFiniteSet(S), T \subseteq S, Cardinality(S) <= Size
  PROVE  Cardinality(T) <= Size
<1>1. IsFiniteSet(T) /\ Cardinality(T) <= Cardinality(S)
  BY FS_Subset
<1> QED
  BY <1>1, FS_CardinalityType, SizeAssumption

\* Replacing an element by another one keeps the size of a finite set.
LEMMA Replaced ==
  ASSUME NEW S, NEW p, NEW q \in S, IsFiniteSet(S), Cardinality(S) <= Size, p # q
  PROVE  Cardinality((S \cup {p}) \ {q}) <= Size
<1> DEFINE R == S \ {q}
<1>1. IsFiniteSet(R) /\ Cardinality(R) = Cardinality(S) - 1
  BY FS_RemoveElement
<1>2. IsFiniteSet(R \cup {p}) /\ Cardinality(R \cup {p}) <= Cardinality(R) + 1
  <2>1. CASE p \in R
    <3>1. R \cup {p} = R
      BY <2>1
    <3> HIDE DEF R
    <3>2. Cardinality(R \cup {p}) = Cardinality(R) /\ IsFiniteSet(R \cup {p})
      BY <3>1, <1>1, Zenon
    <3>3. Cardinality(R) \in Nat
      BY <1>1, FS_CardinalityType
    <3> QED
      BY <3>2, <3>3
  <2>2. CASE p \notin R
    <3> HIDE DEF R
    <3>1. Cardinality(R \cup {p}) = Cardinality(R) + 1 /\ IsFiniteSet(R \cup {p})
      BY <1>1, <2>2, FS_AddElement, Zenon
    <3> QED
      BY <3>1, <1>1, FS_CardinalityType
  <2> QED
    BY <2>1, <2>2
<1>3. (S \cup {p}) \ {q} = R \cup {p}
  OBVIOUS
<1>4. Cardinality(S) \in Nat /\ Cardinality(R) \in Nat /\ Cardinality(R \cup {p}) \in Nat
  BY <1>1, <1>2, FS_CardinalityType
<1>5. Cardinality(R \cup {p}) <= Size
  <2> HIDE DEF R
  <2> QED
    BY <1>1, <1>2, <1>4, SizeAssumption
<1> QED
  BY <1>3, <1>5, Zenon

\* The cached pages are finitely many.
LEMMA CachedFinite == IsFiniteSet(Cached)
BY PagesAssumption, FS_Subset DEF Cached

\* What a step that caches nothing new does to the capacity.
LEMMA CapacityKept ==
  ASSUME Capacity, Cached' \subseteq Cached
  PROVE  Capacity'
BY CachedFinite, SmallerFits DEF Capacity

\* Adding an entry keeps the types and the capacity.
LEMMA AddFits ==
  ASSUME Types, Capacity, NEW p \in Pages, NEW e \in Entries, Add(p, e)
  PROVE  entry' \in [Pages -> Entries \cup {None}] /\ Capacity'
<1>1. e # None
  BY NoneAssumption
<1>2. CASE /\ Cardinality(Cached \cup {p}) <= Size
           /\ entry' = [entry EXCEPT ![p] = e]
  <2>1. Cached' = Cached \cup {p}
    BY <1>1, <1>2 DEF Cached, Types
  <2>2. Cardinality(Cached') <= Size
    BY <2>1, <1>2, Zenon
  <2>3. entry' \in [Pages -> Entries \cup {None}]
    BY <1>2 DEF Types
  <2> QED
    BY <2>2, <2>3 DEF Capacity
<1>3. ASSUME NEW q \in Cached \ {p}, entry' = [entry EXCEPT ![p] = e, ![q] = None]
      PROVE  entry' \in [Pages -> Entries \cup {None}] /\ Capacity'
  <2>1. Cached' = (Cached \cup {p}) \ {q}
    BY <1>1, <1>3 DEF Cached, Types
  <2>2. Cardinality((Cached \cup {p}) \ {q}) <= Size
    BY <1>3, CachedFinite, Replaced DEF Capacity
  <2>3. entry' \in [Pages -> Entries \cup {None}]
    BY <1>3 DEF Types, Cached
  <2> QED
    BY <2>1, <2>2, <2>3 DEF Capacity
<1> QED
  BY <1>2, <1>3 DEF Add

\* The initial state is well typed.
LEMMA InitTyped == Init => TypeInv
<1> SUFFICES ASSUME Init PROVE TypeInv
  OBVIOUS
<1>1. Types
  BY MaxChangesAssumption DEF Init, Types, Changes
<1>2. Cached = {}
  BY DEF Init, Cached
<1>3. Capacity
  BY <1>2, FS_EmptySet, SizeAssumption DEF Capacity
<1>4. Asked
  BY DEF Init, Asked
<1> QED
  BY <1>1, <1>3, <1>4 DEF TypeInv

\* Every step keeps the types.
LEMMA StepTyped == TypeInv /\ [Next]_vars => TypeInv'
<1> SUFFICES ASSUME TypeInv, [Next]_vars PROVE TypeInv'
  OBVIOUS
<1> USE DEF TypeInv
<1>1. ASSUME NEW c \in Readers, NEW p \in Pages, Hit(c, p) PROVE TypeInv'
  <2>1. Types' /\ Asked'
    BY <1>1 DEF Hit, ReadStep, Types, Asked, writeVars, history
  <2>2. Capacity'
    BY <1>1 DEF Hit, Capacity, Cached
  <2> QED
    BY <2>1, <2>2
<1>2. ASSUME NEW c \in Readers, NEW p \in Pages, Miss(c, p) \/ Expired(c, p) PROVE TypeInv'
  <2>1. Types' /\ Asked'
    BY <1>2 DEF Miss, Expired, ReadStep, Types, Asked, writeVars, history
  <2>2. Capacity'
    BY <1>2 DEF Miss, Expired, Capacity, Cached
  <2> QED
    BY <2>1, <2>2
<1>3. ASSUME NEW c \in Readers, Remove(c) PROVE TypeInv'
  <2>1. Types' /\ Asked'
    BY <1>3 DEF Remove, Evict, ReadStep, Types, Asked, writeVars, history
  <2>2. Capacity'
    BY <1>3, CapacityKept DEF Remove, Evict, Cached
  <2> QED
    BY <2>1, <2>2
<1>4. ASSUME NEW c \in Readers, Render(c) PROVE TypeInv'
  <2>1. Types' /\ Asked'
    BY <1>4 DEF Render, ReadStep, Types, Asked, writeVars, history
  <2>2. Capacity'
    BY <1>4 DEF Render, Capacity, Cached
  <2> QED
    BY <2>1, <2>2
<1>5. ASSUME NEW c \in Readers, Fill(c) PROVE TypeInv'
  <2>1. rpage[c] \in Pages /\ [val |-> rsaw[c], left |-> Revalidate] \in Entries
    BY <1>5, RevalidateAssumption DEF Fill, ReadStep, Types, Asked, Entries
  <2>2. CASE Add(rpage[c], [val |-> rsaw[c], left |-> Revalidate])
    <3>1. entry' \in [Pages -> Entries \cup {None}] /\ Capacity'
      BY <2>1, <2>2, AddFits
    <3>2. Types' /\ Asked'
      BY <1>5, <3>1, MaxChangesAssumption
      DEF Fill, ReadStep, Types, Asked, Changes, writeVars, history
    <3> QED
      BY <3>1, <3>2
  <2>3. CASE UNCHANGED entry
    <3>1. Types' /\ Asked'
      BY <1>5, <2>3, MaxChangesAssumption
      DEF Fill, ReadStep, Types, Asked, Changes, writeVars, history
    <3>2. Capacity'
      BY <2>3 DEF Capacity, Cached
    <3> QED
      BY <3>1, <3>2
  <2> QED
    BY <1>5, <2>2, <2>3 DEF Fill
<1>6. ASSUME NEW w \in Writers, Mutate(w) PROVE TypeInv'
  <2>1. data + 1 \in Changes
    BY <1>6, MaxChangesAssumption DEF Mutate, Types, Changes
  <2>2. Types' /\ Asked'
    BY <1>6, <2>1 DEF Mutate, Types, Asked, readVars, history
  <2>3. Capacity'
    BY <1>6 DEF Mutate, Capacity, Cached
  <2> QED
    BY <2>2, <2>3
<1>7. ASSUME NEW w \in Writers, Invalidate(w) PROVE TypeInv'
  <2>1. Types' /\ Asked'
    BY <1>7, MaxChangesAssumption
    DEF Invalidate, Return, Evict, Rendered, Types, Asked, Changes, readVars
  <2>2. Capacity'
    BY <1>7, CapacityKept DEF Invalidate, Evict, Cached
  <2> QED
    BY <2>1, <2>2
<1>8. ASSUME NEW w \in Writers, KeepCache(w) PROVE TypeInv'
  <2>1. Types' /\ Asked'
    BY <1>8, MaxChangesAssumption
    DEF KeepCache, Return, Types, Asked, Changes, readVars, history
  <2>2. Capacity'
    BY <1>8 DEF KeepCache, Capacity, Cached
  <2> QED
    BY <2>1, <2>2
<1>9. ASSUME Tick PROVE TypeInv'
  <2>1. \A p \in Cached : Older(entry[p]) \in Entries
    BY RevalidateAssumption DEF Older, Entries, Cached, Types
  <2>2. Types' /\ Asked'
    BY <1>9, <2>1 DEF Tick, Types, Asked, readVars, writeVars, history
  <2>3. Capacity'
    BY <1>9, CapacityKept DEF Tick, Cached
  <2> QED
    BY <2>2, <2>3
<1>10. ASSUME UNCHANGED vars PROVE TypeInv'
  <2>1. Types' /\ Asked'
    BY <1>10 DEF vars, Types, Asked, readVars, writeVars, history
  <2>2. Capacity'
    BY <1>10 DEF vars, Capacity, Cached
  <2> QED
    BY <2>1, <2>2
<1> QED
  BY <1>1, <1>2, <1>3, <1>4, <1>5, <1>6, <1>7, <1>8, <1>9, <1>10
  DEF Next, Read, Serve, Write

LEMMA Typed == Spec => []TypeInv
BY InitTyped, StepTyped, PTL DEF Spec

\* Every variable keeps its type and the cache (lru.Cache of cache/memory) never
\* holds more than Size entries.
THEOREM TypeCorrect == Spec => []TypeOK
<1>1. TypeInv => TypeOK
  BY DEF TypeInv, Types, Capacity, TypeOK
<1> QED
  BY <1>1, Typed, PTL

-----------------------------------------------------------------------------
(* What an invalidation leaves behind.  A render that is about to fill the *)
(* cache counts like an entry: what it saw is not older than the last      *)
(* invalidation of its page, or the page is among the racing ones.         *)

RendersClean ==
  \A c \in Readers : rpc[c] = "set" /\ rpage[c] \notin racing => rsaw[c] >= floor[rpage[c]]

\* An invalidation is for a change that was made.
MadeBefore == /\ \A p \in Pages : floor[p] <= data
              /\ \A w \in Writers : wmade[w] <= data

CleanInv == QuietInvalidationIsClean /\ RendersClean /\ MadeBefore

LEMMA InitClean == Init => CleanInv
<1> SUFFICES ASSUME Init PROVE CleanInv
  OBVIOUS
<1>1. QuietInvalidationIsClean
  BY DEF Init, QuietInvalidationIsClean, Cached
<1>2. RendersClean /\ MadeBefore
  BY DEF Init, RendersClean, MadeBefore
<1> QED
  BY <1>1, <1>2 DEF CleanInv

\* Every step keeps the cache clean.
LEMMA StepClean == TypeInv /\ CleanInv /\ [Next]_vars => CleanInv'
<1> SUFFICES ASSUME TypeInv, CleanInv, [Next]_vars PROVE CleanInv'
  OBVIOUS
<1>0. Types /\ Asked
  BY DEF TypeInv
<1> USE DEF CleanInv
<1>1. ASSUME NEW c \in Readers, NEW p \in Pages, Hit(c, p) PROVE CleanInv'
  <2>1. QuietInvalidationIsClean'
    BY <1>1 DEF Hit, ReadStep, QuietInvalidationIsClean, Cached, history
  <2>2. RendersClean' /\ MadeBefore'
    BY <1>0, <1>1 DEF Hit, ReadStep, RendersClean, MadeBefore, Types, writeVars, history
  <2> QED
    BY <2>1, <2>2
<1>2. ASSUME NEW c \in Readers, NEW p \in Pages, Miss(c, p) \/ Expired(c, p) PROVE CleanInv'
  <2>1. QuietInvalidationIsClean'
    BY <1>2 DEF Miss, Expired, ReadStep, QuietInvalidationIsClean, Cached, history
  <2>2. RendersClean' /\ MadeBefore'
    BY <1>0, <1>2
    DEF Miss, Expired, ReadStep, RendersClean, MadeBefore, Types, writeVars, history
  <2> QED
    BY <2>1, <2>2
<1>3. ASSUME NEW c \in Readers, Remove(c) PROVE CleanInv'
  <2>1. QuietInvalidationIsClean'
    BY <1>0, <1>3
    DEF Remove, Evict, ReadStep, QuietInvalidationIsClean, Cached, Types, history
  <2>2. RendersClean' /\ MadeBefore'
    BY <1>0, <1>3 DEF Remove, ReadStep, RendersClean, MadeBefore, Types, writeVars, history
  <2> QED
    BY <2>1, <2>2
<1>4. ASSUME NEW c \in Readers, Render(c) PROVE CleanInv'
  <2>1. QuietInvalidationIsClean'
    BY <1>4 DEF Render, ReadStep, QuietInvalidationIsClean, Cached, history
  <2>2. MadeBefore'
    BY <1>4 DEF Render, ReadStep, MadeBefore, writeVars, history
  <2>3. rpage[c] \in Pages
    BY <1>0, <1>4 DEF Render, ReadStep, Asked
  <2>4. data >= floor[rpage[c]]
    BY <1>0, <2>3 DEF MadeBefore, Types, Changes
  <2>5. RendersClean'
    BY <1>0, <1>4, <2>4 DEF Render, ReadStep, RendersClean, Types, history
  <2> QED
    BY <2>1, <2>2, <2>5
<1>5. ASSUME NEW c \in Readers, Fill(c) PROVE CleanInv'
  <2>1. rpc[c] = "set" /\ rpage[c] \in Pages /\ UNCHANGED history
    BY <1>0, <1>5 DEF Fill, ReadStep, Asked
  <2>2. RendersClean' /\ MadeBefore'
    BY <1>0, <1>5 DEF Fill, ReadStep, RendersClean, MadeBefore, Types, writeVars, history
  <2>3. CASE UNCHANGED entry
    <3>1. QuietInvalidationIsClean'
      BY <2>1, <2>3 DEF QuietInvalidationIsClean, Cached, history
    <3> QED
      BY <2>2, <3>1
  <2>4. CASE Add(rpage[c], [val |-> rsaw[c], left |-> Revalidate])
    <3>1. ASSUME NEW p \in Pages, entry'[p] # None, p # rpage[c]
          PROVE  entry'[p] = entry[p]
      BY <1>0, <2>1, <2>4, <3>1 DEF Add, Types, Cached
    <3>2. entry'[rpage[c]] = [val |-> rsaw[c], left |-> Revalidate]
      BY <1>0, <2>1, <2>4 DEF Add, Types, Cached
    <3>3. rpage[c] \notin racing => rsaw[c] >= floor[rpage[c]]
      BY <2>1 DEF RendersClean
    <3>4. QuietInvalidationIsClean'
      BY <2>1, <3>1, <3>2, <3>3 DEF QuietInvalidationIsClean, Cached, history
    <3> QED
      BY <2>2, <3>4
  <2> QED
    BY <1>5, <2>3, <2>4 DEF Fill
<1>6. ASSUME NEW w \in Writers, Mutate(w) PROVE CleanInv'
  <2>1. QuietInvalidationIsClean' /\ RendersClean'
    BY <1>6 DEF Mutate, QuietInvalidationIsClean, RendersClean, Cached, readVars, history
  <2>2. MadeBefore'
    BY <1>0, <1>6 DEF Mutate, MadeBefore, Types, Changes, history
  <2> QED
    BY <2>1, <2>2
<1>7. ASSUME NEW w \in Writers, Invalidate(w) PROVE CleanInv'
  <2> DEFINE pages == Affected(wtarget[w])
  <2>1. /\ entry' = [p \in Pages |-> IF p \in pages THEN None ELSE entry[p]]
        /\ floor' = [p \in Pages |-> IF p \in pages /\ wmade[w] > floor[p]
                                       THEN wmade[w] ELSE floor[p]]
        /\ racing' = (racing \ pages) \cup (Rendered \cap pages)
        /\ UNCHANGED <<data, readVars>>
        /\ wmade' = [wmade EXCEPT ![w] = 0]
    BY <1>7 DEF Invalidate, Evict, Affected, Return
  <2> HIDE DEF pages
  <2>2. QuietInvalidationIsClean'
    BY <1>0, <2>1 DEF QuietInvalidationIsClean, Cached, Types
  <2>3. RendersClean'
    <3>1. SUFFICES ASSUME NEW c \in Readers, rpc[c] = "set", rpage[c] \notin racing'
                   PROVE  rsaw[c] >= floor'[rpage[c]]
      BY <2>1 DEF RendersClean, readVars
    <3>2. rpage[c] \in Pages /\ rpage[c] \in Rendered
      BY <1>0, <3>1 DEF Asked, Rendered
    <3>3. rpage[c] \notin pages /\ rpage[c] \notin racing
      BY <2>1, <3>1, <3>2
    <3>4. floor'[rpage[c]] = floor[rpage[c]]
      BY <2>1, <3>2, <3>3
    <3> QED
      BY <3>1, <3>3, <3>4 DEF RendersClean
  <2>4. MadeBefore'
    BY <1>0, <2>1 DEF MadeBefore, Types, Changes
  <2> QED
    BY <2>2, <2>3, <2>4
<1>8. ASSUME NEW w \in Writers, KeepCache(w) PROVE CleanInv'
  <2>1. QuietInvalidationIsClean' /\ RendersClean'
    BY <1>8 DEF KeepCache, QuietInvalidationIsClean, RendersClean, Cached, readVars, history
  <2>2. MadeBefore'
    BY <1>0, <1>8 DEF KeepCache, Return, MadeBefore, Types, Changes, history
  <2> QED
    BY <2>1, <2>2
<1>9. ASSUME Tick PROVE CleanInv'
  <2>1. \A p \in Cached : Older(entry[p]).val = entry[p].val
    BY <1>0 DEF Older, Types, Cached, Entries
  <2>2. \A p \in Pages : p \in Cached' => p \in Cached /\ entry'[p] = Older(entry[p])
    BY <1>9 DEF Tick, Cached
  <2>3. QuietInvalidationIsClean'
    BY <1>9, <2>1, <2>2 DEF Tick, QuietInvalidationIsClean, Cached, history
  <2>4. RendersClean' /\ MadeBefore'
    BY <1>9 DEF Tick, RendersClean, MadeBefore, readVars, writeVars, history
  <2> QED
    BY <2>3, <2>4
<1>10. ASSUME UNCHANGED vars PROVE CleanInv'
  <2>1. QuietInvalidationIsClean'
    BY <1>10 DEF vars, QuietInvalidationIsClean, Cached, history
  <2>2. RendersClean' /\ MadeBefore'
    BY <1>10 DEF vars, RendersClean, MadeBefore, readVars, writeVars, history
  <2> QED
    BY <2>1, <2>2
<1> QED
  BY <1>1, <1>2, <1>3, <1>4, <1>5, <1>6, <1>7, <1>8, <1>9, <1>10
  DEF Next, Read, Serve, Write

\* After an invalidation (mountApp and newServerActionHandler of
\* internal/webmount.go) nothing older is cached of the pages it covers, but what
\* a render that was in flight may put there.
THEOREM InvalidationsClean == Spec => []QuietInvalidationIsClean
<1>1. Init => CleanInv
  BY InitClean
<1>2. TypeInv /\ CleanInv /\ [Next]_vars => CleanInv'
  BY StepClean
<1>3. CleanInv => QuietInvalidationIsClean
  BY DEF CleanInv
<1> QED
  BY <1>1, <1>2, <1>3, Typed, PTL DEF Spec

-----------------------------------------------------------------------------
(* Migrator.                                                               *)

-----------------------------------------------------------------------------
(* Files and sets of files.                                                *)

LEMMA FilesFinite == /\ Files \subseteq Nat \ {0} /\ IsFiniteSet(Files)
                     /\ NFiles \in Files /\ 1 \in Files
                     /\ \A f \in Files : Total[f] \in Nat \ {0}
<1>1. NFiles \in Nat \ {0} /\ Total \in [Files -> Nat \ {0}]
  BY FilesAssumption
<1>2. IsFiniteSet(1..NFiles)
  BY <1>1, FS_Interval
<1> QED
  BY <1>1, <1>2 DEF Files

LEMMA StatementsOf == \A f \in Files : \A i : <<f, i>> \in Stmts \cup {Ledger} <=> i \in 1..Total[f]
<1> SUFFICES ASSUME NEW f \in Files, NEW i PROVE <<f, i>> \in Stmts \cup {Ledger} <=> i \in 1..Total[f]
  OBVIOUS
<1>1. <<f, i>> # Ledger
  BY FilesFinite DEF Ledger
<1>2. <<f, i>> \in Stmts <=> i \in 1..Total[f]
  BY DEF Stmts
<1> QED
  BY <1>1, <1>2

\* A set of natural numbers has a least element.
LEMMA LeastNatural == ASSUME NEW S, S \subseteq Nat, S # {}
                      PROVE  \E x \in S : \A y \in S : x <= y
<1>1. PICK x \in S : \A y \in S : ~ (<<y, x>> \in OpToRel(<, Nat))
  BY NatLessThanWellFounded, WFMin, Zenon
<1>2. \A y \in S : ~ (y < x)
  BY <1>1 DEF OpToRel
<1> QED
  BY <1>2

LEMMA LeastFile == ASSUME NEW S, S \subseteq Files, S # {}
                   PROVE  Least(S) \in S /\ \A y \in S : Least(S) <= y
<1>1. \E x \in S : \A y \in S : x <= y
  BY FilesFinite, LeastNatural, Zenon
<1> QED
  BY <1>1 DEF Least

LEMMA GreatestFile == ASSUME NEW S, S \subseteq Files, S # {}
                      PROVE  Greatest(S) \in S /\ \A y \in S : y <= Greatest(S)
<1> DEFINE T == {NFiles - x : x \in S}
<1>1. NFiles \in Nat /\ \A x \in S : x \in Nat /\ x <= NFiles
  BY FilesAssumption DEF Files
<1>2. T \subseteq Nat /\ T # {}
  BY <1>1
<1>3. PICK t \in T : \A u \in T : t <= u
  BY <1>2, LeastNatural
<1>4. PICK x \in S : t = NFiles - x
  OBVIOUS
<1>5. \A y \in S : y <= x
  BY <1>1, <1>3, <1>4
<1> QED
  BY <1>5 DEF Greatest

\* The first n of some files: no file of theirs is left out before another.
LEMMA FirstFiles ==
    ASSUME NEW S, S \subseteq Files, NEW n \in Nat
    PROVE  /\ FirstOf(S, n) \subseteq S
           /\ \A f \in FirstOf(S, n), g \in S : g <= f => g \in FirstOf(S, n)
           /\ S # {} /\ n >= 1 => Least(S) \in FirstOf(S, n)
           /\ n >= Cardinality(S) => FirstOf(S, n) = S
<1> DEFINE Upto(f) == {g \in S : g <= f}
<1>1. IsFiniteSet(S) /\ S \subseteq Nat
  BY FilesFinite, FS_Subset
<1>2. \A f \in S : IsFiniteSet(Upto(f)) /\ Cardinality(Upto(f)) \in Nat
                   /\ Cardinality(Upto(f)) <= Cardinality(S)
  BY <1>1, FS_Subset, FS_CardinalityType
<1>3. ASSUME NEW f \in FirstOf(S, n), NEW g \in S, g <= f PROVE g \in FirstOf(S, n)
  <2>1. f \in S /\ Cardinality(Upto(f)) <= n
    BY DEF FirstOf
  <2>2. \A y \in S : y <= g => y <= f
    BY <1>1, <1>3, <2>1
  <2>5. Upto(g) \subseteq Upto(f)
    BY <2>2
  <2>3. Cardinality(Upto(g)) <= Cardinality(Upto(f))
    BY <1>2, <2>1, <2>5, FS_Subset
  <2>4. Cardinality(Upto(g)) <= n
    BY <1>2, <2>1, <2>3
  <2> QED
    BY <2>4 DEF FirstOf
<1>4. ASSUME S # {}, n >= 1 PROVE Least(S) \in FirstOf(S, n)
  <2>1. Least(S) \in S /\ \A y \in S : Least(S) <= y
    BY <1>4, LeastFile
  <2>4. ASSUME NEW y \in S, y <= Least(S) PROVE y = Least(S)
    <3>1. y \in Nat /\ Least(S) \in Nat /\ Least(S) <= y
      BY <1>1, <2>1
    <3> HIDE DEF Least
    <3> QED
      BY <2>4, <3>1
  <2>2. Upto(Least(S)) = {Least(S)}
    BY <1>1, <2>1, <2>4
  <2>3. Cardinality(Upto(Least(S))) = 1
    BY <2>2, FS_Singleton
  <2> QED
    BY <1>4, <2>1, <2>3 DEF FirstOf
<1>5. ASSUME n >= Cardinality(S) PROVE FirstOf(S, n) = S
  <2>1. Cardinality(S) \in Nat
    BY <1>1, FS_CardinalityType
  <2>2. \A f \in S : Cardinality(Upto(f)) <= n
    <3> HIDE DEF Upto
    <3> QED
      BY <1>2, <1>5, <2>1
  <2> QED
    BY <2>2 DEF FirstOf
<1> QED
  BY <1>3, <1>4, <1>5 DEF FirstOf

\* What is pending is everything from some file on: the last one with a row,
\* if that is partly applied, or the one after it.
LEMMA PendingOnwards ==
    ASSUME DOMAIN revs \subseteq Files, \A f \in DOMAIN revs : revs[f] \in 0..Total[f]
    PROVE  /\ PendingFiles \subseteq Files /\ PendingCount \in Nat
           /\ PendingFiles # {} => NFiles \in PendingFiles
           /\ \A f \in PendingFiles, g \in Files : f <= g => g \in PendingFiles
           /\ \A f \in PendingFiles, g \in DOMAIN revs : g <= f /\ (g = f => revs[g] < Total[g])
           /\ \A f \in Files \ PendingFiles :
                 \E h \in DOMAIN revs : f <= h /\ (f = h => revs[f] = Total[f])
<1> DEFINE last == Greatest(DOMAIN revs)
<1>0. \A f \in Files : f \in Nat /\ 1 <= f /\ f <= NFiles /\ Total[f] \in Nat
  BY FilesFinite, FilesAssumption DEF Files
<1>1. DOMAIN revs # {} => /\ last \in DOMAIN revs /\ last \in Nat
                          /\ \A y \in DOMAIN revs : y <= last
  BY <1>0, GreatestFile
<1>7. PendingFiles = IF DOMAIN revs = {} THEN Files
                     ELSE {f \in Files : f > last \/ (f = last /\ revs[f] < Total[f])}
  BY DEF PendingFiles
<1> HIDE DEF last
<1>2. /\ PendingFiles \subseteq Files
      /\ \A f \in PendingFiles, g \in Files : f <= g => g \in PendingFiles
  <2>1. CASE DOMAIN revs = {}
    BY <1>7, <2>1
  <2>2. CASE DOMAIN revs # {}
    <3>1. \A f \in Files : f \in PendingFiles <=> f > last \/ (f = last /\ revs[f] < Total[f])
      BY <1>7, <2>2
    <3>2. \A f \in Files, g \in Files : f <= g /\ f >= last => g > last \/ g = f
      BY <1>0, <1>1, <2>2
    <3>3. \A f \in Files : f > last \/ f = last => f >= last
      BY <1>0, <1>1, <2>2
    <3> QED
      BY <1>7, <2>2, <3>1, <3>2, <3>3
  <2> QED
    BY <2>1, <2>2
<1>3. PendingCount \in Nat
  BY <1>2, FilesFinite, FS_Subset, FS_CardinalityType DEF PendingCount
<1>4. PendingFiles # {} => NFiles \in PendingFiles
  BY <1>0, <1>2, FilesFinite
<1>5. \A f \in PendingFiles, g \in DOMAIN revs : g <= f /\ (g = f => revs[g] < Total[g])
  BY <1>0, <1>1, <1>7
<1>6. \A f \in Files \ PendingFiles :
         \E h \in DOMAIN revs : f <= h /\ (f = h => revs[f] = Total[f])
  <2> SUFFICES ASSUME NEW f \in Files, f \notin PendingFiles
               PROVE  last \in DOMAIN revs /\ f <= last /\ (f = last => revs[f] = Total[f])
    OBVIOUS
  <2>1. DOMAIN revs # {}
    BY <1>7
  <2>2. f <= last /\ (f = last => ~(revs[f] < Total[f]))
    BY <1>0, <1>1, <1>7, <2>1
  <2> QED
    BY <1>0, <1>1, <2>1, <2>2
<1> QED
  BY <1>2, <1>3, <1>4, <1>5, <1>6

-----------------------------------------------------------------------------
(* A step is one process's; the others stay where they are.                *)

Step(p) == \/ \E o \in Ops : \E n \in IF o \in {"to", "rollback"} THEN Files ELSE {1} : Start(p, o, n)
           \/ InitLedger(p) \/ CheckPending(p) \/ Plan(p)
           \/ Execute(p) \/ Rollback(p) \/ Reset(p) \/ Crash(p)

Others(p) == \A q \in Procs \ {p} : /\ pc'[q] = pc[q] /\ op'[q] = op[q] /\ arg'[q] = arg[q]
                                    /\ todo'[q] = todo[q] /\ row'[q] = row[q] /\ drops'[q] = drops[q]

Labels == Idle \cup {"init", "pending", "plan", "load", "mark", "statement",
                     "record", "store", "abandon", "read", "undo", "forget", "inspect", "drop"}

OnlyAt(p) == /\ pc' = [pc EXCEPT ![p] = pc'[p]] /\ op' = [op EXCEPT ![p] = op'[p]]
             /\ arg' = [arg EXCEPT ![p] = arg'[p]] /\ todo' = [todo EXCEPT ![p] = todo'[p]]
             /\ row' = [row EXCEPT ![p] = row'[p]] /\ drops' = [drops EXCEPT ![p] = drops'[p]]

LEMMA StepFrame ==
    ASSUME MigratorTypeOK, NEW p \in Procs, Step(p)
    PROVE  /\ OnlyAt(p) /\ pc'[p] \in Labels /\ op'[p] \in Ops
           /\ clash' \in BOOLEAN /\ overlap' \in BOOLEAN /\ bootsOnly' \in BOOLEAN
           /\ starts' \in Nat /\ faults' \in Nat
<1> USE DEF MigratorTypeOK, OnlyAt, Go, database, recorded
<1>1. ASSUME NEW o \in Ops, NEW n, Start(p, o, n)
      PROVE /\ OnlyAt(p) /\ pc'[p] \in Labels /\ op'[p] \in Ops
           /\ clash' \in BOOLEAN /\ overlap' \in BOOLEAN /\ bootsOnly' \in BOOLEAN
           /\ starts' \in Nat /\ faults' \in Nat
  BY <1>1 DEF Start, Labels
<1>2. CASE InitLedger(p) \/ CheckPending(p) \/ Plan(p)
  BY <1>2 DEF InitLedger, CheckPending, Plan, Labels, Idle
<1>3. CASE Execute(p)
  BY <1>3 DEF Execute, ReadRow, MarkStarted, RunStatement, RefuseStatement, RecordStatement, StoreRow,
              Labels, Idle
<1>4. CASE Rollback(p)
  BY <1>4 DEF Rollback, ReadRows, UndoStatement, DeleteRow, Labels, Idle
<1>5. CASE Reset(p) \/ Crash(p)
  BY <1>5 DEF Reset, Inspect, Drop, RefuseDrop, DropLedger, Crash, Labels, Idle
<1> QED
  BY <1>1, <1>2, <1>3, <1>4, <1>5 DEF Step

LEMMA OthersStay == ASSUME MigratorTypeOK, NEW p \in Procs, Step(p) PROVE Others(p)
BY StepFrame DEF MigratorTypeOK, OnlyAt, Others

-----------------------------------------------------------------------------
(* Types.  A process's labels go with its command, and its plan and its     *)
(* copy of the row with what it does.                                      *)

Executing == {"load", "mark", "statement", "record", "store", "abandon"}
Holding == Executing \ {"load"}

\* A step belongs to a command.
Labelled(p) ==
    /\ pc[p] \in {"read", "undo", "forget"} => op[p] = "rollback"
    /\ pc[p] \in {"inspect", "drop"} => op[p] = "reset"
    /\ pc[p] = "pending" => op[p] \in {"boot", "load", "reset"}
    /\ pc[p] \in Executing \cup {"plan"} => op[p] # "rollback"
    /\ op[p] = "rollback" => arg[p] >= 1

\* A plan has no gaps.
Planned(p) ==
    pc[p] \in Executing =>
       /\ todo[p] # {}
       /\ \A f \in todo[p], g \in Files : Running(p) <= g /\ g <= f => g \in todo[p]

\* The row a process carries counts statements of the file it is at.
Counted(p) ==
    /\ pc[p] \in Holding => row[p] <= Total[Running(p)]
    /\ pc[p] = "statement" => row[p] < Total[Running(p)]
    /\ pc[p] = "record" => row[p] >= 1
    /\ pc[p] = "store" => row[p] = Total[Running(p)]
    /\ pc[p] \in {"init", "read", "inspect", "drop"} => row[p] = 0
    /\ pc[p] \in {"undo", "forget"} => todo[p] # {}
    /\ pc[p] = "undo" => row[p] < Total[Undone(p)]
    /\ pc[p] = "forget" => row[p] = Total[Undone(p)]

Local(p) == Labelled(p) /\ Planned(p) /\ Counted(p)

MigratorTypes == MigratorTypeOK /\ \A p \in Procs : Local(p)

LEMMA MigratorTypesInit == MigratorInit => MigratorTypes
<1> SUFFICES ASSUME MigratorInit PROVE MigratorTypes
  OBVIOUS
<1>1. MigratorTypeOK
  BY DEF MigratorInit, MigratorTypeOK, Idle, Ops
<1>2. ASSUME NEW p \in Procs PROVE Local(p)
  <2>1. pc[p] = "idle" /\ op[p] = "boot"
    BY DEF MigratorInit
  <2> QED
    BY <2>1 DEF Local, Labelled, Planned, Counted, Executing, Holding
<1> QED
  BY <1>1, <1>2 DEF MigratorTypes

LEMMA LocalOthers ==
    ASSUME NEW p, Others(p), NEW q \in Procs \ {p}, Local(q) PROVE Local(q)'
BY DEF Others, Local, Labelled, Planned, Counted, Running, Undone

\* The file a process runs or undoes is one of its plan.
LEMMA AtAFile ==
    ASSUME MigratorTypes, NEW p \in Procs
    PROVE  /\ pc[p] \in Executing =>
                /\ Running(p) \in todo[p] /\ Running(p) \in Files
                /\ \A f \in todo[p] : Running(p) <= f
           /\ pc[p] \in {"undo", "forget"} =>
                /\ Undone(p) \in todo[p] /\ Undone(p) \in Files
                /\ \A f \in todo[p] : f <= Undone(p)
<1>1. todo[p] \subseteq Files
  BY DEF MigratorTypes, MigratorTypeOK
<1>2. pc[p] \in Executing \cup {"undo", "forget"} => todo[p] # {}
  BY DEF MigratorTypes, Local, Planned, Counted
<1> QED
  BY <1>1, <1>2, LeastFile, GreatestFile DEF Running, Undone

\* A row that a process carries is written back.
LEMMA Upserts ==
    ASSUME MigratorTypeOK, NEW f \in Files, NEW a \in 0..Total[f], Upsert(f, a)
    PROVE  /\ DOMAIN revs' = DOMAIN revs \cup {f} /\ revs'[f] = a
           /\ \A g \in DOMAIN revs \ {f} : revs'[g] = revs[g]
           /\ DOMAIN revs' \subseteq Files /\ \A g \in DOMAIN revs' : revs'[g] \in 0..Total[g]
BY DEF MigratorTypeOK, Upsert

Written == /\ schema \subseteq Stmts \cup {Ledger} /\ torn \subseteq Files
           /\ DOMAIN revs \subseteq Files /\ \A f \in DOMAIN revs : revs[f] \in 0..Total[f]

Private(p) == /\ arg[p] \in Nat /\ row[p] \in Nat /\ todo[p] \subseteq Files
              /\ drops[p] \subseteq Stmts \cup {Ledger}

LEMMA TypesKept ==
    ASSUME MigratorTypes, NEW p \in Procs, Step(p), Written', Private(p)', Local(p)'
    PROVE  MigratorTypes'
<1>1. \A q \in Procs : Local(q)'
  BY OthersStay, LocalOthers DEF MigratorTypes
<1>2. MigratorTypeOK'
  <2>1. MigratorTypeOK
    BY DEF MigratorTypes
  <2> QED
    BY <2>1, StepFrame DEF MigratorTypeOK, OnlyAt, Written, Private, Labels
<1> QED
  BY <1>1, <1>2 DEF MigratorTypes

-----------------------------------------------------------------------------
(* What each step does to the process that takes it and to the database.    *)

Kept(p) == op'[p] = op[p] /\ UNCHANGED <<clash, overlap, bootsOnly, starts>>

LEMMA StartDoes ==
    ASSUME MigratorTypeOK, NEW p \in Procs, NEW o, NEW n, Start(p, o, n)
    PROVE  /\ pc[p] \in Idle /\ pc'[p] = IF o = "reset" THEN "inspect" ELSE "init"
           /\ op'[p] = o /\ arg'[p] = n /\ row'[p] = 0 /\ todo'[p] = {} /\ drops'[p] = drops[p]
           /\ UNCHANGED <<schema, revs, torn, faults>> /\ starts' = starts + 1
           /\ overlap' = (overlap \/ \E q \in Procs \ {p} : Active(q))
           /\ clash' = (clash \/ \E q \in Procs \ {p} : Active(q) /\ {o, op[q]} \cap Undoing # {})
           /\ bootsOnly' = (bootsOnly /\ o \in {"boot", "load"})
BY DEF Start, MigratorTypeOK, Go, database

LEMMA InitLedgerDoes ==
    ASSUME MigratorTypeOK, NEW p \in Procs, InitLedger(p)
    PROVE  /\ Kept(p) /\ arg'[p] = arg[p] /\ row'[p] = row[p] /\ todo'[p] = todo[p] /\ drops'[p] = drops[p]
           /\ UNCHANGED <<revs, torn, faults>> /\ schema' = schema \cup {Ledger}
           /\ pc'[p] = CASE op[p] = "rollback" -> "read" [] op[p] = "to" -> "plan" [] OTHER -> "pending"
           /\ op[p] \in Ops /\ pc[p] = "init"
BY DEF InitLedger, recorded, MigratorTypeOK, Go, At, Kept

LEMMA CheckPendingDoes ==
    ASSUME MigratorTypeOK, NEW p \in Procs, CheckPending(p)
    PROVE  /\ Kept(p) /\ arg'[p] = PendingCount /\ row'[p] = row[p] /\ todo'[p] = todo[p] /\ drops'[p] = drops[p]
           /\ UNCHANGED <<schema, revs, torn, faults>>
           /\ pc[p] = "pending" /\ pc'[p] = IF ~Readable THEN "failed"
                                            ELSE IF PendingFiles # {} THEN "plan"
                                            ELSE IF op[p] = "boot" THEN "ok" ELSE "failed"
BY DEF CheckPending, database, recorded, MigratorTypeOK, Go, At, Kept

ToRun(p) == IF op[p] = "to" THEN {f \in PendingFiles : arg[p] \in PendingFiles /\ f <= arg[p]}
                           ELSE FirstOf(PendingFiles, arg[p])

LEMMA PlanDoes ==
    ASSUME MigratorTypeOK, NEW p \in Procs, Plan(p)
    PROVE  /\ Kept(p) /\ arg'[p] = arg[p] /\ row'[p] = row[p] /\ todo'[p] = ToRun(p) /\ drops'[p] = drops[p]
           /\ UNCHANGED <<schema, revs, torn, faults>>
           /\ pc[p] = "plan" /\ pc'[p] = IF Readable /\ ToRun(p) # {} THEN "load" ELSE "failed"
BY DEF Plan, ToRun, database, recorded, MigratorTypeOK, Go, At, Kept

LEMMA ReadRowDoes ==
    ASSUME MigratorTypeOK, NEW p \in Procs, ReadRow(p)
    PROVE  /\ Kept(p) /\ arg'[p] = arg[p] /\ row'[p] = Stored(Running(p)) /\ todo'[p] = todo[p] /\ drops'[p] = drops[p]
           /\ UNCHANGED <<schema, revs, torn, faults>> /\ Running(p)' = Running(p)
           /\ pc[p] = "load" /\ pc'[p] = IF Ledger \in schema THEN "mark" ELSE "failed"
BY DEF ReadRow, Running, database, recorded, MigratorTypeOK, Go, At, Kept

LEMMA MarkStartedDoes ==
    ASSUME MigratorTypeOK, NEW p \in Procs, MarkStarted(p)
    PROVE  /\ Kept(p) /\ arg'[p] = arg[p] /\ row'[p] = row[p] /\ todo'[p] = todo[p] /\ drops'[p] = drops[p]
           /\ UNCHANGED <<schema, torn, faults>> /\ Running(p)' = Running(p) /\ pc[p] = "mark"
           /\ \/ /\ Ledger \in schema /\ Upsert(Running(p), row[p])
                 /\ \/ pc'[p] = IF row[p] = Total[Running(p)] THEN "store" ELSE "statement"
                    \/ pc'[p] = "abandon" /\ row[p] > 0
              \/ Ledger \notin schema /\ revs' = revs /\ pc'[p] = "failed"
BY DEF MarkStarted, Running, recorded, MigratorTypeOK, Go, At, Kept

LEMMA RunStatementDoes ==
    ASSUME MigratorTypeOK, NEW p \in Procs, RunStatement(p)
    PROVE  /\ Kept(p) /\ arg'[p] = arg[p] /\ todo'[p] = todo[p] /\ drops'[p] = drops[p]
           /\ UNCHANGED <<revs, torn, faults>> /\ Running(p)' = Running(p) /\ pc[p] = "statement"
           /\ \/ /\ <<Running(p), row[p] + 1>> \in schema
                 /\ schema' = schema /\ row'[p] = row[p] /\ pc'[p] = "abandon"
              \/ /\ <<Running(p), row[p] + 1>> \notin schema
                 /\ schema' = schema \cup {<<Running(p), row[p] + 1>>}
                 /\ row'[p] = row[p] + 1 /\ pc'[p] = "record"
BY DEF RunStatement, Running, recorded, MigratorTypeOK, Go, At, Kept

LEMMA RefuseStatementDoes ==
    ASSUME MigratorTypeOK, NEW p \in Procs, RefuseStatement(p)
    PROVE  /\ Kept(p) /\ arg'[p] = arg[p] /\ row'[p] = row[p] /\ todo'[p] = todo[p] /\ drops'[p] = drops[p]
           /\ UNCHANGED <<schema, revs, torn>> /\ faults' = faults + 1 /\ Running(p)' = Running(p)
           /\ pc[p] = "statement" /\ pc'[p] = "abandon"
BY DEF RefuseStatement, Running, database, recorded, MigratorTypeOK, Go, At, Kept

LEMMA RecordStatementDoes ==
    ASSUME MigratorTypeOK, NEW p \in Procs, RecordStatement(p)
    PROVE  /\ Kept(p) /\ arg'[p] = arg[p] /\ row'[p] = row[p] /\ todo'[p] = todo[p] /\ drops'[p] = drops[p]
           /\ UNCHANGED <<schema, torn, faults>> /\ Running(p)' = Running(p) /\ pc[p] = "record"
           /\ \/ /\ Ledger \in schema /\ Upsert(Running(p), row[p])
                 /\ pc'[p] = IF row[p] = Total[Running(p)] THEN "store" ELSE "statement"
              \/ Ledger \notin schema /\ revs' = revs /\ pc'[p] = "failed"
BY DEF RecordStatement, Running, recorded, MigratorTypeOK, Go, At, Kept

Left(p) == todo[p] \ {Running(p)}

LEMMA StoreRowDoes ==
    ASSUME MigratorTypeOK, NEW p \in Procs, StoreRow(p)
    PROVE  /\ Kept(p) /\ arg'[p] = arg[p] /\ row'[p] = row[p] /\ todo'[p] = Left(p) /\ drops'[p] = drops[p]
           /\ UNCHANGED <<schema, torn, faults>> /\ pc[p] \in {"store", "abandon"}
           /\ IF Ledger \in schema THEN Upsert(Running(p), row[p]) ELSE revs' = revs
           /\ pc'[p] = IF pc[p] = "abandon" \/ Ledger \notin schema THEN "failed"
                       ELSE IF Left(p) = {} THEN "ok" ELSE "load"
BY DEF StoreRow, Left, recorded, MigratorTypeOK, Go, At, Kept

LastRows(p) == {f \in DOMAIN revs : Cardinality({g \in DOMAIN revs : g >= f}) <= arg[p]}

LEMMA ReadRowsDoes ==
    ASSUME MigratorTypeOK, NEW p \in Procs, ReadRows(p)
    PROVE  /\ Kept(p) /\ arg'[p] = arg[p] /\ row'[p] = row[p] /\ todo'[p] = LastRows(p) /\ drops'[p] = drops[p]
           /\ UNCHANGED <<schema, revs, torn, faults>> /\ pc[p] = "read"
           /\ pc'[p] = IF Ledger \notin schema THEN "failed" ELSE IF DOMAIN revs = {} THEN "ok" ELSE "undo"
BY DEF ReadRows, LastRows, database, recorded, MigratorTypeOK, Go, At, Kept

LEMMA UndoStatementDoes ==
    ASSUME MigratorTypeOK, NEW p \in Procs, UndoStatement(p)
    PROVE  /\ Kept(p) /\ arg'[p] = arg[p] /\ todo'[p] = todo[p] /\ drops'[p] = drops[p]
           /\ UNCHANGED <<revs, faults>> /\ Undone(p)' = Undone(p) /\ pc[p] = "undo"
           /\ \/ /\ schema' = schema \ {<<Undone(p), row[p] + 1>>} /\ torn' = torn \cup {Undone(p)}
                 /\ row'[p] = row[p] + 1
                 /\ pc'[p] = IF row'[p] = Total[Undone(p)] THEN "forget" ELSE "undo"
              \/ pc'[p] = "failed" /\ UNCHANGED <<schema, torn>> /\ row'[p] = row[p]
BY DEF UndoStatement, Undone, MigratorTypeOK, Go, At, Kept

LEMMA DeleteRowDoes ==
    ASSUME MigratorTypeOK, NEW p \in Procs, DeleteRow(p)
    PROVE  /\ Kept(p) /\ arg'[p] = arg[p] /\ drops'[p] = drops[p] /\ UNCHANGED <<schema, faults>> /\ pc[p] = "forget"
           /\ \/ /\ revs' = [g \in DOMAIN revs \ {Undone(p)} |-> revs[g]] /\ torn' = torn \ {Undone(p)}
                 /\ todo'[p] = todo[p] \ {Undone(p)} /\ row'[p] = 0
                 /\ pc'[p] = IF todo[p] = {Undone(p)} THEN "ok" ELSE "undo"
              \/ pc'[p] = "failed" /\ UNCHANGED <<revs, torn>> /\ row'[p] = row[p] /\ todo'[p] = todo[p]
BY DEF DeleteRow, MigratorTypeOK, Go, At, Kept

LEMMA InspectDoes ==
    ASSUME MigratorTypeOK, NEW p \in Procs, Inspect(p)
    PROVE  /\ Kept(p) /\ arg'[p] = arg[p] /\ row'[p] = row[p] /\ todo'[p] = todo[p] /\ drops'[p] = schema
           /\ UNCHANGED <<schema, revs, faults>> /\ torn' = Files /\ pc[p] = "inspect" /\ pc'[p] = "drop"
BY DEF Inspect, database, MigratorTypeOK, Go, At, Kept

LEMMA DropDoes ==
    ASSUME MigratorTypeOK, NEW p \in Procs, NEW object, Drop(p, object)
    PROVE  /\ Kept(p) /\ arg'[p] = arg[p] /\ row'[p] = row[p] /\ todo'[p] = todo[p] /\ drops'[p] \subseteq drops[p]
           /\ UNCHANGED <<torn, faults>> /\ pc[p] = "drop" /\ pc'[p] = "drop"
           /\ schema' \subseteq schema /\ (revs' = revs \/ DOMAIN revs' = {})
BY DEF Drop, recorded, MigratorTypeOK, Go, At, Kept

LEMMA RefuseDropDoes ==
    ASSUME MigratorTypeOK, NEW p \in Procs, RefuseDrop(p)
    PROVE  /\ Kept(p) /\ arg'[p] = arg[p] /\ row'[p] = row[p] /\ todo'[p] = todo[p] /\ drops'[p] = {}
           /\ UNCHANGED <<schema, revs, torn, faults>> /\ pc[p] = "drop" /\ pc'[p] = "failed"
BY DEF RefuseDrop, database, recorded, MigratorTypeOK, Go, At, Kept

LEMMA DropLedgerDoes ==
    ASSUME MigratorTypeOK, NEW p \in Procs, DropLedger(p)
    PROVE  /\ Kept(p) /\ arg'[p] = arg[p] /\ row'[p] = row[p] /\ todo'[p] = todo[p] /\ drops'[p] = drops[p]
           /\ schema' = schema \ {Ledger} /\ DOMAIN revs' = {} /\ faults' = faults
           /\ torn' = IF schema' = {} THEN {} ELSE torn
           /\ pc[p] = "drop" /\ pc'[p] = "init"
BY DEF DropLedger, MigratorTypeOK, Go, At, Kept

LEMMA CrashDoes ==
    ASSUME MigratorTypeOK, NEW p \in Procs, Crash(p)
    PROVE  /\ Kept(p) /\ arg'[p] = arg[p] /\ row'[p] = 0 /\ todo'[p] = {} /\ drops'[p] = {}
           /\ UNCHANGED <<schema, revs, torn>> /\ faults' = faults + 1 /\ Active(p) /\ pc'[p] = "idle"
BY DEF Crash, database, recorded, MigratorTypeOK, Go, At, Kept

LEMMA MigratorTypesStep == MigratorTypes /\ [MigratorNext]_migratorVars => MigratorTypes'
<1> SUFFICES ASSUME MigratorTypes, [MigratorNext]_migratorVars PROVE MigratorTypes'
  OBVIOUS
<1>1. CASE UNCHANGED migratorVars
  BY <1>1 DEF migratorVars, MigratorTypes, MigratorTypeOK, Local, Labelled, Planned, Counted,
              Running, Undone
<1>2. ASSUME NEW p \in Procs, Step(p) PROVE MigratorTypes'
  <2> SUFFICES Written' /\ Private(p)' /\ Local(p)'
    BY <1>2, TypesKept
  <2>0. MigratorTypeOK /\ Labelled(p) /\ Planned(p) /\ Counted(p)
    BY DEF MigratorTypes, Local
  <2>a. /\ pc[p] \in Executing => /\ Running(p) \in Files /\ Running(p) \in todo[p]
                                  /\ Total[Running(p)] \in Nat \ {0}
        /\ pc[p] \in {"undo", "forget"} => Undone(p) \in Files /\ Undone(p) \in todo[p]
        /\ \A f \in Files : f \in Nat /\ Total[f] \in Nat \ {0}
    BY AtAFile, FilesFinite DEF MigratorTypes
  <2>b. /\ Written /\ Private(p)
        /\ row[p] \in Nat /\ todo[p] \subseteq Files /\ drops[p] \subseteq Stmts \cup {Ledger}
    BY <2>0 DEF MigratorTypeOK, Written, Private
  <2>1. ASSUME NEW o \in Ops, NEW n \in IF o \in {"to", "rollback"} THEN Files ELSE {1}, Start(p, o, n)
        PROVE  Written' /\ Private(p)' /\ Local(p)'
    <3>1. n \in Nat /\ (o = "rollback" => n >= 1)
      BY <2>1, FilesFinite
    <3>2. /\ pc'[p] \in {"init", "inspect"} /\ op'[p] = o /\ arg'[p] = n
          /\ pc'[p] = "inspect" => o = "reset"
          /\ row'[p] = 0 /\ todo'[p] = {} /\ drops'[p] = drops[p]
          /\ schema' = schema /\ revs' = revs /\ torn' = torn
      BY <2>0, <2>1, StartDoes DEF Kept
    <3>3. Local(p)'
      BY <3>1, <3>2 DEF Local, Labelled, Planned, Counted, Executing, Holding
    <3> QED
      BY <2>b, <3>1, <3>2, <3>3 DEF Written, Private
  <2>2. CASE InitLedger(p)
    <3>1. /\ op'[p] = op[p] /\ arg'[p] = arg[p] /\ row'[p] = row[p] /\ todo'[p] = todo[p]
          /\ drops'[p] = drops[p] /\ revs' = revs /\ torn' = torn /\ schema' = schema \cup {Ledger}
          /\ pc'[p] = CASE op[p] = "rollback" -> "read" [] op[p] = "to" -> "plan" [] OTHER -> "pending"
          /\ op[p] \in Ops /\ pc[p] = "init"
      BY <2>0, <2>2, InitLedgerDoes DEF Kept
    <3>2. Local(p)'
      BY <2>0, <3>1 DEF Local, Labelled, Planned, Counted, Executing, Holding, Ops
    <3> QED
      BY <2>b, <3>1, <3>2 DEF Written, Private
  <2>3. CASE CheckPending(p)
    <3>1. PendingCount \in Nat
      BY <2>0, PendingOnwards DEF MigratorTypeOK
    <3>2. /\ op'[p] = op[p] /\ arg'[p] = PendingCount /\ row'[p] = row[p] /\ todo'[p] = todo[p]
          /\ drops'[p] = drops[p] /\ revs' = revs /\ torn' = torn /\ schema' = schema
          /\ pc'[p] \in {"plan", "ok", "failed"} /\ pc[p] = "pending"
      BY <2>0, <2>3, CheckPendingDoes DEF Kept
    <3>3. Local(p)'
      BY <2>0, <3>1, <3>2 DEF Local, Labelled, Planned, Counted, Executing, Holding
    <3> QED
      BY <2>b, <3>1, <3>2, <3>3 DEF Written, Private
  <2>4. CASE Plan(p)
    <3> DEFINE to == {f \in PendingFiles : arg[p] \in PendingFiles /\ f <= arg[p]}
               first == FirstOf(PendingFiles, arg[p])
               files == IF op[p] = "to" THEN to ELSE first
    <3>1. /\ PendingFiles \subseteq Files
          /\ \A f \in PendingFiles, g \in Files : f <= g => g \in PendingFiles
      BY <2>0, PendingOnwards DEF MigratorTypeOK
    <3>2. /\ first \subseteq PendingFiles /\ first \subseteq Files
          /\ \A f \in first, g \in Files : Least(first) <= g /\ g <= f => g \in first
      <4>1. arg[p] \in Nat
        BY <2>b DEF Private
      <4>2. /\ first \subseteq PendingFiles
            /\ \A f \in first, g \in PendingFiles : g <= f => g \in first
        BY <3>1, <4>1, FirstFiles
      <4>3. first # {} => Least(first) \in first
        BY <3>1, <4>2, LeastFile
      <4> HIDE DEF first
      <4> QED
        BY <3>1, <4>2, <4>3
    <3>3. /\ to \subseteq Files
          /\ \A f \in to, g \in Files : Least(to) <= g /\ g <= f => g \in to
      <4>1. to \subseteq PendingFiles
        OBVIOUS
      <4>2. \A f \in to, g \in PendingFiles : g <= f => g \in to
        BY <2>a, <2>b, <3>1 DEF Private
      <4>3. to # {} => Least(to) \in to
        BY <3>1, <4>1, LeastFile
      <4> HIDE DEF to
      <4> QED
        BY <3>1, <4>1, <4>2, <4>3
    <3>4. /\ op'[p] = op[p] /\ arg'[p] = arg[p] /\ row'[p] = row[p] /\ todo'[p] = files
          /\ drops'[p] = drops[p] /\ revs' = revs /\ torn' = torn /\ schema' = schema
          /\ pc'[p] \in {"load", "failed"} /\ (pc'[p] = "load" => files # {}) /\ pc[p] = "plan"
      BY <2>0, <2>4, PlanDoes DEF Kept, ToRun
    <3>5. /\ files \subseteq Files
          /\ \A f \in files, g \in Files : Least(files) <= g /\ g <= f => g \in files
      BY <3>2, <3>3
    <3> HIDE DEF files
    <3>6. Local(p)'
      BY <2>0, <3>4, <3>5 DEF Local, Labelled, Planned, Counted, Executing, Holding, Running
    <3> QED
      BY <2>b, <3>4, <3>5, <3>6 DEF Written, Private
  <2>5. CASE ReadRow(p)
    <3>1. /\ op'[p] = op[p] /\ arg'[p] = arg[p] /\ row'[p] = Stored(Running(p)) /\ todo'[p] = todo[p]
          /\ drops'[p] = drops[p] /\ revs' = revs /\ torn' = torn /\ schema' = schema
          /\ pc'[p] \in {"mark", "failed"} /\ pc[p] = "load" /\ Running(p)' = Running(p)
      BY <2>0, <2>5, ReadRowDoes DEF Kept
    <3>2. Stored(Running(p)) \in 0..Total[Running(p)]
      BY <2>a, <2>b, <3>1 DEF Stored, Executing, Written
    <3>3. Local(p)'
      BY <2>0, <2>a, <3>1, <3>2 DEF Local, Labelled, Planned, Counted, Executing, Holding
    <3> QED
      BY <2>a, <2>b, <3>1, <3>2, <3>3 DEF Written, Private, Executing
  <2>6. CASE MarkStarted(p) \/ RecordStatement(p)
    <3>1. /\ op'[p] = op[p] /\ arg'[p] = arg[p] /\ row'[p] = row[p] /\ todo'[p] = todo[p]
          /\ drops'[p] = drops[p] /\ torn' = torn /\ schema' = schema
          /\ Upsert(Running(p), row[p]) \/ revs' = revs
          /\ pc'[p] \in {"statement", "store", "abandon", "failed"} /\ pc[p] \in {"mark", "record"}
          /\ (pc'[p] = "store" => row[p] = Total[Running(p)])
          /\ (pc'[p] = "statement" => row[p] # Total[Running(p)])
          /\ Running(p)' = Running(p)
      BY <2>0, <2>6, MarkStartedDoes, RecordStatementDoes DEF Kept
    <3>2. row[p] \in 0..Total[Running(p)]
      BY <2>0, <2>a, <2>b, <3>1 DEF Counted, Executing, Holding
    <3>3. DOMAIN revs' \subseteq Files /\ \A g \in DOMAIN revs' : revs'[g] \in 0..Total[g]
      BY <2>0, <2>a, <2>b, <3>1, <3>2, Upserts DEF Executing, Written
    <3>4. Local(p)'
      BY <2>0, <2>a, <3>1, <3>2 DEF Local, Labelled, Planned, Counted, Executing, Holding
    <3> QED
      BY <2>b, <3>1, <3>3, <3>4 DEF Written, Private
  <2>7. CASE RunStatement(p)
    <3>1. /\ op'[p] = op[p] /\ arg'[p] = arg[p] /\ todo'[p] = todo[p]
          /\ drops'[p] = drops[p] /\ revs' = revs /\ torn' = torn /\ pc[p] = "statement"
          /\ \/ pc'[p] = "abandon" /\ schema' = schema /\ row'[p] = row[p]
             \/ /\ pc'[p] = "record" /\ schema' = schema \cup {<<Running(p), row[p] + 1>>}
                /\ row'[p] = row[p] + 1
          /\ Running(p)' = Running(p)
      BY <2>0, <2>7, RunStatementDoes DEF Kept
    <3>2. row[p] < Total[Running(p)]
      BY <2>0, <3>1 DEF Counted
    <3>3. <<Running(p), row[p] + 1>> \in Stmts
      BY <2>a, <2>b, <3>1, <3>2 DEF Stmts, Executing
    <3>4. Local(p)'
      BY <2>0, <2>a, <2>b, <3>1, <3>2 DEF Local, Labelled, Planned, Counted, Executing, Holding
    <3> QED
      BY <2>b, <3>1, <3>3, <3>4 DEF Written, Private
  <2>8. CASE RefuseStatement(p)
    <3>1. /\ op'[p] = op[p] /\ arg'[p] = arg[p] /\ row'[p] = row[p] /\ todo'[p] = todo[p]
          /\ drops'[p] = drops[p] /\ revs' = revs /\ torn' = torn /\ schema' = schema
          /\ pc'[p] = "abandon" /\ pc[p] = "statement" /\ Running(p)' = Running(p)
      BY <2>0, <2>8, RefuseStatementDoes DEF Kept
    <3>2. Local(p)'
      BY <2>0, <3>1 DEF Local, Labelled, Planned, Counted, Executing, Holding
    <3> QED
      BY <2>b, <3>1, <3>2 DEF Written, Private
  <2>9. CASE StoreRow(p)
    <3> DEFINE left == todo[p] \ {Running(p)}
    <3>1. /\ op'[p] = op[p] /\ arg'[p] = arg[p] /\ row'[p] = row[p] /\ todo'[p] = left
          /\ drops'[p] = drops[p] /\ torn' = torn /\ schema' = schema
          /\ Upsert(Running(p), row[p]) \/ revs' = revs
          /\ pc'[p] \in {"ok", "load", "failed"} /\ (pc'[p] = "load" => left # {})
          /\ pc[p] \in {"store", "abandon"}
      BY <2>0, <2>9, StoreRowDoes DEF Kept, Left
    <3>2. row[p] \in 0..Total[Running(p)]
      BY <2>0, <2>a, <2>b, <3>1 DEF Counted, Executing, Holding
    <3>3. DOMAIN revs' \subseteq Files /\ \A g \in DOMAIN revs' : revs'[g] \in 0..Total[g]
      BY <2>0, <2>a, <2>b, <3>1, <3>2, Upserts DEF Executing, Written
    <3>4. \A h \in left, g \in Files : Least(left) <= g /\ g <= h => g \in left
      <4> DEFINE f == Running(p)
      <4>1. left \subseteq Files /\ left \subseteq todo[p] /\ f \in Files /\ f \notin left
        BY <2>a, <2>b, <3>1 DEF Executing
      <4>2. left # {} => Least(left) \in left
        BY <4>1, LeastFile
      <4>3. \A h \in todo[p] : f <= h
        BY <3>1, AtAFile DEF Executing
      <4>4. \A h \in todo[p], g \in Files : f <= g /\ g <= h => g \in todo[p]
        BY <2>0, <3>1 DEF Planned, Executing
      <4>5. ASSUME NEW h \in left, NEW g \in Files, Least(left) <= g, g <= h PROVE g \in left
        <5>1. Least(left) \in left /\ Least(left) # f /\ f <= Least(left)
          BY <4>1, <4>2, <4>3
        <5>2. f \in Nat /\ g \in Nat /\ Least(left) \in Nat
          BY <2>a, <4>1, <5>1
        <5> HIDE DEF f
        <5>3. f < g
          BY <4>5, <5>1, <5>2
        <5>4. g \in todo[p]
          BY <4>1, <4>4, <4>5, <5>2, <5>3
        <5> QED
          BY <5>2, <5>3, <5>4 DEF f
      <4> QED
        BY <4>5
    <3>5. left \subseteq Files
      BY <2>b
    <3> HIDE DEF left
    <3>6. Local(p)'
      BY <2>0, <3>1, <3>4 DEF Local, Labelled, Planned, Counted, Executing, Holding, Running
    <3> QED
      BY <2>b, <3>1, <3>3, <3>5, <3>6 DEF Written, Private
  <2>10. CASE ReadRows(p)
    <3> DEFINE S == DOMAIN revs
               last == Greatest(S)
               undone == {f \in S : Cardinality({g \in S : g >= f}) <= arg[p]}
    <3>1. S # {} => last \in undone
      <4> SUFFICES ASSUME S # {} PROVE last \in undone
        OBVIOUS
      <4>1. last \in S /\ \A y \in S : y <= last
        BY <2>b, GreatestFile DEF Written
      <4>2. \A y \in S : y >= last <=> y = last
        BY <2>a, <2>b, <4>1 DEF Written
      <4>3. {g \in S : g >= last} = {last}
        BY <4>1, <4>2
      <4>4. Cardinality({g \in S : g >= last}) = 1
        BY <4>3, FS_Singleton
      <4>5. arg[p] >= 1
        BY <2>0, <2>10 DEF ReadRows, Labelled, At
      <4> QED
        BY <4>1, <4>4, <4>5
    <3>2. undone \subseteq Files
      BY <2>b DEF Written
    <3> HIDE DEF undone
    <3>3. /\ op'[p] = op[p] /\ arg'[p] = arg[p] /\ row'[p] = row[p] /\ todo'[p] = undone
          /\ drops'[p] = drops[p] /\ revs' = revs /\ torn' = torn /\ schema' = schema
          /\ pc'[p] \in {"ok", "undo", "failed"} /\ (pc'[p] = "undo" => S # {}) /\ pc[p] = "read"
      BY <2>0, <2>10, ReadRowsDoes DEF Kept, LastRows, undone
    <3>4. ASSUME pc'[p] = "undo" PROVE row'[p] < Total[Undone(p)]'
      <4>1. Undone(p)' \in Files
        BY <3>1, <3>2, <3>3, <3>4, GreatestFile DEF Undone
      <4>2. row'[p] = 0
        BY <2>0, <3>3 DEF Counted
      <4> QED
        BY <2>a, <4>1, <4>2
    <3>5. Local(p)'
      BY <2>0, <3>1, <3>3, <3>4 DEF Local, Labelled, Planned, Counted, Executing, Holding
    <3> QED
      BY <2>b, <3>2, <3>3, <3>5 DEF Written, Private
  <2>11. CASE UndoStatement(p)
    <3>1. /\ op'[p] = op[p] /\ arg'[p] = arg[p] /\ todo'[p] = todo[p]
          /\ drops'[p] = drops[p] /\ revs' = revs /\ schema' \subseteq schema
          /\ torn' \subseteq torn \cup {Undone(p)} /\ pc[p] = "undo"
          /\ \/ pc'[p] = "failed" /\ row'[p] = row[p]
             \/ /\ row'[p] = row[p] + 1
                /\ pc'[p] = IF row'[p] = Total[Undone(p)] THEN "forget" ELSE "undo"
          /\ Undone(p)' = Undone(p)
      BY <2>0, <2>11, UndoStatementDoes DEF Kept
    <3>2. row[p] < Total[Undone(p)]
      BY <2>0, <3>1 DEF Counted
    <3>3. Local(p)'
      BY <2>0, <2>a, <2>b, <3>1, <3>2 DEF Local, Labelled, Planned, Counted, Executing, Holding
    <3> QED
      BY <2>a, <2>b, <3>1, <3>3 DEF Written, Private
  <2>12. CASE DeleteRow(p)
    <3> DEFINE f == Undone(p)
    <3>1. /\ op'[p] = op[p] /\ arg'[p] = arg[p] /\ drops'[p] = drops[p] /\ schema' = schema
          /\ pc[p] = "forget"
          /\ \/ pc'[p] = "failed" /\ row'[p] = row[p] /\ todo'[p] = todo[p] /\ UNCHANGED <<revs, torn>>
             \/ /\ row'[p] = 0 /\ todo'[p] = todo[p] \ {f} /\ torn' = torn \ {f}
                /\ revs' = [g \in DOMAIN revs \ {f} |-> revs[g]]
                /\ pc'[p] = IF todo[p] = {f} THEN "ok" ELSE "undo"
      BY <2>0, <2>12, DeleteRowDoes DEF Kept
    <3>2. f \in todo[p]
      BY <2>a, <3>1
    <3> HIDE DEF f
    <3>3. ASSUME pc'[p] = "undo" PROVE todo'[p] # {} /\ row'[p] < Total[Undone(p)]'
      <4>1. todo'[p] # {} /\ todo'[p] \subseteq Files /\ row'[p] = 0
        BY <2>b, <3>1, <3>2, <3>3
      <4>2. Undone(p)' \in Files
        BY <4>1, GreatestFile DEF Undone
      <4> QED
        BY <2>a, <4>1, <4>2
    <3>4. pc'[p] # "forget"
      BY <3>1
    <3>5. Local(p)'
      BY <2>0, <3>1, <3>3, <3>4 DEF Local, Labelled, Planned, Counted, Executing, Holding
    <3>6. Written'
      BY <2>b, <3>1 DEF Written
    <3> QED
      BY <2>b, <3>1, <3>5, <3>6 DEF Private
  <2>13. CASE Inspect(p)
    <3>1. /\ op'[p] = op[p] /\ arg'[p] = arg[p] /\ row'[p] = row[p] /\ todo'[p] = todo[p]
          /\ drops'[p] = schema /\ revs' = revs /\ torn' = Files /\ schema' = schema
          /\ pc'[p] = "drop" /\ pc[p] = "inspect"
      BY <2>0, <2>13, InspectDoes DEF Kept
    <3>2. Local(p)'
      BY <2>0, <3>1 DEF Local, Labelled, Planned, Counted, Executing, Holding
    <3> QED
      BY <2>b, <3>1, <3>2 DEF Written, Private
  <2>14. ASSUME NEW object \in drops[p], Drop(p, object)
         PROVE  Written' /\ Private(p)' /\ Local(p)'
    <3>1. /\ op'[p] = op[p] /\ arg'[p] = arg[p] /\ row'[p] = row[p] /\ todo'[p] = todo[p]
          /\ drops'[p] \subseteq drops[p] /\ torn' = torn /\ schema' \subseteq schema
          /\ revs' = revs \/ DOMAIN revs' = {}
          /\ pc'[p] = "drop" /\ pc[p] = "drop"
      BY <2>0, <2>14, DropDoes DEF Kept
    <3>2. Local(p)'
      BY <2>0, <3>1 DEF Local, Labelled, Planned, Counted, Executing, Holding
    <3> QED
      BY <2>b, <3>1, <3>2 DEF Written, Private
  <2>15. CASE RefuseDrop(p) \/ DropLedger(p) \/ Crash(p)
    <3>1. /\ op'[p] = op[p] /\ arg'[p] = arg[p] /\ row'[p] \in {row[p], 0} /\ todo'[p] \in {todo[p], {}}
          /\ drops'[p] \in {drops[p], {}} /\ torn' \in {torn, {}} /\ schema' \subseteq schema
          /\ revs' = revs \/ DOMAIN revs' = {}
          /\ \/ pc'[p] \in {"failed", "idle"}
             \/ pc'[p] = "init" /\ row'[p] = row[p] /\ pc[p] = "drop"
      BY <2>0, <2>15, RefuseDropDoes, DropLedgerDoes, CrashDoes DEF Kept
    <3>2. Local(p)'
      BY <2>0, <3>1 DEF Local, Labelled, Planned, Counted, Executing, Holding
    <3> QED
      BY <2>b, <3>1, <3>2 DEF Written, Private
  <2> QED
    BY <1>2, <2>1, <2>2, <2>3, <2>4, <2>5, <2>6, <2>7, <2>8, <2>9, <2>10, <2>11, <2>12, <2>13, <2>14, <2>15
    DEF Step, Execute, Rollback, Reset
<1> QED
  BY <1>1, <1>2 DEF MigratorNext, Step

\* Whatever runs beside what, and whatever crashes, every variable of the migrator
\* keeps its type: a process is only at the steps of the command it runs, its plan
\* is a set of files and its copy of a row names one (RunPending, RunAll, db.go).
THEOREM MigratorTypeCorrect == MigratorSpec => []MigratorTypeOK
<1>1. MigratorTypes => MigratorTypeOK
  BY DEF MigratorTypes
<1> QED
  BY MigratorTypesInit, MigratorTypesStep, <1>1, PTL DEF MigratorSpec

-----------------------------------------------------------------------------
(* What the history flags say of the commands that run together.            *)

Alone(p) == \A q \in Procs : Active(q) => q = p

Flags == /\ ~overlap => ~clash /\ \A p \in Procs : Active(p) => Alone(p)
         /\ ~clash => \A p \in Procs : Active(p) /\ op[p] \in Undoing => Alone(p)
         /\ bootsOnly => ~clash /\ torn = {} /\ \A p \in Procs : op[p] \in {"boot", "load"}

\* Only Start changes the flags, and only a rollback or a reset tears a file.
LEMMA OnceStarted ==
    ASSUME MigratorTypes, NEW p \in Procs, Step(p)
    PROVE  \/ \E o \in Ops : \E n : Start(p, o, n)
           \/ /\ Active(p) /\ Kept(p) /\ op[p] \in Ops
              /\ op[p] \notin Undoing => torn' = torn /\ schema \subseteq schema' /\ pc'[p] # "drop"
              /\ faults' = faults \/ faults' = faults + 1
<1>0. MigratorTypeOK /\ Labelled(p) /\ op[p] \in Ops
  BY DEF MigratorTypes, MigratorTypeOK, Local
<1> DEFINE Then == /\ Active(p) /\ Kept(p)
                   /\ op[p] \notin Undoing => torn' = torn /\ schema \subseteq schema' /\ pc'[p] # "drop"
                   /\ faults' = faults \/ faults' = faults + 1
<1>1. ASSUME InitLedger(p) \/ CheckPending(p) \/ Plan(p) PROVE Then
  <2>1. Active(p) /\ Kept(p) /\ torn' = torn /\ schema \subseteq schema' /\ faults' = faults /\ pc'[p] # "drop"
    BY <1>0, <1>1, InitLedgerDoes, CheckPendingDoes, PlanDoes DEF Active, Idle, Ops
  <2> QED
    BY <2>1
<1>2. ASSUME Execute(p) PROVE Then
  <2>1. CASE ReadRow(p) \/ MarkStarted(p) \/ RunStatement(p) \/ RecordStatement(p) \/ StoreRow(p)
    BY <1>0, <2>1, ReadRowDoes, MarkStartedDoes, RunStatementDoes, RecordStatementDoes, StoreRowDoes
       DEF Active, Idle
  <2>2. CASE RefuseStatement(p)
    BY <1>0, <2>2, RefuseStatementDoes DEF Active, Idle
  <2> QED
    BY <1>2, <2>1, <2>2 DEF Execute
<1>3. ASSUME Rollback(p) PROVE Then
  <2>1. Active(p) /\ Kept(p) /\ op[p] = "rollback" /\ faults' = faults
    BY <1>0, <1>3, ReadRowsDoes, UndoStatementDoes, DeleteRowDoes DEF Rollback, Active, Idle, Labelled
  <2> QED
    BY <2>1 DEF Undoing
<1>4. ASSUME Reset(p) PROVE Then
  <2>1. Active(p) /\ Kept(p) /\ op[p] = "reset" /\ faults' = faults
    BY <1>0, <1>4, InspectDoes, DropDoes, RefuseDropDoes, DropLedgerDoes DEF Reset, Active, Idle, Labelled
  <2> QED
    BY <2>1 DEF Undoing
<1>5. ASSUME Crash(p) PROVE Then
  BY <1>0, <1>5, CrashDoes
<1> HIDE DEF Then
<1>6. (\E o \in Ops : \E n : Start(p, o, n)) \/ Then
  BY <1>1, <1>2, <1>3, <1>4, <1>5 DEF Step
<1> QED
  BY <1>0, <1>6 DEF Then

LEMMA FlagsInit == MigratorInit => Flags
BY DEF MigratorInit, Flags, Active, Idle

LEMMA FlagsStep == MigratorTypes /\ Flags /\ [MigratorNext]_migratorVars => Flags'
<1> SUFFICES ASSUME MigratorTypes, Flags, [MigratorNext]_migratorVars PROVE Flags'
  OBVIOUS
<1>1. CASE UNCHANGED migratorVars
  BY <1>1 DEF migratorVars, Flags, Alone, Active
<1>2. ASSUME NEW p \in Procs, Step(p) PROVE Flags'
  <2>0. MigratorTypeOK /\ Others(p)
    BY <1>2, OthersStay DEF MigratorTypes
  <2>1. \A q \in Procs \ {p} : /\ (Active(q)' <=> Active(q)) /\ op'[q] = op[q]
    BY <2>0 DEF Others, Active
  <2>2. CASE \E o \in Ops : \E n : Start(p, o, n)
    <3>0. PICK o \in Ops : \E n : Start(p, o, n)
      BY <2>2
    <3>1. PICK n : Start(p, o, n)
      BY <3>0
    <3>2. /\ op'[p] = o /\ torn' = torn
          /\ overlap' = (overlap \/ \E q \in Procs \ {p} : Active(q))
          /\ clash' = (clash \/ \E q \in Procs \ {p} : Active(q) /\ {o, op[q]} \cap Undoing # {})
          /\ bootsOnly' = (bootsOnly /\ o \in {"boot", "load"})
          /\ overlap \in BOOLEAN /\ clash \in BOOLEAN /\ bootsOnly \in BOOLEAN
      BY <2>0, <3>1, StartDoes DEF MigratorTypeOK
    <3>3. ASSUME ~overlap' PROVE ~clash' /\ \A q \in Procs : Active(q)' => Alone(q)'
      <4>1. \A q \in Procs \ {p} : ~Active(q) /\ ~Active(q)'
        BY <2>1, <3>2, <3>3
      <4> QED
        BY <3>2, <3>3, <4>1 DEF Flags, Alone
    <3>4. ASSUME ~clash', NEW q \in Procs, Active(q)', op'[q] \in Undoing PROVE Alone(q)'
      <4>1. ~clash /\ \A r \in Procs \ {p} : Active(r) => o \notin Undoing /\ op[r] \notin Undoing
        BY <3>2, <3>4
      <4>2. CASE q = p
        BY <2>1, <3>2, <3>4, <4>1, <4>2 DEF Alone
      <4>3. CASE q # p
        BY <2>1, <3>4, <4>1, <4>3
      <4> QED
        BY <4>2, <4>3
    <3>5. ASSUME bootsOnly' PROVE ~clash' /\ torn' = {} /\ \A q \in Procs : op'[q] \in {"boot", "load"}
      <4>1. o \in {"boot", "load"} /\ ~clash /\ torn = {} /\ \A q \in Procs : op[q] \in {"boot", "load"}
        BY <3>2, <3>5 DEF Flags
      <4>2. \A q \in Procs : {o, op[q]} \cap Undoing = {}
        BY <4>1 DEF Undoing
      <4> QED
        BY <2>1, <3>2, <4>1, <4>2
    <3> QED
      BY <3>3, <3>4, <3>5 DEF Flags
  <2>3. CASE /\ Active(p) /\ Kept(p)
             /\ op[p] \notin Undoing => torn' = torn
    <3>1. /\ op'[p] = op[p] /\ clash' = clash /\ overlap' = overlap /\ bootsOnly' = bootsOnly
      BY <2>3 DEF Kept
    <3>2. bootsOnly => op[p] \notin Undoing
      BY DEF Flags, Undoing
    <3>3. \A q \in Procs : Active(q)' => Active(q) /\ op'[q] = op[q]
      BY <2>1, <2>3, <3>1
    <3>4. \A q \in Procs : Alone(q) => Alone(q)'
      BY <3>3 DEF Alone
    <3>5. bootsOnly => torn' = torn
      BY <2>3, <3>2
    <3> QED
      BY <2>1, <3>1, <3>3, <3>4, <3>5 DEF Flags
  <2> QED
    BY <1>2, <2>2, <2>3, OnceStarted
<1> QED
  BY <1>1, <1>2 DEF MigratorNext, Step

-----------------------------------------------------------------------------
(* What is in the schema, in its ledger and in the hands of the processes,  *)
(* as long as no rollback or reset ran beside another command.              *)

\* A file is whole in the schema, or a rollback or reset left it torn.
InOrder(f) == f \notin torn => AllIn(f)

Backed == \A f \in DOMAIN revs \ torn : \A i \in 1..revs[f] : <<f, i>> \in schema

\* The files before a row are whole; a statement in effect belongs to a file
\* with a row, and comes after those before it.
Ledgered ==
    /\ \A g \in Files, h \in DOMAIN revs : g < h => InOrder(g)
    /\ \A f \in Files \ torn, i \in Nat : <<f, i>> \in schema => f \in DOMAIN revs
    /\ \A f \in Files \ torn, i \in Nat \ {0} : <<f, i + 1>> \in schema => <<f, i>> \in schema

\* The files before the one that is run are whole, and the row a process carries
\* says no more than the schema.
Carried(p) ==
    /\ pc[p] \in Executing => \A f \in Files : f < Running(p) => InOrder(f)
    /\ pc[p] \in Holding /\ Running(p) \notin torn => \A i \in 1..row[p] : <<Running(p), i>> \in schema
    /\ pc[p] \in Holding \ {"mark"} => Running(p) \in DOMAIN revs

\* A rollback takes the last rows, and a reset holds every file torn.
Undo(p) ==
    /\ pc[p] \in {"undo", "forget"} =>
          /\ todo[p] \subseteq DOMAIN revs
          /\ \A f \in todo[p], g \in DOMAIN revs \ todo[p] : g < f
          /\ \A i \in 1..row[p] : <<Undone(p), i>> \notin schema
    /\ pc[p] = "drop" => torn = Files

SchemaInv == ~clash => Backed /\ Ledgered /\ \A p \in Procs : Carried(p) /\ Undo(p)

LEMMA SchemaInit == MigratorInit => SchemaInv
<1> SUFFICES ASSUME MigratorInit PROVE SchemaInv
  OBVIOUS
<1>1. schema = {} /\ DOMAIN revs = {} /\ \A p \in Procs : pc[p] = "idle"
  BY DEF MigratorInit
<1> QED
  BY <1>1 DEF SchemaInv, Backed, Ledgered, Carried, Undo, Executing, Holding

\* Nothing another process relies on is lost while nothing is undone.
LEMMA OthersKeep ==
    ASSUME NEW p, Others(p), NEW q \in Procs \ {p}, Carried(q), pc[q] \notin {"undo", "forget", "drop"},
           torn' = torn, schema \subseteq schema', DOMAIN revs \subseteq DOMAIN revs'
    PROVE  Carried(q)' /\ Undo(q)'
<1>1. pc'[q] = pc[q] /\ row'[q] = row[q] /\ Running(q)' = Running(q)
  BY DEF Others, Running
<1>2. \A f : InOrder(f) => InOrder(f)'
  BY DEF InOrder, AllIn
<1> QED
  BY <1>1, <1>2 DEF Carried, Undo

LEMMA OthersRest ==
    ASSUME NEW p, Others(p), NEW q \in Procs \ {p}, ~Active(q)
    PROVE  Carried(q)' /\ Undo(q)'
BY DEF Others, Carried, Undo, Executing, Holding, Active, Idle

\* A step that undoes nothing: what is left to show of it is its own part.
LEMMA ForwardStep ==
    ASSUME MigratorTypes, Flags, SchemaInv, ~clash, NEW p \in Procs, Others(p), Active(p),
           torn' = torn, schema \subseteq schema', DOMAIN revs \subseteq DOMAIN revs'
    PROVE  /\ \A q \in Procs \ {p} : Carried(q)' /\ Undo(q)'
           /\ \A f : InOrder(f) => InOrder(f)'
<1>1. ASSUME NEW q \in Procs \ {p} PROVE Carried(q)' /\ Undo(q)'
  <2>1. CASE Active(q)
    <3>1. op[q] \notin Undoing
      BY <2>1 DEF Flags, Alone
    <3>2. Labelled(q)
      BY DEF MigratorTypes, Local
    <3>3. pc[q] \notin {"undo", "forget", "drop"}
      BY <3>1, <3>2 DEF Labelled, Undoing
    <3> QED
      BY <3>3, OthersKeep DEF SchemaInv
  <2>2. CASE ~Active(q)
    BY <2>2, OthersRest
  <2> QED
    BY <2>1, <2>2
<1> QED
  BY <1>1 DEF InOrder, AllIn

\* A row written back says no more than the schema, and nothing before it is missing.
LEMMA RowWritten ==
    ASSUME MigratorTypes, Flags, SchemaInv, ~clash, NEW p \in Procs, Others(p), pc[p] \in Holding,
           Upsert(Running(p), row[p]), torn' = torn, schema' = schema
    PROVE  /\ Backed' /\ Ledgered' /\ Running(p) \in DOMAIN revs'
           /\ \A q \in Procs \ {p} : Carried(q)' /\ Undo(q)'
           /\ \A f : InOrder(f) => InOrder(f)'
<1> DEFINE f == Running(p)
<1>0. /\ MigratorTypeOK /\ f \in Files /\ row[p] \in 0..Total[f] /\ Active(p)
      /\ Backed /\ Ledgered /\ Carried(p)
  <2>1. MigratorTypeOK /\ Counted(p) /\ f \in Files /\ Total[f] \in Nat /\ row[p] \in Nat
    BY AtAFile, FilesFinite DEF MigratorTypes, MigratorTypeOK, Local, Holding
  <2> HIDE DEF f
  <2> QED
    BY <2>1 DEF Counted, f, Active, Idle, Holding, Executing, SchemaInv
<1>1. /\ DOMAIN revs' = DOMAIN revs \cup {f} /\ revs'[f] = row[p]
      /\ \A g \in DOMAIN revs \ {f} : revs'[g] = revs[g]
  BY <1>0, Upserts
<1>2. /\ \A q \in Procs \ {p} : Carried(q)' /\ Undo(q)'
      /\ \A g : InOrder(g) => InOrder(g)'
  BY <1>0, <1>1, ForwardStep
<1>3. /\ f \notin torn => \A i \in 1..row[p] : <<f, i>> \in schema
      /\ \A g \in Files : g < f => InOrder(g)
  BY <1>0 DEF Carried, Holding
<1> HIDE DEF f
<1>4. Backed'
  BY <1>0, <1>1, <1>3 DEF Backed
<1>5. Ledgered'
  BY <1>0, <1>1, <1>2, <1>3 DEF Ledgered
<1> QED
  BY <1>1, <1>2, <1>4, <1>5 DEF f

LEMMA SchemaStep ==
    MigratorTypes /\ Flags /\ SchemaInv /\ [MigratorNext]_migratorVars => SchemaInv'
<1> SUFFICES ASSUME MigratorTypes, Flags, SchemaInv, [MigratorNext]_migratorVars PROVE SchemaInv'
  OBVIOUS
<1>1. CASE UNCHANGED migratorVars
  BY <1>1 DEF migratorVars, SchemaInv, Backed, Ledgered, Carried, Undo, InOrder, AllIn, Running, Undone
<1>2. ASSUME NEW p \in Procs, Step(p) PROVE SchemaInv'
  <2> SUFFICES ASSUME ~clash' PROVE Backed' /\ Ledgered' /\ \A q \in Procs : Carried(q)' /\ Undo(q)'
    BY DEF SchemaInv
  <2>0. /\ MigratorTypeOK /\ Labelled(p) /\ Planned(p) /\ Counted(p) /\ Others(p)
        /\ \A f \in Files : f \in Nat /\ Total[f] \in Nat \ {0}
        /\ schema \subseteq Stmts \cup {Ledger} /\ DOMAIN revs \subseteq Files /\ row[p] \in Nat
        /\ \A f \in DOMAIN revs : revs[f] \in 0..Total[f]
    BY <1>2, OthersStay, FilesFinite DEF MigratorTypes, MigratorTypeOK, Local
  <2>a. ~clash
    <3>1. \/ \E o \in Ops : \E n : Start(p, o, n)
          \/ clash' = clash
      BY <1>2, OnceStarted DEF Kept
    <3> QED
      BY <2>0, <3>1, StartDoes DEF MigratorTypeOK
  <2>b. Backed /\ Ledgered /\ Carried(p) /\ Undo(p) /\ \A q \in Procs : Carried(q) /\ Undo(q)
    BY <2>a DEF SchemaInv
  <2>c. /\ pc[p] \in Executing => Running(p) \in Files /\ Running(p) \in todo[p]
        /\ pc[p] \in {"undo", "forget"} => /\ Undone(p) \in Files /\ Undone(p) \in todo[p]
                                           /\ \A f \in todo[p] : f <= Undone(p)
    BY AtAFile
  \* A rollback or a reset is alone.
  <2>d. ASSUME Active(p), op[p] \in Undoing PROVE \A q \in Procs \ {p} : Carried(q)' /\ Undo(q)'
    <3>1. \A q \in Procs \ {p} : ~Active(q)
      BY <2>a, <2>d DEF Flags, Alone
    <3> QED
      BY <2>0, <3>1, OthersRest
  \* A step that leaves the database as it is.
  <2>e. ASSUME schema' = schema, revs' = revs, torn' = torn, Active(p), Carried(p)', Undo(p)'
        PROVE  Backed' /\ Ledgered' /\ \A q \in Procs : Carried(q)' /\ Undo(q)'
    <3>1. \A q \in Procs \ {p} : Carried(q)' /\ Undo(q)'
      BY <2>0, <2>a, <2>e, ForwardStep
    <3> QED
      BY <2>b, <2>e, <3>1 DEF Backed, Ledgered, InOrder, AllIn
  <2>1. ASSUME NEW o \in Ops, NEW n, Start(p, o, n)
        PROVE  Backed' /\ Ledgered' /\ \A q \in Procs : Carried(q)' /\ Undo(q)'
    <3>1. /\ pc'[p] \in {"init", "inspect"} /\ UNCHANGED <<schema, revs, torn>>
      BY <2>0, <2>1, StartDoes
    <3>2. Carried(p)' /\ Undo(p)'
      BY <3>1 DEF Carried, Undo, Executing, Holding
    <3>3. ASSUME NEW q \in Procs \ {p} PROVE Carried(q)' /\ Undo(q)'
      <4>1. pc'[q] = pc[q] /\ row'[q] = row[q] /\ todo'[q] = todo[q] /\ Running(q)' = Running(q) /\ Undone(q)' = Undone(q)
        BY <2>0 DEF Others, Running, Undone
      <4> QED
        BY <2>b, <3>1, <4>1 DEF Carried, Undo, InOrder, AllIn
    <3> QED
      BY <2>b, <3>1, <3>2, <3>3 DEF Backed, Ledgered, InOrder, AllIn
  <2>2. CASE InitLedger(p)
    <3>1. /\ schema' = schema \cup {Ledger} /\ revs' = revs /\ torn' = torn /\ Active(p)
          /\ pc'[p] \in {"read", "plan", "pending"}
      BY <2>0, <2>2, InitLedgerDoes DEF Active, Idle
    <3>2. \A f \in Files : \A i : <<f, i>> \in schema' <=> <<f, i>> \in schema
      BY <3>1, FilesFinite DEF Ledger
    <3>3. \A q \in Procs \ {p} : Carried(q)' /\ Undo(q)'
      BY <2>0, <2>a, <3>1, ForwardStep
    <3>4. Carried(p)' /\ Undo(p)'
      BY <3>1 DEF Carried, Undo, Executing, Holding
    <3>5. Backed' /\ Ledgered'
      BY <2>0, <2>b, <3>1, <3>2 DEF Backed, Ledgered, InOrder, AllIn
    <3> QED
      BY <3>3, <3>4, <3>5
  <2>3. CASE CheckPending(p)
    <3>1. /\ UNCHANGED <<schema, revs, torn>> /\ Active(p) /\ pc'[p] \in {"plan", "ok", "failed"}
      BY <2>0, <2>3, CheckPendingDoes DEF Active, Idle
    <3>2. Carried(p)' /\ Undo(p)'
      BY <3>1 DEF Carried, Undo, Executing, Holding
    <3> QED
      BY <2>e, <3>1, <3>2
  <2>4. CASE Plan(p)
    <3> DEFINE first == FirstOf(PendingFiles, arg[p])
    <3>1. /\ UNCHANGED <<schema, revs, torn>> /\ Active(p) /\ todo'[p] = ToRun(p)
          /\ pc'[p] \in {"load", "failed"} /\ (pc'[p] = "load" => ToRun(p) # {})
      BY <2>0, <2>4, PlanDoes DEF Active, Idle
    <3>2. /\ PendingFiles \subseteq Files
          /\ \A f \in Files \ PendingFiles :
                \E h \in DOMAIN revs : f <= h /\ (f = h => revs[f] = Total[f])
      BY <2>0, PendingOnwards
    <3>3. \A f \in Files \ PendingFiles : InOrder(f)
      <4> SUFFICES ASSUME NEW f \in Files \ PendingFiles PROVE InOrder(f)
        OBVIOUS
      <4>1. PICK h \in DOMAIN revs : f <= h /\ (f = h => revs[f] = Total[f])
        BY <3>2
      <4>2. CASE f = h
        BY <2>b, <4>1, <4>2 DEF Backed, InOrder, AllIn
      <4>3. CASE f < h
        BY <2>b, <4>1, <4>3 DEF Ledgered
      <4> QED
        BY <2>0, <4>1, <4>2, <4>3
    <3>4. ToRun(p) \subseteq PendingFiles /\ \A f \in ToRun(p), g \in PendingFiles : g <= f => g \in ToRun(p)
      <4>1. arg[p] \in Nat
        BY <2>0 DEF MigratorTypeOK
      <4>2. CASE op[p] = "to"
        BY <2>0, <3>2, <4>1, <4>2 DEF ToRun
      <4>3. CASE op[p] # "to"
        BY <3>2, <4>1, <4>3, FirstFiles DEF ToRun
      <4> QED
        BY <4>2, <4>3
    <3>5. ASSUME pc'[p] = "load", NEW f \in Files, f < Running(p)' PROVE InOrder(f)'
      <4>1. Running(p)' \in ToRun(p) /\ \A y \in ToRun(p) : Running(p)' <= y
        BY <3>1, <3>2, <3>4, <3>5, LeastFile DEF Running
      <4>2. f \notin PendingFiles
        BY <2>0, <3>2, <3>4, <3>5, <4>1
      <4> QED
        BY <3>1, <3>3, <4>2 DEF InOrder, AllIn
    <3>6. Carried(p)' /\ Undo(p)'
      BY <3>1, <3>5 DEF Carried, Undo, Executing, Holding
    <3> QED
      BY <2>e, <3>1, <3>6
  <2>5. CASE ReadRow(p)
    <3>1. /\ UNCHANGED <<schema, revs, torn>> /\ Active(p) /\ row'[p] = Stored(Running(p))
          /\ pc[p] = "load" /\ pc'[p] \in {"mark", "failed"} /\ Running(p)' = Running(p)
      BY <2>0, <2>5, ReadRowDoes DEF Active, Idle
    <3>2. Running(p) \notin torn => \A i \in 1..row'[p] : <<Running(p), i>> \in schema
      BY <2>b, <3>1 DEF Stored, Backed
    <3>3. Carried(p)' /\ Undo(p)'
      BY <2>b, <3>1, <3>2 DEF Carried, Undo, Executing, Holding, InOrder, AllIn
    <3> QED
      BY <2>e, <3>1, <3>3
  <2>6. CASE MarkStarted(p) \/ RecordStatement(p)
    <3>1. /\ schema' = schema /\ torn' = torn /\ Active(p) /\ row'[p] = row[p] /\ Running(p)' = Running(p)
          /\ pc[p] \in {"mark", "record"} /\ pc'[p] \in {"statement", "store", "abandon", "failed"}
          /\ Upsert(Running(p), row[p]) \/ (revs' = revs /\ pc'[p] = "failed")
      BY <2>0, <2>6, MarkStartedDoes, RecordStatementDoes DEF Active, Idle
    <3>2. CASE Upsert(Running(p), row[p])
      <4>1. /\ Backed' /\ Ledgered' /\ Running(p) \in DOMAIN revs'
            /\ \A q \in Procs \ {p} : Carried(q)' /\ Undo(q)'
            /\ \A f : InOrder(f) => InOrder(f)'
        BY <2>0, <2>a, <3>1, <3>2, RowWritten DEF Holding, Executing
      <4>2. Carried(p)' /\ Undo(p)'
        BY <2>b, <3>1, <4>1 DEF Carried, Undo, Executing, Holding
      <4> QED
        BY <4>1, <4>2
    <3>3. CASE revs' = revs /\ pc'[p] = "failed"
      BY <2>e, <3>1, <3>3 DEF Carried, Undo, Executing, Holding
    <3> QED
      BY <3>1, <3>2, <3>3
  <2>7. CASE RunStatement(p)
    <3> DEFINE f == Running(p)
    <3>1. /\ revs' = revs /\ torn' = torn /\ Active(p) /\ f' = f /\ pc[p] = "statement"
          /\ \/ schema' = schema /\ row'[p] = row[p] /\ pc'[p] = "abandon"
             \/ schema' = schema \cup {<<f, row[p] + 1>>} /\ row'[p] = row[p] + 1 /\ pc'[p] = "record"
      BY <2>0, <2>7, RunStatementDoes DEF Active, Idle
    <3>2. /\ f \in Files /\ f \in DOMAIN revs
          /\ f \notin torn => \A i \in 1..row[p] : <<f, i>> \in schema
          /\ \A g \in Files : g < f => InOrder(g)
      BY <2>b, <2>c, <3>1 DEF Carried, Executing, Holding
    <3>3. /\ \A q \in Procs \ {p} : Carried(q)' /\ Undo(q)'
          /\ \A g : InOrder(g) => InOrder(g)'
      BY <2>0, <2>a, <3>1, ForwardStep
    <3> HIDE DEF f
    <3>4. f \notin torn => \A i \in 1..row'[p] : <<f, i>> \in schema'
      <4>1. CASE schema' = schema /\ row'[p] = row[p]
        BY <3>2, <4>1
      <4>2. CASE schema' = schema \cup {<<f, row[p] + 1>>} /\ row'[p] = row[p] + 1
        <5>1. \A i \in 1..row'[p] : i \in 1..row[p] \/ i = row[p] + 1
          BY <2>0, <4>2
        <5> QED
          BY <3>2, <4>2, <5>1
      <4> QED
        BY <3>1, <4>1, <4>2
    <3>5. Carried(p)' /\ Undo(p)'
      BY <3>1, <3>2, <3>3, <3>4 DEF Carried, Undo, Executing, Holding, f
    <3>6. Backed'
      BY <2>b, <3>1 DEF Backed
    <3>7. Ledgered'
      <4>1. \A g \in Files, h \in DOMAIN revs' : g < h => InOrder(g)'
        BY <2>b, <3>1, <3>3 DEF Ledgered
      <4>2. \A g \in Files \ torn', i \in Nat : <<g, i>> \in schema' => g \in DOMAIN revs'
        BY <2>b, <3>1, <3>2 DEF Ledgered
      <4>3. \A g \in Files \ torn', i \in Nat \ {0} : <<g, i + 1>> \in schema' => <<g, i>> \in schema'
        <5> SUFFICES ASSUME NEW g \in Files \ torn, NEW i \in Nat \ {0}, <<g, i + 1>> \in schema'
                     PROVE  <<g, i>> \in schema'
          BY <3>1
        <5>1. CASE <<g, i + 1>> \in schema
          BY <2>b, <3>1, <5>1 DEF Ledgered
        <5>2. CASE g = f /\ i + 1 = row[p] + 1
          BY <2>0, <3>1, <3>2, <5>2
        <5> QED
          BY <3>1, <5>1, <5>2
      <4> QED
        BY <4>1, <4>2, <4>3 DEF Ledgered
    <3> QED
      BY <3>3, <3>5, <3>6, <3>7
  <2>8. CASE RefuseStatement(p)
    <3>1. /\ UNCHANGED <<schema, revs, torn>> /\ Active(p) /\ row'[p] = row[p] /\ Running(p)' = Running(p)
          /\ pc[p] = "statement" /\ pc'[p] = "abandon"
      BY <2>0, <2>8, RefuseStatementDoes DEF Active, Idle
    <3>2. Carried(p)' /\ Undo(p)'
      BY <2>b, <3>1 DEF Carried, Undo, Executing, Holding, InOrder, AllIn
    <3> QED
      BY <2>e, <3>1, <3>2
  <2>9. CASE StoreRow(p)
    <3> DEFINE f == Running(p)
    <3>1. /\ schema' = schema /\ torn' = torn /\ Active(p) /\ row'[p] = row[p] /\ todo'[p] = Left(p)
          /\ pc[p] \in {"store", "abandon"} /\ pc'[p] \in {"ok", "load", "failed"}
          /\ pc'[p] = "load" => pc[p] = "store" /\ Left(p) # {}
          /\ Upsert(f, row[p]) \/ revs' = revs
      BY <2>0, <2>9, StoreRowDoes DEF Active, Idle
    <3>2. ASSUME pc'[p] = "load", NEW g \in Files, g < Running(p)' PROVE InOrder(g)
      <4>1. Left(p) \subseteq Files /\ Left(p) \subseteq todo[p] /\ f \notin Left(p)
        BY <2>0 DEF Left, MigratorTypeOK
      <4>2. Running(p)' \in Left(p) /\ \A y \in Left(p) : Running(p)' <= y
        BY <3>1, <3>2, <4>1, LeastFile DEF Running
      <4>3. row[p] = Total[f] /\ f \in Files /\ Total[f] \in Nat
        BY <2>0, <2>c, <3>1, <3>2 DEF Counted, Executing
      <4>4. /\ \A h \in Files : h < f => InOrder(h)
            /\ f \notin torn => \A i \in 1..row[p] : <<f, i>> \in schema
            /\ \A h \in todo[p], k \in Files : f <= k /\ k <= h => k \in todo[p]
        BY <2>0, <2>b, <3>1 DEF Carried, Planned, Executing, Holding
      <4>5. InOrder(f)
        BY <4>3, <4>4 DEF InOrder, AllIn
      <4>6. g \in Nat /\ f \in Nat /\ Running(p)' \in Nat /\ Running(p)' \in todo[p]
        BY <2>0, <4>1, <4>2, <4>3
      <4> HIDE DEF f
      <4>7. CASE g <= f
        BY <4>4, <4>5, <4>6, <4>7
      <4>8. CASE f < g
        <5>1. g \in todo[p]
          BY <3>2, <4>4, <4>6, <4>8
        <5>2. g \in Left(p)
          BY <4>6, <4>8, <5>1 DEF Left, f
        <5> QED
          BY <3>2, <4>2, <4>6, <5>2
      <4> QED
        BY <4>6, <4>7, <4>8
    <3>3. (\A g : InOrder(g) => InOrder(g)') => Carried(p)' /\ Undo(p)'
      BY <3>1, <3>2 DEF Carried, Undo, Executing, Holding
    <3>4. CASE Upsert(f, row[p])
      <4>1. /\ Backed' /\ Ledgered'
            /\ \A q \in Procs \ {p} : Carried(q)' /\ Undo(q)'
            /\ \A g : InOrder(g) => InOrder(g)'
        BY <2>0, <2>a, <3>1, <3>4, RowWritten DEF Holding, Executing
      <4> QED
        BY <3>3, <4>1
    <3>5. CASE revs' = revs
      <4>1. \A g : InOrder(g) => InOrder(g)'
        BY <3>1 DEF InOrder, AllIn
      <4> QED
        BY <2>e, <3>1, <3>3, <3>5, <4>1
    <3> QED
      BY <3>1, <3>4, <3>5
  <2>10. CASE ReadRows(p)
    <3>1. /\ UNCHANGED <<schema, revs, torn>> /\ Active(p) /\ row'[p] = 0 /\ todo'[p] = LastRows(p)
          /\ pc'[p] \in {"ok", "undo", "failed"}
      BY <2>0, <2>10, ReadRowsDoes DEF Active, Idle, Counted
    <3>2. \A f \in LastRows(p), g \in DOMAIN revs \ LastRows(p) : g < f
      <4> SUFFICES ASSUME NEW f \in LastRows(p), NEW g \in DOMAIN revs, f <= g PROVE g \in LastRows(p)
        BY <2>0 DEF LastRows
      <4> DEFINE From(h) == {k \in DOMAIN revs : k >= h}
      <4>1. IsFiniteSet(From(f)) /\ IsFiniteSet(From(g))
        BY <2>0, FilesFinite, FS_Subset
      <4>2. From(g) \subseteq From(f)
        BY <2>0 DEF LastRows
      <4>3. Cardinality(From(g)) <= Cardinality(From(f)) /\ Cardinality(From(g)) \in Nat /\ Cardinality(From(f)) \in Nat
        BY <4>1, <4>2, FS_Subset, FS_CardinalityType
      <4>4. Cardinality(From(f)) <= arg[p] /\ arg[p] \in Nat
        BY <2>0 DEF LastRows, MigratorTypeOK
      <4>5. Cardinality(From(g)) <= arg[p]
        <5> HIDE DEF From
        <5> QED
          BY <4>3, <4>4
      <4> QED
        BY <4>5 DEF LastRows
    <3>3. Carried(p)' /\ Undo(p)'
      BY <3>1, <3>2 DEF Carried, Undo, Executing, Holding, LastRows
    <3> QED
      BY <2>e, <3>1, <3>3
  <2>11. CASE UndoStatement(p)
    <3> DEFINE f == Undone(p)
    <3>1. /\ revs' = revs /\ Active(p) /\ f' = f /\ pc[p] = "undo" /\ todo'[p] = todo[p]
          /\ \/ /\ schema' = schema \ {<<f, row[p] + 1>>} /\ torn' = torn \cup {f}
                /\ row'[p] = row[p] + 1 /\ pc'[p] \in {"undo", "forget"}
             \/ pc'[p] = "failed" /\ UNCHANGED <<schema, torn>>
      BY <2>0, <2>11, UndoStatementDoes DEF Active, Idle
    <3>2. /\ op[p] \in Undoing /\ f \in Files
          /\ \A i \in 1..row[p] : <<f, i>> \notin schema
          /\ todo[p] \subseteq DOMAIN revs
          /\ \A h \in todo[p], g \in DOMAIN revs \ todo[p] : g < h
      BY <2>0, <2>b, <2>c, <3>1 DEF Labelled, Undoing, Undo
    <3> HIDE DEF f
    <3>3. CASE pc'[p] = "failed" /\ UNCHANGED <<schema, torn>>
      BY <2>e, <3>1, <3>3 DEF Carried, Undo, Executing, Holding
    <3>4. CASE /\ schema' = schema \ {<<f, row[p] + 1>>} /\ torn' = torn \cup {f}
               /\ row'[p] = row[p] + 1 /\ pc'[p] \in {"undo", "forget"}
      <4>1. \A g \in Files \ torn' : \A i : g \notin torn /\ (<<g, i>> \in schema' <=> <<g, i>> \in schema)
        BY <3>4
      <4>2. \A g : InOrder(g) => InOrder(g)'
        BY <3>4 DEF InOrder, AllIn
      <4>3. \A i \in 1..row'[p] : <<f, i>> \notin schema'
        <5>1. \A i \in 1..row'[p] : i \in 1..row[p] \/ i = row[p] + 1
          BY <2>0, <3>4
        <5> QED
          BY <3>2, <3>4, <5>1
      <4>4. Undo(p)' /\ Carried(p)'
        BY <3>1, <3>2, <3>4, <4>3 DEF Undo, Carried, Executing, Holding, f
      <4>5. Backed'
        <5> SUFFICES ASSUME NEW g \in DOMAIN revs \ torn', NEW i \in 1..revs[g] PROVE <<g, i>> \in schema'
          BY <3>1 DEF Backed
        <5>1. g \in Files \ torn' /\ g \notin torn
          BY <2>0, <3>4
        <5> QED
          BY <2>b, <4>1, <5>1 DEF Backed
      <4>6. Ledgered'
        <5>1. \A g \in Files, h \in DOMAIN revs' : g < h => InOrder(g)'
          BY <2>b, <3>1, <4>2 DEF Ledgered
        <5>2. \A g \in Files \ torn', i \in Nat : <<g, i>> \in schema' => g \in DOMAIN revs'
          BY <2>b, <3>1, <4>1 DEF Ledgered
        <5>3. \A g \in Files \ torn', i \in Nat \ {0} : <<g, i + 1>> \in schema' => <<g, i>> \in schema'
          BY <2>b, <4>1 DEF Ledgered
        <5> QED
          BY <5>1, <5>2, <5>3 DEF Ledgered
      <4> QED
        BY <2>d, <3>1, <3>2, <4>4, <4>5, <4>6
    <3> QED
      BY <3>1, <3>3, <3>4
  <2>12. CASE DeleteRow(p)
    <3> DEFINE f == Undone(p)
    <3>1. /\ schema' = schema /\ Active(p) /\ pc[p] = "forget"
          /\ \/ /\ revs' = [g \in DOMAIN revs \ {f} |-> revs[g]] /\ torn' = torn \ {f}
                /\ todo'[p] = todo[p] \ {f} /\ row'[p] = 0 /\ pc'[p] \in {"ok", "undo"}
             \/ pc'[p] = "failed" /\ UNCHANGED <<revs, torn>>
      BY <2>0, <2>12, DeleteRowDoes DEF Active, Idle
    <3>2. /\ op[p] \in Undoing /\ f \in Files /\ f \in todo[p] /\ row[p] = Total[f]
          /\ \A i \in 1..row[p] : <<f, i>> \notin schema
          /\ todo[p] \subseteq DOMAIN revs /\ \A h \in todo[p] : h <= f
          /\ \A h \in todo[p], g \in DOMAIN revs \ todo[p] : g < h
      BY <2>0, <2>b, <2>c, <3>1 DEF Labelled, Undoing, Undo, Counted
    <3> HIDE DEF f
    <3>3. CASE pc'[p] = "failed" /\ UNCHANGED <<revs, torn>>
      BY <2>e, <3>1, <3>3 DEF Carried, Undo, Executing, Holding
    <3>4. CASE /\ revs' = [g \in DOMAIN revs \ {f} |-> revs[g]] /\ torn' = torn \ {f}
               /\ todo'[p] = todo[p] \ {f} /\ row'[p] = 0 /\ pc'[p] \in {"ok", "undo"}
      <4>1. \A h \in DOMAIN revs : h <= f
        BY <2>0, <3>2
      <4>2. \A i : <<f, i>> \notin schema
        BY <2>0, <3>2, StatementsOf
      <4>3. \A g \in Files \ {f} : InOrder(g) <=> InOrder(g)'
        BY <3>1, <3>4 DEF InOrder, AllIn
      <4>4. /\ DOMAIN revs' = DOMAIN revs \ {f} /\ \A g \in DOMAIN revs' : revs'[g] = revs[g]
        BY <3>4
      <4>5. Undo(p)' /\ Carried(p)'
        <5>1. todo'[p] \subseteq DOMAIN revs' /\ \A h \in todo'[p], g \in DOMAIN revs' \ todo'[p] : g < h
          BY <3>2, <3>4, <4>4
        <5> QED
          BY <3>4, <5>1 DEF Undo, Carried, Executing, Holding
      <4>6. Backed'
        BY <2>b, <3>1, <3>4, <4>4 DEF Backed
      <4>7. Ledgered'
        <5>1. \A g \in Files, h \in DOMAIN revs' : g < h => InOrder(g)'
          <6> SUFFICES ASSUME NEW g \in Files, NEW h \in DOMAIN revs', g < h PROVE InOrder(g)'
            OBVIOUS
          <6>1. h \in DOMAIN revs /\ g # f
            BY <2>0, <3>2, <4>1, <4>4
          <6> QED
            BY <2>b, <4>3, <6>1 DEF Ledgered
        <5>2. \A g \in Files \ torn', i \in Nat : <<g, i>> \in schema' => g \in DOMAIN revs'
          <6> SUFFICES ASSUME NEW g \in Files \ torn', NEW i \in Nat, <<g, i>> \in schema' PROVE g \in DOMAIN revs'
            OBVIOUS
          <6>1. g # f /\ <<g, i>> \in schema
            BY <3>1, <4>2
          <6>2. g \in Files \ torn
            BY <3>4, <6>1
          <6> QED
            BY <2>b, <4>4, <6>1, <6>2 DEF Ledgered
        <5>3. \A g \in Files \ torn', i \in Nat \ {0} : <<g, i + 1>> \in schema' => <<g, i>> \in schema'
          BY <2>b, <3>1, <3>4, <4>2 DEF Ledgered
        <5> QED
          BY <5>1, <5>2, <5>3 DEF Ledgered
      <4> QED
        BY <2>d, <3>1, <3>2, <4>5, <4>6, <4>7
    <3> QED
      BY <3>1, <3>3, <3>4
  \* While a reset drops what it found, every file is torn.
  <2>f. ASSUME torn' = Files, Active(p), op[p] \in Undoing, Carried(p)', Undo(p)',
               \/ revs' = revs \/ DOMAIN revs' = {}
        PROVE  Backed' /\ Ledgered' /\ \A q \in Procs : Carried(q)' /\ Undo(q)'
    <3>1. Files \ torn' = {} /\ DOMAIN revs' \ torn' = {} /\ \A g \in Files : InOrder(g)'
      BY <2>0, <2>f DEF InOrder
    <3>2. Backed' /\ Ledgered'
      BY <3>1 DEF Backed, Ledgered
    <3> QED
      BY <2>d, <2>f, <3>2
  <2>13. CASE Inspect(p)
    <3>1. torn' = Files /\ revs' = revs /\ pc[p] = "inspect" /\ pc'[p] = "drop" /\ Active(p) /\ op[p] \in Undoing
      BY <2>0, <2>13, InspectDoes DEF Active, Idle, Labelled, Undoing
    <3> QED
      BY <2>f, <3>1 DEF Carried, Undo, Executing, Holding
  <2>14. ASSUME NEW object \in drops[p], Drop(p, object)
         PROVE  Backed' /\ Ledgered' /\ \A q \in Procs : Carried(q)' /\ Undo(q)'
    <3>1. /\ torn' = torn /\ pc[p] = "drop" /\ pc'[p] = "drop" /\ (revs' = revs \/ DOMAIN revs' = {})
          /\ Active(p) /\ op[p] \in Undoing
      BY <2>0, <2>14, DropDoes DEF Active, Idle, Labelled, Undoing
    <3>2. torn' = Files
      BY <2>b, <3>1 DEF Undo
    <3> QED
      BY <2>f, <3>1, <3>2 DEF Carried, Undo, Executing, Holding
  <2>15. CASE RefuseDrop(p) \/ Crash(p)
    <3>1. UNCHANGED <<schema, revs, torn>> /\ Active(p) /\ pc'[p] \in {"failed", "idle"}
      BY <2>0, <2>15, RefuseDropDoes, CrashDoes DEF Active, Idle
    <3> QED
      BY <2>e, <3>1 DEF Carried, Undo, Executing, Holding
  <2>16. CASE DropLedger(p)
    <3>1. /\ torn' = IF schema' = {} THEN {} ELSE torn
          /\ DOMAIN revs' = {} /\ pc[p] = "drop" /\ pc'[p] = "init" /\ Active(p) /\ op[p] \in Undoing
      BY <2>0, <2>16, DropLedgerDoes DEF Active, Idle, Labelled, Undoing
    <3>2. torn = Files
      BY <2>b, <3>1 DEF Undo
    <3>3. Carried(p)' /\ Undo(p)'
      BY <3>1 DEF Carried, Undo, Executing, Holding
    <3>4. CASE schema' # {}
      BY <2>f, <3>1, <3>2, <3>3, <3>4
    <3>5. CASE schema' = {}
      <4>1. Backed' /\ Ledgered'
        BY <3>1, <3>5 DEF Backed, Ledgered
      <4> QED
        BY <2>d, <3>1, <3>3, <4>1
    <3> QED
      BY <3>4, <3>5
  <2> QED
    BY <1>2, <2>1, <2>2, <2>3, <2>4, <2>5, <2>6, <2>7, <2>8, <2>9, <2>10, <2>11, <2>12, <2>13, <2>14, <2>15, <2>16
    DEF Step, Execute, Rollback, Reset
<1> QED
  BY <1>1, <1>2 DEF MigratorNext, Step

LEMMA SchemaKept == MigratorSpec => [](MigratorTypes /\ Flags /\ SchemaInv)
BY MigratorTypesInit, MigratorTypesStep, FlagsInit, FlagsStep, SchemaInit, SchemaStep, PTL DEF MigratorSpec

\* As long as no rollback or reset ran beside another command, the ledger of
\* migrations (the rows Atlas writes) claims no statement that is not in effect, but
\* for the files a rollback or reset that was cut short left behind.
THEOREM LedgerBacked == MigratorSpec => []RowsBacked
<1>1. SchemaInv => RowsBacked
  BY DEF SchemaInv, Backed, RowsBacked
<1> QED
  BY SchemaKept, <1>1, PTL

\* As long as no rollback or reset ran beside another command, a file is begun only
\* when the files before it are whole (RunPending and RunAll go through the sorted
\* directory), unless a rollback or reset that was cut short took one of them apart.
THEOREM FilesInOrder == MigratorSpec => []FileOrder
<1>1. MigratorTypes /\ SchemaInv => FileOrder
  <2> SUFFICES ASSUME MigratorTypes, SchemaInv, ~clash, NEW f \in Files \ torn, NEW g \in Files \ torn,
                      f < g, NEW j \in 1..Total[g], <<g, j>> \in schema
               PROVE  AllIn(f)
    BY DEF FileOrder
  <2>1. j \in Nat
    BY FilesFinite
  <2> QED
    BY <2>1 DEF SchemaInv, Ledgered, InOrder
<1> QED
  BY SchemaKept, <1>1, PTL

-----------------------------------------------------------------------------
(* Commands that run one at a time: the ledger is one statement behind.     *)

\* The last row tells where to go on: the others are of whole files, and no more
\* than one statement is in effect beyond what a row says.
RowsInStep ==
    /\ \A f \in DOMAIN revs \ torn, i \in Nat : <<f, i>> \in schema => i <= revs[f] + 1
    /\ \A f \in DOMAIN revs \ torn, h \in DOMAIN revs : f < h => revs[f] = Total[f]

\* A process goes on from the last row, with the row as it is in the ledger, up
\* to the last file unless it was told where to stop.
InStep(p) ==
    /\ pc[p] \in Executing =>
          /\ \A g \in DOMAIN revs : g <= Running(p) /\ (g < Running(p) /\ g \notin torn => revs[g] = Total[g])
          /\ op[p] # "to" => NFiles \in todo[p]
    /\ pc[p] = "mark" => row[p] = Stored(Running(p))
    /\ pc[p] \in {"statement", "store", "abandon"} => row[p] = revs[Running(p)]
    /\ pc[p] = "record" => row[p] = revs[Running(p)] + 1
    /\ pc[p] = "plan" /\ op[p] # "to" => arg[p] = PendingCount

GapInv == ~overlap => RowsInStep /\ \A p \in Procs : InStep(p)

LEMMA GapInit == MigratorInit => GapInv
<1> SUFFICES ASSUME MigratorInit PROVE GapInv
  OBVIOUS
<1>1. DOMAIN revs = {} /\ \A p \in Procs : pc[p] = "idle"
  BY DEF MigratorInit
<1> QED
  BY <1>1 DEF GapInv, RowsInStep, InStep, Executing

\* A file that is not pending is whole.
LEMMA NotPending ==
    ASSUME MigratorTypes, Backed, Ledgered
    PROVE  \A f \in Files \ PendingFiles : InOrder(f)
<1> SUFFICES ASSUME NEW f \in Files \ PendingFiles PROVE InOrder(f)
  OBVIOUS
<1>0. DOMAIN revs \subseteq Files /\ \A g \in Files : g \in Nat
  BY FilesFinite DEF MigratorTypes, MigratorTypeOK
<1>1. PICK h \in DOMAIN revs : f <= h /\ (f = h => revs[f] = Total[f])
  BY PendingOnwards DEF MigratorTypes, MigratorTypeOK
<1>2. CASE f = h
  BY <1>1, <1>2 DEF Backed, InOrder, AllIn
<1>3. CASE f < h
  BY <1>1, <1>3 DEF Ledgered
<1> QED
  BY <1>0, <1>1, <1>2, <1>3

\* What is run is pending, and nothing pending before it is left out.
LEMMA RunsPending ==
    ASSUME MigratorTypes, NEW p \in Procs
    PROVE  /\ PendingFiles \subseteq Files /\ ToRun(p) \subseteq PendingFiles
           /\ \A f \in ToRun(p), g \in PendingFiles : g <= f => g \in ToRun(p)
<1>1. PendingFiles \subseteq Files /\ arg[p] \in Nat
  BY PendingOnwards DEF MigratorTypes, MigratorTypeOK
<1>2. CASE op[p] = "to"
  BY <1>1, <1>2, FilesFinite DEF ToRun
<1>3. CASE op[p] # "to"
  BY <1>1, <1>3, FirstFiles DEF ToRun
<1> QED
  BY <1>1, <1>2, <1>3

LEMMA GapStep ==
    MigratorTypes /\ Flags /\ SchemaInv /\ GapInv /\ [MigratorNext]_migratorVars => GapInv'
<1> SUFFICES ASSUME MigratorTypes, Flags, SchemaInv, GapInv, [MigratorNext]_migratorVars PROVE GapInv'
  OBVIOUS
<1>1. CASE UNCHANGED migratorVars
  BY <1>1 DEF migratorVars, GapInv, RowsInStep, InStep, Running, Stored, PendingCount, PendingFiles
<1>2. ASSUME NEW p \in Procs, Step(p) PROVE GapInv'
  <2> SUFFICES ASSUME ~overlap' PROVE RowsInStep' /\ \A q \in Procs : InStep(q)'
    BY DEF GapInv
  <2>0. /\ MigratorTypeOK /\ Labelled(p) /\ Planned(p) /\ Counted(p) /\ Others(p)
        /\ \A f \in Files : f \in Nat /\ Total[f] \in Nat \ {0}
        /\ schema \subseteq Stmts \cup {Ledger} /\ DOMAIN revs \subseteq Files /\ row[p] \in Nat
        /\ todo[p] \subseteq Files
        /\ \A f \in DOMAIN revs : revs[f] \in 0..Total[f]
    BY <1>2, OthersStay, FilesFinite DEF MigratorTypes, MigratorTypeOK, Local
  <2>a. ~overlap /\ \A q \in Procs \ {p} : ~Active(q)
    <3>1. CASE \E o \in Ops : \E n : Start(p, o, n)
      BY <2>0, <3>1, StartDoes DEF MigratorTypeOK
    <3>2. CASE Active(p) /\ Kept(p)
      BY <3>2 DEF Kept, Flags, Alone
    <3> QED
      BY <1>2, <3>1, <3>2, OnceStarted
  <2>b. /\ ~clash /\ Backed /\ Ledgered /\ Carried(p) /\ Undo(p)
        /\ RowsInStep /\ InStep(p)
    BY <2>a DEF Flags, SchemaInv, GapInv
  <2>c. pc[p] \in Executing => Running(p) \in Files /\ Running(p) \in todo[p] /\ \A f \in todo[p] : Running(p) <= f
    BY AtAFile
  <2>d. \A q \in Procs \ {p} : InStep(q)'
    BY <2>0, <2>a DEF Others, InStep, Active, Idle, Executing
  <2> SUFFICES RowsInStep' /\ InStep(p)'
    BY <2>d
  <2>1. CASE \/ \E o \in Ops : \E n : Start(p, o, n)
             \/ InitLedger(p) \/ Crash(p) \/ ReadRows(p) \/ RefuseDrop(p)
    <3>1. /\ revs' = revs /\ torn' = torn /\ schema' \subseteq schema \cup {Ledger}
          /\ pc'[p] \in {"init", "inspect", "read", "plan", "pending", "idle", "failed", "ok", "undo"}
          /\ pc'[p] = "plan" => op'[p] = "to"
      BY <2>0, <2>1, StartDoes, InitLedgerDoes, CrashDoes, ReadRowsDoes, RefuseDropDoes DEF Kept
    <3>2. \A f \in Files : \A i : <<f, i>> \in schema' => <<f, i>> \in schema
      BY <3>1, FilesFinite DEF Ledger
    <3>3. RowsInStep'
      BY <2>0, <2>b, <3>1, <3>2 DEF RowsInStep
    <3> QED
      BY <3>1, <3>3 DEF InStep, Executing
  <2>2. CASE CheckPending(p)
    <3>1. UNCHANGED <<schema, revs, torn>> /\ pc'[p] \in {"plan", "ok", "failed"} /\ arg'[p] = PendingCount
      BY <2>0, <2>2, CheckPendingDoes
    <3> QED
      BY <2>b, <3>1 DEF RowsInStep, InStep, Executing, PendingCount, PendingFiles
  <2>3. CASE Plan(p)
    <3>1. /\ UNCHANGED <<schema, revs, torn>> /\ todo'[p] = ToRun(p) /\ op'[p] = op[p] /\ pc[p] = "plan"
          /\ pc'[p] \in {"load", "failed"} /\ (pc'[p] = "load" => ToRun(p) # {})
      BY <2>0, <2>3, PlanDoes DEF Kept
    <3>2. /\ \A f \in PendingFiles, g \in DOMAIN revs : g <= f
          /\ \A f \in Files \ PendingFiles :
                \E h \in DOMAIN revs : f <= h /\ (f = h => revs[f] = Total[f])
          /\ PendingFiles # {} => NFiles \in PendingFiles
          /\ PendingFiles \subseteq Files /\ PendingCount \in Nat
      BY <2>0, PendingOnwards
    <3>3. ASSUME pc'[p] = "load", NEW g \in DOMAIN revs
          PROVE  g <= Running(p)' /\ (g < Running(p)' /\ g \notin torn => revs[g] = Total[g])
      <4>1. Running(p)' \in ToRun(p) /\ \A y \in ToRun(p) : Running(p)' <= y
        BY <3>1, <3>2, <3>3, RunsPending, LeastFile DEF Running
      <4>2. Running(p)' \in PendingFiles
        BY <4>1, RunsPending
      <4>3. ASSUME g < Running(p)', g \notin torn PROVE revs[g] = Total[g]
        <5>1. g \notin PendingFiles
          BY <2>0, <3>2, <4>1, <4>2, <4>3, RunsPending
        <5>2. PICK h \in DOMAIN revs : g <= h /\ (g = h => revs[g] = Total[g])
          BY <2>0, <3>2, <5>1
        <5> QED
          BY <2>0, <2>b, <4>3, <5>2 DEF RowsInStep
      <4> QED
        BY <3>2, <4>2, <4>3
    <3>4. ASSUME pc'[p] = "load", op[p] # "to" PROVE NFiles \in ToRun(p)
      <4>1. arg[p] = PendingCount
        BY <2>b, <3>1, <3>4 DEF InStep
      <4>2. ToRun(p) = PendingFiles
        BY <3>2, <3>4, <4>1, FirstFiles DEF ToRun, PendingCount
      <4> QED
        BY <3>1, <3>2, <3>4, <4>2
    <3>5. InStep(p)'
      BY <3>1, <3>3, <3>4 DEF InStep, Executing
    <3> QED
      BY <2>b, <3>1, <3>5 DEF RowsInStep
  <2>4. CASE ReadRow(p)
    <3>1. /\ UNCHANGED <<schema, revs, torn>> /\ todo'[p] = todo[p] /\ op'[p] = op[p] /\ pc[p] = "load"
          /\ Running(p)' = Running(p) /\ row'[p] = Stored(Running(p)) /\ pc'[p] \in {"mark", "failed"}
      BY <2>0, <2>4, ReadRowDoes DEF Kept
    <3>2. Stored(Running(p))' = Stored(Running(p))
      BY <3>1 DEF Stored
    <3>3. RowsInStep'
      BY <2>b, <3>1 DEF RowsInStep
    <3> QED
      BY <2>b, <3>1, <3>2, <3>3 DEF InStep, Executing
  \* A row written with what it said, or with the one statement more that was run.
  <2>5. ASSUME pc[p] \in Holding, Upsert(Running(p), row[p]), schema' = schema, torn' = torn,
               Running(p) \in DOMAIN revs => row[p] \in {revs[Running(p)], revs[Running(p)] + 1}
        PROVE  /\ RowsInStep' /\ revs'[Running(p)] = row[p]
               /\ \A g \in DOMAIN revs' : g <= Running(p) /\ (g < Running(p) /\ g \notin torn => revs'[g] = Total[g])
    <3> DEFINE f == Running(p)
    <3>1. f \in Files /\ f \in Nat /\ row[p] \in 0..Total[f] /\ \A i : <<f, i>> \in schema => i \in 1..Total[f]
      <4>1. f \in Files
        BY <2>c, <2>5 DEF Holding
      <4>2. row[p] <= Total[f]
        BY <2>0, <2>5 DEF Counted
      <4> HIDE DEF f
      <4> QED
        BY <2>0, <4>1, <4>2, StatementsOf
    <3>2. /\ DOMAIN revs' = DOMAIN revs \cup {f} /\ revs'[f] = row[p]
          /\ \A g \in DOMAIN revs \ {f} : revs'[g] = revs[g]
      BY <2>0, <2>5, <3>1, Upserts
    <3>3. \A g \in DOMAIN revs : g <= f /\ (g < f /\ g \notin torn => revs[g] = Total[g])
      BY <2>b, <2>5 DEF InStep, Holding
    <3> HIDE DEF f
    <3>4. \A g \in DOMAIN revs' : g <= f /\ (g < f /\ g \notin torn => revs'[g] = Total[g])
      BY <2>0, <3>1, <3>2, <3>3
    <3>5. \A g \in DOMAIN revs' \ torn', i \in Nat : <<g, i>> \in schema' => i <= revs'[g] + 1
      <4> SUFFICES ASSUME NEW g \in DOMAIN revs' \ torn, NEW i \in Nat, <<g, i>> \in schema PROVE i <= revs'[g] + 1
        BY <2>5
      <4>1. CASE g # f
        BY <2>b, <3>2, <4>1 DEF RowsInStep
      <4>2. CASE g = f /\ f \in DOMAIN revs
        <5>1. i <= revs[f] + 1 /\ revs[f] \in Nat
          BY <2>0, <2>b, <4>2 DEF RowsInStep
        <5> QED
          BY <2>5, <3>1, <3>2, <4>2, <5>1 DEF f
      <4>3. CASE g = f /\ f \notin DOMAIN revs
        BY <2>b, <3>1, <4>3 DEF Ledgered
      <4> QED
        BY <4>1, <4>2, <4>3
    <3>6. \A g \in DOMAIN revs' \ torn', h \in DOMAIN revs' : g < h => revs'[g] = Total[g]
      <4> SUFFICES ASSUME NEW g \in DOMAIN revs' \ torn, NEW h \in DOMAIN revs', g < h PROVE revs'[g] = Total[g]
        BY <2>5
      <4>1. CASE h = f
        BY <3>4, <4>1
      <4>2. CASE h # f
        <5>1. h \in DOMAIN revs /\ h \in Nat /\ h <= f /\ g \in Nat
          BY <2>0, <3>1, <3>2, <3>3, <4>2
        <5>2. g # f /\ g \in DOMAIN revs
          BY <3>1, <3>2, <4>2, <5>1
        <5> QED
          BY <2>b, <3>2, <5>1, <5>2 DEF RowsInStep
      <4> QED
        BY <4>1, <4>2
    <3> QED
      BY <3>2, <3>4, <3>5, <3>6 DEF RowsInStep, f
  <2>6. CASE MarkStarted(p) \/ RecordStatement(p)
    <3>1. /\ schema' = schema /\ torn' = torn /\ todo'[p] = todo[p] /\ op'[p] = op[p]
          /\ Running(p)' = Running(p) /\ row'[p] = row[p]
          /\ pc[p] \in {"mark", "record"} /\ pc'[p] \in {"statement", "store", "abandon", "failed"}
          /\ Upsert(Running(p), row[p]) \/ (revs' = revs /\ pc'[p] = "failed")
      BY <2>0, <2>6, MarkStartedDoes, RecordStatementDoes DEF Kept
    <3>2. CASE Upsert(Running(p), row[p])
      <4>1. Running(p) \in DOMAIN revs => row[p] \in {revs[Running(p)], revs[Running(p)] + 1}
        BY <2>b, <3>1 DEF InStep, Stored
      <4>2. /\ RowsInStep' /\ revs'[Running(p)] = row[p]
            /\ \A g \in DOMAIN revs' : g <= Running(p) /\ (g < Running(p) /\ g \notin torn => revs'[g] = Total[g])
        BY <2>5, <3>1, <3>2, <4>1 DEF Holding, Executing
      <4>3. op[p] # "to" => NFiles \in todo[p]
        BY <2>b, <3>1 DEF InStep, Executing
      <4> QED
        BY <3>1, <4>2, <4>3 DEF InStep
    <3>3. CASE revs' = revs /\ pc'[p] = "failed"
      BY <2>b, <3>1, <3>3 DEF RowsInStep, InStep, Executing
    <3> QED
      BY <3>1, <3>2, <3>3
  <2>7. CASE RunStatement(p) \/ RefuseStatement(p)
    <3> DEFINE f == Running(p)
    <3>1. /\ revs' = revs /\ torn' = torn /\ todo'[p] = todo[p] /\ op'[p] = op[p]
          /\ f' = f /\ pc[p] = "statement"
          /\ \/ schema' = schema /\ row'[p] = row[p] /\ pc'[p] = "abandon"
             \/ schema' = schema \cup {<<f, row[p] + 1>>} /\ row'[p] = row[p] + 1 /\ pc'[p] = "record"
      BY <2>0, <2>7, RunStatementDoes, RefuseStatementDoes DEF Kept
    <3>2. row[p] = revs[f]
      BY <2>b, <3>1 DEF InStep
    <3>3. InStep(p)'
      BY <2>b, <3>1, <3>2 DEF InStep, Executing
    <3> HIDE DEF f
    <3>4. ASSUME NEW g \in DOMAIN revs \ torn, NEW i \in Nat, <<g, i>> \in schema' PROVE i <= revs[g] + 1
      <4>1. CASE <<g, i>> \in schema
        BY <2>b, <4>1 DEF RowsInStep
      <4>2. CASE g = f /\ i = row[p] + 1
        BY <2>0, <3>2, <4>2
      <4> QED
        BY <3>1, <3>4, <4>1, <4>2
    <3>5. RowsInStep'
      BY <2>b, <3>1, <3>4 DEF RowsInStep
    <3> QED
      BY <3>3, <3>5
  <2>8. CASE StoreRow(p)
    <3> DEFINE f == Running(p)
    <3>1. /\ schema' = schema /\ torn' = torn /\ row'[p] = row[p] /\ todo'[p] = Left(p) /\ op'[p] = op[p]
          /\ pc[p] \in {"store", "abandon"} /\ pc'[p] \in {"ok", "load", "failed"}
          /\ pc'[p] = "load" => pc[p] = "store" /\ Left(p) # {}
          /\ Upsert(f, row[p]) \/ (revs' = revs /\ pc'[p] = "failed")
      BY <2>0, <2>8, StoreRowDoes DEF Kept
    <3>2. CASE Upsert(f, row[p])
      <4>1. /\ RowsInStep' /\ revs'[f] = row[p]
            /\ \A g \in DOMAIN revs' : g <= f /\ (g < f /\ g \notin torn => revs'[g] = Total[g])
        <5>1. row[p] = revs[f]
          BY <2>b, <3>1 DEF InStep
        <5> QED
          BY <2>5, <3>1, <3>2, <5>1 DEF Holding, Executing
      <4>2. /\ f \in Files /\ f \in todo[p] /\ \A y \in todo[p] : f <= y
            /\ op[p] # "to" => NFiles \in todo[p]
        BY <2>b, <2>c, <3>1 DEF InStep, Executing
      <4>3. Left(p) \subseteq todo[p] /\ Left(p) \subseteq Files /\ Left(p) = todo[p] \ {f}
        BY <2>0 DEF Left
      <4>4. ASSUME pc'[p] = "load"
            PROVE  /\ Running(p)' \in Files /\ f < Running(p)'
                   /\ row[p] = Total[f] /\ (op[p] # "to" => NFiles \in Left(p))
        <5>1. Running(p)' \in Left(p)
          BY <3>1, <4>3, <4>4, LeastFile DEF Running
        <5>2. row[p] = Total[f]
          BY <2>0, <3>1, <4>4 DEF Counted
        <5>3. f # Running(p)' /\ f <= Running(p)' /\ Running(p)' \in Files
          BY <4>2, <4>3, <5>1
        <5>4. NFiles \in Nat /\ \A y \in Files : y <= NFiles
          BY FilesAssumption DEF Files
        <5> HIDE DEF f
        <5>5. f < Running(p)' /\ f # NFiles
          BY <2>0, <4>2, <5>3, <5>4
        <5> QED
          BY <4>2, <4>3, <5>2, <5>3, <5>5
      <4> HIDE DEF f
      <4>5. \A g \in DOMAIN revs' : g \in Nat
        <5>1. DOMAIN revs' = DOMAIN revs \cup {f}
          BY <3>2 DEF Upsert
        <5> QED
          BY <2>0, <4>2, <5>1
      <4>6. ASSUME pc'[p] = "load", NEW g \in DOMAIN revs'
            PROVE  g <= Running(p)' /\ (g < Running(p)' /\ g \notin torn => revs'[g] = Total[g])
        <5>1. g \in Nat /\ f \in Nat /\ Running(p)' \in Nat /\ g <= f
          BY <2>0, <4>1, <4>2, <4>4, <4>5, <4>6
        <5>2. g = f \/ g < f
          BY <5>1
        <5> QED
          BY <4>1, <4>4, <4>6, <5>1, <5>2
      <4> QED
        BY <3>1, <4>1, <4>4, <4>6 DEF InStep, Executing
    <3>3. CASE revs' = revs /\ pc'[p] = "failed"
      BY <2>b, <3>1, <3>3 DEF RowsInStep, InStep, Executing
    <3> QED
      BY <3>1, <3>2, <3>3
  <2>9. CASE UndoStatement(p)
    <3>1. /\ revs' = revs /\ torn \subseteq torn' /\ schema' \subseteq schema /\ pc'[p] \in {"undo", "forget", "failed"}
      BY <2>0, <2>9, UndoStatementDoes
    <3> QED
      BY <2>b, <3>1 DEF RowsInStep, InStep, Executing
  <2>10. CASE DeleteRow(p)
    <3>1. /\ schema' = schema /\ pc'[p] \in {"undo", "ok", "failed"}
          /\ DOMAIN revs' \subseteq DOMAIN revs /\ \A g \in DOMAIN revs' : revs'[g] = revs[g]
          /\ DOMAIN revs' \ torn' \subseteq DOMAIN revs \ torn
      <4>1. /\ schema' = schema /\ pc'[p] \in {"undo", "ok", "failed"}
            /\ \/ revs' = [g \in DOMAIN revs \ {Undone(p)} |-> revs[g]] /\ torn' = torn \ {Undone(p)}
               \/ revs' = revs /\ torn' = torn
        BY <2>0, <2>10, DeleteRowDoes
      <4> QED
        BY <4>1
    <3> QED
      BY <2>b, <3>1 DEF RowsInStep, InStep, Executing
  <2>11. CASE Inspect(p) \/ (\E object \in drops[p] : Drop(p, object)) \/ DropLedger(p)
    <3>1. pc'[p] \in {"drop", "init"} /\ (DOMAIN revs' = {} \/ (revs' = revs /\ torn' = Files))
      BY <2>0, <2>b, <2>11, InspectDoes, DropDoes, DropLedgerDoes DEF Undo
    <3>2. DOMAIN revs' \ torn' = {}
      BY <2>0, <3>1
    <3> QED
      BY <3>1, <3>2 DEF RowsInStep, InStep, Executing
  <2> QED
    BY <1>2, <2>1, <2>2, <2>3, <2>4, <2>6, <2>7, <2>8, <2>9, <2>10, <2>11 DEF Step, Execute, Rollback, Reset
<1> QED
  BY <1>1, <1>2 DEF MigratorNext, Step

MigratorInv == MigratorTypes /\ Flags /\ SchemaInv /\ GapInv

LEMMA MigratorKept == MigratorSpec => []MigratorInv
<1>1. MigratorInit => MigratorInv
  BY MigratorTypesInit, FlagsInit, SchemaInit, GapInit DEF MigratorInv
<1>2. MigratorInv /\ [MigratorNext]_migratorVars => MigratorInv'
  BY MigratorTypesStep, FlagsStep, SchemaStep, GapStep DEF MigratorInv
<1> QED
  BY <1>1, <1>2, PTL DEF MigratorSpec

\* While commands run one at a time, at most one statement is in effect that the
\* ledger does not know of (Atlas's Execute writes the row after each statement).
THEOREM OneStatementBehind == MigratorSpec => []OneStatementGap
<1>1. MigratorInv => OneStatementGap
  <2> SUFFICES ASSUME MigratorInv, ~overlap PROVE OneStatementGap
    BY DEF OneStatementGap
  <2> DEFINE Beyond == {s \in schema \cap Stmts : s[1] \notin torn /\ (s[1] \in DOMAIN revs => s[2] > revs[s[1]])}
  <2>0. /\ Ledgered /\ RowsInStep /\ DOMAIN revs \subseteq Files
        /\ \A f \in Files : f \in Nat /\ Total[f] \in Nat
        /\ \A f \in DOMAIN revs : revs[f] \in 0..Total[f]
    BY FilesFinite DEF MigratorInv, MigratorTypes, MigratorTypeOK, Flags, SchemaInv, GapInv
  <2>1. ASSUME NEW s \in Beyond
        PROVE  \E f \in DOMAIN revs : /\ s = <<f, revs[f] + 1>>
                                      /\ \A h \in DOMAIN revs : h <= f
    <3>0. PICK f \in Files : \E i \in 1..Total[f] : s = <<f, i>>
      BY DEF Stmts
    <3>1. PICK i \in 1..Total[f] : s = <<f, i>>
      BY <3>0
    <3>2. f \notin torn /\ <<f, i>> \in schema /\ (f \in DOMAIN revs => i > revs[f]) /\ i \in Nat
      BY <2>0, <3>1
    <3>3. f \in DOMAIN revs
      BY <2>0, <3>2 DEF Ledgered
    <3>4. i <= revs[f] + 1
      BY <2>0, <3>2, <3>3 DEF RowsInStep
    <3>5. i = revs[f] + 1 /\ revs[f] # Total[f]
      BY <2>0, <3>1, <3>2, <3>3, <3>4
    <3>6. \A h \in DOMAIN revs : ~ (f < h)
      BY <2>0, <3>2, <3>3, <3>5 DEF RowsInStep
    <3> QED
      BY <2>0, <3>1, <3>3, <3>5, <3>6
  <2>2. \A s, t \in Beyond : s = t
    <3> SUFFICES ASSUME NEW s \in Beyond, NEW t \in Beyond PROVE s = t
      OBVIOUS
    <3>1. PICK f \in DOMAIN revs : s = <<f, revs[f] + 1>> /\ \A h \in DOMAIN revs : h <= f
      BY <2>1
    <3>2. PICK g \in DOMAIN revs : t = <<g, revs[g] + 1>> /\ \A h \in DOMAIN revs : h <= g
      BY <2>1
    <3>3. f = g
      BY <2>0, <3>1, <3>2
    <3> QED
      BY <3>1, <3>2, <3>3
  <2> HIDE DEF Beyond
  <2>3. Cardinality(Beyond) <= 1
    <3>1. CASE Beyond = {}
      BY <3>1, FS_EmptySet
    <3>2. CASE Beyond # {}
      <4>1. PICK s \in Beyond : Beyond = {s}
        BY <2>2, <3>2
      <4>2. Cardinality(Beyond) = 1
        BY <4>1, FS_Singleton
      <4> QED
        BY <4>2
    <3> QED
      BY <3>1, <3>2
  <2> QED
    BY <2>3 DEF OneStatementGap, Beyond
<1> QED
  BY MigratorKept, <1>1, PTL

\* A boot that ends well leaves every file in effect, as long as commands run
\* one at a time: whatever the crashes before it left half done.
THEOREM BootsAreCurrent == MigratorSpec => BootMeansCurrent
<1> DEFINE Current == \A p \in Procs : At(p, "ok")' /\ ~At(p, "ok") /\ op[p] = "boot" /\ ~overlap /\ torn = {}
                         => \A f \in Files : AllIn(f)'
<1>1. MigratorInv /\ [MigratorNext]_migratorVars => [Current]_migratorVars
  <2> SUFFICES ASSUME MigratorInv, MigratorNext, NEW p \in Procs, pc'[p] = "ok", pc[p] # "ok",
                      op[p] = "boot", ~overlap, torn = {}, NEW f \in Files
               PROVE  AllIn(f)'
    BY DEF At
  <2>0. /\ MigratorTypes /\ MigratorTypeOK /\ Labelled(p) /\ Planned(p) /\ Counted(p)
        /\ \A g \in Files : g \in Nat /\ g <= NFiles /\ Total[g] \in Nat
        /\ Backed /\ Ledgered /\ Carried(p) /\ InStep(p)
    BY FilesFinite, FilesAssumption
    DEF Files, MigratorInv, MigratorTypes, MigratorTypeOK, Local, Flags, SchemaInv, GapInv
  <2>1. Step(p)
    <3>1. PICK q \in Procs : Step(q)
      BY DEF MigratorNext, Step
    <3>2. q = p
      BY <2>0, <3>1, OthersStay DEF Others
    <3> QED
      BY <3>1, <3>2
  <2>2. CASE CheckPending(p)
    <3>1. schema' = schema /\ PendingFiles = {}
      BY <2>0, <2>2, CheckPendingDoes
    <3> QED
      BY <2>0, <3>1, NotPending DEF InOrder, AllIn
  <2>3. CASE StoreRow(p)
    <3>1. schema' = schema /\ pc[p] = "store" /\ todo[p] \subseteq {Running(p)}
      BY <2>0, <2>3, StoreRowDoes DEF Left
    <3>2. NFiles \in todo[p]
      BY <2>0, <3>1 DEF InStep, Executing
    <3>3. Running(p) = NFiles /\ row[p] = Total[Running(p)]
      BY <2>0, <3>1, <3>2 DEF Counted
    <3>4. /\ \A g \in Files : g < NFiles => AllIn(g)
          /\ \A i \in 1..Total[NFiles] : <<NFiles, i>> \in schema
      BY <2>0, <3>1, <3>3 DEF Carried, Executing, Holding, InOrder
    <3>5. f < NFiles \/ f = NFiles
      BY <2>0, FilesAssumption
    <3> QED
      BY <3>1, <3>4, <3>5 DEF AllIn
  <2>4. CASE Rollback(p) \/ Reset(p)
    <3>1. op[p] \in Undoing
      BY <2>0, <2>4 DEF Rollback, Reset, ReadRows, UndoStatement, DeleteRow, Inspect, Drop, RefuseDrop,
                        DropLedger, At, Labelled, Undoing
    <3> QED
      BY <3>1 DEF Undoing
  <2>5. CASE \/ \E o \in Ops : \E n : Start(p, o, n)
             \/ InitLedger(p) \/ Plan(p) \/ Crash(p)
    <3>1. pc'[p] # "ok"
      BY <2>0, <2>5, StartDoes, InitLedgerDoes, PlanDoes, CrashDoes
    <3> QED
      BY <3>1
  <2>6. CASE ReadRow(p) \/ MarkStarted(p) \/ RunStatement(p) \/ RefuseStatement(p) \/ RecordStatement(p)
    <3>1. pc'[p] # "ok"
      BY <2>0, <2>6, ReadRowDoes, MarkStartedDoes, RunStatementDoes, RefuseStatementDoes, RecordStatementDoes
    <3> QED
      BY <3>1
  <2> QED
    BY <2>1, <2>2, <2>3, <2>4, <2>5, <2>6 DEF Step, Execute
<1>2. [][Current]_migratorVars => BootMeansCurrent
  BY DEF BootMeansCurrent
<1> QED
  BY MigratorKept, <1>1, <1>2, PTL DEF MigratorSpec

-----------------------------------------------------------------------------
(* Boots and nothing else, without a fault: what one began, one completes.  *)

Begun(f) == \E i \in 1..Total[f] : <<f, i>> \in schema

\* A process at file f whose next statement is nobody else's yet.
Ahead(p, f) == /\ pc[p] \in {"statement", "record"} /\ Running(p) = f /\ row[p] >= 1
               /\ <<f, row[p] + 1>> \notin schema

Progress ==
    /\ \A p \in Procs : /\ pc[p] \in {"pending", "plan"} \cup Executing => Ledger \in schema
                        /\ pc[p] = "plan" => arg[p] >= 1
    /\ \A f \in Files : Begun(f) /\ ~AllIn(f) => \E p \in Procs : Ahead(p, f)
    /\ <<1, 1>> \notin schema =>
          /\ \A p \in Procs : pc[p] \in {"idle", "init", "pending", "plan", "load", "mark", "statement"}
          /\ starts > 0 => \E p \in Procs : Active(p)

BootInv == bootsOnly /\ faults = 0 => Progress

LEMMA BootInit == MigratorInit => BootInv
<1> SUFFICES ASSUME MigratorInit PROVE BootInv
  OBVIOUS
<1>1. schema = {} /\ starts = 0 /\ \A p \in Procs : pc[p] = "idle"
  BY DEF MigratorInit
<1> QED
  BY <1>1 DEF BootInv, Progress, Begun, Executing

\* Before its first statement is in effect, the first file is all there is to run.
LEMMA NothingYet ==
    ASSUME MigratorTypes, Backed, Ledgered, torn = {}, <<1, 1>> \notin schema
    PROVE  /\ DOMAIN revs \subseteq {1} /\ \A f \in DOMAIN revs : revs[f] = 0
           /\ PendingFiles # {} /\ PendingCount >= 1
           /\ Ledger \in schema => Readable
<1>1. /\ 1 \in Files /\ Total[1] \in Nat /\ Total[1] >= 1 /\ \A f \in Files : f \in Nat /\ f >= 1
      /\ DOMAIN revs \subseteq Files /\ \A f \in DOMAIN revs : revs[f] \in 0..Total[f]
  BY FilesFinite DEF MigratorTypes, MigratorTypeOK
<1>2. ~AllIn(1)
  BY <1>1 DEF AllIn
<1>3. DOMAIN revs \subseteq {1}
  <2> SUFFICES ASSUME NEW h \in DOMAIN revs, h # 1 PROVE FALSE
    OBVIOUS
  <2>1. 1 < h
    BY <1>1
  <2> QED
    BY <1>1, <1>2, <2>1 DEF Ledgered, InOrder
<1>4. \A f \in DOMAIN revs : revs[f] = 0
  BY <1>1, <1>3 DEF Backed
<1>5. 1 \in PendingFiles
  <2> SUFFICES ASSUME 1 \notin PendingFiles PROVE FALSE
    OBVIOUS
  <2> QED
    BY <1>1, <1>2, NotPending DEF InOrder
<1>6. PendingCount >= 1
  <2>1. PendingFiles \subseteq Files
    BY PendingOnwards DEF MigratorTypes, MigratorTypeOK
  <2>2. IsFiniteSet(PendingFiles)
    BY <2>1, FilesFinite, FS_Subset
  <2>3. Cardinality(PendingFiles) # 0 /\ Cardinality(PendingFiles) \in Nat
    BY <1>5, <2>2, FS_EmptySet, FS_CardinalityType
  <2> QED
    BY <2>3 DEF PendingCount
<1>7. \A g, h \in DOMAIN revs : g = 1 /\ h = 1
  BY <1>3
<1> QED
  BY <1>1, <1>3, <1>4, <1>5, <1>6, <1>7 DEF Readable

LEMMA BootStep ==
    MigratorTypes /\ Flags /\ SchemaInv /\ BootInv /\ [MigratorNext]_migratorVars => BootInv'
<1> SUFFICES ASSUME MigratorTypes, Flags, SchemaInv, BootInv, [MigratorNext]_migratorVars PROVE BootInv'
  OBVIOUS
<1>1. CASE UNCHANGED migratorVars
  BY <1>1 DEF migratorVars, BootInv, Progress, Begun, AllIn, Ahead, Active, Running
<1>2. ASSUME NEW p \in Procs, Step(p) PROVE BootInv'
  <2> SUFFICES ASSUME bootsOnly', faults' = 0 PROVE Progress'
    BY DEF BootInv
  <2>0. /\ MigratorTypeOK /\ Labelled(p) /\ Counted(p) /\ Others(p)
        /\ \A f \in Files : f \in Nat /\ Total[f] \in Nat \ {0}
        /\ row[p] \in Nat /\ faults \in Nat /\ starts \in Nat /\ bootsOnly \in BOOLEAN
    BY <1>2, OthersStay, FilesFinite DEF MigratorTypes, MigratorTypeOK, Local
  <2>a. /\ bootsOnly /\ faults = 0 /\ faults' = faults
        /\ \/ \E o \in {"boot", "load"} : \E n : Start(p, o, n)
           \/ Active(p) /\ Kept(p)
    <3>1. CASE \E o \in Ops : \E n : Start(p, o, n)
      <4>0. PICK o \in Ops : \E n : Start(p, o, n)
        BY <3>1
      <4>1. PICK n : Start(p, o, n)
        BY <4>0
      <4>2. bootsOnly' = (bootsOnly /\ o \in {"boot", "load"}) /\ faults' = faults
        BY <2>0, <4>1, StartDoes
      <4>3. bootsOnly /\ o \in {"boot", "load"} /\ faults = 0
        BY <2>0, <4>2
      <4>4. \E b \in {"boot", "load"} : \E m : Start(p, b, m)
        BY <4>1, <4>3, Zenon
      <4> QED
        BY <4>2, <4>3, <4>4
    <3>2. CASE Active(p) /\ Kept(p) /\ (faults' = faults \/ faults' = faults + 1)
      <4>1. faults = 0 /\ faults' = faults
        BY <2>0, <3>2
      <4>2. bootsOnly
        BY <3>2, Zenon DEF Kept
      <4> QED
        BY <3>2, <4>1, <4>2
    <3> QED
      BY <1>2, <3>1, <3>2, OnceStarted
  <2>b. /\ ~clash /\ torn = {} /\ op[p] \in {"boot", "load"}
        /\ Backed /\ Ledgered /\ Carried(p) /\ Progress
    BY <2>a DEF Flags, SchemaInv, BootInv
  <2>c. pc[p] \in Executing => Running(p) \in Files
    BY AtAFile
  <2>d. \A q \in Procs \ {p} : /\ pc'[q] = pc[q] /\ row'[q] = row[q] /\ arg'[q] = arg[q]
                               /\ Running(q)' = Running(q) /\ Active(q)' = Active(q)
    BY <2>0 DEF Others, Running, Active
  <2>f. 1 \in Files /\ (<<1, 1>> \notin schema => ~AllIn(1)) /\ \A g \in Files : g >= 1
    BY FilesFinite DEF AllIn
  \* What is left to show when the step puts no statement into effect.
  <2>e. ASSUME schema' = schema \/ schema' = schema \cup {Ledger},
               pc'[p] \in {"pending", "plan"} \cup Executing => Ledger \in schema',
               pc'[p] = "plan" => arg'[p] >= 1,
               \A f \in Files : Ahead(p, f) => Ahead(p, f)',
               <<1, 1>> \notin schema => pc'[p] \in {"init", "pending", "plan", "load", "mark", "statement"}
        PROVE  Progress'
    <3>1. \A f \in Files : \A i : <<f, i>> \in schema' <=> <<f, i>> \in schema
      BY <2>e, FilesFinite DEF Ledger
    <3>2. \A q \in Procs : /\ pc'[q] \in {"pending", "plan"} \cup Executing => Ledger \in schema'
                           /\ pc'[q] = "plan" => arg'[q] >= 1
      BY <2>b, <2>d, <2>e DEF Progress
    <3>3. ASSUME NEW f \in Files, Begun(f)', ~AllIn(f)' PROVE \E q \in Procs : Ahead(q, f)'
      <4>1. Begun(f) /\ ~AllIn(f)
        BY <3>1, <3>3 DEF Begun, AllIn
      <4>2. PICK q \in Procs : Ahead(q, f)
        BY <2>b, <4>1 DEF Progress
      <4>3. q # p => Ahead(q, f)'
        BY <2>d, <3>1, <4>2 DEF Ahead
      <4> QED
        BY <2>e, <4>2, <4>3
    <3>4. ASSUME <<1, 1>> \notin schema'
          PROVE  /\ \A q \in Procs : pc'[q] \in {"idle", "init", "pending", "plan", "load", "mark", "statement"}
                 /\ \E q \in Procs : Active(q)'
      <4>1. <<1, 1>> \notin schema
        BY <3>1, <3>4, FilesFinite
      <4>2. Active(p)'
        BY <2>e, <4>1 DEF Active, Idle
      <4> QED
        BY <2>b, <2>d, <2>e, <4>1, <4>2 DEF Progress
    <3> QED
      BY <3>2, <3>3, <3>4 DEF Progress
  <2>1. ASSUME NEW o \in {"boot", "load"}, NEW n, Start(p, o, n) PROVE Progress'
    <3>1. schema' = schema /\ pc'[p] = "init" /\ pc[p] \in Idle
      BY <2>0, <2>1, StartDoes
    <3>2. \A f \in Files : ~Ahead(p, f)
      BY <3>1 DEF Ahead, Idle
    <3> QED
      BY <2>e, <3>1, <3>2 DEF Executing
  <2>2. CASE InitLedger(p)
    <3>1. schema' = schema \cup {Ledger} /\ pc'[p] = "pending" /\ pc[p] = "init"
      BY <2>0, <2>b, <2>2, InitLedgerDoes
    <3>2. \A f \in Files : ~Ahead(p, f)
      BY <3>1 DEF Ahead
    <3> QED
      BY <2>e, <3>1, <3>2 DEF Executing
  <2>3. CASE CheckPending(p)
    <3>1. /\ schema' = schema /\ pc[p] = "pending" /\ arg'[p] = PendingCount
          /\ pc'[p] = IF ~Readable THEN "failed"
                      ELSE IF PendingFiles # {} THEN "plan"
                      ELSE IF op[p] = "boot" THEN "ok" ELSE "failed"
      BY <2>0, <2>3, CheckPendingDoes
    <3>2. Ledger \in schema
      BY <2>b, <3>1 DEF Progress
    <3>3. PendingFiles # {} => PendingCount >= 1
      <4>1. PendingFiles \subseteq Files
        BY <2>0, PendingOnwards DEF MigratorTypeOK
      <4>2. IsFiniteSet(PendingFiles)
        BY <4>1, FilesFinite, FS_Subset
      <4>3. PendingFiles # {} => Cardinality(PendingFiles) # 0 /\ Cardinality(PendingFiles) \in Nat
        BY <4>2, FS_EmptySet, FS_CardinalityType
      <4> QED
        BY <4>3 DEF PendingCount
    <3>4. \A f \in Files : ~Ahead(p, f)
      BY <3>1 DEF Ahead
    <3>5. <<1, 1>> \notin schema => pc'[p] = "plan"
      BY <2>b, <3>1, <3>2, NothingYet
    <3> QED
      BY <2>e, <3>1, <3>2, <3>3, <3>4, <3>5 DEF Executing
  <2>4. CASE Plan(p)
    <3>1. /\ schema' = schema /\ pc[p] = "plan"
          /\ pc'[p] = IF Readable /\ ToRun(p) # {} THEN "load" ELSE "failed"
      BY <2>0, <2>4, PlanDoes
    <3>2. Ledger \in schema /\ arg[p] >= 1 /\ arg[p] \in Nat
      BY <2>0, <2>b, <3>1 DEF Progress, MigratorTypeOK
    <3>3. <<1, 1>> \notin schema => pc'[p] = "load"
      <4> SUFFICES ASSUME <<1, 1>> \notin schema PROVE pc'[p] = "load"
        OBVIOUS
      <4>1. Readable /\ PendingFiles # {}
        BY <2>b, <3>2, NothingYet
      <4>2. PendingFiles \subseteq Files
        BY <2>0, PendingOnwards DEF MigratorTypeOK
      <4>3. Least(PendingFiles) \in ToRun(p)
        BY <2>b, <3>2, <4>1, <4>2, FirstFiles DEF ToRun
      <4> QED
        BY <3>1, <4>1, <4>3
    <3>4. \A f \in Files : ~Ahead(p, f)
      BY <3>1 DEF Ahead
    <3> QED
      BY <2>e, <3>1, <3>2, <3>3, <3>4 DEF Executing
  <2>5. CASE ReadRow(p)
    <3>1. schema' = schema /\ pc[p] = "load" /\ pc'[p] = IF Ledger \in schema THEN "mark" ELSE "failed"
      BY <2>0, <2>5, ReadRowDoes
    <3>2. Ledger \in schema
      BY <2>b, <3>1 DEF Progress, Executing
    <3>3. \A f \in Files : ~Ahead(p, f)
      BY <3>1 DEF Ahead
    <3> QED
      BY <2>e, <3>1, <3>2, <3>3
  <2>6. CASE MarkStarted(p)
    <3>1. /\ schema' = schema /\ pc[p] = "mark" /\ pc'[p] \in {"store", "statement", "abandon", "failed"}
          /\ Ledger \in schema => \/ pc'[p] = IF row[p] = Total[Running(p)] THEN "store" ELSE "statement"
                                  \/ pc'[p] = "abandon" /\ row[p] > 0
      BY <2>0, <2>6, MarkStartedDoes
    <3>2. Ledger \in schema
      BY <2>b, <3>1 DEF Progress, Executing
    <3>3. <<1, 1>> \notin schema => pc'[p] = "statement"
      <4> SUFFICES ASSUME <<1, 1>> \notin schema PROVE pc'[p] = "statement"
        OBVIOUS
      <4>1. Running(p) \in Files /\ 1 \in Files /\ ~AllIn(1) /\ Running(p) >= 1
        BY <2>c, <2>f, <3>1 DEF Executing
      <4>2. Running(p) = 1
        BY <2>0, <2>b, <3>1, <4>1 DEF Carried, Executing, InOrder
      <4>3. row[p] = 0
        BY <2>0, <2>b, <3>1, <4>2 DEF Carried, Executing, Holding
      <4> QED
        BY <2>0, <3>1, <3>2, <4>1, <4>3
    <3>4. \A f \in Files : ~Ahead(p, f)
      BY <3>1 DEF Ahead
    <3> QED
      BY <2>e, <3>1, <3>2, <3>3, <3>4
  <2>7. CASE RecordStatement(p)
    <3>1. /\ schema' = schema /\ pc[p] = "record" /\ row'[p] = row[p] /\ Running(p)' = Running(p)
          /\ pc'[p] \in {"store", "statement", "failed"}
          /\ Ledger \in schema => pc'[p] = IF row[p] = Total[Running(p)] THEN "store" ELSE "statement"
      BY <2>0, <2>7, RecordStatementDoes
    <3>2. Ledger \in schema /\ <<1, 1>> \in schema
      BY <2>b, <3>1 DEF Progress, Executing
    <3>3. CASE row[p] # Total[Running(p)]
      <4>1. \A f \in Files : Ahead(p, f) => Ahead(p, f)'
        BY <3>1, <3>2, <3>3 DEF Ahead
      <4> QED
        BY <2>e, <3>1, <3>2, <3>3, <4>1
    \* With its last statement the file is whole: nobody need be ahead in it.
    <3>4. CASE row[p] = Total[Running(p)]
      <4>1. AllIn(Running(p))
        BY <2>b, <3>1, <3>4 DEF Carried, Executing, Holding, AllIn
      <4>2. \A f \in Files : Begun(f)' /\ ~AllIn(f)' => \E q \in Procs : Ahead(q, f)'
        <5> SUFFICES ASSUME NEW f \in Files, Begun(f)', ~AllIn(f)' PROVE \E q \in Procs : Ahead(q, f)'
          OBVIOUS
        <5>1. Begun(f) /\ ~AllIn(f)
          BY <3>1 DEF Begun, AllIn
        <5>2. PICK q \in Procs : Ahead(q, f)
          BY <2>b, <5>1 DEF Progress
        <5>3. q # p
          BY <4>1, <5>1, <5>2 DEF Ahead
        <5> QED
          BY <2>d, <3>1, <5>2, <5>3 DEF Ahead
      <4> QED
        BY <2>b, <2>d, <3>1, <3>2, <4>2 DEF Progress
    <3> QED
      BY <3>3, <3>4
  <2>8. CASE RunStatement(p)
    <3> DEFINE f == Running(p)
    <3>1. /\ f' = f /\ pc[p] = "statement"
          /\ \/ <<f, row[p] + 1>> \in schema /\ schema' = schema /\ pc'[p] = "abandon"
             \/ /\ <<f, row[p] + 1>> \notin schema /\ schema' = schema \cup {<<f, row[p] + 1>>}
                /\ row'[p] = row[p] + 1 /\ pc'[p] = "record"
      BY <2>0, <2>8, RunStatementDoes
    <3>2. Ledger \in schema /\ f \in Files
      BY <2>b, <2>c, <3>1 DEF Progress, Executing
    <3>3. CASE <<f, row[p] + 1>> \in schema /\ schema' = schema /\ pc'[p] = "abandon"
      <4>1. \A g \in Files : ~Ahead(p, g)
        BY <3>3 DEF Ahead
      <4>2. <<1, 1>> \in schema
        <5> SUFFICES ASSUME <<1, 1>> \notin schema PROVE FALSE
          OBVIOUS
        <5>1. 1 \in Files /\ ~AllIn(1) /\ f >= 1
          BY <2>f, <3>2
        <5>2. f = 1
          BY <2>0, <2>b, <3>1, <3>2, <5>1 DEF Carried, Executing, InOrder
        <5>3. row[p] = 0
          BY <2>0, <2>b, <3>1, <5>2 DEF Carried, Executing, Holding
        <5> QED
          BY <3>3, <5>2, <5>3
      <4> QED
        BY <2>e, <3>1, <3>2, <3>3, <4>1, <4>2
    <3>4. CASE /\ <<f, row[p] + 1>> \notin schema /\ schema' = schema \cup {<<f, row[p] + 1>>}
               /\ row'[p] = row[p] + 1 /\ pc'[p] = "record"
      <4>1. \A g : g = f => Ahead(p, g)'
        <5>1. <<f, row[p] + 1 + 1>> \notin schema
          <6> HIDE DEF f
          <6>1. f \in Files \ torn /\ row[p] + 1 \in Nat \ {0}
            BY <2>0, <2>b, <3>2
          <6>2. \A i \in Nat \ {0} : <<f, i + 1>> \in schema => <<f, i>> \in schema
            BY <2>b, <6>1 DEF Ledgered
          <6> QED
            BY <3>4, <6>1, <6>2
        <5>2. row'[p] >= 1 /\ <<f, row'[p] + 1>> \notin schema'
          <6> HIDE DEF f
          <6> QED
            BY <2>0, <3>4, <5>1
        <5> QED
          BY <3>1, <3>4, <5>2 DEF Ahead
      <4>2. ASSUME NEW g \in Files, Begun(g)', ~AllIn(g)' PROVE \E q \in Procs : Ahead(q, g)'
        <5>1. CASE g = f
          BY <4>1, <5>1
        <5>2. CASE g # f
          <6>1. \A i : <<g, i>> \in schema' <=> <<g, i>> \in schema
            BY <3>4, <5>2
          <6>2. Begun(g) /\ ~AllIn(g)
            BY <4>2, <6>1 DEF Begun, AllIn
          <6>3. PICK q \in Procs : Ahead(q, g)
            BY <2>b, <6>2 DEF Progress
          <6>4. q # p
            BY <5>2, <6>3 DEF Ahead
          <6> QED
            BY <2>d, <6>1, <6>3, <6>4 DEF Ahead
        <5> QED
          BY <5>1, <5>2
      <4>3. \A q \in Procs : /\ pc'[q] \in {"pending", "plan"} \cup Executing => Ledger \in schema'
                             /\ pc'[q] = "plan" => arg'[q] >= 1
        BY <2>b, <2>d, <3>2, <3>4 DEF Progress
      <4>4. <<1, 1>> \in schema'
        <5> SUFFICES ASSUME <<1, 1>> \notin schema PROVE <<1, 1>> \in schema'
          BY <3>4
        <5>1. 1 \in Files /\ ~AllIn(1) /\ f >= 1
          BY <2>f, <3>2
        <5>2. f = 1
          BY <2>0, <2>b, <3>1, <3>2, <5>1 DEF Carried, Executing, InOrder
        <5>3. row[p] = 0
          BY <2>0, <2>b, <3>1, <5>2 DEF Carried, Executing, Holding
        <5> QED
          BY <3>4, <5>2, <5>3
      <4> QED
        BY <4>2, <4>3, <4>4 DEF Progress
    <3> QED
      BY <3>1, <3>3, <3>4
  <2>9. CASE StoreRow(p)
    <3>1. schema' = schema /\ pc[p] \in {"store", "abandon"} /\ pc'[p] \in {"failed", "ok", "load"}
      BY <2>0, <2>9, StoreRowDoes
    <3>2. Ledger \in schema /\ <<1, 1>> \in schema
      BY <2>b, <3>1 DEF Progress, Executing
    <3>3. \A f \in Files : ~Ahead(p, f)
      BY <3>1 DEF Ahead
    <3> QED
      BY <2>e, <3>1, <3>2, <3>3
  <2>10. ~RefuseStatement(p) /\ ~Crash(p)
    BY <2>0, <2>a, RefuseStatementDoes, CrashDoes
  <2>11. ~Rollback(p) /\ ~Reset(p)
    <3>1. CASE Rollback(p) \/ Reset(p)
      <4>1. op[p] \in Undoing
        BY <2>0, <3>1 DEF Rollback, Reset, ReadRows, UndoStatement, DeleteRow, Inspect, Drop, RefuseDrop,
                          DropLedger, At, Labelled, Undoing
      <4> QED
        BY <2>b, <4>1 DEF Undoing
    <3> QED
      BY <3>1
  <2>12. CASE \E o \in Ops : \E n : Start(p, o, n)
    <3>0. PICK o \in Ops : \E n : Start(p, o, n)
      BY <2>12
    <3>1. PICK n : Start(p, o, n)
      BY <3>0
    <3>2. o \in {"boot", "load"}
      BY <2>0, <3>1, StartDoes
    <3> QED
      BY <2>1, <3>1, <3>2
  <2> QED
    BY <1>2, <2>2, <2>3, <2>4, <2>5, <2>6, <2>7, <2>8, <2>9, <2>10, <2>11, <2>12 DEF Step, Execute
<1> QED
  BY <1>1, <1>2 DEF MigratorNext, Step

\* Replicas that boot at once leave the first file whole and no file half done,
\* whatever they overtake one another by, if no fault stops them.
THEOREM NoFileHalfDone == MigratorSpec => []WholeFiles
<1>1. MigratorInv /\ BootInv => WholeFiles
  <2> SUFFICES ASSUME MigratorInv, BootInv, bootsOnly, starts > 0, faults = 0, \A p \in Procs : ~Active(p)
               PROVE  AllIn(1) /\ \A f \in Files : Begun(f) => AllIn(f)
    BY DEF WholeFiles, Begun
  <2>1. Progress
    BY DEF BootInv
  <2>2. \A p \in Procs, f \in Files : ~Ahead(p, f)
    BY DEF Ahead, Active, Idle
  <2>3. \A f \in Files : Begun(f) => AllIn(f)
    BY <2>1, <2>2 DEF Progress
  <2>4. <<1, 1>> \in schema /\ 1 \in Files /\ 1 \in 1..Total[1]
    BY <2>1, FilesFinite DEF Progress
  <2> QED
    BY <2>3, <2>4 DEF Begun
<1>2. MigratorInit => MigratorInv /\ BootInv
  BY MigratorTypesInit, FlagsInit, SchemaInit, GapInit, BootInit DEF MigratorInv
<1>3. MigratorInv /\ BootInv /\ [MigratorNext]_migratorVars => (MigratorInv /\ BootInv)'
  BY MigratorTypesStep, FlagsStep, SchemaStep, GapStep, BootStep DEF MigratorInv
<1> QED
  BY <1>1, <1>2, <1>3, PTL DEF MigratorSpec

=============================================================================
