----------------------------- MODULE RenderCache -----------------------------
(***************************************************************************)
(* The SSR cache: Flight requests are answered from it or fill it with     *)
(* what they rendered (serveFlight of renderer/react and                   *)
(* renderer/nativersc), mutating API routes, server actions and form       *)
(* actions evict the pages of a resource (internal/webmount.go).           *)
(* cache/memory evicts the least recently used entry when it is full; here *)
(* it may be any.                                                          *)
(*                                                                         *)
(* A path is the sequence of its segments.  What the pages show is the     *)
(* number of changes made so far.                                          *)
(***************************************************************************)
EXTENDS Naturals, Sequences, FiniteSets

CONSTANTS Readers,           \* goroutines serving Flight requests
          Writers,           \* goroutines serving mutations
          Pages,             \* paths of pages
          Targets,           \* paths of mutations, redirects and referers
          None,              \* no path
          StartsWith(_, _),  \* string prefix, on segments
          Revalidate,        \* Route.Revalidate in ticks, 0: no expiry
          FillsAlways,       \* nativersc caches whatever Revalidate is
          Size,              \* capacity of the LRU, 1024 in the code
          MaxChanges         \* bound: how many changes are made

Changes == 0..MaxChanges
Entries == [val : Changes, left : 0..Revalidate]

ASSUME PagesAssumption == IsFiniteSet(Pages)
ASSUME NoneAssumption == None \notin Pages \cup Targets \cup Entries
ASSUME RevalidateAssumption == Revalidate \in Nat
ASSUME FillsAlwaysAssumption == FillsAlways \in BOOLEAN
ASSUME SizeAssumption == Size \in Nat \ {0}
ASSUME MaxChangesAssumption == MaxChanges \in Nat

VARIABLES data,    \* changes made
          entry,   \* the cached entry of each page, or None
          rpc,     \* where each reader is
          rpage,   \* the page it is asked for
          rsaw,    \* the data its render saw
          wpc,     \* where each writer is
          wtarget, \* the path it will invalidate, or None
          wmade,   \* the change it made
          floor,   \* for each page, the last change it was invalidated for
          racing   \* pages that a reader had rendered, and not yet cached, then

readVars == <<rpc, rpage, rsaw>>
writeVars == <<wpc, wtarget, wmade>>
history == <<floor, racing>>
vars == <<data, entry, readVars, writeVars, history>>


Init == /\ data = 0
        /\ entry = [p \in Pages |-> None]
        /\ rpc = [c \in Readers |-> "out"]
        /\ rpage = [c \in Readers |-> None]
        /\ rsaw = [c \in Readers |-> 0]
        /\ wpc = [w \in Writers |-> "out"]
        /\ wtarget = [w \in Writers |-> None]
        /\ wmade = [w \in Writers |-> 0]
        /\ floor = [p \in Pages |-> 0]
        /\ racing = {}

-----------------------------------------------------------------------------
(* cache/memory                                                            *)

Cached == {p \in Pages : entry[p] # None}
Live(e) == Revalidate = 0 \/ e.left > 0

\* lru.Add: another entry goes when there are too many.
Add(p, e) == \/ /\ Cardinality(Cached \cup {p}) <= Size
                /\ entry' = [entry EXCEPT ![p] = e]
             \/ /\ Cardinality(Cached \cup {p}) > Size
                /\ \E q \in Cached \ {p} : entry' = [entry EXCEPT ![p] = e, ![q] = None]

\* resourcePrefix: all of a path but its first segment is dropped.
resourcePrefix(path) == IF Len(path) > 1 THEN <<path[1]>> ELSE path

\* strings.HasPrefix of the page's key and the resource's prefix.
Covers(prefix, page) == \/ prefix = <<>>
                        \/ page # <<>> /\ StartsWith(page[1], prefix[1])

\* Mutant of Affected: only the path itself, not its resource.
AffectedExactly(path) == {p \in Pages : p = path}

Affected(path) == {p \in Pages : Covers(resourcePrefix(path), p)}

Evict(pages) == entry' = [p \in Pages |-> IF p \in pages THEN None ELSE entry[p]]

-----------------------------------------------------------------------------
(* Flight requests                                                         *)

ReadStep(c, l, m) == /\ rpc[c] = l
                     /\ rpc' = [rpc EXCEPT ![c] = m]
                     /\ UNCHANGED <<data, writeVars, history>>

\* Mutant of Hit: an answer from the cache prolongs the entry.
HitSliding(c, p) == /\ ReadStep(c, "out", "out")
                    /\ p \in Cached
                    /\ Live(entry[p])
                    /\ entry' = [entry EXCEPT ![p].left = Revalidate]
                    /\ UNCHANGED <<rpage, rsaw>>

Hit(c, p) == /\ ReadStep(c, "out", "out")
             /\ p \in Cached
             /\ Live(entry[p])
             /\ UNCHANGED <<entry, rpage, rsaw>>

Miss(c, p) == /\ ReadStep(c, "out", "render")
              /\ p \notin Cached
              /\ rpage' = [rpage EXCEPT ![c] = p]
              /\ UNCHANGED <<entry, rsaw>>

\* Get finds an expired entry and unlocks before it removes it.
Expired(c, p) == /\ ReadStep(c, "out", "remove")
                 /\ p \in Cached
                 /\ ~Live(entry[p])
                 /\ rpage' = [rpage EXCEPT ![c] = p]
                 /\ UNCHANGED <<entry, rsaw>>

Remove(c) == /\ ReadStep(c, "remove", "render")
             /\ Evict({rpage[c]})
             /\ UNCHANGED <<rpage, rsaw>>

Render(c) == /\ ReadStep(c, "render", "set")
             /\ rsaw' = [rsaw EXCEPT ![c] = data]
             /\ UNCHANGED <<entry, rpage>>

Fills == FillsAlways \/ Revalidate > 0

\* What was written is cached, after a failure too; nothing when it is empty,
\* or for an HTML page load, which only looks (but fills for a missing page).
Fill(c) == /\ ReadStep(c, "set", "out")
           /\ \/ Fills /\ Add(rpage[c], [val |-> rsaw[c], left |-> Revalidate])
              \/ UNCHANGED entry
           /\ rsaw' = [rsaw EXCEPT ![c] = 0]
           /\ rpage' = [rpage EXCEPT ![c] = None]

Serve(c) == Remove(c) \/ Render(c) \/ Fill(c)
Read(c) == Serve(c) \/ \E p \in Pages : Hit(c, p) \/ Miss(c, p) \/ Expired(c, p)

-----------------------------------------------------------------------------
(* Mutations                                                               *)

\* The handler or action makes its change.  There is nothing to invalidate for
\* a response other than 2xx, a failed action, or an action without redirect.
Mutate(w) == /\ wpc[w] = "out"
             /\ data < MaxChanges
             /\ data' = data + 1
             /\ wmade' = [wmade EXCEPT ![w] = data + 1]
             /\ \E t \in Targets \cup {None} : wtarget' = [wtarget EXCEPT ![w] = t]
             /\ wpc' = [wpc EXCEPT ![w] = "made"]
             /\ UNCHANGED <<entry, readVars, history>>

Return(w) == /\ wpc' = [wpc EXCEPT ![w] = "out"]
             /\ wtarget' = [wtarget EXCEPT ![w] = None]
             /\ wmade' = [wmade EXCEPT ![w] = 0]

Rendered == {rpage[c] : c \in {r \in Readers : rpc[r] = "set"}}

Invalidate(w) ==
  /\ wpc[w] = "made"
  /\ wtarget[w] # None
  /\ Evict(Affected(wtarget[w]))
  \* The pages the invalidation is meant for, from the definition of the prefix.
  /\ LET pages == {p \in Pages : Covers(resourcePrefix(wtarget[w]), p)}
     IN  /\ floor' = [p \in Pages |-> IF p \in pages /\ wmade[w] > floor[p]
                                        THEN wmade[w] ELSE floor[p]]
         /\ racing' = (racing \ pages) \cup (Rendered \cap pages)
  /\ Return(w)
  /\ UNCHANGED <<data, readVars>>

KeepCache(w) == /\ wpc[w] = "made"
                /\ wtarget[w] = None
                /\ Return(w)
                /\ UNCHANGED <<data, entry, readVars, history>>

Write(w) == Mutate(w) \/ Invalidate(w) \/ KeepCache(w)

\* Time passes for the entries.
Older(e) == [e EXCEPT !.left = IF @ > 0 THEN @ - 1 ELSE 0]

Tick == /\ \E p \in Cached : entry[p].left > 0
        /\ entry' = [p \in Pages |-> IF p \in Cached THEN Older(entry[p]) ELSE None]
        /\ UNCHANGED <<data, readVars, writeVars, history>>

-----------------------------------------------------------------------------

Next == \/ \E c \in Readers : Read(c)
        \/ \E w \in Writers : Write(w)
        \/ Tick

Spec == Init /\ [][Next]_vars

\* Renders end, handlers end, time passes.
FairSpec == /\ Spec
            /\ \A c \in Readers : WF_vars(Serve(c))
            /\ \A w \in Writers : WF_vars(Invalidate(w) \/ KeepCache(w))
            /\ WF_vars(Tick)

-----------------------------------------------------------------------------
(* Properties                                                              *)

TypeOK == /\ data \in Changes
          /\ entry \in [Pages -> Entries \cup {None}]
          /\ Cardinality(Cached) <= Size
          /\ rpc \in [Readers -> {"out", "remove", "render", "set"}]
          /\ rpage \in [Readers -> Pages \cup {None}]
          /\ rsaw \in [Readers -> Changes]
          /\ wpc \in [Writers -> {"out", "made"}]
          /\ wtarget \in [Writers -> Targets \cup {None}]
          /\ wmade \in [Writers -> Changes]
          /\ floor \in [Pages -> Changes]
          /\ racing \in SUBSET Pages

\* Once a page was invalidated for a change, the cache holds nothing older of it,
\* unless a request had rendered that page and not cached it yet: whatever requests,
\* expiries, evictions and other mutations are under way.
QuietInvalidationIsClean ==
  \A p \in Cached \ racing : entry[p].val >= floor[p]

\* With an expiry no stale page stays: once the changes end, every entry that is
\* still served shows all of them, also those nothing was invalidated for.
EventuallyFresh == <>[](\A p \in Cached : Live(entry[p]) => entry[p].val = data)

=============================================================================
