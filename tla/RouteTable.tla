------------------------------ MODULE RouteTable ------------------------------
(***************************************************************************)
(* patternmatch: route patterns, their order of specificity, the trie of   *)
(* segments they are inserted into and the search for the route of a URL.  *)
(*                                                                         *)
(* A path is the sequence of its segments' texts, a pattern a sequence of  *)
(* segments with a kind and a value: the text of a static one, the name of *)
(* the parameter of the others.  Texts and names are positive numbers that *)
(* stand for their alphabetical order.  A route is known by its position   *)
(* in the list rs of patterns.                                             *)
(***************************************************************************)
EXTENDS Naturals, Sequences, SequencesExt, Folds

SegStatic == 0
SegDynamic == 1
SegCatchAll == 2
SegOptCatchAll == 3

Segments == [kind : SegStatic..SegOptCatchAll, value : Nat \ {0}]

IsCatchAll(seg) == seg.kind >= SegCatchAll

\* A catch-all consumes the rest: what a pattern says after it is ignored.
ParseSegments(p) ==
    LET catchAlls == {k \in DOMAIN p : IsCatchAll(p[k])}
    IN  IF catchAlls = {} THEN p ELSE SubSeq(p, 1, Min(catchAlls))

\* The segments before a catch-all, which is the last one.
Fixed(segs) == IF segs # <<>> /\ IsCatchAll(Last(segs)) THEN Front(segs) ELSE segs

IsStatic(p) == \A k \in DOMAIN p : p[k].kind = SegStatic

\* Positions where two sequences of segments differ in a field.
Differ(p, q, field) == {k \in DOMAIN p \cap DOMAIN q : p[k][field] # q[k][field]}

MoreSpecific(p, q) ==
    LET kinds  == Differ(p, q, "kind")
        values == Differ(p, q, "value")
    IN  IF kinds # {} THEN p[Min(kinds)].kind < q[Min(kinds)].kind
        ELSE \/ Len(p) > Len(q)
             \/ /\ Len(p) = Len(q)
                /\ values # {}
                /\ p[Min(values)].value < q[Min(values)].value

\* Does route i of rs come before route j: the most specific by its segments up
\* to a catch-all first, equal ones in their order.
Before(rs, i, j) == LET a == ParseSegments(rs[i])
                        b == ParseSegments(rs[j])
                    IN  MoreSpecific(a, b) \/ (~MoreSpecific(b, a) /\ i < j)

\* The route of S that SortBySpecificity puts last.
LastSorted(rs, S) == CHOOSE i \in S : \A j \in S \ {i} : Before(rs, j, i)

\* The function f, and g where f is not defined.
Extend(f, g) == [n \in DOMAIN f \cup DOMAIN g |-> IF n \in DOMAIN f THEN f[n] ELSE g[n]]

-----------------------------------------------------------------------------
(* The trie.  A node is the sequence of the edges that lead to it: a text,  *)
(* or Wild.                                                                 *)

Wild == 0

Edges(segs) == [k \in DOMAIN segs |-> IF segs[k].kind = SegStatic THEN segs[k].value ELSE Wild]

EmptyTable == [nodes |-> {<<>>}, wildName |-> <<>>, catchAll |-> <<>>, catchAllName |-> <<>>,
               optCatchAll |-> <<>>, optCatchAllName |-> <<>>, route |-> <<>>]

\* The first to claim a slot keeps it.
Claim(slots, node, v) == Extend(slots, [n \in {node} |-> v])

Insert(t, rs, i) ==
    LET segs  == ParseSegments(rs[i])
        fixed == Fixed(segs)
        node  == Edges(fixed)
        wilds == {k \in DOMAIN fixed : fixed[k].kind = SegDynamic}
        grown == [t EXCEPT
            !.nodes = @ \cup {SubSeq(node, 1, k) : k \in 0..Len(node)},
            !.wildName = Extend(@, [n \in {SubSeq(node, 1, k - 1) : k \in wilds} |->
                                      fixed[Len(n) + 1].value])]
    IN  IF fixed = segs THEN [grown EXCEPT !.route = Claim(@, node, i)]
        ELSE IF Last(segs).kind = SegCatchAll
             THEN [grown EXCEPT !.catchAll = Claim(@, node, i),
                                !.catchAllName = Claim(@, node, Last(segs).value)]
             ELSE [grown EXCEPT !.optCatchAll = Claim(@, node, i),
                                !.optCatchAllName = Claim(@, node, Last(segs).value)]

\* The routes S of rs are inserted in the order of the sort.
NewRouteTable(rs, S) ==
    MapThenFoldSet(LAMBDA i, t : Insert(t, rs, i), EmptyTable,
                   LAMBDA i : i, LAMBDA T : LastSorted(rs, T), S)

-----------------------------------------------------------------------------
(* The search: static child, wild child, catch-all, optional catch-all,     *)
(* going back when a branch has no route for the rest.                      *)

NoMatch == [found |-> FALSE]
Found(i, params) == [found |-> TRUE, route |-> i, params |-> params]

\* What was found below a wild child, with its parameter; one bound deeper counts.
Bind(m, name, text) == IF m.found THEN [m EXCEPT !.params = Extend(@, [n \in {name} |-> <<text>>])] ELSE m

\* A node at which the path ends.
AtEnd(t, n) == IF n \in DOMAIN t.route THEN Found(t.route[n], <<>>)
               ELSE IF n \in DOMAIN t.optCatchAll THEN Found(t.optCatchAll[n], <<>>)
               ELSE NoMatch

\* A node whose children have no route for the rest.
CatchAll(t, n, rest) ==
    IF n \in DOMAIN t.catchAll THEN Found(t.catchAll[n], [name \in {t.catchAllName[n]} |-> rest])
    ELSE IF n \in DOMAIN t.optCatchAll THEN Found(t.optCatchAll[n], [name \in {t.optCatchAllName[n]} |-> rest])
    ELSE NoMatch

\* Mutant of MatchNode: the branch of a static child is final.
MatchNodeGreedy(t, path) ==
    LET match[n \in t.nodes] ==
          LET rest    == SubSeq(path, Len(n) + 1, Len(path))
              wild    == Append(n, Wild)
              viaWild == IF wild \in t.nodes
                           THEN Bind(match[wild], t.wildName[n], Head(rest)) ELSE NoMatch
          IN  IF rest = <<>> THEN AtEnd(t, n)
              ELSE IF Append(n, Head(rest)) \in t.nodes THEN match[Append(n, Head(rest))]
              ELSE IF viaWild.found THEN viaWild
              ELSE CatchAll(t, n, rest)
    IN  match

\* Mutant of MatchNode: going back from the wild child leaves its parameter behind.
MatchNodeDirty(t, path) ==
    LET match[n \in t.nodes] ==
          LET rest      == SubSeq(path, Len(n) + 1, Len(path))
              static    == Append(n, Head(rest))
              wild      == Append(n, Wild)
              Left(m)   == IF wild \in t.nodes THEN Bind(m, t.wildName[n], Head(rest)) ELSE m
              viaStatic == IF static \in t.nodes THEN match[static] ELSE NoMatch
              viaWild   == IF wild \in t.nodes THEN Left(match[wild]) ELSE NoMatch
          IN  IF rest = <<>> THEN AtEnd(t, n)
              ELSE IF viaStatic.found THEN viaStatic
              ELSE IF viaWild.found THEN viaWild
              ELSE Left(CatchAll(t, n, rest))
    IN  match

\* What is found from each node on, for the rest of the path there.
MatchNode(t, path) ==
    LET match[n \in t.nodes] ==
          LET rest      == SubSeq(path, Len(n) + 1, Len(path))
              static    == Append(n, Head(rest))
              wild      == Append(n, Wild)
              viaStatic == IF static \in t.nodes THEN match[static] ELSE NoMatch
              viaWild   == IF wild \in t.nodes
                             THEN Bind(match[wild], t.wildName[n], Head(rest)) ELSE NoMatch
          IN  IF rest = <<>> THEN AtEnd(t, n)
              ELSE IF viaStatic.found THEN viaStatic
              ELSE IF viaWild.found THEN viaWild
              ELSE CatchAll(t, n, rest)
    IN  match

TableMatch(t, path) == MatchNode(t, path)[<<>>]

-----------------------------------------------------------------------------
(* The reference: the regular expression CompilePattern builds for each     *)
(* pattern, tried on its own.                                               *)

Fits(p, path) ==
    LET segs  == ParseSegments(p)
        fixed == Fixed(segs)
    IN  /\ Len(fixed) <= Len(path)
        /\ \A k \in DOMAIN fixed : fixed[k].kind = SegStatic => fixed[k].value = path[k]
        /\ fixed = segs => Len(path) = Len(segs)
        /\ fixed # segs /\ Last(segs).kind = SegCatchAll => Len(path) >= Len(segs)

\* The parameters a pattern gives for a path it fits.
ParamsOf(p, path) ==
    LET segs   == ParseSegments(p)
        params == {k \in DOMAIN segs : segs[k].kind # SegStatic /\ k <= Len(path)}
    IN  [name \in {segs[k].value : k \in params} |->
           LET k == Max({j \in params : segs[j].value = name})
           IN  IF IsCatchAll(segs[k]) THEN SubSeq(path, k, Len(path)) ELSE <<path[k]>>]

\* That a pattern is over counts as a text.
KindAt(p, k) == IF k \in DOMAIN ParseSegments(p) THEN p[k].kind ELSE SegStatic

\* Segment by segment along the path, p decides before q; that a pattern is
\* over counts more than an optional catch-all.
Beats(p, q, path) ==
    LET differ == {k \in 1..Len(path) + 1 : KindAt(p, k) # KindAt(q, k)}
    IN  differ # {} /\ KindAt(p, Min(differ)) < KindAt(q, Min(differ))

\* Patterns that share the place of a parameter call it the same.
NamesAgree(ps) ==
    \A p, q \in ps :
       LET a == ParseSegments(p)  b == ParseSegments(q) IN
       \A k \in DOMAIN a \cap DOMAIN b :
          /\ Edges(SubSeq(a, 1, k - 1)) = Edges(SubSeq(b, 1, k - 1))
          /\ a[k].kind = b[k].kind
          /\ a[k].kind # SegStatic
          => a[k].value = b[k].value
=============================================================================
