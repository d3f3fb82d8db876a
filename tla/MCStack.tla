------------------------------- MODULE MCStack -------------------------------
(* Instance of Stack for TLC.  Of paths, the texts a = 1, b = 2 and c = 3, of which *)
(* no pattern has c, and the parameter names x = 1 and y = 2.               *)
EXTENDS Stack, TLC

Text(v) == [kind |-> SegStatic, value |-> v]
Param(v) == [kind |-> SegDynamic, value |-> v]
Rest(v) == [kind |-> SegCatchAll, value |-> v]

MCMethods == {"GET", "POST"}
MCPaths == {<<>>} \cup {<<u>> : u \in 1..3} \cup {<<u, v>> : u, v \in 1..3}
           \cup {<<1, 2, 2>>, <<1, 3, 2>>, <<1, 3, 3>>}

Dir(k, v) == [kind |-> k, value |-> v]
a == Dir("text", 1)
b == Dir("text", 2)
x == Dir("dynamic", 1)
y == Dir("dynamic", 2)
allX == Dir("catchAll", 1)
optX == Dir("optCatchAll", 1)
group == Dir("group", 1)
index == Dir("index", 1)

Trees == {<<>>, <<index>>, <<a>>, <<a, b>>, <<x>>, <<group, y>>, <<x, b>>, <<a, x>>, <<a, y, b>>,
          <<a, allX>>, <<allX>>, <<a, optX>>, <<optX, b>>}

\* Every app of up to n of these pages.
AppsUpTo(n) == {SetToSeq(S) : S \in UNION {kSubset(k, Trees) : k \in 0..n}}

Patterns == {<<Text(1)>>, <<Text(1), Text(2)>>, <<Param(1)>>, <<Text(1), Param(1)>>,
             <<Text(1), Param(2)>>, <<Text(1), Rest(1)>>}
Routes == [method : MCMethods, pattern : Patterns]
ApisUpTo(n) == {SetToSeq(S) : S \in UNION {kSubset(k, Routes) : k \in 0..n}}

\* Every small set of API routes beside two pages, and every small set of
\* pages beside at most one API route.
MCApps == [api : ApisUpTo(3), pages : {<<<<a>>, <<x>>>>}]
          \cup [api : {<<>>, <<[method |-> "GET", pattern |-> <<Text(1)>>]>>}, pages : AppsUpTo(3)]
MCEdited == {<<<<a>>, <<a, x>>, <<allX>>>>}

AllEngines == {"goja", "sobek", "v8go", "qjs", "quickjsgo", "moderncquickjs"}

\* Two injectors, one of whose functions has the same name.
MCInjectors == <<{1, 2}, {2, 3}>>

Symmetry == Permutations(Clients) \cup Permutations(Fetches) \cup Permutations(Visits)
=============================================================================
