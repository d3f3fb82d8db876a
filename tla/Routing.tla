------------------------------- MODULE Routing -------------------------------
(***************************************************************************)
(* From a request to the code that answers it: webframework/std matches    *)
(* the API routes, internal/webmount lets the pages go first for GET and   *)
(* last for what no API route takes, router/nextjs resolves the page in    *)
(* the table of its last scan, which a rebuild replaces meanwhile.         *)
(*                                                                         *)
(* The requests share nothing they write, so one of them stands for all.   *)
(***************************************************************************)
EXTENDS RouteTable, FiniteSets

CONSTANTS Methods,    \* HTTP methods, GET among them
          Paths,      \* URL paths requested, normalised
          Apps,       \* apps: the API routes they register and, in the order of the
                      \* walk, the directories of their pages
          Edited,     \* the directories a later scan may find
          MaxScans    \* bound: later scans

\* The directories on the way to a page file: a route group, index, or the kinds
\* of segment their names spell.
Dirs == [kind : {"group", "index", "text", "dynamic", "catchAll", "optCatchAll"},
         value : Nat \ {0}]

ASSUME MethodsAssumption == "GET" \in Methods
ASSUME PathsAssumption == Paths \subseteq Seq(Nat \ {0})
ASSUME AppsAssumption ==
    Apps \subseteq [api : Seq([method : Methods, pattern : Seq(Segments)]), pages : Seq(Seq(Dirs))]
ASSUME EditedAssumption == Edited \subseteq Seq(Seq(Dirs))

VARIABLES fw,       \* the web framework once Handler built it
          router,   \* the page router: the patterns of its last scan and their tables
          scans,    \* later scans so far
          req,      \* the request in progress
          current   \* every table that was the router's while it was

routingVars == <<fw, router, scans, req, current>>

-----------------------------------------------------------------------------
(* webframework/std                                                         *)

PatternsOf(l) == [i \in DOMAIN l |-> l[i].pattern]
Texts(p) == [k \in DOMAIN p |-> p[k].value]

\* One compiled route per pattern enters the trie.
BuildFramework(l) ==
    LET dynamic == {i \in DOMAIN l : ~IsStatic(l[i].pattern)}
        firsts  == {i \in dynamic : \A j \in dynamic :
                                      l[j].pattern = l[i].pattern => i <= j}
    IN  [routes |-> l, table |-> NewRouteTable(PatternsOf(l), firsts)]

StaticRoutes(f, path) ==
    {i \in DOMAIN f.routes : IsStatic(f.routes[i].pattern) /\ Texts(f.routes[i].pattern) = path}

\* routeMap: every route registered under the pattern the trie found.
TableRoutes(f, path) ==
    LET m == TableMatch(f.table, path)
    IN  IF m.found THEN {j \in DOMAIN f.routes : f.routes[j].pattern = f.routes[m.route].pattern}
                   ELSE {}

OfMethod(f, S, method) == {i \in S : f.routes[i].method = method}

\* Mutant of AllowedMethods: only the static routes are listed.
AllowedStatic(f, path) == {f.routes[i].method : i \in StaticRoutes(f, path)}

AllowedMethods(f, path) ==
    {f.routes[i].method : i \in StaticRoutes(f, path) \cup TableRoutes(f, path)}

Nothing == [kind |-> "nothing"]
Handler(i, params) == [kind |-> "api", route |-> i, params |-> params]
NotAllowed(ms) == [kind |-> "405", allow |-> ms]

ApiMatch(f, method, path) ==
    LET static == OfMethod(f, StaticRoutes(f, path), method)
        table  == OfMethod(f, TableRoutes(f, path), method)
        others == StaticRoutes(f, path) \cup TableRoutes(f, path)
    IN  IF static # {} THEN Handler(Min(static), <<>>)
        ELSE IF table # {} THEN Handler(Min(table), TableMatch(f.table, path).params)
        ELSE IF others # {} THEN NotAllowed(AllowedMethods(f, path))
        ELSE Nothing

-----------------------------------------------------------------------------
(* router/nextjs                                                            *)

\* A directory on the way to a page file: its kind, and its text or name.
RoutePattern(dir) ==
    LET Seg(d) == [kind |-> CASE d.kind = "text" -> SegStatic
                              [] d.kind = "dynamic" -> SegDynamic
                              [] d.kind = "catchAll" -> SegCatchAll
                              [] d.kind = "optCatchAll" -> SegOptCatchAll,
                   value |-> d.value]
        Named(segs, d) == IF d.kind \in {"group", "index"} THEN segs ELSE Append(segs, Seg(d))
    IN  ParseSegments(FoldLeft(Named, <<>>, dir))

\* compileAndPartition: the last of equal static patterns, the first of equal others.
Compile(tree) ==
    LET rs == [i \in DOMAIN tree |-> RoutePattern(tree[i])]
        static == {i \in DOMAIN rs : IsStatic(rs[i])}
    IN  [routes |-> rs,
         static |-> [path \in {Texts(rs[i]) : i \in static} |->
                     Max({i \in static : Texts(rs[i]) = path})],
         table |-> NewRouteTable(rs, DOMAIN rs \ static)]

Page(rs, i, params) == [kind |-> "page", pattern |-> rs[i], params |-> params]
NoPage == [kind |-> "nopage"]

\* What Resolve answers from the static map of one table and the trie of another.
ResolveIn(s, t, path) ==
    LET m == TableMatch(t.table, path)
    IN  IF path \in DOMAIN s.static THEN Page(s.routes, s.static[path], <<>>)
        ELSE IF m.found THEN Page(t.routes, m.route, m.params)
        ELSE NoPage

-----------------------------------------------------------------------------
(* Behaviour                                                                *)

NoRequest == [at |-> "idle"]

RoutingInit(apps) ==
    /\ \E app \in apps : fw = BuildFramework(app.api) /\ router = Compile(app.pages)
    /\ scans = 0
    /\ req = NoRequest
    /\ current = {router}

\* mountApp: a GET route asks the page router first, the fallback asks it for
\* everything no API route took.
Serve(method, path) ==
    LET m == ApiMatch(fw, method, path)
        ask == m.kind = "nothing" \/ (m.kind = "api" /\ method = "GET")
    IN  /\ req.at = "idle"
        /\ req' = [at |-> IF ask THEN "resolving" ELSE "answered",
                   method |-> method, path |-> path, api |-> m, answer |-> m]
        /\ current' = {router}
        /\ UNCHANGED <<fw, router, scans>>

\* Both tables are read under the mutex.
Snapshot == /\ req.at = "resolving"
            /\ req' = [req EXCEPT !.at = "matching", !.answer = router]
            /\ UNCHANGED <<fw, router, scans, current>>

\* Mutant of Resolve: the trie the router has by now.
ResolveNow == /\ req.at = "matching"
              /\ LET page == ResolveIn(req.answer, router, req.path)
                 IN  req' = [req EXCEPT !.at = "answered",
                                        !.answer = IF page = NoPage /\ req.api.kind = "api"
                                                   THEN req.api ELSE page]
              /\ UNCHANGED <<fw, router, scans, current>>

Resolve == /\ req.at = "matching"
           /\ LET page == ResolveIn(req.answer, req.answer, req.path)
              IN  req' = [req EXCEPT !.at = "answered",
                                     !.answer = IF page = NoPage /\ req.api.kind = "api"
                                                THEN req.api ELSE page]
           /\ UNCHANGED <<fw, router, scans, current>>

Done == /\ req.at = "answered"
        /\ req' = NoRequest
        /\ UNCHANGED <<fw, router, scans, current>>

\* A rebuild walks the tree without the lock and installs what it found with it.
ScanRoutes(tree) == /\ scans < MaxScans
                    /\ scans' = scans + 1
                    /\ router' = Compile(tree)
                    /\ current' = current \cup {router'}
                    /\ UNCHANGED <<fw, req>>

RoutingNext == \/ \E method \in Methods, path \in Paths : Serve(method, path)
               \/ Snapshot
               \/ Resolve
               \/ Done
               \/ \E tree \in Edited : ScanRoutes(tree)

-----------------------------------------------------------------------------
(* Properties                                                               *)

\* Is answer right for the page patterns rs?
RightPage(rs, answer, path) ==
    IF answer.kind = "page"
      THEN /\ answer.pattern \in Range(rs)
           /\ Fits(answer.pattern, path)
           /\ ~\E i \in DOMAIN rs : Fits(rs[i], path) /\ Beats(rs[i], answer.pattern, path)
      ELSE ~\E i \in DOMAIN rs : Fits(rs[i], path)

\* Is answer right for the API routes of f?
RightRoute(f, answer, method, path) ==
    LET pattern(i) == f.routes[i].pattern
        fitting == {i \in DOMAIN f.routes : Fits(pattern(i), path)}
    IN  /\ answer.kind = "nothing" => fitting = {}
        /\ answer.kind = "api" =>
             /\ answer.route \in OfMethod(f, fitting, method)
             /\ ~\E i \in OfMethod(f, fitting, method) :
                   Beats(pattern(i), pattern(answer.route), path)

\* The trie answers by specificity, not by what it tried first: std's match runs
\* the most specific route of the request's method, and Resolve (nextjs.go)
\* finds the most specific page and none only if none fits, by one table that
\* was the router's during the request: a scan meanwhile never shows half way.
MostSpecific ==
    /\ req.at # "idle" => RightRoute(fw, req.api, req.method, req.path)
    /\ req.at = "answered" /\ req.answer.kind \in {"page", "nopage"} =>
         \E r \in current : RightPage(r.routes, req.answer, req.path)

\* A page, or that there is none, is the answer of one scan of the page tree that
\* was the router's while the request was under way (Resolve): never what a map of
\* one scan and the trie of another make of it.
OneScan ==
    req.at = "answered" /\ req.answer.kind \in {"page", "nopage"} =>
       \E r \in current : req.answer = ResolveIn(r, r, req.path)

\* A route gets exactly the parameters its own pattern names, whatever the
\* search tried before it, if the patterns agree on the names: where they do
\* not, the trie keeps the name of the pattern inserted first.
OwnParams ==
    /\ req.at = "answered" /\ req.answer.kind = "page" =>
         \E r \in current :
            /\ req.answer = ResolveIn(r, r, req.path)
            /\ NamesAgree(Range(r.routes)) =>
                 req.answer.params = ParamsOf(req.answer.pattern, req.path)
    /\ req.at # "idle" /\ req.api.kind = "api" /\ NamesAgree(Range(PatternsOf(fw.routes))) =>
         req.api.params = ParamsOf(fw.routes[req.api.route].pattern, req.path)

\* A 405 lists exactly the methods with which the same URL is answered.
AllowIsExact ==
    req.at # "idle" /\ req.api.kind = "405" =>
       \A m \in Methods : m \in req.api.allow <=> ApiMatch(fw, m, req.path).kind = "api"
=============================================================================
