-------------------------------- MODULE Router --------------------------------
(***************************************************************************)
(* The router of gee (src/gee/context/mygee/router.go, tire.go): a tree of *)
(* parts for each method, in which addRoute makes the way of a pattern and *)
(* getRoute looks for the way of a path.                                   *)
(*                                                                         *)
(* A node is the sequence of parts on the way to it; siblings differ in    *)
(* their parts.  The order in which nodes are made is the order of every   *)
(* list of children.  A pattern and a path are sequences of parts, too,    *)
(* without the slashes.  Nothing keeps a part of a path from looking like a*)
(* wildcard.  RouterGroup hands a pattern over as it is, without the prefix*)
(* of the group.                                                           *)
(***************************************************************************)
EXTENDS Integers, Sequences, SequencesExt, FiniteSetsExt

CONSTANTS
    Methods,
    Names,       \* parts without a wildcard
    Params,      \* parts ":name"
    Stars,       \* parts "*name"
    NameOf,      \* the name of a wildcard, part[1:]; None for ":" and "*"
    Patterns,    \* the patterns the program may register
    Paths,       \* the paths of requests
    MaxRoutes,   \* bound on the registrations
    None         \* nil, no name, and the pattern "" of a node that ends no route

Wild == Params \cup Stars
Part == Names \cup Wild

ASSUME RouterAssumption ==
    /\ Names \cap Wild = {} /\ Params \cap Stars = {}
    /\ DOMAIN NameOf = Wild
    /\ Patterns \subseteq Seq(Part) /\ Paths \subseteq Seq(Part)
    /\ None \notin Patterns
    /\ MaxRoutes \in Nat

VARIABLES
    nodes,       \* per method the nodes below the root, in the order they were made
    pattern,     \* per method and node: node.pattern
    handlerOf,   \* router.handlers: per method and pattern the number of the registration
    routes       \* history: the registrations

routerVars == <<nodes, pattern, handlerOf, routes>>

RouterInit ==
    /\ nodes = [m \in Methods |-> <<>>]
    /\ pattern = [m \in Methods |-> [n \in {<<>>} |-> None]]
    /\ handlerOf = [m \in Methods |-> [p \in {} |-> 0]]
    /\ routes = <<>>

-----------------------------------------------------------------------------
\* parsePatterns: nothing counts behind a star.
Parsed(p) ==
    LET stars == {i \in 1..Len(p) : p[i] \in Stars} IN
    IF stars = {} THEN p ELSE SubSeq(p, 1, Min(stars))

\* matchChildren: the places of the children of n that a part leads to.
MatchChildren(m, n, part) ==
    {i \in DOMAIN nodes[m] : /\ Front(nodes[m][i]) = n
                             /\ Last(nodes[m][i]) \in {part} \cup Wild}

\* matchChild in insert: the first of them, or else a new node.
Child(m, n, part) ==
    LET cs == MatchChildren(m, n, part) IN
    IF cs = {} THEN Append(n, part) ELSE nodes[m][Min(cs)]

\* The nodes on insert's way from the root, and the one where it ends.
Way(m, parts) ==
    LET way[i \in 0..Len(parts)] ==
          IF i = 0 THEN <<>> ELSE Child(m, way[i - 1], parts[i])
    IN way
Target(m, parts) == Way(m, parts)[Len(parts)]

\* The nodes that insert makes on the way to n: those below the last one there is.
NewNodes(m, n) ==
    LET known == Max({i \in 0..Len(n) : SubSeq(n, 1, i) \in DOMAIN pattern[m]})
    IN [i \in 1..Len(n) - known |-> SubSeq(n, 1, known + i)]

\* MUTANT: insert makes every node on its way anew.
AddRouteAnew(m, p) ==
    LET n == Target(m, Parsed(p))
        made == NewNodes(m, n) IN
    /\ Len(routes) < MaxRoutes
    /\ nodes' = [nodes EXCEPT ![m] = @ \o made]
    /\ pattern' = [pattern EXCEPT ![m] =
                     [k \in DOMAIN @ \cup Range(made) |->
                        IF k = n THEN p
                        ELSE IF IsPrefix(k, n) THEN None ELSE @[k]]]
    /\ handlerOf' = [handlerOf EXCEPT ![m] =
                       [q \in DOMAIN @ \cup {p} |-> IF q = p THEN Len(routes) + 1 ELSE @[q]]]
    /\ routes' = Append(routes, [method |-> m, pattern |-> p])

\* router.addRoute.
AddRoute(m, p) ==
    LET n == Target(m, Parsed(p))
        made == NewNodes(m, n) IN
    /\ Len(routes) < MaxRoutes
    /\ nodes' = [nodes EXCEPT ![m] = @ \o made]
    /\ pattern' = [pattern EXCEPT ![m] =
                     [k \in DOMAIN @ \cup Range(made) \cup {n} |->
                        IF k = n THEN p ELSE IF k \in DOMAIN @ THEN @[k] ELSE None]]
    /\ handlerOf' = [handlerOf EXCEPT ![m] =
                       [q \in DOMAIN @ \cup {p} |-> IF q = p THEN Len(routes) + 1 ELSE @[q]]]
    /\ routes' = Append(routes, [method |-> m, pattern |-> p])

RouterNext == \E m \in Methods, p \in Patterns : AddRoute(m, p)

RouterSpec == RouterInit /\ [][RouterNext]_routerVars

-----------------------------------------------------------------------------
(* Requests.                                                               *)

EndsInStar(n) == n # <<>> /\ Last(n) \in Stars

\* MUTANT: the first child that matches is the only one that is tried.
SearchFirst(m, path) ==
    LET found[n \in DOMAIN pattern[m]] ==
          IF Len(n) >= Len(path) \/ EndsInStar(n)
          THEN pattern[m][n]
          ELSE LET cs == MatchChildren(m, n, path[Len(n) + 1]) IN
               IF cs = {} THEN None ELSE found[nodes[m][Min(cs)]]
    IN found

\* node.search from every node: the pattern of the node it finds, or None.  A child that
\* leads nowhere is given up for the next.
Found(m, path) ==
    LET found[n \in DOMAIN pattern[m]] ==
          IF Len(n) >= Len(path) \/ EndsInStar(n)
          THEN pattern[m][n]
          ELSE LET ways == {i \in MatchChildren(m, n, path[Len(n) + 1]) :
                              found[nodes[m][i]] # None}
               IN IF ways = {} THEN None ELSE found[nodes[m][Min(ways)]]
    IN found

\* The search of getRoute, from the root.  The path goes through parsePatterns, too, and
\* is cut behind a part that begins with a star.
Search(m, path) == Found(m, Parsed(path))[<<>>]

\* What getRoute binds: the part for ":name", the rest of the path for "*name".  Of two
\* wildcards with one name the later counts, and one without a name binds nothing.
ParamsOf(p, path) ==
    LET parts == Parsed(p)
        cut == Parsed(path)
        bound == {i \in 1..Len(parts) : parts[i] \in Wild /\ NameOf[parts[i]] # None}
        last(v) == Max({i \in bound : NameOf[parts[i]] = v})
    IN [v \in {NameOf[parts[i]] : i \in bound} |->
          IF parts[last(v)] \in Stars THEN SubSeq(cut, last(v), Len(cut)) ELSE <<cut[last(v)]>>]

\* router.handle: the handler it appends, None for that of status 404.
Handle(m, path) ==
    LET p == Search(m, path) IN IF p = None THEN None ELSE handlerOf[m][p]

-----------------------------------------------------------------------------
(* Properties.                                                             *)

\* A path that parts are meant for.
Matches(parts, path) ==
    \/ /\ parts # <<>> /\ Last(parts) \in Stars
       /\ Len(parts) <= Len(path)
       /\ \A i \in 1..Len(parts) - 1 : parts[i] \in {path[i]} \cup Params
    \/ /\ Len(parts) = Len(path)
       /\ \A i \in 1..Len(parts) : parts[i] \in {path[i]} \cup Params

\* The first part in which p and q differ is a name in p and a wildcard in q.
MoreSpecific(p, q) ==
    \E i \in 1..Len(p) :
        /\ i <= Len(q) /\ SubSeq(p, 1, i - 1) = SubSeq(q, 1, i - 1)
        /\ p[i] \in Names /\ q[i] \in Wild

PartsOf(k) == Parsed(routes[k].pattern)
RoutesOf(m) == {k \in 1..Len(routes) : routes[k].method = m}

\* insert sends the parts q into the node of a wildcard of p that q does not have.
Diverts(p, q) ==
    \E i \in 1..Len(p) :
        /\ i <= Len(q) /\ SubSeq(p, 1, i - 1) = SubSeq(q, 1, i - 1)
        /\ p[i] \in Wild /\ q[i] # p[i]

InOrder(m) ==
    \A j, k \in RoutesOf(m) : j < k => ~Diverts(PartsOf(j), PartsOf(k))

\* The route a reader expects for a path: of those that match, the one that has names
\* where others have wildcards, and of equal ones the last.
Expected(m, path) ==
    LET fit == {k \in RoutesOf(m) : Matches(PartsOf(k), path)}
        best == {k \in fit : \A j \in fit : PartsOf(j) = PartsOf(k)
                                              \/ MoreSpecific(PartsOf(k), PartsOf(j))}
    IN IF best = {} THEN None ELSE Max(best)

\* The wildcards of a pattern have names, each its own.
NamesDiffer(parts) ==
    LET wilds == {i \in 1..Len(parts) : parts[i] \in Wild} IN
    /\ \A i \in wilds : NameOf[parts[i]] # None
    /\ \A i, j \in wilds : NameOf[parts[i]] = NameOf[parts[j]] => i = j

\* The path that a pattern stands for when its wildcards are what ps binds.
Filled(parts, ps) ==
    LET one == [i \in 1..Len(parts) |->
                  IF parts[i] \in Params THEN ps[NameOf[parts[i]]][1] ELSE parts[i]]
    IN IF EndsInStar(parts) THEN Front(one) \o ps[NameOf[Last(parts)]] ELSE one

\* As long as no route was registered after one with a wildcard in the place of
\* another part of its own (matchChild would take the one for the other, tire.go:15),
\* a request gets the most specific of all routes that match it, whatever the order
\* of their registration and however far search has to come back, status 404 only if
\* there is none, and, when its wildcards have names of their own, parameters that
\* make up the path again.  The path is the one parsePatterns leaves: "/*a/b" is
\* looked for as "/*a", so that "/:x" serves it, without the "b" (router.go:57).
BestRouteServes ==
    \A m \in Methods, path \in Paths :
        InOrder(m) =>
            /\ Handle(m, path) = Expected(m, Parsed(path))
            /\ LET p == Search(m, path) IN
               p # None /\ NamesDiffer(Parsed(p))
               => Filled(Parsed(p), ParamsOf(p, path)) = Parsed(path)

\* Even where insert mistakes a wildcard for another part: a registration takes
\* requests for its own handler and changes nothing else; no request that was served
\* gets status 404 or falls to a third route.
OnlyNewRouteTakes ==
    [][\A m \in Methods, path \in Paths :
         Handle(m, path)' \in {Handle(m, path), Len(routes')}]_routerVars
===============================================================================
