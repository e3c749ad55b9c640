----------------------------- MODULE GraphQuery -----------------------------
(***************************************************************************)
(* vella-graph's queries over a folded index: bfs, dfs, reachable and      *)
(* shortest_path (_query.py), dijkstra (_weighted.py) and match            *)
(* (_motif.py).  The index of a view never changes and a query awaits      *)
(* nothing, so a query is one sequential loop over a work list: an action  *)
(* is one pass of that loop.                                               *)
(*                                                                         *)
(* Ids and edge types are naturals in the order of their strings.  Weights *)
(* are naturals, as costs are assumed non-negative.                        *)
(***************************************************************************)
EXTENDS Naturals, FiniteSets, SequencesExt

CONSTANTS
  Node,       \* node ids, with those of dangling endpoints
  NodeType,   \* the folded type of each node, None for a dangling endpoint
  Graph,      \* sets of edge records an index may hold
  Query,      \* the queries asked
  None

Direction == {"out", "in"}

IsEdgeRecord(e) ==
  /\ e.edge_id \in Nat /\ e.from_id \in Node /\ e.to_id \in Node
  /\ e.edge_type \in Nat /\ e.weight \in Nat

IsHop(h) == h.direction \in Direction

\* The override gives the costs of the edges whose bodies are resident.
IsQuery(q) ==
  /\ q.kind \in {"bfs", "dfs", "reachable", "shortest_path", "dijkstra", "match", "neighbors"}
  /\ q.start \in Node /\ q.target \in Node /\ q.depth \in Nat
  /\ q.direction \in Direction \cup {"both"}
  /\ q.hops \in Seq([edge_type : Nat, direction : Direction, to_node_type : STRING \cup {None}])
  /\ q.kind \in {"reachable", "shortest_path", "dijkstra"} => q.edge_type = None
  /\ q.hydrate \in BOOLEAN
  /\ DOMAIN q.override \subseteq Nat /\ \A id \in DOMAIN q.override : q.override[id] \in Nat

ASSUME QueryAssumption ==
  /\ Node \subseteq Nat /\ IsFiniteSet(Node)
  /\ \A g \in Graph : IsFiniteSet(g) /\ \A e \in g : IsEdgeRecord(e)
  /\ \A g \in Graph : \A e, f \in g : e.edge_id = f.edge_id => e = f
  /\ \A q \in Query : IsQuery(q)
  /\ None \notin Nat

VARIABLES
  edges,    \* the index of the view
  query,    \* the query in hand
  work,     \* its deque, stack, heap or list of prefixes
  visited,  \* nodes not to be taken up again (dijkstra: settled)
  best,     \* dijkstra: the distance each node was last pushed with
  answer    \* None while the loop runs

index == <<edges, query>>
vars == <<index, work, visited, best, answer>>

----------------------------------------------------------------------------
(* Bugs for the mutation runs.                                             *)

Descending(S) ==
  {s \in [1..Cardinality(S) -> S] : \A i, j \in DOMAIN s : i < j => s[i] > s[j]}

----------------------------------------------------------------------------
(* Reading the index.                                                      *)

Directions == IF query.direction = "both" THEN Direction ELSE {query.direction}

Incident(v, d) == {e \in edges : v = IF d = "out" THEN e.from_id ELSE e.to_id}

Endpoint(e, d) == IF d = "out" THEN e.to_id ELSE e.from_id

\* _adjacent_ids, before the sort.
Adjacent(v) ==
  UNION {{Endpoint(e, d) : e \in {f \in Incident(v, d) : query.edge_type \in {None, f.edge_type}}}
           : d \in Directions}

\* The baked weight, or that of the override.
EdgeWeight(e) ==
  IF e.edge_id \in DOMAIN query.override THEN query.override[e.edge_id] ELSE e.weight

\* _incident_weights: the cheapest of the edges that reach u.
Weights(v, u) ==
  UNION {{EdgeWeight(e) : e \in {f \in Incident(v, d) : Endpoint(f, d) = u}} : d \in Directions}

Cheapest(v, u) == CHOOSE w \in Weights(v, u) : \A x \in Weights(v, u) : w <= x

\* The sequences that list a set of ids in order: there is one.
InOrder(S) ==
  {s \in [1..Cardinality(S) -> S] :
     /\ \A i, j \in DOMAIN s : i < j => s[i] < s[j]
     /\ \A x \in S : \E i \in DOMAIN s : s[i] = x}

----------------------------------------------------------------------------
(* More bugs for the mutation runs.                                        *)

PastDepth(x) == x.n > query.depth

OnceSeen(u, n) == best[u] = None

Dangling(h, v) == h.to_node_type = None \/ NodeType[v] \in {None, h.to_node_type}

Peek(i) == work[i].node \in visited /\ UNCHANGED vars

----------------------------------------------------------------------------
(* The loops.                                                              *)

\* An entry of the work list: a node, its hops, remaining depth or distance, and its
\* path where the algorithm carries one.
Entry(v, n, path) == [node |-> v, n |-> n, path |-> path]

CarriesPath == query.kind \in {"shortest_path", "dijkstra", "match"}

Extended(x, v) == IF CarriesPath THEN Append(x.path, v) ELSE << >>

Entries(s, x, n) == [i \in DOMAIN s |-> Entry(s[i], n, Extended(x, s[i]))]

Init ==
  /\ edges \in Graph /\ query \in Query
  /\ work = <<Entry(query.start, IF query.kind = "dfs" THEN query.depth ELSE 0,
                    IF CarriesPath THEN <<query.start>> ELSE << >>)>>
  /\ visited = IF query.kind = "dijkstra" THEN {} ELSE {query.start}
  /\ best = [v \in Node |-> IF v = query.start THEN 0 ELSE None]
  /\ answer = None

Running(kind) == query.kind = kind /\ answer = None
Seeks == query.kind \in {"reachable", "shortest_path", "dijkstra"}

Answer(found, ids, path) ==
  /\ answer' = [found |-> found, ids |-> ids, path |-> path]
  /\ UNCHANGED <<index, work, visited, best>>

\* neighbors only reads: its answer is rendered from the index.
ReadNeighbors == Running("neighbors") /\ Answer(TRUE, {}, << >>)

\* start == target
Trivial ==
  /\ Seeks /\ answer = None /\ query.start = query.target
  /\ Answer(TRUE, {}, IF CarriesPath THEN <<query.start>> ELSE << >>)

Fresh(v) == Adjacent(v) \ visited
Marked(new) == visited' = visited \cup new

\* dist >= depth
AtDepth(x) == x.n >= query.depth

Bfs ==
  /\ Running("bfs") /\ work # << >>
  /\ LET x == Head(work)
         new == IF AtDepth(x) THEN {} ELSE Fresh(x.node)
     IN  /\ \E s \in InOrder(new) : work' = Tail(work) \o Entries(s, x, x.n + 1)
         /\ Marked(new)
  /\ UNCHANGED <<index, best, answer>>

\* remaining - 1
Remaining(x) == x.n - 1

Dfs ==
  /\ Running("dfs") /\ work # << >>
  /\ LET x == Last(work)
         new == IF x.n = 0 THEN {} ELSE Fresh(x.node)
     IN  /\ \E s \in InOrder(new) : work' = Front(work) \o Reverse(Entries(s, x, Remaining(x)))
         /\ Marked(new)
  /\ UNCHANGED <<index, best, answer>>

\* reachable and shortest_path: stop at the first neighbour that is the target.
Search ==
  /\ Running("reachable") \/ Running("shortest_path")
  /\ query.start # query.target /\ work # << >>
  /\ LET x == Head(work)
     IN  IF query.target \in Adjacent(x.node)
         THEN Answer(TRUE, {}, Extended(x, query.target))
         ELSE /\ \E s \in InOrder(Fresh(x.node)) :
                   work' = Tail(work) \o Entries(s, x, x.n + 1)
              /\ Marked(Fresh(x.node))
              /\ UNCHANGED <<index, best, answer>>

\* heappop orders by distance, then by id.
Least(i) ==
  \A j \in DOMAIN work :
    work[i].n < work[j].n \/ (work[i].n = work[j].n /\ work[i].node <= work[j].node)

Improves(u, n) == best[u] = None \/ n < best[u]

Skip(i) ==
  /\ work[i].node \in visited
  /\ work' = RemoveAt(work, i) /\ UNCHANGED <<index, visited, best, answer>>

Settle(i) ==
  LET x == work[i]
      d == [u \in Adjacent(x.node) |-> x.n + Cheapest(x.node, u)]
      new == {u \in Adjacent(x.node) \ (visited \cup {x.node}) : Improves(u, d[u])}
  IN  /\ x.node \notin visited /\ x.node # query.target
      /\ \E s \in InOrder(new) :
           work' = RemoveAt(work, i)
                     \o [k \in DOMAIN s |-> Entry(s[k], d[s[k]], Append(x.path, s[k]))]
      /\ best' = [u \in Node |-> IF u \in new THEN d[u] ELSE best[u]]
      /\ Marked({x.node})
      /\ UNCHANGED <<index, answer>>

Dijkstra ==
  /\ Running("dijkstra") /\ query.start # query.target
  /\ \E i \in DOMAIN work :
       /\ Least(i)
       /\ \/ Skip(i) \/ Settle(i)
          \/ /\ work[i].node \notin visited /\ work[i].node = query.target
             /\ Answer(TRUE, {}, work[i].path)

\* A hop over one prefix; a level of prefixes is extended before the next.
Typed(h, v) == h.to_node_type = None \/ NodeType[v] = h.to_node_type

Hop ==
  /\ Running("match") /\ work # << >> /\ Head(work).n < Len(query.hops)
  /\ LET x == Head(work)
         h == query.hops[x.n + 1]
         bucket == {e \in Incident(x.node, h.direction) :
                      /\ e.edge_type = h.edge_type /\ Typed(h, Endpoint(e, h.direction))
                      /\ \A i \in DOMAIN x.path : x.path[i] # Endpoint(e, h.direction)}
         edge(id) == CHOOSE e \in bucket : e.edge_id = id
     IN  \E s \in InOrder({e.edge_id : e \in bucket}) :
           work' = Tail(work) \o
             Entries([i \in DOMAIN s |-> Endpoint(edge(s[i]), h.direction)], x, x.n + 1)
  /\ UNCHANGED <<index, visited, best, answer>>

\* The loop ends: bfs and dfs return what they reached, the searches None or False,
\* match the prefixes that are left.
Exhausted ==
  \/ work = << >> /\ query.kind # "match" /\ ~(Seeks /\ query.start = query.target)
  \/ query.kind = "match" /\ \A i \in DOMAIN work : work[i].n = Len(query.hops)

Finish ==
  /\ answer = None /\ Exhausted
  /\ Answer(query.kind = "match",
            IF query.kind \in {"bfs", "dfs"} THEN visited \ {query.start} ELSE {}, << >>)

Next == ReadNeighbors \/ Trivial \/ Bfs \/ Dfs \/ Search \/ Dijkstra \/ Hop \/ Finish

\* The loop is synchronous: nothing can keep it from its next pass.
Spec == Init /\ [][Next]_vars
FairSpec == Spec /\ WF_vars(Next)

----------------------------------------------------------------------------
(* What the answers are compared with.                                     *)

\* One hop, as the query asks for it.
Linked(u, v) ==
  \E e \in edges :
    /\ query.edge_type = None \/ e.edge_type = query.edge_type
    /\ \/ query.direction # "in" /\ e.from_id = u /\ e.to_id = v
       \/ query.direction # "out" /\ e.to_id = u /\ e.from_id = v

\* The nodes at most d hops from the start.
Within(d) ==
  LET within[n \in Nat] ==
        IF n = 0 THEN {query.start}
        ELSE LET w == within[n - 1]
             IN  w \cup {v \in Node : \E u \in w : Linked(u, v)}
  IN  within[d]

\* The paths from the start that visit no node twice.
SimplePaths ==
  LET upto[n \in Nat] ==
        IF n = 0 THEN {<<query.start>>}
        ELSE LET paths == upto[n - 1]
             IN  paths \cup {Append(x[1], x[2]) : x \in {y \in paths \X Node :
                   Linked(Last(y[1]), y[2]) /\ \A i \in DOMAIN y[1] : y[1][i] # y[2]}}
  IN  upto[Cardinality(Node)]

PathsToTarget == {p \in SimplePaths : Last(p) = query.target}

\* p comes before q in the order of their ids.
Before(p, q) ==
  \E i \in DOMAIN p \cap DOMAIN q : p[i] < q[i] /\ \A j \in 1..(i - 1) : p[j] = q[j]

Cost(p) ==
  LET link(u, v) == {e \in edges : \/ query.direction # "in" /\ e.from_id = u /\ e.to_id = v
                                   \/ query.direction # "out" /\ e.to_id = u /\ e.from_id = v}
      cost[i \in 1..Len(p)] ==
        IF i = 1 THEN 0 ELSE cost[i - 1] + Min({EdgeWeight(e) : e \in link(p[i - 1], p[i])})
  IN  cost[Len(p)]

\* The edge sequences a pattern describes, and the nodes of one.
Near(e, i) == IF query.hops[i].direction = "out" THEN e.from_id ELSE e.to_id
Far(e, i) == IF query.hops[i].direction = "out" THEN e.to_id ELSE e.from_id

NodesOf(m) == [i \in 1..(Len(m) + 1) |-> IF i = 1 THEN query.start ELSE Far(m[i - 1], i - 1)]

Matching ==
  {m \in [DOMAIN query.hops -> edges] :
     /\ \A i \in DOMAIN m :
          /\ m[i].edge_type = query.hops[i].edge_type /\ Near(m[i], i) = NodesOf(m)[i]
          /\ query.hops[i].to_node_type \in {None, NodeType[Far(m[i], i)]}
     /\ \A i, j \in DOMAIN NodesOf(m) : i # j => NodesOf(m)[i] # NodesOf(m)[j]}

----------------------------------------------------------------------------
(* Properties.                                                             *)

Answered(kind) == query.kind = kind /\ answer # None

\* bfs returns exactly the nodes within depth hops, without the start
\* (_query.py:117-120), and reachable is true exactly when a directed walk, of any
\* length, leads to the target.
ReachIsExact ==
  /\ Answered("bfs") => answer.ids = Within(query.depth) \ {query.start}
  /\ Answered("reachable") => (answer.found <=> query.target \in Within(Cardinality(Node)))

\* For the same bound dfs returns what bfs returns (_query.py:152-154).
DfsAgreesWithBfs ==
  Answered("dfs") => answer.ids = Within(query.depth) \ {query.start}

\* shortest_path returns a shortest path, and of those the first in id order
\* (_query.py:221-224); None only when there is none.
PathIsCanonical ==
  Answered("shortest_path") =>
    IF answer.found
    THEN /\ answer.path \in PathsToTarget
         /\ \A p \in PathsToTarget \ {answer.path} :
              Len(p) > Len(answer.path) \/ (Len(p) = Len(answer.path) /\ Before(answer.path, p))
    ELSE PathsToTarget = {}

\* dijkstra returns a path of least cost, None only when there is none.
PathIsCheapest ==
  Answered("dijkstra") =>
    IF answer.found
    THEN answer.path \in PathsToTarget /\ \A p \in PathsToTarget : Cost(answer.path) <= Cost(p)
    ELSE PathsToTarget = {}

\* match returns every simple path the pattern describes, once per sequence of edges,
\* and no other.
MatchesAreExact ==
  Answered("match") =>
    LET matching == Matching
    IN  /\ {work[i].path : i \in DOMAIN work} = {NodesOf(m) : m \in matching}
        /\ Len(work) = Cardinality(matching)

\* Every query ends, also on a graph with cycles, self-loops and parallel edges.
QueriesEnd == <>(answer # None)
=============================================================================
