---------------------------- MODULE MCGraphQuery ----------------------------
(* A small instance of GraphQuery and GraphView for TLC. *)
EXTENDS GraphView

Edge(id, from, to, type, weight) ==
  [edge_id |-> id, from_id |-> from, to_id |-> to, edge_type |-> type, weight |-> weight]

\* Two ways to most nodes, of different lengths and equal or different costs, two
\* cycles, a self-loop and a parallel edge.  Two edges are in every graph.
MCGraph ==
  {g \cup {Edge(1, 1, 2, 1, 1), Edge(6, 4, 6, 2, 1)} : g \in SUBSET
         {Edge(2, 2, 3, 1, 1), Edge(3, 3, 4, 1, 1), Edge(4, 1, 5, 1, 2),
          Edge(5, 5, 4, 1, 1), Edge(7, 4, 1, 2, 1), Edge(8, 2, 5, 2, 0),
          Edge(9, 1, 2, 2, 3), Edge(10, 3, 3, 1, 0)}}

MCNodeType == [v \in 1..6 |-> IF v = 4 THEN None ELSE IF v = 5 THEN "t" ELSE "s"]

Asks(kind, depth, direction, type) ==
  [kind |-> kind, start |-> 1, target |-> 6, depth |-> depth, direction |-> direction,
   edge_type |-> type, hops |-> << >>, override |-> << >>, hydrate |-> FALSE]

MotifHop(type, direction, to) ==
  [edge_type |-> type, direction |-> direction, to_node_type |-> to]

\* Queries that hydrate: two neighbours, a node with a self-loop, a path, a motif.
HydratedQuery ==
  {[q EXCEPT !.hydrate = TRUE] :
     q \in {Asks("bfs", 1, "out", None), [Asks("neighbors", 0, "both", None) EXCEPT !.start = 3],
            [Asks("shortest_path", 0, "out", None) EXCEPT !.target = 4],
            [Asks("match", 0, "out", None) EXCEPT !.hops = <<MotifHop(1, "out", None)>>]}}

MCAsked == {<<5, 2>>}

MCQuery ==
  {Asks(k, d, "out", None) : k \in {"bfs", "dfs"}, d \in 0..3}
    \cup {Asks("bfs", 3, "both", None), [Asks("bfs", 2, "in", 1) EXCEPT !.start = 3],
          Asks("dfs", 2, "both", 2)}
    \cup {Asks(k, 0, d, None) : k \in {"reachable", "shortest_path", "dijkstra"}, d \in {"out", "both"}}
    \cup {[Asks(k, 0, "in", None) EXCEPT !.target = 1] : k \in {"reachable", "shortest_path", "dijkstra"}}
    \cup {[Asks("match", 0, "out", None) EXCEPT !.hops = h] :
            h \in {<<MotifHop(1, "out", None), MotifHop(1, "out", "t")>>,
                   <<MotifHop(1, "out", "s"), MotifHop(1, "out", "s"), MotifHop(1, "out", "t")>>,
                   <<MotifHop(2, "in", None), MotifHop(1, "in", "t"), MotifHop(2, "in", None)>>}}
    \cup {[Asks("dijkstra", 0, "out", None) EXCEPT !.override = 1 :> 0 @@ 4 :> 1 @@ 7 :> 5]}
    \cup HydratedQuery

\* Hydration is explored on one graph and from one node, in both modes.
SmallViews ==
  /\ query.hydrate => edges = UNION MCGraph
  /\ mode = "lean" => query.hydrate

ViewsInit == ViewInit /\ SmallViews

Views == ViewsInit /\ [][ViewNext]_viewVars /\ WF_viewVars(Ask)
=============================================================================
