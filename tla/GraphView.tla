----------------------------- MODULE GraphView -----------------------------
(***************************************************************************)
(* GraphView (view.py): the queries of GraphQuery, whose answers are       *)
(* rendered with the bodies of their nodes when the caller asks for them.  *)
(* A full view holds the bodies its fold read; a lean view reads them from *)
(* the runtime on demand, through an LRU of its own (_hydrate.py).         *)
(*                                                                         *)
(* A query reads its index without an await, but its hydration awaits one  *)
(* get after the other: meanwhile others edit and delete nodes, hydrate    *)
(* through the same view, and refresh it to a new one, whose fold awaits   *)
(* its own gets.  The store is any that implements the seam: a get reads   *)
(* at some moment between its call and its return.  (InMemoryStore reads   *)
(* and returns at once.)                                                   *)
(*                                                                         *)
(* A body is the node's id and a state, numbered as it is edited.  What a  *)
(* refresh does to the topology is Projection's subject, not this one's.   *)
(***************************************************************************)
EXTENDS GraphQuery

CONSTANTS
  Caller,    \* the task that asks the query
  Reader,    \* tasks that hydrate through a view besides
  Asked,     \* the lists of ids they hydrate
  Written,   \* the nodes that may be edited or deleted
  Capacity,  \* lru_capacity
  MaxState,  \* a bound for TLC: edits of a node
  MaxViews   \* a bound for TLC: views, with those refresh() makes

ASSUME ViewAssumption ==
  /\ Caller \notin Reader
  /\ Asked \subseteq Seq(Node) /\ Written \subseteq Node
  /\ Capacity \in Nat /\ MaxState \in Nat /\ MaxViews \in Nat \ {0}

VARIABLES
  mode,     \* the MaterializationMode of the views
  state,    \* what the runtime holds: the state of each node, None if it has none
  views,    \* the views made so far: their resident bodies and their caches
  folding,  \* the fold of a refresh, if one runs: the nodes it has not read and the bodies
            \* it keeps
  calls,    \* of each task: the ids it hydrates, and how far it is
  held,     \* for each view: the states each node has had since its fold began
  used      \* for each view: the nodes hydrated through its cache, by their last use

hydration == <<mode, state, views, folding, calls, held, used>>
viewVars == <<vars, hydration>>

Task == {Caller} \cup Reader

\* The call of a task: its view, the ids and the edges they are rendered with, the
\* bodies so far, and the get it waits for, with what that has read.
NewCall(n, ids, carried) ==
  [view |-> n, ids |-> ids, edges |-> carried, bodies |-> << >>, get |-> "none", got |-> None]

NoCall == NewCall(1, << >>, << >>)

Body(v, s) == [id |-> v, state |-> s]

\* The nodes of S the runtime has, and the bodies a fold keeps of them.
Live(S) == {v \in S : state[v] # None}
Residents(S) == [v \in IF mode = "full" THEN Live(S) ELSE {} |-> state[v]]

\* No refresh is running.
NoFold == [running |-> FALSE, unread |-> {}, resident |-> << >>]

View(resident, cache) == [resident |-> resident, cache |-> cache]

ViewInit ==
  /\ Init
  /\ mode \in {"full", "lean"}
  /\ state = [v \in Node |-> IF NodeType[v] = None THEN None ELSE 0]
  /\ views = <<View([v \in {u \in Node : mode = "full" /\ state[u] # None} |-> state[v]], << >>)>>
  /\ folding = NoFold
  /\ calls = [t \in Task |-> NoCall]
  /\ held = <<[v \in Node |-> {state[v]}]>>
  /\ used = << << >> >>
  \* weighted_shortest_path: a lean view raises on an override before it looks further.
  /\ query.override # << >> => mode = "full"

----------------------------------------------------------------------------
(* Bugs for the mutation runs.                                             *)

\* A refreshed view keeps the cache of the old one.
CarriedCache == views[Len(views)].cache

\* A hit leaves the order of the cache alone.
InPlace(cache, b) ==
  IF \E i \in DOMAIN cache : cache[i].id = b.id
  THEN [i \in DOMAIN cache |-> IF cache[i].id = b.id THEN b ELSE cache[i]]
  ELSE Append(cache, b)

----------------------------------------------------------------------------
(* Rendering an answer.                                                    *)

InScope(e) == query.edge_type \in {None, e.edge_type}

\* The sequences that list a set in an order: there is one.
SortedBy(S, before(_, _)) ==
  {s \in [1..Cardinality(S) -> S] :
     /\ \A i, j \in DOMAIN s : i < j => before(s[i], s[j])
     /\ \A x \in S : \E i \in DOMAIN s : s[i] = x}

\* neighbor_records: one entry for each incident edge and direction, a self-loop twice,
\* as an edge that goes out and as one that comes in.
IncidentPairs(v) ==
  UNION {{[edge |-> e, direction |-> d] : e \in {f \in Incident(v, d) : InScope(f)}} : d \in Directions}

EndOf(p) == Endpoint(p.edge, p.direction)

NeighborRecords(v) ==
  LET before(p, q) ==
        \/ EndOf(p) < EndOf(q)
        \/ EndOf(p) = EndOf(q) /\ p.edge.edge_type < q.edge.edge_type
        \/ EndOf(p) = EndOf(q) /\ p.edge.edge_type = q.edge.edge_type /\ p.edge.edge_id < q.edge.edge_id
        \/ p.edge = q.edge /\ p.direction = "out" /\ q.direction = "in"
  IN  SortedBy(IncidentPairs(v), before)

\* _neighbor_for: the least edge of the node itself, zero when it has none in scope.
CarriedEdge(v) ==
  LET scope == UNION {{e \in Incident(v, d) : InScope(e)} : d \in Directions}
      least == CHOOSE e \in scope : \A f \in scope :
                 e.edge_type < f.edge_type \/ (e.edge_type = f.edge_type /\ e.edge_id <= f.edge_id)
  IN  IF scope = {} THEN 0 ELSE least.edge_id

\* The ids to hydrate, and the edges they come with.
Rendered(ids, carried) == [ids |-> ids, edges |-> carried]

\* A path, a match and a hydrate() carry none.
Bare(ids) == Rendered(ids, [k \in DOMAIN ids |-> 0])

Traversal ==
  {Rendered(ids, [k \in DOMAIN ids |-> CarriedEdge(ids[k])]) : ids \in InOrder(answer.ids)}

Neighbors ==
  {Rendered([k \in DOMAIN pairs |-> EndOf(pairs[k])], [k \in DOMAIN pairs |-> pairs[k].edge.edge_id])
     : pairs \in NeighborRecords(query.start)}

Path == {Bare(answer.path)}

\* The matches one after the other, sorted by their nodes; equal ones stay as they are.
Precedes(p, q) == \E i \in DOMAIN p : p[i] < q[i] /\ \A j \in 1 .. (i - 1) : p[j] = q[j]

Matches ==
  LET before(i, j) == \/ Precedes(work[i].path, work[j].path)
                      \/ work[i].path = work[j].path /\ i < j
  IN  {Bare(FlattenSeq([k \in DOMAIN s |-> work[s[k]].path])) : s \in SortedBy(DOMAIN work, before)}

\* The lists that render the answer: there is one.
Rendering ==
  CASE query.kind \in {"bfs", "dfs"} -> Traversal
    [] query.kind = "neighbors" -> Neighbors
    [] query.kind = "match" -> Matches
    [] OTHER -> Path

----------------------------------------------------------------------------
(* Hydration.                                                              *)

\* A query that hydrates has its answer.  As the loop that found it reads an index that
\* never changes, it does not matter what others did before it ended.
Answers == query.hydrate /\ answer # None

Begin(t, n, rendering) ==
  calls' = [calls EXCEPT ![t] = NewCall(n, rendering.ids, rendering.edges)]

Render(n) ==
  /\ Answers /\ calls[Caller] = NoCall
  /\ \E rendering \in Rendering : Begin(Caller, n, rendering)
  /\ UNCHANGED <<vars, mode, state, views, folding, held, used>>

Busy(t) == Len(calls[t].bodies) < Len(calls[t].ids)

\* GraphView.get and hydrate.
Hydrate(t, n, ids) ==
  /\ Answers /\ ~Busy(t)
  /\ Begin(t, n, Bare(ids))
  /\ UNCHANGED <<vars, mode, state, views, folding, held, used>>

Wanted(t) == calls[t].ids[Len(calls[t].bodies) + 1]

Returns(t, b) ==
  calls' = [calls EXCEPT ![t].bodies = Append(@, b), ![t].get = "none", ![t].got = None]

\* FullHydrator.get.
Pinned(t) ==
  LET v == Wanted(t)
      resident == views[calls[t].view].resident
  IN  /\ Busy(t) /\ mode = "full"
      /\ Returns(t, Body(v, IF v \in DOMAIN resident THEN resident[v] ELSE None))
      /\ UNCHANGED <<vars, mode, state, views, folding, held, used>>

\* A sequence without its entry at one of these places, if there is one.
Without(s, places) == IF places = {} THEN s ELSE RemoveAt(s, CHOOSE i \in places : TRUE)

\* move_to_end, of a new key or of one that is there.
MoveToEnd(cache, b) == Append(Without(cache, {i \in DOMAIN cache : cache[i].id = b.id}), b)

Evict(cache) == IF Len(cache) > Capacity THEN Tail(cache) ELSE cache

\* The cache of the call's view becomes this one, and b is used and returned.
Uses(t, b, cache) ==
  LET n == calls[t].view
  IN  /\ Returns(t, b)
      /\ views' = [views EXCEPT ![n].cache = cache]
      /\ used' = [used EXCEPT ![n] = Append(Without(@, {i \in DOMAIN @ : @[i] = b.id}), b.id)]
      /\ UNCHANGED <<vars, mode, state, folding, held>>

Cache(t) == views[calls[t].view].cache

\* LeanHydrator.get, of an id that is in the cache.
Hit(t) ==
  /\ Busy(t) /\ mode = "lean" /\ calls[t].get = "none"
  /\ \E i \in DOMAIN Cache(t) :
       Cache(t)[i].id = Wanted(t) /\ Uses(t, Cache(t)[i], MoveToEnd(Cache(t), Cache(t)[i]))

\* runtime.get is called, reads, and returns.
Miss(t) ==
  /\ Busy(t) /\ mode = "lean" /\ calls[t].get = "none"
  /\ \A i \in DOMAIN Cache(t) : Cache(t)[i].id # Wanted(t)
  /\ calls' = [calls EXCEPT ![t].get = "sent"]
  /\ UNCHANGED <<vars, mode, state, views, folding, held, used>>

Read(t) ==
  /\ calls[t].get = "sent"
  /\ calls' = [calls EXCEPT ![t].get = "read", ![t].got = state[Wanted(t)]]
  /\ UNCHANGED <<vars, mode, state, views, folding, held, used>>

Resume(t) ==
  LET b == Body(Wanted(t), calls[t].got)
  IN  /\ calls[t].get = "read"
      /\ IF b.state = None
         THEN Returns(t, b) /\ UNCHANGED <<vars, mode, state, views, folding, held, used>>
         ELSE Uses(t, b, Evict(MoveToEnd(Cache(t), b)))

----------------------------------------------------------------------------
(* Writers and refresh().                                                  *)

\* A node is edited, or deleted.
Write(v, s) ==
  /\ Answers /\ state[v] # None
  /\ s = None \/ (s = state[v] + 1 /\ s <= MaxState)
  /\ state' = [state EXCEPT ![v] = s]
  /\ held' = [n \in DOMAIN held |-> [held[n] EXCEPT ![v] = @ \cup {s}]]
  /\ UNCHANGED <<vars, mode, views, folding, calls, used>>

\* The drain ends: what is live then is what the authority pass reads, in any order.
\* When it reads a node that nobody writes makes no difference.
Refresh ==
  /\ Answers /\ ~folding.running /\ Len(views) < MaxViews
  /\ folding' = [running |-> TRUE, unread |-> Live(Written), resident |-> Residents(Node \ Written)]
  /\ held' = Append(held, [v \in Node |-> {state[v]}])
  /\ UNCHANGED <<vars, mode, state, views, calls, used>>

\* The bodies a fold keeps, with those of its last get.
Joined(f, g) == [v \in DOMAIN f \cup DOMAIN g |-> IF v \in DOMAIN f THEN f[v] ELSE g[v]]

\* The next get of the authority pass.
ReadBody(v) ==
  /\ folding.running /\ v \in folding.unread
  /\ folding' = [folding EXCEPT !.unread = @ \ {v}, !.resident = Joined(Residents({v}), @)]
  /\ UNCHANGED <<vars, mode, state, views, calls, held, used>>

\* The hydrator of a new view starts empty.
NewCache == << >>

Refreshed ==
  /\ folding.running /\ folding.unread = {}
  /\ views' = Append(views, View(folding.resident, NewCache))
  /\ used' = Append(used, << >>)
  /\ folding' = NoFold
  /\ UNCHANGED <<vars, mode, state, calls, held>>

Ask == Next /\ UNCHANGED hydration

ViewNext ==
  \/ Ask
  \/ \E n \in DOMAIN views : Render(n) \/ \E t \in Reader, ids \in Asked : Hydrate(t, n, ids)
  \/ \E t \in Task : Pinned(t) \/ Hit(t) \/ Miss(t) \/ Read(t) \/ Resume(t)
  \/ \E v \in Written, s \in (1 .. MaxState) \cup {None} : Write(v, s)
  \/ Refresh \/ Refreshed \/ \E v \in Written : ReadBody(v)

ViewSpec == ViewInit /\ [][ViewNext]_viewVars /\ WF_viewVars(Ask)

----------------------------------------------------------------------------
(* Properties.                                                             *)

\* Every body a view gives is one of the node asked for, in a state it has had since
\* the view's fold began: refresh() leaves no stale entry behind (view.py:188-190).  A
\* full view gives all its callers the one body it pinned, whatever was written since.
HydratedSinceFold ==
  \A t, u \in Task : \A k \in DOMAIN calls[t].bodies, j \in DOMAIN calls[u].bodies :
    LET b == calls[t].bodies[k]
    IN  /\ b.id = calls[t].ids[k]
        /\ b.state \in held[calls[t].view][b.id]
        /\ (mode = "full" /\ calls[t].view = calls[u].view /\ b.id = calls[u].ids[j])
             => b = calls[u].bodies[j]

\* The cache of a lean view is an LRU (_hydrate.py:55-61): it holds the ids hydrated
\* through it most recently, up to its capacity, in the order of their last use, also
\* when two tasks miss one id at once.
LruHoldsRecent ==
  \A n \in DOMAIN views :
    LET last == Min({Capacity, Len(used[n])})
    IN  [i \in DOMAIN views[n].cache |-> views[n].cache[i].id]
          = SubSeq(used[n], Len(used[n]) - last + 1, Len(used[n]))
=============================================================================
