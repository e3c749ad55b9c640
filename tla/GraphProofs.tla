---------------------------- MODULE GraphProofs ----------------------------
(***************************************************************************)
(* Theorems about the queries of GraphQuery, for every finite set of nodes *)
(* and every graph and query over it, and about the views of GraphView,    *)
(* for any tasks, writers and capacity, and however often they refresh.    *)
(***************************************************************************)
EXTENDS GraphView, Induction, FiniteSetTheorems, SequenceTheorems

----------------------------------------------------------------------------
(* Types.                                                                  *)

WorkEntry == [node : Node, n : Nat, path : Seq(Node)]
Result == [found : BOOLEAN, ids : SUBSET Node, path : Seq(Node)]

QueryTypeOK ==
  /\ edges \in Graph /\ query \in Query
  /\ work \in Seq(WorkEntry)
  /\ visited \in SUBSET Node
  /\ best \in [Node -> Nat \cup {None}]
  /\ answer \in Result \cup {None}

LEMMA QueryFacts ==
  ASSUME QueryTypeOK
  PROVE  /\ query.start \in Node /\ query.target \in Node /\ query.depth \in Nat
         /\ query.direction \in {"out", "in", "both"}
         /\ query.kind \in {"bfs", "dfs", "reachable", "shortest_path", "dijkstra", "match", "neighbors"}
         /\ \A id \in DOMAIN query.override : query.override[id] \in Nat
         /\ \A e \in edges : /\ e.from_id \in Node /\ e.to_id \in Node
                             /\ e.edge_id \in Nat /\ e.weight \in Nat
BY QueryAssumption DEF QueryTypeOK, IsQuery, IsEdgeRecord, Direction

\* What one hop leads to is what the index lists.
LEMMA AdjacentIsLinked ==
  ASSUME QueryTypeOK, NEW u PROVE Adjacent(u) = {v \in Node : Linked(u, v)}
<1>1. ASSUME NEW v \in Adjacent(u) PROVE v \in Node /\ Linked(u, v)
  <2>1. PICK d \in Directions : \E e \in Incident(u, d) :
          query.edge_type \in {None, e.edge_type} /\ v = Endpoint(e, d)
    BY <1>1 DEF Adjacent
  <2>2. PICK e \in Incident(u, d) : query.edge_type \in {None, e.edge_type} /\ v = Endpoint(e, d)
    BY <2>1
  <2>3. d \in {"out", "in"} /\ query.direction \in {"both", d}
    BY <2>1, QueryFacts DEF Directions, Direction
  <2>4. e \in edges /\ e.from_id \in Node /\ e.to_id \in Node
    BY <2>2, QueryFacts DEF Incident
  <2> QED BY <2>2, <2>3, <2>4 DEF Incident, Endpoint, Linked
<1>2. ASSUME NEW v \in Node, Linked(u, v) PROVE v \in Adjacent(u)
  <2>1. PICK e \in edges :
          /\ query.edge_type = None \/ e.edge_type = query.edge_type
          /\ \/ query.direction # "in" /\ e.from_id = u /\ e.to_id = v
             \/ query.direction # "out" /\ e.to_id = u /\ e.from_id = v
    BY <1>2 DEF Linked
  <2>2. \E d \in Directions : e \in Incident(u, d) /\ v = Endpoint(e, d)
    BY <2>1, QueryFacts DEF Directions, Direction, Incident, Endpoint
  <2> QED BY <2>1, <2>2 DEF Adjacent
<1> QED BY <1>1, <1>2

LEMMA InOrderLists ==
  ASSUME NEW S, IsFiniteSet(S), NEW s \in InOrder(S)
  PROVE  /\ s \in Seq(S) /\ DOMAIN s = 1 .. Len(s) /\ Len(s) \in Nat
         /\ \A i \in DOMAIN s : s[i] \in S
         /\ \A x \in S : \E i \in DOMAIN s : s[i] = x
         /\ \A i, j \in DOMAIN s : i < j => s[i] < s[j]
<1>1. /\ s \in [1 .. Cardinality(S) -> S]
      /\ \A x \in S : \E i \in DOMAIN s : s[i] = x
      /\ \A i, j \in DOMAIN s : i < j => s[i] < s[j]
  BY DEF InOrder
<1>2. Cardinality(S) \in Nat
  BY FS_CardinalityType
<1> QED BY <1>1, <1>2

LEMMA Nodes == ASSUME NEW S \in SUBSET Node PROVE IsFiniteSet(S) /\ S \subseteq Nat
BY QueryAssumption, FS_Subset

\* The entries a pass adds: one for each id, in the order of the ids.
LEMMA EntriesOf ==
  ASSUME NEW s \in Seq(Node), NEW x \in WorkEntry, NEW n \in Nat
  PROVE  /\ Entries(s, x, n) \in Seq(WorkEntry)
         /\ Len(Entries(s, x, n)) = Len(s)
         /\ DOMAIN Entries(s, x, n) = DOMAIN s
         /\ \A i \in DOMAIN s : /\ Entries(s, x, n)[i] = Entry(s[i], n, Extended(x, s[i]))
                                /\ Extended(x, s[i]) \in Seq(Node)
<1>1. ASSUME NEW i \in DOMAIN s PROVE Extended(x, s[i]) \in Seq(Node)
  <2>1. x.path \in Seq(Node) /\ s[i] \in Node
    BY DEF WorkEntry
  <2> QED BY <2>1 DEF Extended
<1>2. \A i \in DOMAIN s : Entry(s[i], n, Extended(x, s[i])) \in WorkEntry
  BY <1>1 DEF Entry, WorkEntry
<1> QED BY <1>1, <1>2 DEF Entries

LEMMA ListedNodes ==
  ASSUME NEW S \in SUBSET Node, NEW s \in InOrder(S)
  PROVE  /\ s \in Seq(Node) /\ DOMAIN s = 1 .. Len(s) /\ Len(s) \in Nat
         /\ \A i \in DOMAIN s : s[i] \in S
         /\ \A x \in S : \E i \in DOMAIN s : s[i] = x
         /\ \A i, j \in DOMAIN s : i < j => s[i] < s[j]
<1>1. s \in Seq(S)
  BY Nodes, InOrderLists
<1> QED BY <1>1, Nodes, InOrderLists

LEMMA EntriesDown ==
  ASSUME NEW S \in SUBSET Node, NEW s \in InOrder(S), NEW x \in WorkEntry, x.n # 0 \/ S = {}
  PROVE  Reverse(Entries(s, x, Remaining(x))) \in Seq(WorkEntry)
<1>1. CASE x.n # 0
  <2>1. Remaining(x) \in Nat
    BY <1>1 DEF Remaining, WorkEntry
  <2>2. Entries(s, x, Remaining(x)) \in Seq(WorkEntry)
    BY <2>1, EntriesOf, ListedNodes
  <2> QED BY <2>2 DEF Reverse
<1>2. CASE S = {}
  <2>1. DOMAIN s = {} /\ s = << >>
    <3>1. s \in Seq(S) /\ DOMAIN s = 1 .. Len(s) /\ Len(s) \in Nat /\ \A i \in DOMAIN s : s[i] \in S
      BY Nodes, InOrderLists
    <3> QED BY <1>2, <3>1
  <2>2. Entries(s, x, Remaining(x)) = << >>
    BY <2>1 DEF Entries
  <2> QED BY <2>2 DEF Reverse
<1> QED BY <1>1, <1>2

LEMMA QueryTypeInit == Init => QueryTypeOK
<1> SUFFICES ASSUME Init PROVE QueryTypeOK
  OBVIOUS
<1>1. query \in Query /\ query.start \in Node /\ query.depth \in Nat
  BY QueryAssumption DEF Init, IsQuery
<1>2. \A n \in Nat, p \in Seq(Node) : Entry(query.start, n, p) \in WorkEntry
  BY <1>1 DEF Entry, WorkEntry
<1>3. work \in Seq(WorkEntry)
  <2>1. <<query.start>> \in Seq(Node) /\ << >> \in Seq(Node)
    BY <1>1
  <2>2. PICK n \in Nat, p \in Seq(Node) : work = <<Entry(query.start, n, p)>>
    BY <1>1, <2>1 DEF Init
  <2> QED BY <1>2, <2>2
<1>4. best \in [Node -> Nat \cup {None}]
  BY DEF Init
<1> QED BY <1>1, <1>3, <1>4 DEF Init, QueryTypeOK

LEMMA AnswerType ==
  ASSUME QueryTypeOK, NEW found \in BOOLEAN, NEW ids \in SUBSET Node, NEW path \in Seq(Node),
         Answer(found, ids, path)
  PROVE  QueryTypeOK'
BY DEF QueryTypeOK, Answer, Result, index

\* The distance a relaxed edge gives is a natural.
LEMMA CheapestIsLeast ==
  ASSUME QueryTypeOK, NEW v, NEW u \in Adjacent(v), query.edge_type = None
  PROVE  /\ Cheapest(v, u) \in Weights(v, u) /\ Cheapest(v, u) \in Nat
         /\ \A w \in Weights(v, u) : w \in Nat /\ Cheapest(v, u) <= w
<1>1. Weights(v, u) \subseteq Nat
  <2> SUFFICES ASSUME NEW d \in Directions, NEW e \in Incident(v, d) PROVE EdgeWeight(e) \in Nat
    BY DEF Weights
  <2>1. e \in edges
    BY DEF Incident
  <2> QED BY <2>1, QueryFacts DEF EdgeWeight
<1>2. Weights(v, u) # {}
  <2>1. PICK d \in Directions : \E e \in Incident(v, d) : u = Endpoint(e, d)
    BY DEF Adjacent
  <2>2. PICK e \in Incident(v, d) : u = Endpoint(e, d)
    BY <2>1
  <2>3. EdgeWeight(e) \in Weights(v, u)
    BY <2>2 DEF Weights
  <2> QED BY <2>3
<1>3. \E w \in Weights(v, u) : \A x \in Weights(v, u) : w <= x
  BY <1>1, <1>2, LeastNatural
<1>4. Cheapest(v, u) \in Weights(v, u) /\ \A x \in Weights(v, u) : Cheapest(v, u) <= x
  BY <1>3 DEF Cheapest
<1> QED BY <1>1, <1>4

\* The edges a hop takes, each by its id.
Bucket(x, h) ==
  {e \in Incident(x.node, h.direction) :
     /\ e.edge_type = h.edge_type /\ Typed(h, Endpoint(e, h.direction))
     /\ \A i \in DOMAIN x.path : x.path[i] # Endpoint(e, h.direction)}

Taken(x, h, s) ==
  [i \in DOMAIN s |-> Endpoint(CHOOSE e \in Bucket(x, h) : e.edge_id = s[i], h.direction)]

LEMMA BucketById ==
  ASSUME QueryTypeOK, NEW x, NEW h, NEW id \in {e.edge_id : e \in Bucket(x, h)}
  PROVE  /\ (CHOOSE e \in Bucket(x, h) : e.edge_id = id) \in Bucket(x, h)
         /\ (CHOOSE e \in Bucket(x, h) : e.edge_id = id).edge_id = id
         /\ \A e \in Bucket(x, h) : e.edge_id = id => e = CHOOSE f \in Bucket(x, h) : f.edge_id = id
<1>1. \E e \in Bucket(x, h) : e.edge_id = id
  OBVIOUS
<1>2. Bucket(x, h) \subseteq edges
  BY DEF Bucket, Incident
<1>3. \A e, f \in edges : e.edge_id = f.edge_id => e = f
  BY QueryAssumption DEF QueryTypeOK
<1> DEFINE c == CHOOSE e \in Bucket(x, h) : e.edge_id = id
<1>4. c \in Bucket(x, h) /\ c.edge_id = id
  BY <1>1
<1> HIDE DEF c
<1>5. \A e \in Bucket(x, h) : e.edge_id = id => e = c
  BY <1>2, <1>3, <1>4
<1> QED BY <1>4, <1>5 DEF c

LEMMA BucketIds ==
  ASSUME QueryTypeOK, NEW x, NEW h, NEW s \in InOrder({e.edge_id : e \in Bucket(x, h)})
  PROVE  /\ IsFiniteSet({e.edge_id : e \in Bucket(x, h)})
         /\ DOMAIN s = 1 .. Len(s) /\ Len(s) \in Nat
         /\ \A i \in DOMAIN s : s[i] \in {e.edge_id : e \in Bucket(x, h)}
         /\ Taken(x, h, s) \in Seq(Node)
         /\ DOMAIN Taken(x, h, s) = DOMAIN s
<1> DEFINE B == Bucket(x, h)
           ids == {e.edge_id : e \in B}
<1>1. B \in SUBSET edges /\ IsFiniteSet(B)
  <2>1. B \in SUBSET edges
    BY DEF Bucket, Incident
  <2>2. IsFiniteSet(edges)
    BY QueryAssumption DEF QueryTypeOK
  <2> HIDE DEF B
  <2> QED BY <2>1, <2>2, FS_Subset
<1>2. IsFiniteSet(ids)
  <2>1. [e \in B |-> e.edge_id] \in Surjection(B, ids)
    BY DEF Surjection
  <2> HIDE DEF B, ids
  <2> QED BY <1>1, <2>1, FS_Surjection
<1>3. /\ DOMAIN s = 1 .. Len(s) /\ Len(s) \in Nat
      /\ \A i \in DOMAIN s : s[i] \in ids
  <2> HIDE DEF ids
  <2> QED BY <1>2, InOrderLists DEF ids
<1>4. ASSUME NEW i \in DOMAIN s PROVE Taken(x, h, s)[i] \in Node
  <2>1. (CHOOSE e \in Bucket(x, h) : e.edge_id = s[i]) \in edges
    BY <1>1, <1>3, BucketById
  <2> QED BY <2>1, QueryFacts DEF Taken, Endpoint
<1> QED BY <1>2, <1>3, <1>4 DEF Taken

LEMMA RemoveAtIs ==
  ASSUME NEW S, NEW s \in Seq(S), NEW i \in DOMAIN s
  PROVE  /\ RemoveAt(s, i) \in Seq(S) /\ Len(RemoveAt(s, i)) = Len(s) - 1
         /\ \A j \in 1 .. Len(s) - 1 : RemoveAt(s, i)[j] = IF j < i THEN s[j] ELSE s[j + 1]
<1>1. i \in 1 .. Len(s) /\ Len(s) \in Nat
  OBVIOUS
<1> DEFINE a == SubSeq(s, 1, i - 1)
           b == SubSeq(s, i + 1, Len(s))
<1>2. a \in Seq(S) /\ Len(a) = i - 1 /\ \A j \in 1 .. i - 1 : a[j] = s[j]
  BY <1>1, SubSeqProperties
<1>3. b \in Seq(S) /\ Len(b) = Len(s) - i /\ \A j \in 1 .. Len(s) - i : b[j] = s[i + j]
  BY <1>1, SubSeqProperties
<1> HIDE DEF a, b
<1>4. /\ a \o b \in Seq(S) /\ Len(a \o b) = Len(s) - 1
      /\ \A j \in 1 .. Len(s) - 1 : (a \o b)[j] = IF j <= i - 1 THEN a[j] ELSE b[j - (i - 1)]
  <2>1. /\ a \o b \in Seq(S) /\ Len(a \o b) = Len(a) + Len(b)
        /\ \A j \in 1 .. Len(a) + Len(b) : (a \o b)[j] = IF j <= Len(a) THEN a[j] ELSE b[j - Len(a)]
    BY <1>2, <1>3, ConcatProperties
  <2>2. Len(a) = i - 1 /\ Len(a) + Len(b) = Len(s) - 1
    BY <1>1, <1>2, <1>3
  <2> QED BY <2>1, <2>2
<1>5. ASSUME NEW j \in 1 .. Len(s) - 1 PROVE (a \o b)[j] = IF j < i THEN s[j] ELSE s[j + 1]
  <2>1. CASE j < i
    BY <1>1, <1>2, <1>4, <2>1
  <2>2. CASE ~(j < i)
    <3>1. (a \o b)[j] = b[j - (i - 1)] /\ j - (i - 1) \in 1 .. Len(s) - i
      BY <1>1, <1>4, <2>2
    <3>2. i + (j - (i - 1)) = j + 1
      BY <1>1
    <3> QED BY <1>3, <2>2, <3>1, <3>2
  <2> QED BY <2>1, <2>2
<1>6. RemoveAt(s, i) = a \o b
  BY DEF RemoveAt, a, b
<1> QED BY <1>4, <1>5, <1>6

\* What dijkstra relaxes when it settles the entry x, and with which distance.
Distance(x, u) == x.n + Cheapest(x.node, u)
Relaxed(x) ==
  {u \in Adjacent(x.node) \ (visited \cup {x.node}) : Improves(u, Distance(x, u))}
Pushed(x, s) == [k \in DOMAIN s |-> Entry(s[k], Distance(x, s[k]), Append(x.path, s[k]))]

LEMMA SettleIs ==
  ASSUME QueryTypeOK, NEW i \in DOMAIN work, Settle(i)
  PROVE  /\ work[i] \in WorkEntry
         /\ work[i].node \notin visited /\ work[i].node # query.target
         /\ \E s \in InOrder(Relaxed(work[i])) : work' = RemoveAt(work, i) \o Pushed(work[i], s)
         /\ best' = [u \in Node |-> IF u \in Relaxed(work[i]) THEN Distance(work[i], u) ELSE best[u]]
         /\ visited' = visited \cup {work[i].node}
         /\ UNCHANGED <<edges, query, answer>>
<1> DEFINE x == work[i]
           d == [u \in Adjacent(x.node) |-> x.n + Cheapest(x.node, u)]
           new == {u \in Adjacent(x.node) \ (visited \cup {x.node}) : Improves(u, d[u])}
<1>1. x \in WorkEntry
  BY DEF QueryTypeOK
<1>2. /\ x.node \notin visited /\ x.node # query.target
      /\ \E s \in InOrder(new) :
           work' = RemoveAt(work, i)
                     \o [k \in DOMAIN s |-> Entry(s[k], d[s[k]], Append(x.path, s[k]))]
      /\ best' = [u \in Node |-> IF u \in new THEN d[u] ELSE best[u]]
      /\ visited' = visited \cup {x.node}
      /\ UNCHANGED <<edges, query, answer>>
  BY DEF Settle, Marked, index
<1>3. \A u \in Adjacent(x.node) : d[u] = Distance(x, u)
  BY DEF Distance
<1> HIDE DEF x, d
<1>4. new = Relaxed(x) /\ new \subseteq Adjacent(x.node)
  BY <1>3 DEF Relaxed
<1>5. PICK s \in InOrder(new) :
        work' = RemoveAt(work, i)
                  \o [k \in DOMAIN s |-> Entry(s[k], d[s[k]], Append(x.path, s[k]))]
  BY <1>2
<1>6. new \in SUBSET Node
  BY <1>4, AdjacentIsLinked
<1> HIDE DEF new
<1>7. \A k \in DOMAIN s : d[s[k]] = Distance(x, s[k])
  BY <1>3, <1>4, <1>6, ListedNodes
<1>8. Pushed(x, s) = [k \in DOMAIN s |-> Entry(s[k], d[s[k]], Append(x.path, s[k]))]
  BY <1>7, Zenon DEF Pushed
<1>9. best' = [u \in Node |-> IF u \in Relaxed(x) THEN Distance(x, u) ELSE best[u]]
  BY <1>2, <1>3, <1>4
<1> QED BY <1>1, <1>2, <1>4, <1>5, <1>8, <1>9 DEF x

LEMMA SettleTypes ==
  ASSUME QueryTypeOK, query.kind = "dijkstra", NEW x \in WorkEntry
  PROVE  /\ Relaxed(x) \in SUBSET Node
         /\ \A u \in Relaxed(x) : Distance(x, u) \in Nat
         /\ \A s \in InOrder(Relaxed(x)) :
              /\ Pushed(x, s) \in Seq(WorkEntry) /\ Len(Pushed(x, s)) = Len(s)
              /\ s \in Seq(Node) /\ \A i \in DOMAIN s : s[i] \in Relaxed(x)
<1>1. Relaxed(x) \in SUBSET Node
  BY AdjacentIsLinked DEF Relaxed
<1>2. ASSUME NEW u \in Relaxed(x) PROVE Distance(x, u) \in Nat
  <2>1. query.edge_type = None
    BY QueryAssumption DEF QueryTypeOK, IsQuery
  <2>2. Cheapest(x.node, u) \in Nat
    BY <2>1, CheapestIsLeast DEF Relaxed
  <2> QED BY <2>2 DEF Distance, WorkEntry
<1>3. ASSUME NEW s \in InOrder(Relaxed(x))
      PROVE  /\ Pushed(x, s) \in Seq(WorkEntry) /\ Len(Pushed(x, s)) = Len(s)
             /\ s \in Seq(Node) /\ \A i \in DOMAIN s : s[i] \in Relaxed(x)
  <2>1. /\ s \in Seq(Node) /\ DOMAIN s = 1 .. Len(s) /\ Len(s) \in Nat
        /\ \A i \in DOMAIN s : s[i] \in Relaxed(x)
    BY <1>1, ListedNodes
  <2>2. ASSUME NEW i \in DOMAIN s
        PROVE  Entry(s[i], Distance(x, s[i]), Append(x.path, s[i])) \in WorkEntry
    <3>1. s[i] \in Node /\ Distance(x, s[i]) \in Nat /\ x.path \in Seq(Node)
      BY <1>1, <1>2, <2>1 DEF WorkEntry
    <3>2. Append(x.path, s[i]) \in Seq(Node)
      BY <3>1
    <3> QED BY <3>1, <3>2 DEF Entry, WorkEntry
  <2> QED BY <2>1, <2>2 DEF Pushed
<1> QED BY <1>1, <1>2, <1>3

LEMMA HeadOfWork ==
  ASSUME QueryTypeOK, work # << >>
  PROVE  /\ Head(work) \in WorkEntry /\ Head(work) = work[1] /\ 1 \in DOMAIN work
         /\ Tail(work) \in Seq(WorkEntry) /\ Len(Tail(work)) = Len(work) - 1
         /\ \A i \in DOMAIN Tail(work) : i + 1 \in DOMAIN work /\ Tail(work)[i] = work[i + 1]
         /\ \A i \in DOMAIN work : work[i] \in WorkEntry /\ (i # 1 => i - 1 \in DOMAIN Tail(work))
         /\ Head(work).n \in Nat /\ Head(work).n + 1 \in Nat /\ Head(work).node \in Node
<1>1. work \in Seq(WorkEntry) /\ Len(work) \in Nat \ {0} /\ DOMAIN work = 1 .. Len(work)
  BY EmptySeq DEF QueryTypeOK
<1>2. Head(work) = work[1] /\ 1 \in DOMAIN work
  BY <1>1
<1>3. /\ Tail(work) \in Seq(WorkEntry) /\ Len(Tail(work)) = Len(work) - 1
      /\ \A i \in 1 .. Len(Tail(work)) : Tail(work)[i] = work[i + 1]
  BY <1>1, HeadTailProperties
<1>4. \A i \in DOMAIN work : work[i] \in WorkEntry
  BY <1>1
<1>5. \A x \in WorkEntry : x.n \in Nat /\ x.n + 1 \in Nat /\ x.node \in Node
  BY DEF WorkEntry
<1>6. DOMAIN Tail(work) = 1 .. Len(work) - 1
  BY <1>3
<1> QED BY <1>1, <1>2, <1>3, <1>4, <1>5, <1>6

LEMMA QueryTypeStep == QueryTypeOK /\ [Next]_vars => QueryTypeOK'
<1> SUFFICES ASSUME QueryTypeOK, [Next]_vars PROVE QueryTypeOK'
  OBVIOUS
<1> USE QueryFacts
<1>1. CASE ReadNeighbors
  BY <1>1, AnswerType, EmptySeq DEF ReadNeighbors
<1>2. CASE Trivial
  <2>1. (IF CarriesPath THEN <<query.start>> ELSE << >>) \in Seq(Node)
    OBVIOUS
  <2> QED BY <1>2, <2>1, AnswerType DEF Trivial
<1>3. CASE Bfs
  <2> DEFINE x == Head(work)
             new == IF AtDepth(x) THEN {} ELSE Fresh(x.node)
  <2>1. work # << >> /\ x \in WorkEntry /\ Tail(work) \in Seq(WorkEntry) /\ x.n + 1 \in Nat
    BY <1>3, HeadOfWork DEF Bfs
  <2>2. new \in SUBSET Node
    BY AdjacentIsLinked DEF Fresh
  <2>3. PICK s \in InOrder(new) : work' = Tail(work) \o Entries(s, x, x.n + 1)
    BY <1>3 DEF Bfs
  <2>4. UNCHANGED <<edges, query, best, answer>> /\ visited' = visited \cup new
    BY <1>3 DEF Bfs, Marked, index
  <2> HIDE DEF x, new
  <2>5. Entries(s, x, x.n + 1) \in Seq(WorkEntry)
    BY <2>1, <2>2, ListedNodes, EntriesOf
  <2> QED BY <2>1, <2>2, <2>3, <2>4, <2>5 DEF QueryTypeOK
<1>4. CASE Dfs
  <2> DEFINE x == Last(work)
             new == IF x.n = 0 THEN {} ELSE Fresh(x.node)
  <2>1. x \in WorkEntry /\ Front(work) \in Seq(WorkEntry)
    <3>1. work \in Seq(WorkEntry) /\ work # << >>
      BY <1>4 DEF Dfs, QueryTypeOK
    <3>2. Len(work) \in 1 .. Len(work) /\ Len(work) - 1 \in Int
      BY <3>1, EmptySeq
    <3>3. SubSeq(work, 1, Len(work) - 1) \in Seq(WorkEntry)
      BY <3>1, <3>2, SubSeqProperties
    <3> QED BY <3>1, <3>2, <3>3 DEF Last, Front
  <2>2. new \in SUBSET Node
    BY AdjacentIsLinked DEF Fresh
  <2>3. PICK s \in InOrder(new) : work' = Front(work) \o Reverse(Entries(s, x, Remaining(x)))
    BY <1>4 DEF Dfs
  <2>4. UNCHANGED <<edges, query, best, answer>> /\ visited' = visited \cup new
    BY <1>4 DEF Dfs, Marked, index
  <2>5. x.n # 0 \/ new = {}
    OBVIOUS
  <2> HIDE DEF x, new
  <2>6. Reverse(Entries(s, x, Remaining(x))) \in Seq(WorkEntry)
    BY <2>1, <2>2, <2>5, EntriesDown
  <2> QED BY <2>1, <2>2, <2>3, <2>4, <2>6 DEF QueryTypeOK
<1>5. CASE Search
  <2> DEFINE x == Head(work)
  <2>1. work # << >> /\ x \in WorkEntry /\ Tail(work) \in Seq(WorkEntry) /\ x.n + 1 \in Nat
    BY <1>5, HeadOfWork DEF Search
  <2>2. CASE query.target \in Adjacent(x.node)
    <3>1. Answer(TRUE, {}, Extended(x, query.target))
      BY <1>5, <2>2 DEF Search
    <3>2. Extended(x, query.target) \in Seq(Node)
      BY <2>1 DEF Extended, WorkEntry
    <3> QED BY <3>1, <3>2, AnswerType
  <2>3. CASE query.target \notin Adjacent(x.node)
    <3>1. Fresh(x.node) \in SUBSET Node
      BY AdjacentIsLinked DEF Fresh
    <3>2. PICK s \in InOrder(Fresh(x.node)) : work' = Tail(work) \o Entries(s, x, x.n + 1)
      BY <1>5, <2>3 DEF Search
    <3>3. UNCHANGED <<edges, query, best, answer>> /\ visited' = visited \cup Fresh(x.node)
      BY <1>5, <2>3 DEF Search, Marked, index
    <3> HIDE DEF x
    <3>4. Entries(s, x, x.n + 1) \in Seq(WorkEntry)
      BY <2>1, <3>1, ListedNodes, EntriesOf
    <3> QED BY <2>1, <3>1, <3>2, <3>3, <3>4 DEF QueryTypeOK
  <2> QED BY <2>2, <2>3
<1>6. CASE Dijkstra
  <2>1. PICK i \in DOMAIN work :
          \/ Skip(i) \/ Settle(i)
          \/ /\ work[i].node \notin visited /\ work[i].node = query.target
             /\ Answer(TRUE, {}, work[i].path)
    BY <1>6 DEF Dijkstra
  <2>2. work \in Seq(WorkEntry) /\ work[i] \in WorkEntry /\ RemoveAt(work, i) \in Seq(WorkEntry)
    BY RemoveAtIs DEF QueryTypeOK
  <2>3. CASE Skip(i)
    BY <2>2, <2>3 DEF Skip, QueryTypeOK, index
  <2>4. CASE Settle(i)
    <3> DEFINE x == work[i]
    <3>1. /\ \E s \in InOrder(Relaxed(x)) : work' = RemoveAt(work, i) \o Pushed(x, s)
          /\ best' = [u \in Node |-> IF u \in Relaxed(x) THEN Distance(x, u) ELSE best[u]]
          /\ visited' = visited \cup {x.node}
          /\ UNCHANGED <<edges, query, answer>>
      BY <2>4, SettleIs
    <3>2. x \in WorkEntry /\ x.node \in Node
      BY <2>2 DEF WorkEntry
    <3> HIDE DEF x
    <3>3. query.kind = "dijkstra"
      BY <1>6 DEF Dijkstra, Running
    <3>4. work' \in Seq(WorkEntry)
      BY <2>2, <3>1, <3>2, <3>3, SettleTypes
    <3>5. best' \in [Node -> Nat \cup {None}]
      BY <3>1, <3>2, <3>3, SettleTypes DEF QueryTypeOK
    <3> QED BY <3>1, <3>2, <3>4, <3>5 DEF QueryTypeOK
  <2>5. CASE Answer(TRUE, {}, work[i].path)
    BY <2>2, <2>5, AnswerType DEF WorkEntry
  <2> QED BY <2>1, <2>3, <2>4, <2>5
<1>7. CASE Hop
  <2> DEFINE x == Head(work)
             h == query.hops[x.n + 1]
  <2>1. work # << >> /\ x \in WorkEntry /\ Tail(work) \in Seq(WorkEntry) /\ x.n + 1 \in Nat
    BY <1>7, HeadOfWork DEF Hop
  <2>2. PICK s \in InOrder({e.edge_id : e \in Bucket(x, h)}) :
          work' = Tail(work) \o Entries(Taken(x, h, s), x, x.n + 1)
    BY <1>7 DEF Hop, Bucket, Taken
  <2>3. UNCHANGED <<edges, query, visited, best, answer>>
    BY <1>7 DEF Hop, index
  <2> HIDE DEF x, h
  <2>4. Entries(Taken(x, h, s), x, x.n + 1) \in Seq(WorkEntry)
    BY <2>1, BucketIds, EntriesOf
  <2> QED BY <2>1, <2>2, <2>3, <2>4 DEF QueryTypeOK
<1>8. CASE Finish
  <2>1. (IF query.kind \in {"bfs", "dfs"} THEN visited \ {query.start} ELSE {}) \in SUBSET Node
    BY DEF QueryTypeOK
  <2> QED BY <1>8, <2>1, AnswerType, EmptySeq DEF Finish
<1>9. CASE UNCHANGED vars
  BY <1>9 DEF vars, index, QueryTypeOK
<1> QED BY <1>1, <1>2, <1>3, <1>4, <1>5, <1>6, <1>7, <1>8, <1>9 DEF Next

\* Every query keeps its variables' types, whatever the graph.
THEOREM QueryTypeCorrect == Spec => []QueryTypeOK
BY QueryTypeInit, QueryTypeStep, PTL DEF Spec

----------------------------------------------------------------------------
(* What lies within a number of hops.                                      *)

Beyond(w) == w \cup {v \in Node : \E u \in w : Linked(u, v)}

LEMMA WithinGrows ==
  ASSUME QueryTypeOK
  PROVE  /\ Within(0) = {query.start}
         /\ \A d \in Nat : Within(d) \in SUBSET Node /\ Within(d + 1) = Beyond(Within(d))
<1> DEFINE F == [n \in Nat |-> [w \in SUBSET Node |-> Beyond(w)]]
           body(g) == [n \in Nat |-> IF n = 0 THEN {query.start} ELSE Beyond(g[n - 1])]
           within == CHOOSE g : g = body(g)
<1>1. {query.start} \in SUBSET Node
  BY QueryFacts
<1>2. F \in [Nat -> [SUBSET Node -> SUBSET Node]]
  BY DEF Beyond
<1>3. PICK f \in [Nat -> SUBSET Node] :
        f = [n \in Nat |-> IF n = 0 THEN {query.start} ELSE F[n][f[n - 1]]]
  <2> DEFINE S == SUBSET Node
             x == {query.start}
  <2>1. x \in S /\ F \in [Nat -> [S -> S]]
    BY <1>1, <1>2
  <2> HIDE DEF F, S, x
  <2>2. \E f \in [Nat -> S] : f = [n \in Nat |-> IF n = 0 THEN x ELSE F[n][f[n - 1]]]
    BY <2>1, Recursion DEF Recurses
  <2> QED BY <2>2 DEF S, x
<1>4. f = body(f)
  <2>1. \A n \in Nat : n # 0 => F[n][f[n - 1]] = Beyond(f[n - 1])
    <3>1. \A n \in Nat : n # 0 => f[n - 1] \in SUBSET Node
      <4>1. f \in [Nat -> SUBSET Node]
        OBVIOUS
      <4>2. \A n \in Nat : n # 0 => n - 1 \in Nat
        OBVIOUS
      <4> QED BY <4>1, <4>2
    <3> QED BY <3>1
  <2> HIDE DEF F
  <2> QED BY <1>3, <2>1
<1>5. within = body(within)
  BY <1>4
<1>6. \A d : Within(d) = within[d]
  BY DEF Within, Beyond
<1> HIDE DEF within
<1>7. within[0] = {query.start} /\ \A d \in Nat : within[d + 1] = Beyond(within[d])
  <2>1. \A n \in Nat : within[n] = IF n = 0 THEN {query.start} ELSE Beyond(within[n - 1])
    BY <1>5
  <2>2. \A d \in Nat : d + 1 \in Nat /\ d + 1 # 0 /\ (d + 1) - 1 = d
    OBVIOUS
  <2> HIDE DEF body
  <2> QED BY <2>1, <2>2
<1> DEFINE T == {d \in Nat : within[d] \in SUBSET Node}
<1>8. Nat \subseteq T
  <2>1. 0 \in T
    BY <1>1, <1>7
  <2>2. \A d \in Nat : d \in T => d + 1 \in T
    BY <1>7 DEF Beyond
  <2> HIDE DEF T
  <2> QED BY <2>1, <2>2, Inductive
<1> QED BY <1>6, <1>7, <1>8

LEMMA WithinMonotone ==
  ASSUME QueryTypeOK, NEW d \in Nat, NEW k \in Nat, d <= k
  PROVE  Within(d) \subseteq Within(k) /\ query.start \in Within(k)
<1> DEFINE T == {n \in Nat : Within(d) \subseteq Within(d + n)}
           U == {n \in Nat : query.start \in Within(n)}
<1>1. Nat \subseteq T
  <2>1. 0 \in T
    OBVIOUS
  <2>2. ASSUME NEW n \in Nat, n \in T PROVE n + 1 \in T
    <3>1. Within(d + n) \subseteq Within((d + n) + 1) /\ (d + n) + 1 = d + (n + 1)
      BY WithinGrows DEF Beyond
    <3> QED BY <2>2, <3>1
  <2> HIDE DEF T
  <2> QED BY <2>1, <2>2, Inductive
<1>2. Nat \subseteq U
  <2>1. 0 \in U
    BY WithinGrows
  <2>2. ASSUME NEW n \in Nat, n \in U PROVE n + 1 \in U
    BY <2>2, WithinGrows DEF Beyond
  <2> HIDE DEF U
  <2> QED BY <2>1, <2>2, Inductive
<1>3. k - d \in T /\ k \in U /\ d + (k - d) = k
  BY <1>1, <1>2
<1> QED BY <1>3

\* A set that no hop leaves holds all that lies at any distance.
LEMMA WithinClosed ==
  ASSUME QueryTypeOK, NEW S, NEW d \in Nat, Within(d) \subseteq S, Beyond(S) \subseteq S
  PROVE  \A k \in Nat : Within(k) \subseteq S
<1> DEFINE T == {k \in Nat : Within(k) \subseteq S}
<1>1. Nat \subseteq T
  <2>1. 0 \in T
    BY WithinGrows, WithinMonotone
  <2>2. ASSUME NEW k \in Nat, k \in T PROVE k + 1 \in T
    BY <2>2, WithinGrows DEF Beyond
  <2> HIDE DEF T
  <2> QED BY <2>1, <2>2, Inductive
<1> QED BY <1>1

\* As many hops as there are nodes reach all that can be reached: until nothing is
\* added every hop adds a node.
LEMMA WithinEverything ==
  ASSUME QueryTypeOK
  PROVE  Cardinality(Node) \in Nat /\ \A k \in Nat : Within(k) \subseteq Within(Cardinality(Node))
<1> DEFINE full(d) == Beyond(Within(d)) \subseteq Within(d)
           T == {d \in Nat : full(d) \/ Cardinality(Within(d)) > d}
<1>1. \A d \in Nat : IsFiniteSet(Within(d)) /\ Cardinality(Within(d)) \in Nat /\ Cardinality(Within(d)) <= Cardinality(Node)
  BY WithinGrows, QueryAssumption, FS_Subset, FS_CardinalityType
<1>2. Cardinality(Node) \in Nat
  BY QueryAssumption, FS_CardinalityType
<1>3. Nat \subseteq T
  <2>1. 0 \in T
    <3>1. Cardinality(Within(0)) = 1
      BY WithinGrows, FS_Singleton
    <3> QED BY <3>1
  <2>2. ASSUME NEW d \in Nat, d \in T PROVE d + 1 \in T
    <3>1. CASE full(d)
      <4>1. Within(d + 1) = Within(d)
        BY <3>1, WithinGrows DEF Beyond
      <4> QED BY <3>1, <4>1
    <3>2. CASE ~full(d)
      <4>1. Within(d) \in SUBSET Within(d + 1) /\ Within(d) # Within(d + 1)
        BY <3>2, WithinGrows DEF Beyond
      <4>2. Cardinality(Within(d)) < Cardinality(Within(d + 1))
        <5>1. IsFiniteSet(Within(d + 1)) /\ Cardinality(Within(d + 1)) \in Nat /\ Cardinality(Within(d)) \in Nat
          BY <1>1
        <5> QED BY <4>1, <5>1, FS_Subset
      <4>3. Cardinality(Within(d)) > d
        BY <2>2, <3>2
      <4> QED BY <1>1, <4>2, <4>3
    <3> QED BY <3>1, <3>2
  <2> HIDE DEF T
  <2> QED BY <2>1, <2>2, Inductive
<1>4. full(Cardinality(Node))
  BY <1>1, <1>2, <1>3
<1> QED BY <1>2, <1>4, WithinClosed

----------------------------------------------------------------------------
(* The queue of bfs, reachable and shortest_path.                          *)

Searches == query.kind \in {"bfs", "reachable", "shortest_path"}

\* Nodes h hops away are expanded.
Deeper(h) == query.kind = "bfs" => h < query.depth

Queued(v, n) == \E i \in DOMAIN work : work[i].node = v /\ work[i].n = n

\* The search is at level h: all that lies within h hops is visited, the queue holds
\* what is left of level h and then nodes first seen one hop further, and all others
\* have no neighbour that is not visited.
Level(h) ==
  /\ query.kind = "bfs" => h <= query.depth
  /\ Within(h) \subseteq visited
  /\ \A i \in DOMAIN work :
       /\ work[i].node \in Within(work[i].n)
       /\ work[i].n = h \/ (work[i].n = h + 1 /\ Deeper(h) /\ work[i].node \notin Within(h))
  /\ \A i, j \in DOMAIN work : i < j => work[i].n <= work[j].n
  /\ Deeper(h) => \A v \in Within(h) : Queued(v, h) \/ Adjacent(v) \subseteq visited
  /\ \A v \in visited \ Within(h) : Queued(v, h + 1)

TargetUnseen ==
  query.kind \in {"reachable", "shortest_path"} /\ query.start # query.target
    => query.target \notin visited

SearchInv ==
  /\ Searches => \E h \in Nat : Level(h)
  /\ TargetUnseen

\* The head leaves the queue, what it leads to joins it at the end.
Moves(E, w) ==
  /\ \A i \in DOMAIN w :
       \/ i + 1 \in DOMAIN work /\ i < Len(work) /\ w[i] = work[i + 1]
       \/ i >= Len(work) /\ i - Len(work) + 1 \in DOMAIN E /\ w[i] = E[i - Len(work) + 1]
  /\ \A i \in DOMAIN work : i # 1 => i - 1 \in DOMAIN w /\ w[i - 1] = work[i]
  /\ \A i \in DOMAIN E : i + Len(work) - 1 \in DOMAIN w /\ w[i + Len(work) - 1] = E[i]

LEMMA QueueMoves ==
  ASSUME QueryTypeOK, work # << >>, NEW E \in Seq(WorkEntry)
  PROVE  Moves(E, Tail(work) \o E)
<1> DEFINE w == Tail(work) \o E
<1>1. /\ Tail(work) \in Seq(WorkEntry) /\ Len(Tail(work)) = Len(work) - 1
      /\ \A i \in 1 .. Len(work) - 1 : Tail(work)[i] = work[i + 1]
      /\ Len(work) \in Nat \ {0} /\ DOMAIN work = 1 .. Len(work)
  BY HeadTailProperties, EmptySeq DEF QueryTypeOK
<1>2. Len(E) \in Nat /\ DOMAIN E = 1 .. Len(E)
  OBVIOUS
<1>3. /\ w \in Seq(WorkEntry) /\ Len(w) = Len(work) - 1 + Len(E)
      /\ \A i \in 1 .. Len(work) - 1 + Len(E) :
           w[i] = IF i <= Len(work) - 1 THEN Tail(work)[i] ELSE E[i - (Len(work) - 1)]
  BY <1>1, ConcatProperties DEF w
<1> HIDE DEF w
<1>4. DOMAIN w = 1 .. Len(work) - 1 + Len(E)
  BY <1>3
<1>5. \A i \in 1 .. Len(work) - 1 : w[i] = work[i + 1]
  BY <1>1, <1>2, <1>3
<1>6. \A i \in Len(work) .. Len(work) - 1 + Len(E) : w[i] = E[i - Len(work) + 1]
  <2> SUFFICES ASSUME NEW i \in Len(work) .. Len(work) - 1 + Len(E) PROVE w[i] = E[i - Len(work) + 1]
    OBVIOUS
  <2>1. i \in 1 .. Len(work) - 1 + Len(E) /\ ~(i <= Len(work) - 1) /\ i - (Len(work) - 1) = i - Len(work) + 1
    BY <1>1, <1>2
  <2> QED BY <1>3, <2>1
<1>7. ASSUME NEW i \in DOMAIN w
      PROVE  \/ i + 1 \in DOMAIN work /\ i < Len(work) /\ w[i] = work[i + 1]
             \/ i >= Len(work) /\ i - Len(work) + 1 \in DOMAIN E /\ w[i] = E[i - Len(work) + 1]
  <2>1. i \in Nat /\ (i \in 1 .. Len(work) - 1 \/ i \in Len(work) .. Len(work) - 1 + Len(E))
    BY <1>1, <1>2, <1>4, <1>7
  <2>2. CASE i \in 1 .. Len(work) - 1
    BY <1>1, <1>5, <2>2
  <2>3. CASE i \in Len(work) .. Len(work) - 1 + Len(E)
    BY <1>1, <1>2, <1>6, <2>3
  <2> QED BY <2>1, <2>2, <2>3
<1>8. ASSUME NEW i \in DOMAIN work, i # 1 PROVE i - 1 \in DOMAIN w /\ w[i - 1] = work[i]
  <2>1. i - 1 \in 1 .. Len(work) - 1 /\ (i - 1) + 1 = i
    BY <1>1, <1>8
  <2> QED BY <1>2, <1>4, <1>5, <2>1, <1>1
<1>9. ASSUME NEW i \in DOMAIN E PROVE i + Len(work) - 1 \in DOMAIN w /\ w[i + Len(work) - 1] = E[i]
  <2>1. i + Len(work) - 1 \in Len(work) .. Len(work) - 1 + Len(E) /\ (i + Len(work) - 1) - Len(work) + 1 = i
    BY <1>1, <1>2
  <2> QED BY <1>1, <1>4, <1>6, <2>1
<1> QED BY <1>7, <1>8, <1>9 DEF w, Moves

LEMMA SameGraph ==
  ASSUME UNCHANGED <<edges, query>>
  PROVE  /\ \A d : Within(d)' = Within(d)
         /\ \A u : Adjacent(u)' = Adjacent(u)
<1>1. \A d : Within(d)' = Within(d)
  BY DEF Within, Linked
<1>2. \A u : Adjacent(u)' = Adjacent(u)
  BY DEF Adjacent, Directions, Incident, Endpoint
<1> QED BY <1>1, <1>2

\* A level whose last node has left the queue is closed: the next one has begun.
LEMMA LevelEnds ==
  ASSUME QueryTypeOK, NEW h \in Nat, Level(h), work # << >>, Head(work).n # h
  PROVE  Level(h + 1) /\ Head(work).n = h + 1
<1>1. Head(work) = work[1] /\ 1 \in DOMAIN work /\ DOMAIN work = 1 .. Len(work) /\ Len(work) \in Nat
  BY HeadOfWork DEF QueryTypeOK
<1>2. Head(work).n = h + 1 /\ Deeper(h)
  BY <1>1 DEF Level
<1>3. \A i \in DOMAIN work : work[i].n = h + 1
  <2> SUFFICES ASSUME NEW i \in DOMAIN work PROVE work[i].n = h + 1
    OBVIOUS
  <2>1. work[1].n <= work[i].n
    BY <1>1, <1>2 DEF Level
  <2>2. work[i].n = h \/ work[i].n = h + 1
    BY DEF Level
  <2> QED BY <1>1, <1>2, <2>1, <2>2
<1>4. \A v \in Within(h) : Adjacent(v) \subseteq visited
  <2>1. \A v : ~Queued(v, h)
    BY <1>3 DEF Queued
  <2> QED BY <1>2, <2>1 DEF Level
<1>5. Within(h) \subseteq Within(h + 1) /\ Within(h + 1) \subseteq visited
  <2>1. Within(h + 1) = Beyond(Within(h))
    BY WithinGrows
  <2> QED BY <1>4, <2>1, AdjacentIsLinked DEF Beyond, Level
<1>6. \A v \in visited \ Within(h) : Queued(v, h + 1)
  BY DEF Level
<1>7. visited \subseteq Within(h + 1)
  BY <1>3, <1>5, <1>6 DEF Queued, Level
<1>8. query.kind = "bfs" => h + 1 <= query.depth
  BY <1>2, QueryFacts DEF Deeper
<1>9. \A i \in DOMAIN work : work[i].node \in Within(work[i].n)
  BY DEF Level
<1>10. \A v \in Within(h + 1) : Queued(v, h + 1) \/ Adjacent(v) \subseteq visited
  BY <1>4, <1>5, <1>6
<1> QED BY <1>2, <1>3, <1>5, <1>7, <1>8, <1>9, <1>10 DEF Level

\* Within a level a pass keeps it.
LEMMA LevelPass ==
  ASSUME QueryTypeOK, QueryTypeOK', NEW h \in Nat, Level(h), work # << >>, Head(work).n = h,
         NEW new \in SUBSET Node,
         new = IF Deeper(h) THEN Fresh(Head(work).node) ELSE {},
         NEW s \in InOrder(new),
         work' = Tail(work) \o Entries(s, Head(work), h + 1),
         visited' = visited \cup new, UNCHANGED <<edges, query>>
  PROVE  Level(h)'
<1> DEFINE x == Head(work)
           E == Entries(s, x, h + 1)
<1>1. /\ x = work[1] /\ x \in WorkEntry /\ 1 \in DOMAIN work /\ DOMAIN work = 1 .. Len(work) /\ Len(work) \in Nat
      /\ x.node \in Within(h) /\ x.node \in Node
  BY HeadOfWork DEF QueryTypeOK, Level
<1>2. /\ E \in Seq(WorkEntry) /\ DOMAIN E = DOMAIN s
      /\ \A i \in DOMAIN s : E[i] = Entry(s[i], h + 1, Extended(x, s[i]))
      /\ \A i \in DOMAIN s : s[i] \in new
      /\ \A v \in new : \E i \in DOMAIN s : s[i] = v
  BY <1>1, ListedNodes, EntriesOf
<1> HIDE DEF x, E
<1>3. \A i \in DOMAIN E : E[i].node \in new /\ E[i].n = h + 1
  BY <1>2 DEF Entry
<1>4. \A v \in new : \E i \in DOMAIN E : E[i].node = v /\ E[i].n = h + 1
  BY <1>2 DEF Entry
<1>5. Moves(E, work')
  <2>1. work' = Tail(work) \o E
    BY DEF E, x
  <2> QED BY <1>2, <2>1, QueueMoves
<1>6. /\ \A d : Within(d)' = Within(d)
      /\ \A u : Adjacent(u)' = Adjacent(u)
      /\ Deeper(h)' = Deeper(h) /\ query' = query
  BY SameGraph DEF Deeper
<1>7. /\ Deeper(h) => new = Adjacent(x.node) \ visited
      /\ ~Deeper(h) => new = {}
      /\ new \cap Within(h) = {}
  BY DEF Fresh, x, Level
<1>8. new \subseteq Within(h + 1)
  BY <1>1, <1>7, WithinGrows, AdjacentIsLinked DEF Beyond
<1>9. ASSUME NEW i \in DOMAIN work'
      PROVE  /\ work'[i].node \in Within(work'[i].n)
             /\ work'[i].n = h \/ (work'[i].n = h + 1 /\ Deeper(h) /\ work'[i].node \notin Within(h))
  <2>1. CASE i + 1 \in DOMAIN work /\ work'[i] = work[i + 1]
    BY <2>1 DEF Level
  <2>2. CASE i - Len(work) + 1 \in DOMAIN E /\ work'[i] = E[i - Len(work) + 1]
    BY <1>3, <1>7, <1>8, <2>2
  <2> QED BY <1>5, <2>1, <2>2 DEF Moves
<1>10. ASSUME NEW i \in DOMAIN work', NEW j \in DOMAIN work', i < j PROVE work'[i].n <= work'[j].n
  <2>1. i \in Nat /\ j \in Nat
    BY DEF QueryTypeOK
  <2>2. CASE j + 1 \in DOMAIN work /\ j < Len(work) /\ work'[j] = work[j + 1]
    <3>1. i + 1 \in DOMAIN work /\ work'[i] = work[i + 1] /\ i + 1 < j + 1
      BY <1>1, <1>5, <1>10, <2>1, <2>2 DEF Moves
    <3> QED BY <2>2, <3>1 DEF Level
  <2>3. CASE j - Len(work) + 1 \in DOMAIN E /\ work'[j] = E[j - Len(work) + 1]
    <3>1. work'[j].n = h + 1
      BY <1>3, <2>3
    <3>2. work'[i].n = h \/ work'[i].n = h + 1
      BY <1>9
    <3> QED BY <3>1, <3>2
  <2> QED BY <1>5, <2>2, <2>3 DEF Moves
<1>11. ASSUME NEW v, NEW n, Queued(v, n) PROVE Queued(v, n)' \/ (v = x.node /\ n = h)
  <2>1. PICK i \in DOMAIN work : work[i].node = v /\ work[i].n = n
    BY <1>11 DEF Queued
  <2>2. CASE i = 1
    BY <1>1, <2>1, <2>2 DEF x
  <2>3. CASE i # 1
    BY <1>5, <2>1, <2>3 DEF Queued, Moves
  <2> QED BY <2>2, <2>3
<1>12. ASSUME Deeper(h), NEW v \in Within(h) PROVE Queued(v, h)' \/ Adjacent(v) \subseteq visited'
  <2>1. CASE Queued(v, h)
    <3>1. CASE v = x.node
      BY <1>7, <1>12, <3>1
    <3> QED BY <1>11, <2>1, <3>1
  <2>2. CASE Adjacent(v) \subseteq visited
    BY <2>2
  <2> QED BY <1>12, <2>1, <2>2 DEF Level
<1>13. ASSUME NEW v \in visited' \ Within(h) PROVE Queued(v, h + 1)'
  <2>1. CASE v \in new
    BY <1>4, <1>5, <2>1 DEF Queued, Moves
  <2>2. CASE v \in visited
    <3>1. Queued(v, h + 1)
      BY <2>2, <1>13 DEF Level
    <3> QED BY <1>11, <3>1
  <2> QED BY <2>1, <2>2
<1>14. Within(h) \subseteq visited' /\ (query.kind = "bfs" => h <= query.depth)
  BY DEF Level
<1> QED BY <1>6, <1>9, <1>10, <1>12, <1>13, <1>14 DEF Level

LEMMA CurrentLevel ==
  ASSUME QueryTypeOK, SearchInv, Searches, work # << >>
  PROVE  \E h \in Nat : Level(h) /\ Head(work).n = h
<1>1. PICK h \in Nat : Level(h)
  BY DEF SearchInv
<1>2. CASE Head(work).n = h
  BY <1>1, <1>2
<1>3. CASE Head(work).n # h
  BY <1>1, <1>3, LevelEnds
<1> QED BY <1>2, <1>3

\* An empty queue: what has been visited is what there is to visit.
LEMMA LevelsDone ==
  ASSUME QueryTypeOK, SearchInv, Searches, work = << >>
  PROVE  /\ query.kind = "bfs" => visited = Within(query.depth)
         /\ query.kind # "bfs" => \A k \in Nat : Within(k) \subseteq visited
<1>1. PICK h \in Nat : Level(h)
  BY DEF SearchInv
<1>2. \A v, n : ~Queued(v, n)
  BY DEF Queued
<1>3. visited = Within(h)
  BY <1>1, <1>2 DEF Level
<1>4. ASSUME Deeper(h) PROVE \A k \in Nat : Within(k) \subseteq visited
  <2>1. \A v \in visited : Adjacent(v) \subseteq visited
    BY <1>1, <1>2, <1>3, <1>4 DEF Level
  <2>2. Beyond(visited) \subseteq visited
    BY <2>1, AdjacentIsLinked DEF Beyond
  <2> QED BY <1>3, <2>2, WithinClosed
<1>5. CASE query.kind = "bfs"
  <2>1. query.depth \in Nat /\ h <= query.depth
    BY <1>1, <1>5, QueryFacts DEF Level
  <2>2. Within(h) \subseteq Within(query.depth)
    BY <2>1, WithinMonotone
  <2>3. CASE Deeper(h)
    BY <1>3, <1>4, <1>5, <2>1, <2>2, <2>3
  <2>4. CASE ~Deeper(h)
    <3>1. h = query.depth
      BY <2>1, <2>4 DEF Deeper
    <3> QED BY <1>3, <1>5, <3>1
  <2> QED BY <2>3, <2>4
<1>6. CASE query.kind # "bfs"
  BY <1>4, <1>6 DEF Deeper
<1> QED BY <1>5, <1>6

LEMMA SearchInit ==
  ASSUME Init PROVE SearchInv /\ ReachIsExact
<1>1. QueryTypeOK
  BY QueryTypeInit
<1>2. ASSUME Searches PROVE Level(0)
  <2>1. /\ work = <<Entry(query.start, 0, IF CarriesPath THEN <<query.start>> ELSE << >>)>>
        /\ visited = {query.start}
    BY <1>2 DEF Init, Searches
  <2>2. work[1].node = query.start /\ work[1].n = 0 /\ DOMAIN work = {1}
    BY <2>1 DEF Entry
  <2>3. Within(0) = {query.start}
    BY <1>1, WithinGrows
  <2>4. query.depth \in Nat
    BY <1>1, QueryFacts
  <2> QED BY <2>1, <2>2, <2>3, <2>4 DEF Level, Queued
<1>3. TargetUnseen
  BY DEF TargetUnseen, Init
<1>4. ReachIsExact
  BY DEF ReachIsExact, Answered, Init
<1> QED BY <1>2, <1>3, <1>4 DEF SearchInv

\* An answer changes nothing of the search.
LEMMA AnswerKeeps ==
  ASSUME SearchInv, UNCHANGED <<edges, query, work, visited>> PROVE SearchInv'
<1>1. \A d : Within(d)' = Within(d)
  BY SameGraph
<1>2. \A u : Adjacent(u)' = Adjacent(u)
  BY SameGraph
<1>3. \A h : Level(h) => Level(h)'
  BY <1>1, <1>2 DEF Level, Deeper, Queued
<1> QED BY <1>3 DEF SearchInv, Searches, TargetUnseen

LEMMA SearchStep ==
  ASSUME QueryTypeOK, SearchInv, ReachIsExact, [Next]_vars PROVE SearchInv' /\ ReachIsExact'
<1> USE QueryFacts
<1>1. QueryTypeOK'
  BY QueryTypeStep
<1>2. CASE ReadNeighbors
  <2>1. UNCHANGED <<edges, query, work, visited>> /\ query.kind = "neighbors"
    BY <1>2 DEF ReadNeighbors, Running, Answer, index
  <2> QED BY <2>1, AnswerKeeps DEF ReachIsExact, Answered
<1>3. CASE Trivial
  <2>1. /\ UNCHANGED <<edges, query, work, visited>> /\ query.kind # "bfs" /\ query.start = query.target
        /\ answer'.found = TRUE
    BY <1>3 DEF Trivial, Seeks, Answer, index
  <2>2. query.target \in Within(Cardinality(Node))
    BY <2>1, WithinEverything, WithinMonotone
  <2> QED BY <2>1, <2>2, AnswerKeeps, SameGraph DEF ReachIsExact, Answered
<1>4. CASE Bfs
  <2> DEFINE x == Head(work)
  <2>1. /\ query.kind = "bfs" /\ work # << >> /\ answer = None
        /\ UNCHANGED <<edges, query, best, answer>>
    BY <1>4 DEF Bfs, Running, index
  <2>2. PICK h \in Nat : Level(h) /\ x.n = h
    BY <2>1, CurrentLevel DEF Searches
  <2> DEFINE new == IF AtDepth(x) THEN {} ELSE Fresh(x.node)
  <2>3. new = (IF Deeper(h) THEN Fresh(x.node) ELSE {}) /\ new \in SUBSET Node
    BY <2>1, <2>2, AdjacentIsLinked DEF AtDepth, Deeper, Fresh
  <2>4. /\ \E s \in InOrder(new) : work' = Tail(work) \o Entries(s, x, h + 1)
        /\ visited' = visited \cup new
    BY <1>4, <2>2 DEF Bfs, Marked
  <2> HIDE DEF new
  <2>5. Level(h)'
    BY <1>1, <2>1, <2>2, <2>3, <2>4, LevelPass
  <2> QED BY <2>1, <2>5 DEF SearchInv, Searches, TargetUnseen, ReachIsExact, Answered
<1>5. CASE Dfs
  BY <1>5 DEF Dfs, Running, index, SearchInv, Searches, TargetUnseen, ReachIsExact, Answered
<1>6. CASE Search
  <2> DEFINE x == Head(work)
  <2>1. /\ query.kind \in {"reachable", "shortest_path"} /\ work # << >> /\ answer = None
        /\ query.start # query.target
    BY <1>6 DEF Search, Running
  <2>2. PICK h \in Nat : Level(h) /\ x.n = h
    BY <2>1, CurrentLevel DEF Searches
  <2>3. CASE query.target \in Adjacent(x.node)
    <3>1. UNCHANGED <<edges, query, work, visited>> /\ answer'.found = TRUE
      BY <1>6, <2>3 DEF Search, Answer, index
    <3>2. x.node \in Within(h)
      BY <2>1, <2>2, HeadOfWork DEF Level
    <3>3. query.target \in Within(h + 1)
      <4>1. query.target \in Node /\ Linked(x.node, query.target)
        BY <2>3, AdjacentIsLinked
      <4>2. Within(h + 1) = Beyond(Within(h))
        BY WithinGrows
      <4> QED BY <3>2, <4>1, <4>2 DEF Beyond
    <3>4. query.target \in Within(Cardinality(Node))
      BY <3>3, WithinEverything
    <3> QED BY <2>1, <3>1, <3>4, AnswerKeeps, SameGraph DEF ReachIsExact, Answered
  <2>4. CASE query.target \notin Adjacent(x.node)
    <3> DEFINE new == Fresh(x.node)
    <3>1. /\ \E s \in InOrder(new) : work' = Tail(work) \o Entries(s, x, h + 1)
          /\ visited' = visited \cup new
          /\ UNCHANGED <<edges, query, best, answer>>
      BY <1>6, <2>2, <2>4 DEF Search, Marked, index
    <3>2. new \in SUBSET Node /\ new = (IF Deeper(h) THEN Fresh(x.node) ELSE {}) /\ query.target \notin new
      BY <2>1, <2>4, AdjacentIsLinked DEF Deeper, Fresh
    <3> HIDE DEF new
    <3>3. Level(h)'
      BY <1>1, <2>1, <2>2, <3>1, <3>2, LevelPass
    <3>4. query.target \notin visited'
      BY <2>1, <3>1, <3>2 DEF SearchInv, TargetUnseen
    <3> QED BY <2>1, <3>1, <3>3, <3>4 DEF SearchInv, TargetUnseen, ReachIsExact, Answered
  <2> QED BY <2>3, <2>4
<1>7. CASE Dijkstra
  <2>1. query.kind = "dijkstra" /\ query' = query
    <3>1. PICK i \in DOMAIN work : \/ Skip(i) \/ Settle(i) \/ Answer(TRUE, {}, work[i].path)
      BY <1>7 DEF Dijkstra
    <3> QED BY <1>7, <3>1 DEF Dijkstra, Running, Skip, Settle, Answer, index
  <2> QED BY <2>1 DEF SearchInv, Searches, TargetUnseen, ReachIsExact, Answered
<1>8. CASE Hop
  BY <1>8 DEF Hop, Running, index, SearchInv, Searches, TargetUnseen, ReachIsExact, Answered
<1>9. CASE Finish
  <2>1. /\ UNCHANGED <<edges, query, work, visited>>
        /\ Exhausted
        /\ answer' = [found |-> query.kind = "match",
                      ids |-> IF query.kind \in {"bfs", "dfs"} THEN visited \ {query.start} ELSE {},
                      path |-> << >>]
    BY <1>9 DEF Finish, Answer, index
  <2>2. SearchInv'
    BY <2>1, AnswerKeeps
  <2>3. CASE query.kind = "bfs"
    <3>1. work = << >>
      BY <2>1, <2>3 DEF Exhausted
    <3>2. visited = Within(query.depth)
      BY <2>3, <3>1, LevelsDone DEF Searches
    <3> QED BY <2>1, <2>2, <2>3, <3>2, SameGraph DEF ReachIsExact, Answered
  <2>4. CASE query.kind = "reachable"
    <3>1. work = << >> /\ query.start # query.target
      BY <2>1, <2>4 DEF Exhausted, Seeks
    <3>2. query.target \notin visited
      BY <2>4, <3>1 DEF SearchInv, TargetUnseen
    <3>3. query.target \notin Within(Cardinality(Node))
      BY <2>4, <3>1, <3>2, LevelsDone, WithinEverything DEF Searches
    <3>4. answer'.found = FALSE
      BY <2>1, <2>4
    <3> QED BY <2>1, <2>2, <2>4, <3>3, <3>4, SameGraph DEF ReachIsExact, Answered
  <2>5. CASE query.kind \notin {"bfs", "reachable"}
    BY <2>1, <2>2, <2>5 DEF ReachIsExact, Answered
  <2> QED BY <2>3, <2>4, <2>5
<1>10. CASE UNCHANGED vars
  <2>1. UNCHANGED <<edges, query, work, visited, answer>>
    BY <1>10 DEF vars, index
  <2> QED BY <2>1, AnswerKeeps, SameGraph DEF ReachIsExact, Answered
<1> QED BY <1>2, <1>3, <1>4, <1>5, <1>6, <1>7, <1>8, <1>9, <1>10 DEF Next

\* bfs returns exactly the nodes within depth hops of the start, and reachable tells
\* whether there is a walk of any length to the target.
THEOREM SearchesReach == Spec => []ReachIsExact
<1>1. Init => QueryTypeOK /\ SearchInv /\ ReachIsExact
  BY QueryTypeInit, SearchInit
<1>2. QueryTypeOK /\ SearchInv /\ ReachIsExact /\ [Next]_vars => (QueryTypeOK /\ SearchInv /\ ReachIsExact)'
  BY QueryTypeStep, SearchStep
<1> QED BY <1>1, <1>2, PTL DEF Spec

----------------------------------------------------------------------------
(* Paths.                                                                  *)

Walk(p) ==
  /\ p \in Seq(Node) /\ p # << >> /\ p[1] = query.start
  /\ \A i \in 1 .. Len(p) - 1 : Linked(p[i], p[i + 1])

Simple(p) == Walk(p) /\ \A i, j \in DOMAIN p : p[i] = p[j] => i = j

Longer(paths) ==
  paths \cup {Append(x[1], x[2]) : x \in {y \in paths \X Node :
    Linked(Last(y[1]), y[2]) /\ \A i \in DOMAIN y[1] : y[1][i] # y[2]}}

LEMMA AppendIs ==
  ASSUME NEW S, NEW p \in Seq(S), NEW v \in S
  PROVE  /\ Append(p, v) \in Seq(S) /\ Append(p, v) # << >>
         /\ Len(Append(p, v)) = Len(p) + 1 /\ DOMAIN Append(p, v) = 1 .. Len(p) + 1
         /\ \A i \in 1 .. Len(p) : Append(p, v)[i] = p[i]
         /\ Append(p, v)[Len(p) + 1] = v /\ Last(Append(p, v)) = v
         /\ Len(p) \in Nat
BY AppendProperties DEF Last

LEMMA LongerIs ==
  ASSUME NEW paths, NEW p
  PROVE  /\ p \in paths => p \in Longer(paths)
         /\ \A q \in paths, v \in Node :
              p = Append(q, v) /\ Linked(Last(q), v) /\ (\A i \in DOMAIN q : q[i] # v)
                => p \in Longer(paths)
<1>1. ASSUME NEW q \in paths, NEW v \in Node,
             p = Append(q, v), Linked(Last(q), v), \A i \in DOMAIN q : q[i] # v
      PROVE  p \in Longer(paths)
  <2> DEFINE y == <<q, v>>
  <2>1. y \in paths \X Node /\ y[1] = q /\ y[2] = v
    OBVIOUS
  <2> HIDE DEF y
  <2> QED BY <1>1, <2>1 DEF Longer
<1>2. p \in paths => p \in Longer(paths)
  BY DEF Longer
<1> QED BY <1>1, <1>2

LEMMA PathsGrow ==
  ASSUME QueryTypeOK
  PROVE  \E upto \in [Nat -> SUBSET Seq(Node)] :
           /\ upto[0] = {<<query.start>>}
           /\ \A n \in Nat : upto[n + 1] = Longer(upto[n])
           /\ SimplePaths = upto[Cardinality(Node)]
<1> DEFINE S == SUBSET Seq(Node)
           x == {<<query.start>>}
           F == [n \in Nat |-> [w \in S |-> Longer(w)]]
           body(g) == [n \in Nat |-> IF n = 0 THEN x ELSE Longer(g[n - 1])]
           upto == CHOOSE g : g = body(g)
<1>1. x \in S
  BY QueryFacts
<1>2. \A w \in S : Longer(w) \in S
  <2> SUFFICES ASSUME NEW w \in S, NEW q \in Longer(w), q \notin w PROVE q \in Seq(Node)
    OBVIOUS
  <2>1. PICK y \in w \X Node : q = Append(y[1], y[2])
    BY DEF Longer
  <2> QED BY <2>1, AppendIs
<1> HIDE DEF S, x
<1>3. F \in [Nat -> [S -> S]]
  BY <1>2
<1>4. \E f \in [Nat -> S] : f = [n \in Nat |-> IF n = 0 THEN x ELSE F[n][f[n - 1]]]
  <2> HIDE DEF F
  <2> QED BY <1>1, <1>3, Recursion DEF Recurses
<1>5. PICK f \in [Nat -> S] : f = [n \in Nat |-> IF n = 0 THEN x ELSE F[n][f[n - 1]]]
  BY <1>4
<1>6. f = body(f)
  <2>1. \A n \in Nat : n # 0 => n - 1 \in Nat /\ f[n - 1] \in S
    OBVIOUS
  <2>2. \A n \in Nat : n # 0 => F[n][f[n - 1]] = Longer(f[n - 1])
    BY <2>1
  <2> HIDE DEF F
  <2> QED BY <1>5, <2>2
<1>7. upto = body(upto)
  BY <1>6
<1>8. SimplePaths = upto[Cardinality(Node)]
  BY DEF SimplePaths, Longer, x
<1> HIDE DEF upto
<1>9. \A n \in Nat : upto[n] = IF n = 0 THEN x ELSE Longer(upto[n - 1])
  BY <1>7
<1>10. upto[0] = x /\ \A n \in Nat : upto[n + 1] = Longer(upto[n])
  <2>1. \A n \in Nat : n + 1 \in Nat /\ n + 1 # 0 /\ (n + 1) - 1 = n
    OBVIOUS
  <2> HIDE DEF body
  <2> QED BY <1>9, <2>1
<1> DEFINE T == {n \in Nat : upto[n] \in S}
<1>11. Nat \subseteq T
  <2>1. 0 \in T
    BY <1>1, <1>10
  <2>2. \A n \in Nat : n \in T => n + 1 \in T
    BY <1>2, <1>10
  <2> HIDE DEF T
  <2> QED BY <2>1, <2>2, Inductive
<1>12. upto \in [Nat -> S]
  BY <1>7, <1>11
<1> QED BY <1>8, <1>10, <1>12 DEF S, x

LEMMA SimpleStart == ASSUME QueryTypeOK PROVE Simple(<<query.start>>)
BY QueryFacts DEF Simple, Walk

LEMMA SimpleAppend ==
  ASSUME QueryTypeOK, NEW p, Simple(p), NEW v \in Node, Linked(Last(p), v), \A i \in DOMAIN p : p[i] # v
  PROVE  Simple(Append(p, v))
<1> DEFINE q == Append(p, v)
<1>1. p \in Seq(Node) /\ Len(p) \in Nat \ {0} /\ DOMAIN p = 1 .. Len(p) /\ p[1] = query.start
  BY EmptySeq DEF Simple, Walk
<1>2. /\ q \in Seq(Node) /\ q # << >> /\ Len(q) = Len(p) + 1 /\ DOMAIN q = 1 .. Len(p) + 1
      /\ \A i \in 1 .. Len(p) : q[i] = p[i]
      /\ q[Len(p) + 1] = v
  BY <1>1, AppendIs
<1> HIDE DEF q
<1>3. q[1] = query.start
  BY <1>1, <1>2
<1>4. ASSUME NEW i \in 1 .. Len(q) - 1 PROVE Linked(q[i], q[i + 1])
  <2>1. i \in 1 .. Len(p)
    BY <1>1, <1>2
  <2>2. CASE i = Len(p)
    BY <1>1, <1>2, <2>1, <2>2 DEF Last
  <2>3. CASE i # Len(p)
    <3> DEFINE l == Len(p)
    <3>1. i \in 1 .. l - 1 /\ i + 1 \in 1 .. l
      <4>1. l \in Nat /\ i \in 1 .. l /\ i # l
        BY <1>1, <2>1, <2>3
      <4> HIDE DEF l
      <4> QED BY <4>1
    <3> QED BY <1>2, <2>1, <3>1 DEF Simple, Walk
  <2> QED BY <2>2, <2>3
<1>5. ASSUME NEW i \in DOMAIN q, NEW j \in DOMAIN q, q[i] = q[j] PROVE i = j
  <2>1. i \in 1 .. Len(p) \/ i = Len(p) + 1
    BY <1>1, <1>2
  <2>2. j \in 1 .. Len(p) \/ j = Len(p) + 1
    BY <1>1, <1>2
  <2> QED BY <1>1, <1>2, <1>5, <2>1, <2>2 DEF Simple
<1> QED BY <1>2, <1>3, <1>4, <1>5 DEF q, Simple, Walk

LEMMA SimpleFront ==
  ASSUME QueryTypeOK, NEW p, Simple(p), Len(p) > 1
  PROVE  \E q \in Seq(Node), v \in Node :
           /\ p = Append(q, v) /\ Simple(q) /\ Len(q) = Len(p) - 1
           /\ Linked(Last(q), v) /\ \A i \in DOMAIN q : q[i] # v /\ q[i] = p[i]
<1>1. p \in Seq(Node) /\ p # << >>
  BY DEF Simple, Walk
<1>2. PICK q \in Seq(Node), v \in Node : p = Append(q, v)
  BY <1>1, SequenceEmptyOrAppend
<1>3. /\ Len(p) = Len(q) + 1 /\ DOMAIN p = 1 .. Len(q) + 1 /\ p[Len(q) + 1] = v
      /\ \A i \in 1 .. Len(q) : p[i] = q[i]
      /\ Len(q) \in Nat
  BY <1>2, AppendIs
<1>4. DOMAIN q = 1 .. Len(q) /\ q # << >> /\ Len(q) \in 1 .. Len(q)
  BY <1>3
<1>5. q[1] = query.start
  BY <1>3, <1>4 DEF Simple, Walk
<1>6. ASSUME NEW i \in 1 .. Len(q) - 1 PROVE Linked(q[i], q[i + 1])
  <2>1. i \in 1 .. Len(p) - 1 /\ i \in 1 .. Len(q) /\ i + 1 \in 1 .. Len(q)
    BY <1>3
  <2> QED BY <1>3, <2>1 DEF Simple, Walk
<1>7. ASSUME NEW i \in DOMAIN q, NEW j \in DOMAIN q, q[i] = q[j] PROVE i = j
  BY <1>3, <1>4, <1>7 DEF Simple
<1>8. Linked(Last(q), v)
  <2>1. Len(q) \in 1 .. Len(p) - 1
    BY <1>3, <1>4
  <2>2. Linked(p[Len(q)], p[Len(q) + 1])
    BY <2>1 DEF Simple, Walk
  <2> QED BY <1>3, <1>4, <2>2 DEF Last
<1>9. ASSUME NEW i \in DOMAIN q PROVE q[i] # v /\ q[i] = p[i]
  <2>1. i \in DOMAIN p /\ Len(q) + 1 \in DOMAIN p /\ i # Len(q) + 1
    BY <1>3, <1>4
  <2> QED BY <1>3, <1>4, <2>1 DEF Simple
<1>10. Simple(q)
  BY <1>4, <1>5, <1>6, <1>7 DEF Simple, Walk
<1> QED BY <1>2, <1>3, <1>8, <1>9, <1>10

\* A path that repeats no node is no longer than there are nodes.
LEMMA SimpleIsShort ==
  ASSUME QueryTypeOK, NEW p, Simple(p)
  PROVE  Len(p) \in Nat \ {0} /\ Cardinality(Node) \in Nat /\ Len(p) <= Cardinality(Node)
<1>1. p \in Seq(Node) /\ Len(p) \in Nat \ {0} /\ DOMAIN p = 1 .. Len(p)
  BY EmptySeq DEF Simple, Walk
<1>2. p \in Injection(1 .. Len(p), Node)
  BY <1>1 DEF Simple, Injection, IsInjective
<1>3. IsFiniteSet(1 .. Len(p)) /\ Cardinality(1 .. Len(p)) = Len(p)
  BY <1>1, FS_Interval
<1>4. IsFiniteSet(Node) /\ Cardinality(Node) \in Nat
  BY QueryAssumption, FS_CardinalityType
<1> QED BY <1>1, <1>2, <1>3, <1>4, FS_Injection

LEMMA SimplePathsAre == ASSUME QueryTypeOK, NEW p PROVE p \in SimplePaths <=> Simple(p)
<1>1. PICK upto \in [Nat -> SUBSET Seq(Node)] :
        /\ upto[0] = {<<query.start>>}
        /\ \A n \in Nat : upto[n + 1] = Longer(upto[n])
        /\ SimplePaths = upto[Cardinality(Node)]
  BY PathsGrow
<1>2. Cardinality(Node) \in Nat
  BY QueryAssumption, FS_CardinalityType
<1> DEFINE T == {n \in Nat : \A q \in upto[n] : Simple(q)}
           U == {n \in Nat : \A q : Simple(q) /\ Len(q) <= n + 1 => q \in upto[n]}
<1>3. Nat \subseteq T
  <2>1. 0 \in T
    BY <1>1, SimpleStart
  <2>2. ASSUME NEW n \in Nat, n \in T PROVE n + 1 \in T
    <3>1. ASSUME NEW q \in upto[n + 1] PROVE Simple(q)
      <4>1. q \in Longer(upto[n])
        BY <1>1, <3>1
      <4>2. CASE q \in upto[n]
        BY <2>2, <4>2
      <4>3. CASE q \notin upto[n]
        <5>1. PICK r \in upto[n], v \in Node :
                q = Append(r, v) /\ Linked(Last(r), v) /\ \A i \in DOMAIN r : r[i] # v
          <6>1. PICK y \in upto[n] \X Node :
                  /\ q = Append(y[1], y[2])
                  /\ Linked(Last(y[1]), y[2]) /\ \A i \in DOMAIN y[1] : y[1][i] # y[2]
            BY <4>1, <4>3 DEF Longer
          <6> QED BY <6>1
        <5>2. Simple(r)
          BY <2>2
        <5> QED BY <5>1, <5>2, SimpleAppend
      <4> QED BY <4>2, <4>3
    <3> QED BY <3>1
  <2> HIDE DEF T
  <2> QED BY <2>1, <2>2, Inductive
<1>4. Nat \subseteq U
  <2>1. 0 \in U
    <3>1. ASSUME NEW q, Simple(q), Len(q) <= 0 + 1 PROVE q = <<query.start>>
      <4>1. q \in Seq(Node) /\ Len(q) = 1 /\ q[1] = query.start
        <5>1. Len(q) \in Nat \ {0}
          BY <3>1, SimpleIsShort
        <5>2. q \in Seq(Node) /\ q[1] = query.start
          BY <3>1 DEF Simple, Walk
        <5>3. Len(q) = 1
          BY <3>1, <5>1
        <5> QED BY <5>2, <5>3
      <4> QED BY <4>1
    <3> QED BY <1>1, <3>1
  <2>2. ASSUME NEW n \in Nat, n \in U PROVE n + 1 \in U
    <3> SUFFICES ASSUME NEW q, Simple(q), Len(q) <= (n + 1) + 1 PROVE q \in upto[n + 1]
      OBVIOUS
    <3>1. Len(q) \in Nat
      BY SimpleIsShort
    <3>2. CASE Len(q) <= n + 1
      <4>1. q \in upto[n]
        BY <2>2, <3>2
      <4> QED BY <1>1, <4>1, LongerIs
    <3>3. CASE ~(Len(q) <= n + 1)
      <4>1. Len(q) > 1
        BY <3>1, <3>3
      <4>2. PICK r \in Seq(Node), v \in Node :
              /\ q = Append(r, v) /\ Simple(r) /\ Len(r) = Len(q) - 1
              /\ Linked(Last(r), v) /\ \A i \in DOMAIN r : r[i] # v
        BY <4>1, SimpleFront
      <4>3. r \in upto[n]
        BY <2>2, <3>1, <4>2
      <4>4. q \in Longer(upto[n])
        <5> HIDE DEF U
        <5> QED BY <4>2, <4>3, LongerIs
      <4> QED BY <1>1, <4>4
    <3> QED BY <3>2, <3>3
  <2> HIDE DEF U
  <2> QED BY <2>1, <2>2, Inductive
<1>5. p \in SimplePaths => Simple(p)
  BY <1>1, <1>2, <1>3
<1>6. ASSUME Simple(p) PROVE p \in SimplePaths
  BY <1>1, <1>2, <1>4, <1>6, SimpleIsShort
<1> QED BY <1>5, <1>6

----------------------------------------------------------------------------
(* Costs.                                                                  *)

Links(u, v) ==
  {e \in edges : \/ query.direction # "in" /\ e.from_id = u /\ e.to_id = v
                 \/ query.direction # "out" /\ e.to_id = u /\ e.from_id = v}

\* The weights a hop is scanned for are those of the edges that make it.
LEMMA LinkWeights ==
  ASSUME QueryTypeOK, NEW u, NEW v
  PROVE  Min({EdgeWeight(e) : e \in Links(u, v)}) = Cheapest(u, v)
<1>1. ASSUME NEW e \in Links(u, v)
      PROVE  \E d \in Directions : e \in Incident(u, d) /\ Endpoint(e, d) = v
  BY <1>1, QueryFacts DEF Links, Directions, Direction, Incident, Endpoint
<1>2. ASSUME NEW d \in Directions, NEW e \in Incident(u, d), Endpoint(e, d) = v
      PROVE  e \in Links(u, v)
  <2>1. d \in {"out", "in"} /\ query.direction \in {"both", d}
    BY QueryFacts DEF Directions, Direction
  <2> QED BY <1>2, <2>1 DEF Links, Incident, Endpoint
<1>3. {EdgeWeight(e) : e \in Links(u, v)} = Weights(u, v)
  BY <1>1, <1>2 DEF Weights
<1> QED BY <1>3, Zenon DEF Min, Cheapest

LEMMA CostSteps ==
  ASSUME QueryTypeOK, query.edge_type = None, NEW p, Walk(p)
  PROVE  \E c \in [1 .. Len(p) -> Nat] :
           /\ c[1] = 0 /\ \A i \in 2 .. Len(p) : c[i] = c[i - 1] + Cheapest(p[i - 1], p[i])
           /\ Cost(p) = c[Len(p)]
<1> DEFINE l == Len(p)
           w(i) == Cheapest(p[i - 1], p[i])
           F == [n \in Nat |-> [x \in Nat |-> IF n # 0 /\ n + 1 <= l THEN x + w(n + 1) ELSE x]]
           body(g) == [i \in 1 .. l |-> IF i = 1 THEN 0 ELSE g[i - 1] + w(i)]
           scan(g) == [i \in 1 .. l |-> IF i = 1 THEN 0
                         ELSE g[i - 1] + Min({EdgeWeight(e) : e \in Links(p[i - 1], p[i])})]
           cost == CHOOSE g : g = scan(g)
<1>1. l \in Nat \ {0} /\ p \in Seq(Node) /\ DOMAIN p = 1 .. l
  BY EmptySeq DEF Walk
<1>2. ASSUME NEW i \in 2 .. l PROVE w(i) \in Nat
  <2>1. i - 1 \in 1 .. l - 1 /\ (i - 1) + 1 = i /\ i \in 1 .. l
    BY <1>1
  <2>2. p[i] \in Adjacent(p[i - 1])
    <3>1. Linked(p[i - 1], p[i]) /\ p[i] \in Node
      BY <1>1, <2>1 DEF Walk
    <3> QED BY <3>1, AdjacentIsLinked
  <2> QED BY <2>2, CheapestIsLeast
<1>3. F \in [Nat -> [Nat -> Nat]]
  <2>1. \A n \in Nat : n # 0 /\ n + 1 <= l => w(n + 1) \in Nat
    BY <1>1, <1>2
  <2> HIDE DEF w, l
  <2> QED BY <2>1
<1>4. PICK f \in [Nat -> Nat] : f = [n \in Nat |-> IF n = 0 THEN 0 ELSE F[n][f[n - 1]]]
  <2> DEFINE S == Nat
             x == 0
  <2>1. x \in S
    OBVIOUS
  <2>2. F \in [Nat -> [S -> S]]
    BY <1>3
  <2> HIDE DEF F, S, x
  <2>3. \E f \in [Nat -> S] : f = [n \in Nat |-> IF n = 0 THEN x ELSE F[n][f[n - 1]]]
    BY ONLY <2>1, <2>2, Recursion DEF Recurses
  <2> QED BY <2>3 DEF S, x
<1> DEFINE c == [i \in 1 .. l |-> f[i - 1]]
<1>5. c \in [1 .. l -> Nat] /\ c[1] = 0
  <2>1. \A i \in 1 .. l : i - 1 \in Nat
    BY <1>1
  <2>2. 1 \in 1 .. l /\ f[0] = 0
    BY <1>1, <1>4
  <2> HIDE DEF l, w, F, body, scan, cost
  <2>3. \A i \in 1 .. l : c[i] \in Nat
    BY <2>1
  <2> QED BY <2>2, <2>3
<1>6. ASSUME NEW i \in 2 .. l PROVE c[i] = c[i - 1] + w(i)
  <2>1. i - 1 \in Nat \ {0} /\ (i - 1) + 1 <= l /\ i - 1 \in 1 .. l /\ i \in 1 .. l /\ (i - 1) - 1 \in Nat
    BY <1>1
  <2>2. f[i - 1] = F[i - 1][f[(i - 1) - 1]]
    <3> HIDE DEF F
    <3> QED BY <1>4, <2>1
  <2>3. f[(i - 1) - 1] \in Nat /\ (i - 1) + 1 = i
    BY <1>4, <2>1
  <2>4. F[i - 1][f[(i - 1) - 1]] = f[(i - 1) - 1] + w(i)
    <3> HIDE DEF w, l
    <3> QED BY <2>1, <2>3
  <2> QED BY <2>1, <2>2, <2>4
<1> HIDE DEF c
<1>7. \A g : scan(g) = body(g)
  BY LinkWeights, Zenon
<1>8. c = body(c)
  <2> HIDE DEF w
  <2>1. ASSUME NEW i \in 1 .. l PROVE c[i] = IF i = 1 THEN 0 ELSE c[i - 1] + w(i)
    <3>1. i = 1 \/ i \in 2 .. l
      BY <1>1
    <3> QED BY <1>5, <1>6, <3>1
  <2> QED BY <1>5, <2>1
<1>9. Cost(p) = cost[l]
  BY DEF Cost, Links
<1>10. cost = body(cost)
  <2>1. c = scan(c)
    BY <1>7, <1>8
  <2>2. cost = scan(cost)
    <3> HIDE DEF scan
    <3> QED BY <2>1
  <2> HIDE DEF scan, body, cost
  <2> QED BY <1>7, <2>2
<1> HIDE DEF cost
<1>11. \A i \in 1 .. l : cost[i] = IF i = 1 THEN 0 ELSE cost[i - 1] + w(i)
  <2> HIDE DEF w
  <2> QED BY <1>10
<1> HIDE DEF w
<1> DEFINE T == {n \in Nat : \A i \in 1 .. l : i <= n + 1 => cost[i] = c[i]}
<1>12. Nat \subseteq T
  <2>1. 0 \in T
    BY <1>5, <1>11
  <2>2. ASSUME NEW n \in Nat, n \in T PROVE n + 1 \in T
    <3> SUFFICES ASSUME NEW i \in 1 .. l, i = n + 2 PROVE cost[i] = c[i]
      BY <2>2
    <3>1. i \in 2 .. l /\ i # 1 /\ i - 1 \in 1 .. l /\ i - 1 <= n + 1
      BY <1>1
    <3>2. cost[i - 1] = c[i - 1]
      BY <2>2, <3>1
    <3> QED BY <1>6, <1>11, <3>1, <3>2
  <2> HIDE DEF T
  <2> QED BY <2>1, <2>2, Inductive
<1>13. cost[l] = c[l]
  <2> HIDE DEF T
  <2>1. l \in 1 .. l /\ l \in T
    BY <1>1, <1>12
  <2> USE DEF T
  <2>2. l <= l + 1
    BY <1>1
  <2> HIDE DEF l
  <2> QED BY <2>1, <2>2
<1> QED BY <1>5, <1>6, <1>9, <1>13 DEF w

LEMMA CostStart == ASSUME QueryTypeOK, query.edge_type = None PROVE Cost(<<query.start>>) = 0
<1>1. Walk(<<query.start>>) /\ Len(<<query.start>>) = 1
  BY SimpleStart DEF Simple
<1> HIDE DEF Walk
<1> QED BY <1>1, CostSteps

LEMMA CostIsNat ==
  ASSUME QueryTypeOK, query.edge_type = None, NEW p, Simple(p) PROVE Cost(p) \in Nat
<1>1. Walk(p) /\ Len(p) \in 1 .. Len(p)
  BY SimpleIsShort DEF Simple
<1> QED BY <1>1, CostSteps

LEMMA CostAppend ==
  ASSUME QueryTypeOK, query.edge_type = None, NEW p, Simple(p), NEW v \in Node,
         Linked(Last(p), v), \A i \in DOMAIN p : p[i] # v
  PROVE  /\ Cost(Append(p, v)) = Cost(p) + Cheapest(Last(p), v)
         /\ Cheapest(Last(p), v) \in Nat
<1> DEFINE q == Append(p, v)
           l == Len(p)
<1>1. p \in Seq(Node) /\ l \in Nat \ {0} /\ Walk(p) /\ Walk(q)
  BY SimpleIsShort, SimpleAppend DEF Simple, Walk
<1>2. /\ Len(q) = l + 1 /\ q[l + 1] = v /\ \A i \in 1 .. l : q[i] = p[i]
  BY <1>1, AppendIs
<1> HIDE DEF q, l
<1>3. PICK c \in [1 .. l -> Nat] :
        /\ c[1] = 0 /\ \A i \in 2 .. l : c[i] = c[i - 1] + Cheapest(p[i - 1], p[i])
        /\ Cost(p) = c[l]
  BY <1>1, CostSteps DEF l
<1>4. PICK d \in [1 .. l + 1 -> Nat] :
        /\ d[1] = 0 /\ \A i \in 2 .. l + 1 : d[i] = d[i - 1] + Cheapest(q[i - 1], q[i])
        /\ Cost(q) = d[l + 1]
  BY <1>1, <1>2, CostSteps
<1> DEFINE T == {n \in Nat : \A i \in 1 .. l : i <= n + 1 => c[i] = d[i]}
<1>5. Nat \subseteq T
  <2>1. 0 \in T
    BY <1>3, <1>4
  <2>2. ASSUME NEW n \in Nat, n \in T PROVE n + 1 \in T
    <3> SUFFICES ASSUME NEW i \in 1 .. l, i = n + 2 PROVE c[i] = d[i]
      BY <2>2
    <3>1. i \in 2 .. l /\ i \in 2 .. l + 1 /\ i - 1 \in 1 .. l /\ i - 1 <= n + 1
      BY <1>1
    <3>2. c[i - 1] = d[i - 1] /\ q[i] = p[i] /\ q[i - 1] = p[i - 1]
      BY <1>2, <2>2, <3>1
    <3> QED BY <1>3, <1>4, <3>1, <3>2
  <2> HIDE DEF T
  <2> QED BY <2>1, <2>2, Inductive
<1>6. c[l] = d[l]
  <2> HIDE DEF T
  <2>1. l \in 1 .. l /\ l \in T /\ l <= l + 1
    BY <1>1, <1>5
  <2> USE DEF T
  <2> QED BY <2>1
<1>7. l + 1 \in 2 .. l + 1 /\ (l + 1) - 1 = l /\ q[l] = Last(p)
  BY <1>1, <1>2 DEF Last, l
<1>8. d[l + 1] = d[l] + Cheapest(Last(p), v)
  BY <1>2, <1>4, <1>7
<1>9. Cheapest(Last(p), v) \in Nat
  BY AdjacentIsLinked, CheapestIsLeast
<1> QED BY <1>3, <1>4, <1>6, <1>8, <1>9 DEF q

----------------------------------------------------------------------------
(* dijkstra.                                                               *)

\* An entry of the heap is a path to its node, of the cost it is ordered by, over
\* settled nodes.
Tentative(y) ==
  /\ Simple(y.path) /\ Last(y.path) = y.node /\ Cost(y.path) = y.n
  /\ \A j \in 1 .. Len(y.path) - 1 : y.path[j] \in visited
  /\ best[y.node] # None /\ best[y.node] <= y.n

HeapIsTentative == \A i \in DOMAIN work : Tentative(work[i])

\* Every node seen and not settled is in the heap with its best distance.
HeapCovers ==
  \A u \in Node \ visited : best[u] # None =>
    \E i \in DOMAIN work : work[i].node = u /\ work[i].n = best[u]

\* The hops of a settled node are relaxed.
SettledRelaxed ==
  \A v \in visited :
    /\ best[v] # None
    /\ \A u \in Node : Linked(v, u) => best[u] # None /\ best[u] <= best[v] + Cheapest(v, u)

\* No node that is left is nearer than a settled one.
SettledNearer ==
  \A v \in visited, u \in Node \ visited : best[u] # None => best[v] <= best[u]

DistanceInv ==
  /\ best[query.start] = 0 /\ query.target \notin visited
  /\ HeapIsTentative /\ HeapCovers /\ SettledRelaxed /\ SettledNearer

DijkstraInv == query.kind = "dijkstra" => DistanceInv

\* What taking an entry out of the heap and pushing others leaves.
HeapAfter(c, s, i, t) ==
  /\ \A k \in DOMAIN c : (\E j \in DOMAIN s : c[k] = s[j]) \/ (\E j \in DOMAIN t : c[k] = t[j])
  /\ \A j \in DOMAIN s \ {i} : \E k \in DOMAIN c : c[k] = s[j]
  /\ \A j \in DOMAIN t : \E k \in DOMAIN c : c[k] = t[j]

LEMMA HeapMoves ==
  ASSUME NEW S, NEW s \in Seq(S), NEW i \in DOMAIN s, NEW t \in Seq(S)
  PROVE  HeapAfter(RemoveAt(s, i) \o t, s, i, t)
<1> DEFINE r == RemoveAt(s, i)
           l == Len(s)
           c == r \o t
<1>1. /\ r \in Seq(S) /\ Len(r) = l - 1 /\ \A j \in 1 .. l - 1 : r[j] = IF j < i THEN s[j] ELSE s[j + 1]
      /\ i \in 1 .. l /\ l \in Nat /\ DOMAIN s = 1 .. l /\ DOMAIN t = 1 .. Len(t) /\ Len(t) \in Nat
  BY RemoveAtIs
<1> HIDE DEF r
<1>2. /\ c \in Seq(S) /\ Len(c) = l - 1 + Len(t)
      /\ \A k \in 1 .. l - 1 + Len(t) : c[k] = IF k <= l - 1 THEN r[k] ELSE t[k - (l - 1)]
  <2>1. /\ c \in Seq(S) /\ Len(c) = Len(r) + Len(t)
        /\ \A k \in 1 .. Len(r) + Len(t) : c[k] = IF k <= Len(r) THEN r[k] ELSE t[k - Len(r)]
    BY <1>1, ConcatProperties
  <2>2. Len(r) = l - 1
    BY <1>1
  <2> HIDE DEF c, l
  <2> QED BY <2>1, <2>2
<1>3. DOMAIN c = 1 .. l - 1 + Len(t)
  BY <1>2
<1> HIDE DEF c, l
<1>4. ASSUME NEW k \in DOMAIN c
      PROVE  \/ \E j \in DOMAIN s : c[k] = s[j]
             \/ \E j \in DOMAIN t : c[k] = t[j]
  <2>1. CASE k <= l - 1
    <3>1. k \in 1 .. l - 1 /\ k \in 1 .. l /\ k + 1 \in 1 .. l
      BY <1>1, <1>3, <2>1
    <3> QED BY <1>1, <1>2, <1>3, <2>1, <3>1
  <2>2. CASE ~(k <= l - 1)
    <3>1. k - (l - 1) \in 1 .. Len(t)
      BY <1>1, <1>3, <2>2
    <3> QED BY <1>1, <1>2, <1>3, <2>2, <3>1
  <2> QED BY <2>1, <2>2
<1>5. ASSUME NEW j \in DOMAIN s \ {i} PROVE \E k \in DOMAIN c : c[k] = s[j]
  <2>1. CASE j < i
    <3>1. j \in 1 .. l - 1 /\ j \in DOMAIN c /\ j <= l - 1
      BY <1>1, <1>3, <2>1
    <3> QED BY <1>1, <1>2, <1>3, <2>1, <3>1
  <2>2. CASE ~(j < i)
    <3>1. j - 1 \in 1 .. l - 1 /\ j - 1 \in DOMAIN c /\ j - 1 <= l - 1 /\ ~(j - 1 < i) /\ (j - 1) + 1 = j
      BY <1>1, <1>3, <2>2
    <3>2. r[j - 1] = s[j]
      BY <1>1, <3>1
    <3> QED BY <1>2, <1>3, <3>1, <3>2
  <2> QED BY <2>1, <2>2
<1>6. ASSUME NEW j \in DOMAIN t PROVE \E k \in DOMAIN c : c[k] = t[j]
  <2>1. (l - 1) + j \in DOMAIN c /\ ~((l - 1) + j <= l - 1) /\ ((l - 1) + j) - (l - 1) = j
    BY <1>1, <1>3
  <2> QED BY <1>2, <1>3, <2>1
<1> QED BY <1>4, <1>5, <1>6 DEF c, r, HeapAfter

LEMMA WorkTypes ==
  ASSUME QueryTypeOK
  PROVE  /\ \A i \in DOMAIN work : /\ work[i] \in WorkEntry /\ work[i].node \in Node
                                   /\ work[i].n \in Nat /\ work[i].path \in Seq(Node)
         /\ best \in [Node -> Nat \cup {None}] /\ visited \subseteq Node
<1>1. \A y \in WorkEntry : y.node \in Node /\ y.n \in Nat /\ y.path \in Seq(Node)
  BY DEF WorkEntry
<1>2. \A i \in DOMAIN work : work[i] \in WorkEntry
  BY DEF QueryTypeOK
<1> QED BY <1>1, <1>2 DEF QueryTypeOK

\* The head of the heap is at its node's best distance, and no node that is left is
\* nearer.
LEMMA LeastIsBest ==
  ASSUME QueryTypeOK, DistanceInv, NEW i \in DOMAIN work, Least(i), work[i].node \notin visited
  PROVE  /\ best[work[i].node] = work[i].n
         /\ \A u \in Node \ visited : best[u] # None => work[i].n <= best[u]
<1>1. \A j \in DOMAIN work : work[j].node \in Node /\ work[j].n \in Nat
  BY WorkTypes
<1>2. \A j \in DOMAIN work : work[i].n <= work[j].n
  BY <1>1 DEF Least
<1>3. ASSUME NEW u \in Node \ visited, best[u] # None PROVE work[i].n <= best[u]
  BY <1>2, <1>3 DEF DistanceInv, HeapCovers
<1>4. best[work[i].node] # None /\ best[work[i].node] <= work[i].n /\ best[work[i].node] \in Nat \cup {None}
  BY <1>1 DEF DistanceInv, HeapIsTentative, Tentative, QueryTypeOK
<1> QED BY <1>1, <1>3, <1>4

\* The cost of every path there is, in every state of the loop, is bounded below by the
\* heap or by its last node's distance.
LEMMA Frontier ==
  ASSUME QueryTypeOK, query.edge_type = None, DistanceInv, NEW p, Simple(p)
  PROVE  \/ \E i \in DOMAIN work : work[i].n <= Cost(p)
         \/ Last(p) \in visited /\ best[Last(p)] <= Cost(p)
<1> DEFINE Bounded(q) == \/ \E i \in DOMAIN work : work[i].n <= Cost(q)
                         \/ Last(q) \in visited /\ best[Last(q)] <= Cost(q)
           T == {n \in Nat : \A q : Simple(q) /\ Len(q) <= n + 1 => Bounded(q)}
<1>1. /\ best \in [Node -> Nat \cup {None}] /\ query.start \in Node
      /\ \A i \in DOMAIN work : work[i].n \in Nat
  BY QueryFacts, WorkTypes
<1>2. ASSUME NEW q, Simple(q), Last(q) \in Node, best[Last(q)] # None,
             best[Last(q)] <= Cost(q)
      PROVE  Bounded(q)
  <2>1. CASE Last(q) \in visited
    BY <1>2, <2>1
  <2>2. CASE Last(q) \notin visited
    <3>1. PICK i \in DOMAIN work : work[i].n = best[Last(q)]
      BY <1>2, <2>2 DEF DistanceInv, HeapCovers
    <3> QED BY <1>2, <3>1
  <2> QED BY <2>1, <2>2
<1>3. 0 \in T
  <2> SUFFICES ASSUME NEW q, Simple(q), Len(q) <= 1 PROVE Bounded(q)
    OBVIOUS
  <2>1. q = <<query.start>>
    <3>1. Len(q) \in Nat \ {0}
      BY SimpleIsShort
    <3>2. q \in Seq(Node) /\ q[1] = query.start
      BY DEF Simple, Walk
    <3>3. Len(q) = 1
      <4> DEFINE l == Len(q)
      <4>1. l \in Nat \ {0} /\ l <= 1
        BY <3>1
      <4> HIDE DEF l
      <4>2. l = 1
        BY <4>1
      <4> QED BY <4>2 DEF l
    <3> QED BY <3>2, <3>3
  <2>2. Last(q) = query.start /\ Cost(q) = 0
    BY <2>1, CostStart DEF Last
  <2>3. best[Last(q)] # None /\ best[Last(q)] <= Cost(q)
    BY <2>2, QueryAssumption DEF DistanceInv
  <2> HIDE DEF Bounded
  <2> QED BY <1>1, <1>2, <2>2, <2>3
<1>4. ASSUME NEW n \in Nat, n \in T PROVE n + 1 \in T
  <2> SUFFICES ASSUME NEW q, Simple(q), Len(q) <= n + 2 PROVE Bounded(q)
    OBVIOUS
  <2>1. Len(q) \in Nat
    BY SimpleIsShort
  <2>2. CASE Len(q) <= n + 1
    <3> HIDE DEF Bounded
    <3> QED BY <1>4, <2>2
  <2>3. CASE Len(q) = n + 2
    <3>1. Len(q) > 1
      BY <2>3
    <3>2. PICK r \in Seq(Node), v \in Node :
            /\ q = Append(r, v) /\ Simple(r) /\ Len(r) = Len(q) - 1
            /\ Linked(Last(r), v) /\ \A i \in DOMAIN r : r[i] # v
      BY <3>1, SimpleFront
    <3>3. Bounded(r)
      <4>1. Len(r) <= n + 1
        BY <2>3, <3>2
      <4> HIDE DEF Bounded
      <4> QED BY <1>4, <3>2, <4>1
    <3>4. /\ Cost(q) = Cost(r) + Cheapest(Last(r), v) /\ Cheapest(Last(r), v) \in Nat
          /\ Cost(r) \in Nat /\ Cost(q) \in Nat
      BY <3>2, CostAppend, CostIsNat
    <3>5. CASE \E i \in DOMAIN work : work[i].n <= Cost(r)
      BY <1>1, <3>4, <3>5
    <3>6. CASE Last(r) \in visited /\ best[Last(r)] <= Cost(r)
      <4>1. /\ best[v] # None /\ best[v] <= best[Last(r)] + Cheapest(Last(r), v)
            /\ best[Last(r)] # None
        BY <3>2, <3>6 DEF DistanceInv, SettledRelaxed
      <4>2. best[v] \in Nat /\ best[Last(r)] \in Nat
        BY <1>1, <3>6, <4>1 DEF QueryTypeOK
      <4>3. best[v] <= Cost(q)
        BY <3>4, <3>6, <4>1, <4>2
      <4>4. Last(q) = v
        BY <3>2, AppendIs
      <4> HIDE DEF Bounded
      <4> QED BY <1>2, <4>1, <4>3, <4>4
    <3> QED BY <3>3, <3>5, <3>6
  <2> QED BY <2>1, <2>2, <2>3
<1>5. Nat \subseteq T
  <2> HIDE DEF T
  <2> QED BY <1>3, <1>4, Inductive
<1>6. Len(p) \in Nat
  BY SimpleIsShort
<1>7. Len(p) \in T /\ Len(p) <= Len(p) + 1
  <2> HIDE DEF T
  <2> QED BY <1>5, <1>6
<1> HIDE DEF Bounded
<1>8. Bounded(p)
  BY <1>7
<1> QED BY <1>8 DEF Bounded

LEMMA SamePaths ==
  ASSUME UNCHANGED <<edges, query>>
  PROVE  /\ \A u, v : Linked(u, v)' <=> Linked(u, v)
         /\ \A u, v : Cheapest(u, v)' = Cheapest(u, v)
         /\ \A p : Simple(p)' <=> Simple(p)
         /\ \A p : Cost(p)' = Cost(p)
<1>1. \A u, v : Linked(u, v)' <=> Linked(u, v)
  BY DEF Linked
<1>2. \A u, v : Cheapest(u, v)' = Cheapest(u, v)
  BY DEF Cheapest, Weights, Incident, EdgeWeight, Directions
<1>3. \A p : Simple(p)' <=> Simple(p)
  BY <1>1 DEF Simple, Walk
<1>4. \A p : Cost(p)' = Cost(p)
  BY DEF Cost, EdgeWeight
<1> QED BY <1>1, <1>2, <1>3, <1>4

LEMMA TentativeNext ==
  ASSUME UNCHANGED <<edges, query>>, NEW y
  PROVE  Tentative(y)' <=>
           /\ Simple(y.path) /\ Last(y.path) = y.node /\ Cost(y.path) = y.n
           /\ \A j \in 1 .. Len(y.path) - 1 : y.path[j] \in visited'
           /\ best'[y.node] # None /\ best'[y.node] <= y.n
BY SamePaths DEF Tentative

\* What is pushed when an entry is settled: a path one hop longer, at the distance its
\* node then has.
LEMMA PushedIsTentative ==
  ASSUME QueryTypeOK, query.edge_type = None, NEW x \in WorkEntry, Tentative(x), x.node \notin visited,
         NEW u \in Relaxed(x)
  PROVE  /\ Simple(Append(x.path, u)) /\ Last(Append(x.path, u)) = u
         /\ Cost(Append(x.path, u)) = Distance(x, u)
         /\ \A j \in 1 .. Len(Append(x.path, u)) - 1 :
              Append(x.path, u)[j] \in visited \cup {x.node}
<1>1. /\ u \in Node /\ Linked(x.node, u) /\ u \notin visited /\ u # x.node
  BY AdjacentIsLinked DEF Relaxed
<1> DEFINE p == x.path
           l == Len(p)
<1>2. p \in Seq(Node) /\ l \in Nat \ {0} /\ DOMAIN p = 1 .. l /\ Simple(p) /\ Last(p) = x.node
  BY SimpleIsShort DEF Tentative, WorkEntry
<1>3. p[l] = x.node /\ \A j \in 1 .. l - 1 : p[j] \in visited
  BY <1>2 DEF Tentative, Last
<1>4. x.n = Cost(p)
  BY DEF Tentative
<1> HIDE DEF p, l
<1>5. ASSUME NEW j \in 1 .. l PROVE p[j] \in visited \cup {x.node}
  BY <1>2, <1>3
<1>6. \A j \in DOMAIN p : p[j] # u
  BY <1>1, <1>2, <1>5
<1>7. Simple(Append(p, u)) /\ Cost(Append(p, u)) = Cost(p) + Cheapest(x.node, u)
  BY <1>1, <1>2, <1>6, SimpleAppend, CostAppend
<1>8. /\ Len(Append(p, u)) = l + 1 /\ \A j \in 1 .. l : Append(p, u)[j] = p[j]
      /\ Last(Append(p, u)) = u
  BY <1>1, <1>2, AppendIs DEF l
<1>9. ASSUME NEW j \in 1 .. Len(Append(p, u)) - 1 PROVE Append(p, u)[j] \in visited \cup {x.node}
  <2>1. j \in 1 .. l
    BY <1>2, <1>8
  <2> QED BY <1>5, <1>8, <2>1
<1> QED BY <1>4, <1>7, <1>8, <1>9 DEF p, Distance

LEMMA SettleKeeps ==
  ASSUME QueryTypeOK, QueryTypeOK', query.kind = "dijkstra", DistanceInv,
         NEW i \in DOMAIN work, Least(i), Settle(i)
  PROVE  DistanceInv'
<1> DEFINE x == work[i]
<1>1. query.edge_type = None
  BY QueryAssumption DEF QueryTypeOK, IsQuery
<1>2. /\ x \in WorkEntry /\ x.node \in Node /\ x.n \in Nat
      /\ x.node \notin visited /\ x.node # query.target
      /\ best' = [u \in Node |-> IF u \in Relaxed(x) THEN Distance(x, u) ELSE best[u]]
      /\ visited' = visited \cup {x.node}
      /\ UNCHANGED <<edges, query, answer>>
      /\ query.start \in Node
  BY SettleIs, WorkTypes, QueryFacts
<1>3. PICK s \in InOrder(Relaxed(x)) : work' = RemoveAt(work, i) \o Pushed(x, s)
  BY SettleIs
<1>4. best[x.node] = x.n /\ \A u \in Node \ visited : best[u] # None => x.n <= best[u]
  BY <1>2, LeastIsBest
<1>5. Tentative(x)
  BY DEF DistanceInv, HeapIsTentative
<1>6. /\ Relaxed(x) \in SUBSET Node /\ \A u \in Relaxed(x) : Distance(x, u) \in Nat
      /\ Pushed(x, s) \in Seq(WorkEntry)
  BY <1>2, SettleTypes
<1>7. /\ DOMAIN Pushed(x, s) = DOMAIN s
      /\ \A k \in DOMAIN s :
           /\ s[k] \in Relaxed(x)
           /\ Pushed(x, s)[k] = Entry(s[k], Distance(x, s[k]), Append(x.path, s[k]))
      /\ \A u \in Relaxed(x) : \E k \in DOMAIN s : s[k] = u
  BY <1>6, ListedNodes DEF Pushed
<1>8. work \in Seq(WorkEntry)
  BY DEF QueryTypeOK
<1>9. /\ \A k \in DOMAIN work' : \/ \E j \in DOMAIN work : work'[k] = work[j]
                                 \/ \E j \in DOMAIN s : work'[k] = Pushed(x, s)[j]
      /\ \A j \in DOMAIN work \ {i} : \E k \in DOMAIN work' : work'[k] = work[j]
      /\ \A j \in DOMAIN s : \E k \in DOMAIN work' : work'[k] = Pushed(x, s)[j]
  <2> DEFINE t == Pushed(x, s)
  <2>1. t \in Seq(WorkEntry)
    BY <1>6
  <2>2. work' = RemoveAt(work, i) \o t
    BY <1>3
  <2> HIDE DEF t
  <2>3. HeapAfter(work', work, i, t)
    BY <1>8, <2>1, <2>2, HeapMoves
  <2> QED BY <1>7, <2>3 DEF t, HeapAfter
<1>10. ASSUME NEW u \in Relaxed(x)
       PROVE  /\ u \in Node /\ u \notin visited /\ u # x.node /\ Linked(x.node, u)
              /\ best[u] = None \/ Distance(x, u) < best[u]
              /\ Distance(x, u) = x.n + Cheapest(x.node, u) /\ Cheapest(x.node, u) \in Nat
  <2>1. u \in Adjacent(x.node)
    BY DEF Relaxed
  <2>2. Cheapest(x.node, u) \in Nat
    BY <1>1, <2>1, CheapestIsLeast
  <2> QED BY <2>1, <2>2, AdjacentIsLinked DEF Relaxed, Improves, Distance
<1>11. \A u \in Node : best[u] \in Nat \cup {None} /\ best'[u] \in Nat \cup {None}
  BY DEF QueryTypeOK
<1>12. None \notin Nat
  BY QueryAssumption
\* Distances only fall, and those of settled nodes stay.
<1>13. ASSUME NEW u \in Node
       PROVE  /\ u \in Relaxed(x) => best'[u] = Distance(x, u)
              /\ u \notin Relaxed(x) => best'[u] = best[u]
              /\ best[u] # None => best'[u] # None /\ best'[u] <= best[u]
              /\ u \in visited \cup {x.node} => best'[u] = best[u]
  <2> HIDE DEF x
  <2>1. u \in Relaxed(x) => best'[u] = Distance(x, u) /\ Distance(x, u) \in Nat
    BY <1>2, <1>6
  <2>2. u \notin Relaxed(x) => best'[u] = best[u]
    BY <1>2
  <2> QED BY <1>10, <1>11, <1>12, <2>1, <2>2
<1> HIDE DEF x
<1>14. best'[query'.start] = 0 /\ query'.target \notin visited'
  <2>1. query.start \notin Relaxed(x)
    BY <1>2, <1>4, <1>6, <1>10, <1>12 DEF DistanceInv
  <2> QED BY <1>2, <1>13, <2>1 DEF DistanceInv
<1>15. HeapIsTentative'
  <2> SUFFICES ASSUME NEW k \in DOMAIN work', NEW y, y = work'[k] PROVE Tentative(y)'
    BY DEF HeapIsTentative
  <2>1. CASE \E j \in DOMAIN work : y = work[j]
    <3>1. Tentative(y) /\ y.node \in Node /\ y.n \in Nat
      BY <2>1, WorkTypes DEF DistanceInv, HeapIsTentative
    <3>2. best'[y.node] # None /\ best'[y.node] <= y.n
      BY <1>11, <1>13, <3>1 DEF Tentative
    <3>3. \A m \in 1 .. Len(y.path) - 1 : y.path[m] \in visited'
      BY <1>2, <3>1 DEF Tentative
    <3>4. Simple(y.path) /\ Cost(y.path) = y.n /\ Last(y.path) = y.node
      BY <3>1 DEF Tentative
    <3> QED BY <1>2, <3>2, <3>3, <3>4, TentativeNext
  <2>2. CASE \E j \in DOMAIN s : y = Pushed(x, s)[j]
    <3>1. PICK j \in DOMAIN s : y = Pushed(x, s)[j]
      BY <2>2
    <3>2. PICK u \in Relaxed(x) : u = s[j]
      BY <1>7
    <3> DEFINE p == Append(x.path, u)
    <3>3. y.node = u /\ y.n = Distance(x, u) /\ y.path = p
      BY <1>7, <3>1, <3>2 DEF Entry
    <3>4. /\ Simple(p) /\ Last(p) = u /\ Cost(p) = Distance(x, u)
          /\ \A m \in 1 .. Len(p) - 1 : p[m] \in visited \cup {x.node}
      BY <1>1, <1>2, <1>5, PushedIsTentative
    <3>5. best'[u] = Distance(x, u) /\ Distance(x, u) \in Nat
      BY <1>6, <1>13
    <3> HIDE DEF p
    <3>6. best'[y.node] # None /\ best'[y.node] <= y.n
      BY <1>12, <3>3, <3>5
    <3> QED BY <1>2, <3>3, <3>4, <3>6, TentativeNext
  <2> QED BY <1>9, <2>1, <2>2
<1>16. HeapCovers'
  <2> SUFFICES ASSUME NEW u \in Node \ visited', best'[u] # None
               PROVE  \E k \in DOMAIN work' : work'[k].node = u /\ work'[k].n = best'[u]
    BY DEF HeapCovers
  <2>1. CASE u \in Relaxed(x)
    <3>1. PICK j \in DOMAIN s : s[j] = u
      BY <1>7, <2>1
    <3>2. PICK k \in DOMAIN work' : work'[k] = Pushed(x, s)[j]
      BY <1>9, <3>1
    <3> QED BY <1>7, <1>13, <2>1, <3>1, <3>2 DEF Entry
  <2>2. CASE u \notin Relaxed(x)
    <3>1. best'[u] = best[u] /\ u \notin visited /\ u # x.node
      BY <1>2, <1>13, <2>2
    <3>2. PICK j \in DOMAIN work : work[j].node = u /\ work[j].n = best[u]
      BY <3>1 DEF DistanceInv, HeapCovers
    <3>3. j # i
      BY <3>1, <3>2 DEF x
    <3>4. PICK k \in DOMAIN work' : work'[k] = work[j]
      BY <1>9, <3>3
    <3> QED BY <3>1, <3>2, <3>4
  <2> QED BY <2>1, <2>2
<1>17. SettledRelaxed'
  <2> SUFFICES ASSUME NEW v \in visited'
               PROVE  /\ best'[v] # None
                      /\ \A u \in Node : Linked(v, u) =>
                           best'[u] # None /\ best'[u] <= best'[v] + Cheapest(v, u)
    BY <1>2, SamePaths DEF SettledRelaxed
  <2>1. v \in visited \/ v = x.node
    BY <1>2
  <2>2. v \in Node /\ best'[v] = best[v] /\ best[v] # None
    BY <1>2, <1>4, <1>12, <1>13, <2>1, WorkTypes DEF DistanceInv, SettledRelaxed
  <2>3. ASSUME NEW u \in Node, Linked(v, u)
        PROVE  best'[u] # None /\ best'[u] <= best'[v] + Cheapest(v, u)
    <3>1. u \in Adjacent(v) /\ Cheapest(v, u) \in Nat
      BY <1>1, <2>3, AdjacentIsLinked, CheapestIsLeast
    <3>2. CASE v \in visited
      <4>1. best[u] # None /\ best[u] <= best[v] + Cheapest(v, u)
        BY <2>3, <3>2 DEF DistanceInv, SettledRelaxed
      <4> QED BY <1>11, <1>13, <2>2, <3>1, <4>1
    <3>3. CASE v = x.node
      <4>1. best'[v] = x.n
        BY <1>4, <2>2, <3>3
      <4>2. CASE u \in visited
        <5>1. best[u] # None /\ best[u] <= best[v]
          BY <1>2, <2>2, <3>3, <4>2 DEF DistanceInv, SettledNearer, SettledRelaxed
        <5> QED BY <1>2, <1>11, <1>13, <2>2, <3>1, <4>2, <5>1
      <4>3. CASE u = x.node
        BY <1>2, <1>11, <2>2, <3>1, <3>3, <4>3
      <4>4. CASE u \in Relaxed(x)
        BY <1>6, <1>10, <1>12, <1>13, <3>3, <4>1, <4>4
      <4>5. CASE u \notin Relaxed(x) /\ u \notin visited /\ u # x.node
        <5>1. best[u] # None /\ ~(Distance(x, u) < best[u])
          BY <3>1, <3>3, <4>5 DEF Relaxed, Improves
        <5>2. Distance(x, u) = x.n + Cheapest(x.node, u)
          BY DEF Distance
        <5> QED BY <1>2, <1>11, <1>13, <3>1, <3>3, <4>1, <4>5, <5>1, <5>2
      <4> QED BY <4>2, <4>3, <4>4, <4>5
    <3> QED BY <2>1, <3>2, <3>3
  <2> QED BY <2>2, <2>3
<1>18. SettledNearer'
  <2> SUFFICES ASSUME NEW v \in visited', NEW u \in Node \ visited', best'[u] # None
               PROVE  best'[v] <= best'[u]
    BY DEF SettledNearer
  <2>1. v \in visited \/ v = x.node
    BY <1>2
  <2>2. v \in Node /\ best'[v] = best[v] /\ best[v] # None /\ best[v] \in Nat
    BY <1>2, <1>4, <1>11, <1>12, <1>13, <2>1, WorkTypes DEF DistanceInv, SettledRelaxed
  <2>3. best[v] <= x.n
    BY <1>2, <1>4, <1>12, <2>1 DEF DistanceInv, SettledNearer
  <2>4. x.n <= best'[u]
    <3>1. u \notin visited
      BY <1>2
    <3>2. CASE u \in Relaxed(x)
      BY <1>2, <1>6, <1>10, <1>13, <3>2
    <3>3. CASE u \notin Relaxed(x)
      BY <1>4, <1>13, <3>1, <3>3
    <3> QED BY <3>2, <3>3
  <2> QED BY <1>2, <1>11, <2>2, <2>3, <2>4
<1> QED BY <1>14, <1>15, <1>16, <1>17, <1>18 DEF DistanceInv

LEMMA TargetPaths ==
  ASSUME QueryTypeOK, NEW p PROVE p \in PathsToTarget <=> Simple(p) /\ Last(p) = query.target
BY SimplePathsAre DEF PathsToTarget

LEMMA SameTargetPaths == ASSUME UNCHANGED <<edges, query>> PROVE PathsToTarget' = PathsToTarget
BY DEF PathsToTarget, SimplePaths, Linked

LEMMA DistanceKept ==
  ASSUME DistanceInv, UNCHANGED <<edges, query, work, visited, best>> PROVE DistanceInv'
<1>1. HeapIsTentative'
  <2> SUFFICES ASSUME NEW k \in DOMAIN work, NEW y, y = work[k] PROVE Tentative(y)'
    BY DEF HeapIsTentative
  <2>1. Tentative(y)
    BY DEF DistanceInv, HeapIsTentative
  <2> QED BY <2>1, TentativeNext DEF Tentative
<1>2. HeapCovers' /\ SettledNearer'
  BY DEF DistanceInv, HeapCovers, SettledNearer
<1>3. SettledRelaxed'
  BY SamePaths DEF DistanceInv, SettledRelaxed
<1> QED BY <1>1, <1>2, <1>3 DEF DistanceInv

\* A node that is settled keeps its place: a later entry for it is only taken out.
LEMMA SkipKeeps ==
  ASSUME QueryTypeOK, DistanceInv, NEW i \in DOMAIN work, Skip(i) PROVE DistanceInv'
<1>1. work[i].node \in visited /\ work' = RemoveAt(work, i) /\ UNCHANGED <<edges, query, visited, best>>
  BY DEF Skip, index
<1>2. HeapAfter(work', work, i, << >>)
  <2>1. work \in Seq(WorkEntry) /\ << >> \in Seq(WorkEntry)
    BY DEF QueryTypeOK
  <2>2. RemoveAt(work, i) \in Seq(WorkEntry)
    BY <2>1, RemoveAtIs
  <2>3. RemoveAt(work, i) \o << >> = RemoveAt(work, i)
    BY <2>2, ConcatEmptySeq
  <2> QED BY <1>1, <2>1, <2>3, HeapMoves
<1>3. HeapIsTentative'
  <2> SUFFICES ASSUME NEW k \in DOMAIN work', NEW y, y = work'[k] PROVE Tentative(y)'
    BY DEF HeapIsTentative
  <2>1. PICK j \in DOMAIN work : y = work[j]
    BY <1>2 DEF HeapAfter
  <2>2. Tentative(y)
    BY <2>1 DEF DistanceInv, HeapIsTentative
  <2> QED BY <1>1, <2>2, TentativeNext DEF Tentative
<1>4. HeapCovers'
  <2> SUFFICES ASSUME NEW u \in Node \ visited, best[u] # None
               PROVE  \E k \in DOMAIN work' : work'[k].node = u /\ work'[k].n = best[u]
    BY <1>1 DEF HeapCovers
  <2>1. PICK j \in DOMAIN work : work[j].node = u /\ work[j].n = best[u]
    BY DEF DistanceInv, HeapCovers
  <2>2. j \in DOMAIN work \ {i}
    BY <1>1, <2>1
  <2> QED BY <1>2, <2>1, <2>2 DEF HeapAfter
<1>5. SettledRelaxed' /\ SettledNearer'
  BY <1>1, SamePaths DEF DistanceInv, SettledRelaxed, SettledNearer
<1> QED BY <1>1, <1>3, <1>4, <1>5 DEF DistanceInv

\* The answer of a run that found a path, and of one that did not.
LEMMA CheapestFound ==
  ASSUME QueryTypeOK, query.edge_type = None, NEW path \in PathsToTarget,
         \A p \in PathsToTarget : Cost(path) <= Cost(p),
         UNCHANGED <<edges, query>>, answer'.found = TRUE, answer'.path = path
  PROVE  PathIsCheapest'
<1>1. PathsToTarget' = PathsToTarget
  BY SameTargetPaths
<1>2. \A p : Cost(p)' = Cost(p)
  BY SamePaths
<1>3. path \in PathsToTarget' /\ \A p \in PathsToTarget' : (Cost(path) <= Cost(p))'
  BY <1>1, <1>2
<1> QED BY <1>3 DEF PathIsCheapest

LEMMA DijkstraInit == Init => DijkstraInv /\ PathIsCheapest
<1> SUFFICES ASSUME Init PROVE DijkstraInv /\ PathIsCheapest
  OBVIOUS
<1>1. QueryTypeOK
  BY QueryTypeInit
<1>2. PathIsCheapest
  BY DEF Init, PathIsCheapest, Answered
<1>3. ASSUME query.kind = "dijkstra" PROVE DistanceInv
  <2> DEFINE y == Entry(query.start, 0, <<query.start>>)
  <2>1. /\ work = <<y>> /\ visited = {} /\ query.start \in Node
        /\ best = [v \in Node |-> IF v = query.start THEN 0 ELSE None]
    BY <1>1, <1>3, QueryFacts DEF Init, CarriesPath
  <2>2. y.node = query.start /\ y.n = 0 /\ y.path = <<query.start>>
    BY DEF Entry
  <2>3. query.edge_type = None
    BY <1>1, <1>3, QueryAssumption DEF QueryTypeOK, IsQuery
  <2> HIDE DEF y
  <2>4. Tentative(y)
    BY <1>1, <2>1, <2>2, <2>3, QueryAssumption, SimpleStart, CostStart DEF Tentative, Last
  <2>5. DOMAIN work = {1} /\ work[1] = y
    BY <2>1
  <2>6. HeapIsTentative
    BY <2>4, <2>5 DEF HeapIsTentative
  <2>7. HeapCovers
    BY <2>1, <2>2, <2>5 DEF HeapCovers
  <2> QED BY <2>1, <2>6, <2>7 DEF DistanceInv, SettledRelaxed, SettledNearer
<1> QED BY <1>2, <1>3 DEF DijkstraInv

LEMMA DijkstraStep ==
  ASSUME QueryTypeOK, QueryTypeOK', DijkstraInv, PathIsCheapest, [Next]_vars
  PROVE  DijkstraInv' /\ PathIsCheapest'
<1>1. CASE UNCHANGED vars
  <2>1. UNCHANGED <<edges, query, work, visited, best, answer>>
    BY <1>1 DEF vars, index
  <2>2. DijkstraInv'
    BY <2>1, DistanceKept DEF DijkstraInv
  <2>3. (\A p : Cost(p)' = Cost(p)) /\ PathsToTarget' = PathsToTarget
    BY <2>1, SamePaths, SameTargetPaths
  <2> QED BY <2>1, <2>2, <2>3 DEF PathIsCheapest, Answered
<1>2. CASE Next /\ query.kind # "dijkstra"
  <2>1. query' = query
    BY <1>2 DEF Next, ReadNeighbors, Trivial, Bfs, Dfs, Search, Dijkstra, Running, Hop, Finish, Answer, index
  <2> QED BY <1>2, <2>1 DEF DijkstraInv, PathIsCheapest, Answered
<1>3. CASE Next /\ query.kind = "dijkstra"
  <2>1. query.edge_type = None /\ DistanceInv /\ CarriesPath
    BY <1>3, QueryAssumption DEF QueryTypeOK, IsQuery, DijkstraInv, CarriesPath
  <2>2. answer = None /\ (Trivial \/ Dijkstra \/ Finish)
    BY <1>3 DEF Next, ReadNeighbors, Trivial, Bfs, Dfs, Search, Dijkstra, Running, Hop, Finish
  <2>3. CASE Trivial
    <3>1. /\ UNCHANGED <<edges, query, work, visited, best>> /\ query.start = query.target
          /\ answer'.found = TRUE /\ answer'.path = <<query.start>>
      BY <2>1, <2>3 DEF Trivial, Answer, index
    <3>2. DijkstraInv'
      BY <2>1, <3>1, DistanceKept DEF DijkstraInv
    <3>3. <<query.start>> \in PathsToTarget
      <4> DEFINE p == <<query.start>>
      <4>1. Simple(p) /\ Last(p) = query.target
        BY <3>1, SimpleStart DEF Last
      <4> HIDE DEF p
      <4> QED BY <4>1, TargetPaths DEF p
    <3>4. \A p \in PathsToTarget : Cost(<<query.start>>) <= Cost(p)
      BY <2>1, CostStart, CostIsNat, TargetPaths
    <3> QED BY <2>1, <3>1, <3>2, <3>3, <3>4, CheapestFound
  <2>4. CASE Dijkstra
    <3>1. PICK i \in DOMAIN work :
            /\ Least(i)
            /\ \/ Skip(i) \/ Settle(i)
               \/ /\ work[i].node \notin visited /\ work[i].node = query.target
                  /\ Answer(TRUE, {}, work[i].path)
      BY <2>4 DEF Dijkstra
    <3>2. CASE Skip(i)
      <4>1. DistanceInv' /\ answer' = None
        BY <2>1, <2>2, <3>2, SkipKeeps DEF Skip
      <4> QED BY <4>1 DEF DijkstraInv, PathIsCheapest, Answered
    <3>3. CASE Settle(i)
      <4>1. DistanceInv' /\ answer' = None
        BY <1>3, <2>1, <2>2, <3>1, <3>3, SettleKeeps DEF Settle
      <4> QED BY <4>1 DEF DijkstraInv, PathIsCheapest, Answered
    <3>4. CASE /\ work[i].node \notin visited /\ work[i].node = query.target
               /\ Answer(TRUE, {}, work[i].path)
      <4> DEFINE y == work[i]
      <4>1. /\ UNCHANGED <<edges, query, work, visited, best>>
            /\ answer'.found = TRUE /\ answer'.path = y.path
        BY <3>4 DEF Answer, index
      <4>2. DijkstraInv'
        BY <2>1, <4>1, DistanceKept DEF DijkstraInv
      <4>3. Tentative(y) /\ y.node = query.target /\ y.n \in Nat
        BY <2>1, <3>4, WorkTypes DEF DistanceInv, HeapIsTentative
      <4>4. \A j \in DOMAIN work : y.n <= work[j].n
        BY <3>1, WorkTypes DEF Least
      <4> HIDE DEF y
      <4>5. y.path \in PathsToTarget
        BY <4>3, TargetPaths DEF Tentative
      <4>6. ASSUME NEW p \in PathsToTarget PROVE Cost(y.path) <= Cost(p)
        <5>1. Simple(p) /\ Last(p) = query.target /\ Cost(p) \in Nat
          BY <2>1, TargetPaths, CostIsNat
        <5>2. PICK j \in DOMAIN work : work[j].n <= Cost(p)
          BY <2>1, <5>1, Frontier DEF DistanceInv
        <5> QED BY <4>3, <4>4, <5>1, <5>2, WorkTypes DEF Tentative
      <4> QED BY <2>1, <4>1, <4>2, <4>5, <4>6, CheapestFound
    <3> QED BY <3>1, <3>2, <3>3, <3>4
  <2>5. CASE Finish
    <3>1. /\ UNCHANGED <<edges, query, work, visited, best>> /\ work = << >> /\ answer'.found = FALSE
      BY <1>3, <2>5 DEF Finish, Answer, index, Exhausted
    <3>2. DijkstraInv'
      BY <2>1, <3>1, DistanceKept DEF DijkstraInv
    <3>3. PathsToTarget = {}
      <4> SUFFICES ASSUME NEW p \in PathsToTarget PROVE FALSE
        OBVIOUS
      <4>1. Simple(p) /\ Last(p) = query.target
        BY TargetPaths
      <4> QED BY <2>1, <3>1, <4>1, Frontier DEF DistanceInv
    <3>4. PathsToTarget' = {}
      BY <3>1, <3>3, SameTargetPaths
    <3> QED BY <3>1, <3>2, <3>4 DEF PathIsCheapest
  <2> QED BY <2>2, <2>3, <2>4, <2>5
<1> QED BY <1>1, <1>2, <1>3

\* dijkstra returns a path of least cost, and None only when no path leads to the target.
THEOREM DijkstraIsCheapest == Spec => []PathIsCheapest
<1>1. Init => QueryTypeOK /\ DijkstraInv /\ PathIsCheapest
  BY QueryTypeInit, DijkstraInit
<1>2. QueryTypeOK /\ DijkstraInv /\ PathIsCheapest /\ [Next]_vars
        => (QueryTypeOK /\ DijkstraInv /\ PathIsCheapest)'
  BY QueryTypeStep, DijkstraStep
<1> QED BY <1>1, <1>2, PTL DEF Spec

----------------------------------------------------------------------------
(* shortest_path.                                                          *)

\* The path comes before every other simple path to its last node: it is shorter, or as
\* long and first in the order of the ids.
First(p) ==
  /\ Simple(p)
  /\ \A r : Simple(r) /\ Last(r) = Last(p) /\ r # p =>
       Len(r) > Len(p) \/ (Len(r) = Len(p) /\ Before(p, r))

FirstEntry(y) == First(y.path) /\ Last(y.path) = y.node /\ Len(y.path) = y.n + 1

\* A level's entries are in the order of their paths, and so are their successors, which
\* come from what was ahead of them.
Ordered(y, z) == IF y.n = z.n THEN Before(y.path, z.path) ELSE Before(z.path, y.path)

CanonicalInv ==
  query.kind = "shortest_path" =>
    /\ \A i \in DOMAIN work : FirstEntry(work[i])
    /\ \A i, j \in DOMAIN work : i < j => Ordered(work[i], work[j])

LEMMA BeforeTransitive ==
  ASSUME NEW p \in Seq(Nat), NEW q \in Seq(Nat), NEW r \in Seq(Nat), Before(p, q), Before(q, r)
  PROVE  Before(p, r)
<1>1. PICK i \in DOMAIN p \cap DOMAIN q : p[i] < q[i] /\ \A j \in 1 .. i - 1 : p[j] = q[j]
  BY DEF Before
<1>2. PICK k \in DOMAIN q \cap DOMAIN r : q[k] < r[k] /\ \A j \in 1 .. k - 1 : q[j] = r[j]
  BY DEF Before
<1>3. /\ DOMAIN p = 1 .. Len(p) /\ DOMAIN q = 1 .. Len(q) /\ DOMAIN r = 1 .. Len(r)
      /\ Len(p) \in Nat /\ Len(q) \in Nat /\ Len(r) \in Nat
      /\ (\A j \in DOMAIN p : p[j] \in Nat) /\ (\A j \in DOMAIN q : q[j] \in Nat)
      /\ (\A j \in DOMAIN r : r[j] \in Nat)
  <2>1. ASSUME NEW s \in Seq(Nat)
        PROVE  DOMAIN s = 1 .. Len(s) /\ Len(s) \in Nat /\ \A j \in DOMAIN s : s[j] \in Nat
    <3>1. s \in [1 .. Len(s) -> Nat] /\ Len(s) \in Nat
      BY LenProperties
    <3> QED BY <3>1
  <2> QED BY <2>1, Zenon
<1>4. CASE i < k
  <2>1. i \in DOMAIN p \cap DOMAIN r /\ i \in 1 .. k - 1
    BY <1>1, <1>2, <1>3, <1>4
  <2>2. p[i] < r[i]
    BY <1>1, <1>2, <2>1
  <2>3. ASSUME NEW j \in 1 .. i - 1 PROVE p[j] = r[j]
    <3>1. j \in 1 .. k - 1
      BY <1>1, <1>2, <1>3, <1>4
    <3> QED BY <1>1, <1>2, <3>1
  <2> QED BY <2>1, <2>2, <2>3 DEF Before
<1>5. CASE ~(i < k)
  <2>1. k \in DOMAIN p \cap DOMAIN r /\ (k = i \/ k \in 1 .. i - 1)
    BY <1>1, <1>2, <1>3, <1>5
  <2>2. p[k] < r[k]
    <3>1. p[k] <= q[k] /\ q[k] < r[k]
      BY <1>1, <1>2, <1>3, <2>1
    <3> QED BY <1>2, <1>3, <2>1, <3>1
  <2>3. ASSUME NEW j \in 1 .. k - 1 PROVE p[j] = r[j]
    <3>1. j \in 1 .. i - 1
      BY <1>1, <1>2, <1>3, <1>5
    <3> QED BY <1>1, <1>2, <3>1
  <2> QED BY <2>1, <2>2, <2>3 DEF Before
<1> QED BY <1>4, <1>5

LEMMA BeforeExtends ==
  ASSUME NEW p \in Seq(Nat), NEW q \in Seq(Nat), Before(p, q), NEW u \in Nat
  PROVE  Before(Append(p, u), q) /\ Before(p, Append(q, u))
<1>1. PICK i \in DOMAIN p \cap DOMAIN q : p[i] < q[i] /\ \A j \in 1 .. i - 1 : p[j] = q[j]
  BY DEF Before
<1>2. /\ DOMAIN p = 1 .. Len(p) /\ DOMAIN q = 1 .. Len(q) /\ Len(p) \in Nat /\ Len(q) \in Nat
      /\ \A j \in 1 .. i - 1 : j \in DOMAIN p /\ j \in DOMAIN q
  BY <1>1
<1> DEFINE pu == Append(p, u)
           qu == Append(q, u)
<1>3. DOMAIN pu = 1 .. Len(p) + 1 /\ \A j \in 1 .. Len(p) : pu[j] = p[j]
  BY AppendIs
<1>4. DOMAIN qu = 1 .. Len(q) + 1 /\ \A j \in 1 .. Len(q) : qu[j] = q[j]
  BY AppendIs
<1> HIDE DEF pu, qu
<1>5. Before(pu, q)
  <2>1. i \in DOMAIN pu \cap DOMAIN q /\ pu[i] = p[i]
    BY <1>1, <1>2, <1>3
  <2>2. \A j \in 1 .. i - 1 : pu[j] = q[j]
    BY <1>1, <1>2, <1>3
  <2> QED BY <1>1, <2>1, <2>2 DEF Before
<1>6. Before(p, qu)
  <2>1. i \in DOMAIN p \cap DOMAIN qu /\ qu[i] = q[i]
    BY <1>1, <1>2, <1>4
  <2>2. \A j \in 1 .. i - 1 : p[j] = qu[j]
    BY <1>1, <1>2, <1>4
  <2> QED BY <1>1, <2>1, <2>2 DEF Before
<1> QED BY <1>5, <1>6 DEF pu, qu

LEMMA BeforeLast ==
  ASSUME NEW p \in Seq(Nat), NEW u \in Nat, NEW v \in Nat, u < v
  PROVE  Before(Append(p, u), Append(p, v))
<1> DEFINE pu == Append(p, u)
           pv == Append(p, v)
<1>1. DOMAIN pu = 1 .. Len(p) + 1 /\ pu[Len(p) + 1] = u /\ \A j \in 1 .. Len(p) : pu[j] = p[j]
  BY AppendIs
<1>2. DOMAIN pv = 1 .. Len(p) + 1 /\ pv[Len(p) + 1] = v /\ \A j \in 1 .. Len(p) : pv[j] = p[j]
  BY AppendIs
<1>3. Len(p) \in Nat
  OBVIOUS
<1> HIDE DEF pu, pv
<1>4. Len(p) + 1 \in DOMAIN pu \cap DOMAIN pv /\ \A j \in 1 .. (Len(p) + 1) - 1 : pu[j] = pv[j]
  BY <1>1, <1>2, <1>3
<1>5. Before(pu, pv)
  BY <1>1, <1>2, <1>4 DEF Before
<1> QED BY <1>5 DEF pu, pv

LEMMA PathsAreNumbers == ASSUME NEW p \in Seq(Node) PROVE p \in Seq(Nat)
<1>1. p \in [1 .. Len(p) -> Node] /\ Len(p) \in Nat
  OBVIOUS
<1>2. p \in [1 .. Len(p) -> Nat]
  BY <1>1, QueryAssumption
<1> QED BY <1>1, <1>2, SeqDef

\* A walk is within as many hops as it takes.
LEMMA WalkWithin ==
  ASSUME QueryTypeOK, NEW p, Walk(p) PROVE \A k \in 1 .. Len(p) : p[k] \in Within(k - 1)
<1> DEFINE l == Len(p)
           T == {n \in Nat : \A k \in 1 .. l : k = n + 1 => p[k] \in Within(n)}
<1>1. /\ l \in Nat /\ p[1] = query.start
      /\ \A i \in 1 .. l - 1 : Linked(p[i], p[i + 1])
      /\ \A i \in 1 .. l : p[i] \in Node
  BY DEF Walk
<1> HIDE DEF l
<1>2. 0 \in T
  BY <1>1, WithinGrows
<1>3. ASSUME NEW n \in Nat, n \in T PROVE n + 1 \in T
  <2> SUFFICES ASSUME NEW k \in 1 .. l, k = n + 2 PROVE p[k] \in Within(n + 1)
    BY <1>3
  <2>1. k - 1 \in 1 .. l /\ k - 1 = n + 1 /\ k - 1 \in 1 .. l - 1 /\ (k - 1) + 1 = k
    BY <1>1
  <2>2. p[k - 1] \in Within(n) /\ Linked(p[k - 1], p[k]) /\ p[k] \in Node
    BY <1>1, <1>3, <2>1
  <2> QED BY <2>2, WithinGrows DEF Beyond
<1>4. Nat \subseteq T
  <2> HIDE DEF T
  <2> QED BY <1>2, <1>3, Inductive
<1>5. ASSUME NEW k \in 1 .. l PROVE p[k] \in Within(k - 1)
  <2>1. k - 1 \in T /\ k = (k - 1) + 1
    <3> HIDE DEF T
    <3> QED BY <1>1, <1>4
  <2> QED BY <2>1
<1> QED BY <1>5 DEF l

\* What the head of the queue leads to, and no search has seen, has its canonical path
\* through the head: its other predecessors a hop nearer are queued behind.
LEMMA NewIsFirst ==
  ASSUME QueryTypeOK, query.kind = "shortest_path", CanonicalInv, NEW h \in Nat, Level(h),
         work # << >>, Head(work).n = h, NEW u \in Adjacent(Head(work).node), u \notin visited
  PROVE  /\ First(Append(Head(work).path, u)) /\ Last(Append(Head(work).path, u)) = u
         /\ Len(Append(Head(work).path, u)) = h + 2
<1> DEFINE p == Head(work).path
           pu == Append(p, u)
<1>1. /\ Head(work) = work[1] /\ 1 \in DOMAIN work /\ DOMAIN work = 1 .. Len(work) /\ Len(work) \in Nat
      /\ u \in Node /\ Linked(Head(work).node, u) /\ Head(work).node \in Node
  BY HeadOfWork, AdjacentIsLinked DEF QueryTypeOK
<1>2. First(p) /\ Simple(p) /\ Walk(p) /\ Last(p) = Head(work).node /\ Len(p) = h + 1 /\ p \in Seq(Node)
  BY <1>1 DEF CanonicalInv, FirstEntry, First, Simple, Walk
<1>3. DOMAIN p = 1 .. h + 1 /\ \A k \in 1 .. h + 1 : p[k] \in visited
  <2>1. \A k \in 1 .. h + 1 : p[k] \in Within(k - 1)
    BY <1>2, WalkWithin
  <2>2. \A k \in 1 .. h + 1 : Within(k - 1) \subseteq Within(h)
    BY WithinMonotone
  <2> QED BY <1>2, <2>1, <2>2 DEF Level
<1> HIDE DEF p
<1>4. Simple(pu)
  BY <1>1, <1>2, <1>3, SimpleAppend
<1>5. Len(pu) = h + 2 /\ Last(pu) = u
  BY <1>1, <1>2, AppendIs
<1>6. ASSUME NEW r, Simple(r), Last(r) = u, r # pu
      PROVE  Len(r) > Len(pu) \/ (Len(r) = Len(pu) /\ Before(pu, r))
  <2>1. Len(r) \in Nat \ {0} /\ r \in Seq(Node) /\ Walk(r) /\ r[Len(r)] = u
    BY <1>6, SimpleIsShort DEF Simple, Walk, Last
  <2>2. Len(r) >= h + 2
    <3> SUFFICES ASSUME ~(Len(r) >= h + 2) PROVE FALSE
      OBVIOUS
    <3>1. Len(r) - 1 \in Nat /\ Len(r) - 1 <= h /\ Len(r) \in 1 .. Len(r)
      BY <2>1
    <3>2. u \in Within(Len(r) - 1)
      BY <2>1, <3>1, WalkWithin
    <3> QED BY <3>1, <3>2, WithinMonotone DEF Level
  <2> SUFFICES ASSUME Len(r) = h + 2 PROVE Before(pu, r)
    BY <1>5, <2>1, <2>2
  <2>3. PICK q \in Seq(Node), v \in Node :
          /\ r = Append(q, v) /\ Simple(q) /\ Len(q) = Len(r) - 1
          /\ Linked(Last(q), v) /\ \A i \in DOMAIN q : q[i] # v
    <3>1. Len(r) > 1 /\ Simple(r)
      BY <1>6, <2>1
    <3> QED BY ONLY QueryTypeOK, <3>1, SimpleFront
  <2>4. v = u /\ Len(q) = h + 1 /\ Last(q) \in Within(h) /\ q # p
    <3>1. v = u
      BY <1>6, <2>3, AppendIs
    <3>2. Len(q) = h + 1
      BY <2>3
    <3>3. Last(q) \in Within(h)
      BY <2>3, <3>2, WalkWithin DEF Simple, Last
    <3> QED BY <1>6, <2>3, <3>1, <3>2, <3>3
  <2>5. Queued(Last(q), h)
    <3>1. u \in Adjacent(Last(q))
      BY <1>1, <2>3, <2>4, AdjacentIsLinked
    <3> QED BY <2>4, <3>1 DEF Level, Deeper
  <2>6. PICK i \in DOMAIN work : work[i].node = Last(q) /\ work[i].n = h
    BY <2>5 DEF Queued
  <2> DEFINE z == work[i].path
  <2>7. z \in Seq(Node) /\ First(z) /\ Last(z) = Last(q) /\ Len(z) = h + 1
    BY <2>6, WorkTypes DEF CanonicalInv, FirstEntry
  <2>8. i = 1 \/ Before(p, z)
    <3>1. i # 1 => 1 < i
      BY <1>1
    <3> QED BY <1>1, <2>6, <3>1 DEF CanonicalInv, Ordered, p
  <2>9. i = 1 => z = p
    BY <1>1 DEF p
  <2> HIDE DEF z
  <2>10. q = z \/ Before(z, q)
    BY <2>3, <2>4, <2>7 DEF First
  <2>11. p \in Seq(Nat) /\ q \in Seq(Nat) /\ z \in Seq(Nat) /\ u \in Nat
    BY <1>1, <1>2, <2>3, <2>7, PathsAreNumbers, QueryAssumption
  <2>12. Before(p, q)
    BY <2>4, <2>8, <2>9, <2>10, <2>11, BeforeTransitive
  <2>13. pu \in Seq(Nat) /\ Before(pu, q)
    BY <2>11, <2>12, BeforeExtends, AppendIs
  <2> HIDE DEF pu
  <2> QED BY <2>3, <2>4, <2>11, <2>13, BeforeExtends
<1> QED BY <1>4, <1>5, <1>6 DEF First, p

\* A pass adds such paths, in the order of the queue.
LEMMA CanonicalPass ==
  ASSUME QueryTypeOK, QueryTypeOK', query.kind = "shortest_path", CanonicalInv,
         NEW h \in Nat, Level(h), work # << >>, Head(work).n = h,
         NEW s \in InOrder(Fresh(Head(work).node)),
         work' = Tail(work) \o Entries(s, Head(work), h + 1),
         visited' = visited \cup Fresh(Head(work).node), UNCHANGED <<edges, query>>
  PROVE  CanonicalInv'
<1> DEFINE x == Head(work)
           E == Entries(s, x, h + 1)
           next(a) == Append(x.path, s[a])
<1>1. /\ x = work[1] /\ x \in WorkEntry /\ 1 \in DOMAIN work /\ DOMAIN work = 1 .. Len(work) /\ Len(work) \in Nat
      /\ x.path \in Seq(Nat) /\ x.path \in Seq(Node)
      /\ \A i \in DOMAIN work : work[i].path \in Seq(Nat)
  BY HeadOfWork, WorkTypes, PathsAreNumbers DEF QueryTypeOK
<1>2. Fresh(x.node) \in SUBSET Node /\ Fresh(x.node) = Adjacent(x.node) \ visited
  BY AdjacentIsLinked DEF Fresh
<1>3. /\ E \in Seq(WorkEntry) /\ DOMAIN E = DOMAIN s /\ DOMAIN s = 1 .. Len(s)
      /\ \A a \in DOMAIN s : E[a].node = s[a] /\ E[a].n = h + 1 /\ E[a].path = next(a)
      /\ \A a \in DOMAIN s : s[a] \in Fresh(x.node) /\ s[a] \in Nat
      /\ \A a, b \in DOMAIN s : a < b => s[a] < s[b]
  <2>1. /\ s \in Seq(Node) /\ DOMAIN s = 1 .. Len(s)
        /\ \A a \in DOMAIN s : s[a] \in Fresh(x.node)
        /\ \A a, b \in DOMAIN s : a < b => s[a] < s[b]
    BY <1>2, ListedNodes
  <2>2. /\ E \in Seq(WorkEntry) /\ DOMAIN E = DOMAIN s
        /\ \A a \in DOMAIN s : E[a] = Entry(s[a], h + 1, Extended(x, s[a]))
    BY <1>1, <2>1, EntriesOf
  <2>3. \A a \in DOMAIN s : Extended(x, s[a]) = next(a)
    BY DEF Extended, CarriesPath
  <2>4. \A a \in DOMAIN s : s[a] \in Nat
    BY <1>2, <2>1, QueryAssumption
  <2> HIDE DEF x, E, next
  <2> QED BY <2>1, <2>2, <2>3, <2>4 DEF Entry
<1>4. Moves(E, work')
  BY <1>3, QueueMoves
<1>5. \A a \in DOMAIN s : First(next(a)) /\ Last(next(a)) = s[a] /\ Len(next(a)) = h + 2
  BY <1>2, <1>3, NewIsFirst
<1>6. \A i \in DOMAIN work : work[i].n = h \/ work[i].n = h + 1
  BY DEF Level
<1>7. x.n = h
  OBVIOUS
<1> HIDE DEF x, E
<1>8. \A y : FirstEntry(y)' <=> FirstEntry(y)
  BY SamePaths DEF FirstEntry, First, Before
<1>9. ASSUME NEW k \in DOMAIN work' PROVE FirstEntry(work'[k])
  <2>1. CASE k + 1 \in DOMAIN work /\ work'[k] = work[k + 1]
    BY <2>1 DEF CanonicalInv
  <2>2. CASE k - Len(work) + 1 \in DOMAIN E /\ work'[k] = E[k - Len(work) + 1]
    <3> DEFINE a == k - Len(work) + 1
    <3>1. a \in DOMAIN s /\ work'[k].node = s[a] /\ work'[k].n = h + 1 /\ work'[k].path = next(a)
      BY <1>3, <2>2
    <3> HIDE DEF a, next
    <3> QED BY <1>5, <3>1 DEF FirstEntry
  <2> QED BY <1>4, <2>1, <2>2 DEF Moves
<1>10. ASSUME NEW a \in DOMAIN s, NEW i \in DOMAIN work, i # 1
       PROVE  IF work[i].n = h THEN Before(next(a), work[i].path) ELSE Before(work[i].path, next(a))
  <2>1. Ordered(x, work[i])
    <3>1. 1 < i
      BY <1>1, <1>10
    <3> QED BY <1>1, <3>1 DEF CanonicalInv
  <2>2. CASE work[i].n = h
    BY <1>1, <1>3, <1>7, <2>1, <2>2, BeforeExtends DEF Ordered
  <2>3. CASE work[i].n # h
    BY <1>1, <1>3, <1>7, <2>1, <2>3, BeforeExtends DEF Ordered
  <2> QED BY <2>2, <2>3
<1>11. ASSUME NEW k \in DOMAIN work', NEW m \in DOMAIN work', k < m
       PROVE  Ordered(work'[k], work'[m])
  <2>1. k \in Nat \ {0} /\ m \in Nat \ {0}
    BY DEF QueryTypeOK
  <2>2. CASE m + 1 \in DOMAIN work /\ m < Len(work) /\ work'[m] = work[m + 1]
    <3>1. k + 1 \in DOMAIN work /\ work'[k] = work[k + 1] /\ k + 1 < m + 1
      BY <1>1, <1>4, <1>11, <2>1, <2>2 DEF Moves
    <3> QED BY <2>2, <3>1 DEF CanonicalInv
  <2>3. CASE m >= Len(work) /\ m - Len(work) + 1 \in DOMAIN E /\ work'[m] = E[m - Len(work) + 1]
    <3> DEFINE b == m - Len(work) + 1
    <3>1. b \in DOMAIN s /\ work'[m].n = h + 1 /\ work'[m].path = next(b)
      BY <1>3, <2>3
    <3>2. CASE k + 1 \in DOMAIN work /\ work'[k] = work[k + 1]
      <4>1. k + 1 # 1 /\ (work[k + 1].n = h \/ work[k + 1].n = h + 1) /\ h # h + 1
        BY <1>6, <2>1, <3>2
      <4> HIDE DEF b, next
      <4> QED BY <1>10, <3>1, <3>2, <4>1 DEF Ordered
    <3>3. CASE k - Len(work) + 1 \in DOMAIN E /\ work'[k] = E[k - Len(work) + 1]
      <4> DEFINE a == k - Len(work) + 1
      <4>1. a \in DOMAIN s /\ work'[k].n = h + 1 /\ work'[k].path = next(a)
        BY <1>3, <3>3
      <4>2. a < b
        BY <1>1, <1>11, <2>1
      <4> HIDE DEF a, b
      <4>3. Before(next(a), next(b))
        BY <1>1, <1>3, <3>1, <4>1, <4>2, BeforeLast
      <4> HIDE DEF next
      <4> QED BY <3>1, <4>1, <4>3 DEF Ordered
    <3> QED BY <1>4, <3>2, <3>3 DEF Moves
  <2> QED BY <1>4, <2>2, <2>3 DEF Moves
<1>12. \A y, z : Ordered(y, z)' <=> Ordered(y, z)
  BY DEF Ordered, Before
<1> QED BY <1>8, <1>9, <1>11, <1>12 DEF CanonicalInv

LEMMA CanonicalFound ==
  ASSUME QueryTypeOK, NEW p, First(p), Last(p) = query.target,
         UNCHANGED <<edges, query>>, answer'.found = TRUE, answer'.path = p
  PROVE  PathIsCanonical'
<1>1. p \in PathsToTarget
  BY TargetPaths DEF First
<1>2. \A r \in PathsToTarget \ {p} : Len(r) > Len(p) \/ (Len(r) = Len(p) /\ Before(p, r))
  BY TargetPaths DEF First
<1>3. PathsToTarget' = PathsToTarget
  BY SameTargetPaths
<1> HIDE DEF First
<1> QED BY <1>1, <1>2, <1>3 DEF PathIsCanonical, Before

LEMMA StartIsFirst == ASSUME QueryTypeOK PROVE First(<<query.start>>) /\ Last(<<query.start>>) = query.start
<1> DEFINE p == <<query.start>>
<1>1. Simple(p) /\ Len(p) = 1 /\ Last(p) = query.start
  BY SimpleStart DEF Last
<1>2. ASSUME NEW r, Simple(r), r # p PROVE Len(r) > Len(p)
  <2> DEFINE l == Len(r)
  <2>1. l \in Nat \ {0} /\ r \in Seq(Node) /\ r[1] = query.start
    BY <1>2, SimpleIsShort DEF Simple, Walk
  <2>2. CASE l = 1
    BY <1>2, <2>1, <2>2
  <2>3. CASE l # 1
    <3> HIDE DEF l
    <3>1. l > 1
      BY <2>1, <2>3
    <3> QED BY <1>1, <3>1 DEF l
  <2> QED BY <2>2, <2>3
<1> HIDE DEF p
<1>3. First(p)
  BY <1>1, <1>2 DEF First
<1> QED BY <1>1, <1>3 DEF p

LEMMA CanonicalInit == Init => CanonicalInv /\ PathIsCanonical
<1> SUFFICES ASSUME Init PROVE CanonicalInv /\ PathIsCanonical
  OBVIOUS
<1>1. PathIsCanonical
  BY DEF Init, PathIsCanonical, Answered
<1>2. ASSUME query.kind = "shortest_path" PROVE CanonicalInv
  <2> DEFINE y == Entry(query.start, 0, <<query.start>>)
  <2>1. work = <<y>>
    BY <1>2 DEF Init, CarriesPath
  <2>2. FirstEntry(y)
    <3>1. y.node = query.start /\ y.n = 0 /\ y.path = <<query.start>>
      BY DEF Entry
    <3>2. Len(y.path) = y.n + 1
      <4>1. Len(<<query.start>>) = 0 + 1
        OBVIOUS
      <4> HIDE DEF y
      <4> QED BY <3>1, <4>1
    <3>3. First(<<query.start>>) /\ Last(<<query.start>>) = query.start
      BY QueryTypeInit, StartIsFirst
    <3> HIDE DEF y
    <3> QED BY <3>1, <3>2, <3>3 DEF FirstEntry
  <2> HIDE DEF y
  <2>3. DOMAIN work = {1} /\ work[1] = y
    BY <2>1
  <2> QED BY <2>2, <2>3 DEF CanonicalInv
<1> QED BY <1>1, <1>2 DEF CanonicalInv

LEMMA CanonicalKept ==
  ASSUME CanonicalInv, UNCHANGED <<edges, query, work>> PROVE CanonicalInv'
<1>1. \A y : FirstEntry(y)' <=> FirstEntry(y)
  BY SamePaths DEF FirstEntry, First, Before
<1>2. \A y, z : Ordered(y, z)' <=> Ordered(y, z)
  BY DEF Ordered, Before
<1> QED BY <1>1, <1>2 DEF CanonicalInv

LEMMA CanonicalStep ==
  ASSUME QueryTypeOK, QueryTypeOK', SearchInv, CanonicalInv, PathIsCanonical, [Next]_vars
  PROVE  CanonicalInv' /\ PathIsCanonical'
<1>1. CASE UNCHANGED vars
  <2>1. UNCHANGED <<edges, query, work, visited, best, answer>>
    BY <1>1 DEF vars, index
  <2>2. PathsToTarget' = PathsToTarget
    BY <2>1, SameTargetPaths
  <2>3. CanonicalInv'
    BY <2>1, CanonicalKept
  <2> QED BY <2>1, <2>2, <2>3 DEF PathIsCanonical, Answered, Before
<1>2. CASE Next /\ query.kind # "shortest_path"
  <2>1. query' = query
    BY <1>2 DEF Next, ReadNeighbors, Trivial, Bfs, Dfs, Search, Dijkstra, Skip, Settle, Running, Hop, Finish, Answer, index
  <2> QED BY <1>2, <2>1 DEF CanonicalInv, PathIsCanonical, Answered
<1>3. CASE Next /\ query.kind = "shortest_path"
  <2>1. Searches /\ CarriesPath
    BY <1>3 DEF Searches, CarriesPath
  <2>2. answer = None /\ (Trivial \/ Search \/ Finish)
    BY <1>3 DEF Next, ReadNeighbors, Trivial, Bfs, Dfs, Search, Dijkstra, Running, Hop, Finish
  <2>3. CASE Trivial
    <3>1. /\ UNCHANGED <<edges, query, work>> /\ query.start = query.target
          /\ answer'.found = TRUE /\ answer'.path = <<query.start>>
      BY <2>1, <2>3 DEF Trivial, Answer, index
    <3> DEFINE p == <<query.start>>
    <3>2. First(p) /\ Last(p) = query.target
      BY <3>1, StartIsFirst
    <3>3. answer'.path = p
      BY <3>1
    <3> HIDE DEF p
    <3> QED BY <3>1, <3>2, <3>3, CanonicalFound, CanonicalKept
  <2>4. CASE Search
    <3> DEFINE x == Head(work)
    <3>1. work # << >> /\ query.start # query.target
      BY <2>4 DEF Search
    <3>2. PICK h \in Nat : Level(h) /\ x.n = h
      BY <2>1, <3>1, CurrentLevel
    <3>3. CASE query.target \in Adjacent(x.node)
      <4> DEFINE p == Append(x.path, query.target)
      <4>1. UNCHANGED <<edges, query, work>> /\ answer'.found = TRUE /\ answer'.path = p
        BY <2>1, <2>4, <3>3 DEF Search, Answer, Extended, index
      <4>2. query.target \notin visited
        BY <1>3, <3>1 DEF SearchInv, TargetUnseen
      <4>3. First(p) /\ Last(p) = query.target
        BY <1>3, <3>1, <3>2, <3>3, <4>2, NewIsFirst
      <4> HIDE DEF p
      <4> QED BY <4>1, <4>3, CanonicalFound, CanonicalKept
    <3>4. CASE query.target \notin Adjacent(x.node)
      <4>1. /\ \E s \in InOrder(Fresh(x.node)) : work' = Tail(work) \o Entries(s, x, h + 1)
            /\ visited' = visited \cup Fresh(x.node)
            /\ UNCHANGED <<edges, query, best, answer>>
        BY <2>4, <3>2, <3>4 DEF Search, Marked, index
      <4>2. CanonicalInv'
        BY <1>3, <3>1, <3>2, <4>1, CanonicalPass
      <4> QED BY <2>2, <4>1, <4>2 DEF PathIsCanonical, Answered
    <3> QED BY <3>3, <3>4
  <2>5. CASE Finish
    <3>1. /\ UNCHANGED <<edges, query, work>> /\ work = << >> /\ answer'.found = FALSE
          /\ query.start # query.target
      BY <1>3, <2>5 DEF Finish, Answer, index, Exhausted, Seeks
    <3>2. PathsToTarget = {}
      <4> SUFFICES ASSUME NEW p \in PathsToTarget PROVE FALSE
        OBVIOUS
      <4>1. Simple(p) /\ Last(p) = query.target
        BY TargetPaths
      <4>2. Len(p) \in 1 .. Len(p) /\ Len(p) - 1 \in Nat /\ Walk(p)
        BY <4>1, SimpleIsShort DEF Simple
      <4>3. query.target \in Within(Len(p) - 1)
        BY <4>1, <4>2, WalkWithin DEF Last
      <4>4. query.target \in visited
        BY <1>3, <2>1, <3>1, <4>2, <4>3, LevelsDone
      <4> QED BY <1>3, <3>1, <4>4 DEF SearchInv, TargetUnseen
    <3>3. PathsToTarget' = {}
      BY <3>1, <3>2, SameTargetPaths
    <3> QED BY <3>1, <3>3, CanonicalKept DEF PathIsCanonical
  <2> QED BY <2>2, <2>3, <2>4, <2>5
<1> QED BY <1>1, <1>2, <1>3

\* shortest_path returns a shortest path and, of those, the first in the order of the
\* ids, and None only when no path leads to the target.
THEOREM ShortestIsCanonical == Spec => []PathIsCanonical
<1>1. Init => QueryTypeOK /\ SearchInv /\ CanonicalInv /\ PathIsCanonical
  BY QueryTypeInit, SearchInit, CanonicalInit
<1>2. QueryTypeOK /\ SearchInv /\ ReachIsExact /\ CanonicalInv /\ PathIsCanonical /\ [Next]_vars
        => (QueryTypeOK /\ SearchInv /\ ReachIsExact /\ CanonicalInv /\ PathIsCanonical)'
  BY QueryTypeStep, SearchStep, CanonicalStep
<1>3. Init => ReachIsExact
  BY SearchInit
<1> QED BY <1>1, <1>2, <1>3, PTL DEF Spec

----------------------------------------------------------------------------
(* match.                                                                  *)

Fits(m, i) ==
  /\ m[i].edge_type = query.hops[i].edge_type /\ Near(m[i], i) = NodesOf(m)[i]
  /\ query.hops[i].to_node_type \in {None, NodeType[Far(m[i], i)]}

\* The first edges of a match.
Partial(m) ==
  /\ m \in Seq(edges) /\ Len(m) <= Len(query.hops)
  /\ \A i \in DOMAIN m : Fits(m, i)
  /\ \A i, j \in DOMAIN NodesOf(m) : i # j => NodesOf(m)[i] # NodesOf(m)[j]

Starts(a, b) == Len(a) <= Len(b) /\ \A k \in 1 .. Len(a) : a[k] = b[k]

\* The entries stand for partial matches, none of which another continues, and every
\* match continues one of them.
StandsFor(y, m) ==
  Partial(m) /\ y.n = Len(m) /\ y.path = NodesOf(m) /\ y.node = NodesOf(m)[Len(m) + 1]

Cover(w, ms) ==
  /\ ms \in [DOMAIN w -> Seq(edges)]
  /\ \A i \in DOMAIN w : StandsFor(w[i], ms[i])
  /\ \A i, j \in DOMAIN w : i # j => ~Starts(ms[i], ms[j])
  /\ \A m \in Matching : \E i \in DOMAIN w : Starts(ms[i], m)

PrefixesInv == query.kind = "match" => \E ms : Cover(work, ms)

LEMMA HopFacts ==
  ASSUME QueryTypeOK
  PROVE  /\ Len(query.hops) \in Nat /\ DOMAIN query.hops = 1 .. Len(query.hops)
         /\ \A i \in DOMAIN query.hops : query.hops[i].direction \in {"out", "in"}
<1>1. query.hops \in Seq([edge_type : Nat, direction : Direction, to_node_type : STRING \cup {None}])
  BY QueryAssumption DEF QueryTypeOK, IsQuery
<1> DEFINE S == [edge_type : Nat, direction : Direction, to_node_type : STRING \cup {None}]
<1>2. \A h \in S : h.direction \in {"out", "in"}
  BY DEF Direction
<1> HIDE DEF S
<1>3. query.hops \in [1 .. Len(query.hops) -> S] /\ Len(query.hops) \in Nat
  BY <1>1, LenProperties DEF S
<1> QED BY <1>2, <1>3

LEMMA NodesOfIs ==
  ASSUME QueryTypeOK, NEW m \in Seq(edges)
  PROVE  /\ Len(m) \in Nat /\ DOMAIN m = 1 .. Len(m) /\ \A i \in DOMAIN m : m[i] \in edges
         /\ NodesOf(m) \in Seq(Node) /\ Len(NodesOf(m)) = Len(m) + 1
         /\ DOMAIN NodesOf(m) = 1 .. Len(m) + 1
         /\ NodesOf(m)[1] = query.start
         /\ \A i \in 1 .. Len(m) : NodesOf(m)[i + 1] = Far(m[i], i)
<1>1. Len(m) \in Nat /\ DOMAIN m = 1 .. Len(m) /\ \A i \in DOMAIN m : m[i] \in edges
  <2>1. m \in [1 .. Len(m) -> edges] /\ Len(m) \in Nat
    BY LenProperties
  <2> QED BY <2>1
<1>2. \A e \in edges : \A i : Far(e, i) \in Node
  BY QueryFacts DEF Far
<1> DEFINE l == Len(m)
<1>3. NodesOf(m) = [i \in 1 .. l + 1 |-> IF i = 1 THEN query.start ELSE Far(m[i - 1], i - 1)]
  BY DEF NodesOf
<1>4. l \in Nat /\ \A i \in 1 .. l : m[i] \in edges
  BY <1>1
<1> HIDE DEF l
<1>5. \A i \in 1 .. l + 1 : i # 1 => i - 1 \in 1 .. l
  BY <1>4
<1>6. NodesOf(m) \in [1 .. l + 1 -> Node]
  <2>1. \A i \in 1 .. l + 1 : (IF i = 1 THEN query.start ELSE Far(m[i - 1], i - 1)) \in Node
    BY <1>2, <1>4, <1>5, QueryFacts
  <2> QED BY <1>3, <2>1
<1>7. NodesOf(m) \in Seq(Node) /\ Len(NodesOf(m)) = l + 1
  BY <1>4, <1>6
<1>8. NodesOf(m)[1] = query.start
  BY <1>3, <1>4
<1>9. ASSUME NEW i \in 1 .. l PROVE NodesOf(m)[i + 1] = Far(m[i], i)
  <2>1. i + 1 \in 1 .. l + 1 /\ i + 1 # 1 /\ (i + 1) - 1 = i
    BY <1>4
  <2> QED BY <1>3, <2>1
<1> QED BY <1>1, <1>6, <1>7, <1>8, <1>9 DEF l

LEMMA NodesAppend ==
  ASSUME QueryTypeOK, NEW m \in Seq(edges), NEW e \in edges
  PROVE  /\ NodesOf(Append(m, e)) = Append(NodesOf(m), Far(e, Len(m) + 1))
         /\ Far(e, Len(m) + 1) \in Node
<1> DEFINE me == Append(m, e)
           v == Far(e, Len(m) + 1)
           p == NodesOf(m)
           l == Len(m)
<1>1. v \in Node
  BY QueryFacts DEF Far
<1>2. /\ l \in Nat /\ p \in Seq(Node) /\ Len(p) = l + 1 /\ p[1] = query.start
      /\ \A i \in 1 .. l : p[i + 1] = Far(m[i], i)
  BY NodesOfIs
<1>3. me \in Seq(edges) /\ Len(me) = l + 1 /\ me[l + 1] = e /\ \A i \in 1 .. l : me[i] = m[i]
  BY AppendIs
<1>4. /\ Append(p, v) \in Seq(Node) /\ Len(Append(p, v)) = l + 2
      /\ (\A i \in 1 .. l + 1 : Append(p, v)[i] = p[i]) /\ Append(p, v)[l + 2] = v
  <2> HIDE DEF p, v
  <2>1. Len(p) + 1 = l + 2
    BY <1>2
  <2> QED BY <1>1, <1>2, <2>1, AppendIs
<1>5. v = Far(e, l + 1)
  OBVIOUS
<1> HIDE DEF me, v, p, l
<1>6. /\ NodesOf(me) \in Seq(Node) /\ Len(NodesOf(me)) = l + 2 /\ NodesOf(me)[1] = query.start
      /\ \A i \in 1 .. l + 1 : NodesOf(me)[i + 1] = Far(me[i], i)
  <2>1. Len(me) + 1 = l + 2
    BY <1>2, <1>3
  <2> QED BY <1>3, <2>1, NodesOfIs
<1>7. ASSUME NEW i \in 1 .. l + 2 PROVE NodesOf(me)[i] = Append(p, v)[i]
  <2>1. CASE i = 1
    BY <1>2, <1>4, <1>6, <2>1
  <2>2. CASE i = l + 2
    <3>1. l + 1 \in 1 .. l + 1 /\ (l + 1) + 1 = l + 2
      BY <1>2
    <3>2. NodesOf(me)[l + 2] = Far(me[l + 1], l + 1)
      BY <1>6, <3>1
    <3> QED BY <1>3, <1>4, <1>5, <2>2, <3>2
  <2>3. CASE i # 1 /\ i # l + 2
    <3>1. i - 1 \in 1 .. l /\ i - 1 \in 1 .. l + 1 /\ (i - 1) + 1 = i /\ i \in 1 .. l + 1
      BY <1>2, <2>3
    <3>2. NodesOf(me)[i] = Far(me[i - 1], i - 1)
      BY <1>6, <3>1
    <3>3. p[i] = Far(m[i - 1], i - 1)
      BY <1>2, <3>1
    <3> QED BY <1>3, <1>4, <3>1, <3>2, <3>3
  <2> QED BY <2>1, <2>2, <2>3
<1>8. NodesOf(me) = Append(p, v)
  BY <1>2, <1>4, <1>6, <1>7, SeqEqual
<1> QED BY <1>1, <1>8 DEF me, v, p

LEMMA MatchingIs ==
  ASSUME QueryTypeOK, NEW m PROVE m \in Matching <=> Partial(m) /\ Len(m) = Len(query.hops)
<1> DEFINE l == Len(query.hops)
<1>1. l \in Nat /\ DOMAIN query.hops = 1 .. l
  BY HopFacts
<1>2. m \in Matching <=>
        /\ m \in [1 .. l -> edges]
        /\ \A i \in DOMAIN m : Fits(m, i)
        /\ \A i, j \in DOMAIN NodesOf(m) : i # j => NodesOf(m)[i] # NodesOf(m)[j]
  BY <1>1 DEF Matching, Fits
<1>3. m \in [1 .. l -> edges] <=> m \in Seq(edges) /\ Len(m) = l
  <2>1. ASSUME m \in [1 .. l -> edges] PROVE m \in Seq(edges) /\ Len(m) = l
    BY <1>1, <2>1
  <2>2. ASSUME m \in Seq(edges), Len(m) = l PROVE m \in [1 .. l -> edges]
    BY <2>2, LenProperties
  <2> QED BY <2>1, <2>2
<1>4. l <= l
  BY <1>1
<1> QED BY <1>2, <1>3, <1>4 DEF Partial

\* What a match begins with is a partial match.
LEMMA PartialPrefix ==
  ASSUME QueryTypeOK, NEW b, Partial(b), NEW a \in Seq(edges), Starts(a, b) PROVE Partial(a)
<1>1. /\ Len(a) \in Nat /\ DOMAIN a = 1 .. Len(a) /\ DOMAIN NodesOf(a) = 1 .. Len(a) + 1
      /\ NodesOf(a)[1] = query.start
      /\ \A i \in 1 .. Len(a) : NodesOf(a)[i + 1] = Far(a[i], i)
  BY NodesOfIs
<1>2. b \in Seq(edges)
  BY DEF Partial
<1>3. /\ Len(b) \in Nat /\ DOMAIN b = 1 .. Len(b) /\ DOMAIN NodesOf(b) = 1 .. Len(b) + 1
      /\ NodesOf(b)[1] = query.start
      /\ \A i \in 1 .. Len(b) : NodesOf(b)[i + 1] = Far(b[i], i)
  BY <1>2, NodesOfIs
<1>4. Len(a) <= Len(b) /\ \A k \in 1 .. Len(a) : a[k] = b[k]
  BY DEF Starts
<1>5. \A i \in 1 .. Len(a) : i \in 1 .. Len(b)
  BY <1>1, <1>3, <1>4
<1>6. ASSUME NEW i \in 1 .. Len(a) + 1 PROVE NodesOf(a)[i] = NodesOf(b)[i] /\ i \in DOMAIN NodesOf(b)
  <2>1. CASE i = 1
    BY <1>1, <1>3, <2>1
  <2>2. CASE i # 1
    <3>1. i - 1 \in 1 .. Len(a) /\ (i - 1) + 1 = i
      BY <1>1, <2>2
    <3>2. NodesOf(a)[i] = Far(a[i - 1], i - 1) /\ NodesOf(b)[i] = Far(b[i - 1], i - 1)
      BY <1>1, <1>3, <1>5, <3>1
    <3>3. i \in 1 .. Len(b) + 1
      BY <1>1, <1>3, <1>4
    <3> QED BY <1>3, <1>4, <3>1, <3>2, <3>3
  <2> QED BY <2>1, <2>2
<1>7. ASSUME NEW i \in DOMAIN a PROVE Fits(a, i)
  <2>1. Fits(b, i) /\ a[i] = b[i] /\ i \in 1 .. Len(a) + 1
    BY <1>1, <1>3, <1>4, <1>5 DEF Partial
  <2> QED BY <1>6, <2>1 DEF Fits
<1>8. \A i, j \in DOMAIN NodesOf(a) : i # j => NodesOf(a)[i] # NodesOf(a)[j]
  BY <1>1, <1>6 DEF Partial
<1>9. Len(a) <= Len(query.hops)
  BY <1>1, <1>3, <1>4, HopFacts DEF Partial
<1> QED BY <1>7, <1>8, <1>9 DEF Partial

\* A hop takes exactly the edges that continue the partial match.
LEMMA HopTakes ==
  ASSUME QueryTypeOK, NEW x, NEW m, StandsFor(x, m), Len(m) < Len(query.hops), NEW e \in edges
  PROVE  /\ e \in Bucket(x, query.hops[Len(m) + 1]) <=> Partial(Append(m, e))
         /\ e \in Bucket(x, query.hops[Len(m) + 1]) =>
              Endpoint(e, query.hops[Len(m) + 1].direction) = Far(e, Len(m) + 1)
<1> DEFINE l == Len(m)
           me == Append(m, e)
           v == Far(e, l + 1)
           h == query.hops[l + 1]
           p == NodesOf(m)
<1>1. /\ m \in Seq(edges) /\ Partial(m) /\ x.path = p /\ x.node = p[l + 1]
      /\ \A i \in DOMAIN m : Fits(m, i)
      /\ \A i, j \in DOMAIN p : i # j => p[i] # p[j]
  BY DEF StandsFor, Partial
<1>2. /\ l \in Nat /\ DOMAIN m = 1 .. l /\ p \in Seq(Node) /\ Len(p) = l + 1 /\ DOMAIN p = 1 .. l + 1
      /\ v \in Node /\ NodesOf(me) = Append(p, v)
  BY <1>1, NodesOfIs, NodesAppend
<1>3. /\ me \in Seq(edges) /\ Len(me) = l + 1 /\ DOMAIN me = 1 .. l + 1 /\ me[l + 1] = e
      /\ \A i \in 1 .. l : me[i] = m[i]
  BY <1>1, AppendIs
<1>4. /\ DOMAIN NodesOf(me) = 1 .. l + 2 /\ NodesOf(me)[l + 2] = v
      /\ \A i \in 1 .. l + 1 : NodesOf(me)[i] = p[i]
  <2> HIDE DEF p, v
  <2>1. Len(p) + 1 = l + 2
    BY <1>2
  <2> QED BY <1>2, <2>1, AppendIs
<1>5. h.direction \in {"out", "in"} /\ l + 1 \in 1 .. l + 1 /\ l + 1 <= Len(query.hops)
  <2>1. l + 1 \in 1 .. Len(query.hops) /\ l + 1 \in 1 .. l + 1
    BY <1>2, HopFacts
  <2> QED BY <2>1, HopFacts
<1>6. /\ Endpoint(e, h.direction) = v
      /\ e \in Incident(x.node, h.direction) <=> Near(e, l + 1) = p[l + 1]
  BY <1>1, <1>5 DEF Endpoint, Far, Incident, Near
<1>7. Typed(h, v) <=> h.to_node_type \in {None, NodeType[v]}
  BY DEF Typed
<1>8. /\ me[l + 1] = e /\ NodesOf(me)[l + 1] = p[l + 1]
      /\ \A i \in 1 .. l : me[i] = m[i] /\ NodesOf(me)[i] = p[i]
  BY <1>2, <1>3, <1>4, <1>5
<1>9. e \in Bucket(x, h) <=>
        /\ Near(e, l + 1) = p[l + 1] /\ e.edge_type = h.edge_type
        /\ h.to_node_type \in {None, NodeType[v]} /\ \A i \in 1 .. l + 1 : p[i] # v
  BY <1>1, <1>2, <1>6, <1>7 DEF Bucket
<1>10. Fits(me, l + 1) <=>
         Near(e, l + 1) = p[l + 1] /\ e.edge_type = h.edge_type /\ h.to_node_type \in {None, NodeType[v]}
  BY <1>8 DEF Fits
<1>11. \A i \in 1 .. l : Fits(me, i)
  BY <1>1, <1>2, <1>8 DEF Fits
<1> HIDE DEF me, v, h, p, l
<1>12. ASSUME e \in Bucket(x, h) PROVE Partial(me)
  <2>1. ASSUME NEW i \in 1 .. l + 2, NEW j \in 1 .. l + 2, i # j PROVE NodesOf(me)[i] # NodesOf(me)[j]
    <3>1. (i \in 1 .. l + 1 \/ i = l + 2) /\ (j \in 1 .. l + 1 \/ j = l + 2)
      BY <1>2
    <3>2. \A k \in 1 .. l + 1 : p[k] # v
      BY <1>9, <1>12
    <3> QED BY <1>1, <1>2, <1>4, <2>1, <3>1, <3>2
  <2>2. ASSUME NEW i \in 1 .. l + 1 PROVE Fits(me, i)
    <3>1. i = l + 1 \/ i \in 1 .. l
      BY <1>2
    <3> QED BY <1>9, <1>10, <1>11, <1>12, <3>1
  <2> QED BY <1>3, <1>4, <1>5, <2>1, <2>2 DEF Partial
<1>13. ASSUME Partial(me) PROVE e \in Bucket(x, h)
  <2>1. Fits(me, l + 1)
    BY <1>3, <1>5, <1>13 DEF Partial
  <2>2. ASSUME NEW i \in 1 .. l + 1 PROVE p[i] # v
    <3>1. i \in DOMAIN NodesOf(me) /\ l + 2 \in DOMAIN NodesOf(me) /\ i # l + 2
      BY <1>2, <1>4
    <3> QED BY <1>4, <1>13, <3>1 DEF Partial
  <2> QED BY <1>9, <1>10, <2>1, <2>2
<1> QED BY <1>6, <1>12, <1>13 DEF me, v, h, l

LEMMA StartsAppend ==
  ASSUME NEW S, NEW a \in Seq(S), NEW b \in Seq(S), NEW e \in S
  PROVE  /\ Starts(Append(a, e), b) => Starts(a, b)
         /\ Starts(b, Append(a, e)) => Starts(b, a) \/ Starts(a, b)
<1> DEFINE ae == Append(a, e)
<1>1. /\ Len(a) \in Nat /\ Len(b) \in Nat /\ Len(ae) = Len(a) + 1
      /\ \A i \in 1 .. Len(a) : ae[i] = a[i]
  BY AppendIs, LenProperties
<1> HIDE DEF ae
<1>2. ASSUME Starts(ae, b) PROVE Starts(a, b)
  <2>1. Len(a) <= Len(b) /\ \A i \in 1 .. Len(a) : i \in 1 .. Len(a) + 1
    BY <1>1, <1>2 DEF Starts
  <2> QED BY <1>1, <1>2, <2>1 DEF Starts
<1>3. ASSUME Starts(b, ae) PROVE Starts(b, a) \/ Starts(a, b)
  <2>1. CASE Len(b) <= Len(a)
    <3>1. \A i \in 1 .. Len(b) : i \in 1 .. Len(a)
      BY <1>1, <2>1
    <3> QED BY <1>1, <1>3, <2>1, <3>1 DEF Starts
  <2>2. CASE ~(Len(b) <= Len(a))
    <3>1. Len(a) <= Len(b) /\ \A i \in 1 .. Len(a) : i \in 1 .. Len(b)
      BY <1>1, <2>2
    <3> QED BY <1>1, <1>3, <3>1 DEF Starts
  <2> QED BY <2>1, <2>2
<1> QED BY <1>2, <1>3 DEF ae

LEMMA StartsNext ==
  ASSUME NEW S, NEW a \in Seq(S), NEW b \in Seq(S), Starts(a, b), Len(a) < Len(b)
  PROVE  b[Len(a) + 1] \in S /\ Starts(Append(a, b[Len(a) + 1]), b)
<1> DEFINE l == Len(a)
           e == b[l + 1]
           ae == Append(a, e)
<1>1. l \in Nat /\ Len(b) \in Nat /\ b \in [1 .. Len(b) -> S] /\ l < Len(b)
  BY LenProperties
<1>2. e \in S
  BY <1>1
<1> HIDE DEF e
<1>3. Len(ae) = l + 1 /\ ae[l + 1] = e /\ \A i \in 1 .. l : ae[i] = a[i]
  BY <1>2, AppendIs
<1>4. \A i \in 1 .. l : a[i] = b[i]
  BY DEF Starts
<1> HIDE DEF ae, l
<1>5. ASSUME NEW i \in 1 .. l + 1 PROVE ae[i] = b[i]
  <2>1. i = l + 1 \/ i \in 1 .. l
    BY <1>1
  <2> QED BY <1>3, <1>4, <2>1 DEF e
<1>6. l + 1 <= Len(b)
  BY <1>1
<1>7. Starts(ae, b)
  BY <1>3, <1>5, <1>6 DEF Starts
<1> QED BY <1>2, <1>7 DEF e, ae, l

\* The edges of a bucket, in the order of their ids: each of them once.
LEMMA BucketListed ==
  ASSUME QueryTypeOK, NEW x, NEW h, NEW s \in InOrder({e.edge_id : e \in Bucket(x, h)})
  PROVE  \E f \in [DOMAIN s -> Bucket(x, h)] :
           /\ \A k \in DOMAIN s : Taken(x, h, s)[k] = Endpoint(f[k], h.direction)
           /\ \A e \in Bucket(x, h) : \E k \in DOMAIN s : f[k] = e
           /\ \A j, k \in DOMAIN s : f[j] = f[k] => j = k
<1> DEFINE B == Bucket(x, h)
           ids == {e.edge_id : e \in B}
           f == [k \in DOMAIN s |-> CHOOSE e \in B : e.edge_id = s[k]]
<1>1. IsFiniteSet(ids) /\ \A k \in DOMAIN s : s[k] \in ids
  BY BucketIds
<1>2. /\ DOMAIN s = 1 .. Len(s) /\ Len(s) \in Nat
      /\ \A id \in ids : \E k \in DOMAIN s : s[k] = id
      /\ \A j, k \in DOMAIN s : j < k => s[j] < s[k]
  <2> HIDE DEF ids
  <2> QED BY <1>1, InOrderLists DEF ids
<1>3. \A k \in DOMAIN s : f[k] \in B /\ f[k].edge_id = s[k]
  BY <1>1, BucketById
<1>4. \A k \in DOMAIN s : Taken(x, h, s)[k] = Endpoint(f[k], h.direction)
  BY DEF Taken
<1>5. f \in [DOMAIN s -> B]
  <2>1. f = [k \in DOMAIN s |-> f[k]]
    OBVIOUS
  <2> HIDE DEF f
  <2> QED BY <1>3, <2>1
<1>6. ASSUME NEW e \in B PROVE \E k \in DOMAIN s : f[k] = e
  <2>1. PICK k \in DOMAIN s : s[k] = e.edge_id
    BY <1>2
  <2>2. s[k] \in ids
    BY <1>1
  <2>3. e = CHOOSE g \in B : g.edge_id = s[k]
    BY <2>1, <2>2, BucketById
  <2> QED BY <2>3
<1>7. ASSUME NEW j \in DOMAIN s, NEW k \in DOMAIN s, f[j] = f[k] PROVE j = k
  <2>1. s[j] = s[k]
    BY <1>3, <1>7
  <2>2. s[j] \in Nat /\ s[k] \in Nat
    <3>1. \A e \in B : e.edge_id \in Nat
      BY QueryFacts DEF Bucket, Incident
    <3> QED BY <1>1, <3>1
  <2> QED BY <1>2, <2>1, <2>2
<1> HIDE DEF f
<1> QED BY <1>4, <1>5, <1>6, <1>7

\* A hop replaces the head by the partial matches that continue its own.
LEMMA HopCovers ==
  ASSUME QueryTypeOK, QueryTypeOK', query.kind = "match", work # << >>, NEW ms, Cover(work, ms),
         Head(work).n < Len(query.hops), NEW n, n = Head(work).n,
         NEW s \in InOrder({e.edge_id : e \in Bucket(Head(work), query.hops[n + 1])}),
         work' = Tail(work) \o Entries(Taken(Head(work), query.hops[n + 1], s), Head(work), n + 1)
  PROVE  \E new : Cover(work', new)
<1> DEFINE x == Head(work)
           h == query.hops[n + 1]
           B == Bucket(x, h)
           t == Taken(x, h, s)
           E == Entries(t, x, n + 1)
           l == Len(work)
<1>1. /\ x = work[1] /\ x \in WorkEntry /\ 1 \in DOMAIN work /\ DOMAIN work = 1 .. l /\ l \in Nat
      /\ n \in Nat
  BY HeadOfWork DEF QueryTypeOK
<1>2. PICK m : m = ms[1]
  OBVIOUS
<1>3. /\ StandsFor(x, m) /\ m \in Seq(edges) /\ n = Len(m) /\ n < Len(query.hops)
      /\ ms \in [1 .. l -> Seq(edges)]
      /\ \A i, j \in 1 .. l : i # j => ~Starts(ms[i], ms[j])
  BY <1>1, <1>2 DEF Cover, StandsFor
<1>4. PICK f \in [DOMAIN s -> B] :
        /\ \A k \in DOMAIN s : t[k] = Endpoint(f[k], h.direction)
        /\ \A e \in B : \E k \in DOMAIN s : f[k] = e
        /\ \A j, k \in DOMAIN s : f[j] = f[k] => j = k
  BY BucketListed
<1>5. B \subseteq edges
  BY DEF Bucket, Incident
<1>6. /\ t \in Seq(Node) /\ DOMAIN t = DOMAIN s
      /\ E \in Seq(WorkEntry) /\ DOMAIN E = DOMAIN s
      /\ \A k \in DOMAIN s : E[k] = Entry(t[k], n + 1, Append(x.path, t[k]))
  <2>1. t \in Seq(Node) /\ DOMAIN t = DOMAIN s
    BY BucketIds
  <2> HIDE DEF t, x
  <2>2. /\ E \in Seq(WorkEntry) /\ DOMAIN E = DOMAIN t
        /\ \A k \in DOMAIN t : E[k] = Entry(t[k], n + 1, Extended(x, t[k]))
    BY <1>1, <2>1, EntriesOf
  <2>3. \A v : Extended(x, v) = Append(x.path, v)
    BY DEF Extended, CarriesPath
  <2> QED BY <2>1, <2>2, <2>3
<1>7. Moves(E, work')
  BY <1>6, QueueMoves
<1> HIDE DEF E
<1> DEFINE next(k) == Append(m, f[k])
\* What joins the queue stands for the matches one edge longer.
<1>8. ASSUME NEW k \in DOMAIN s
      PROVE  StandsFor(E[k], next(k)) /\ next(k) \in Seq(edges) /\ f[k] \in edges /\ f[k] \in B
  <2>1. f[k] \in B /\ f[k] \in edges
    BY <1>4, <1>5
  <2>2. PICK e \in edges : e = f[k]
    BY <2>1
  <2>3. Partial(Append(m, e)) /\ Endpoint(e, h.direction) = Far(e, n + 1)
    BY <1>3, <2>1, <2>2, HopTakes
  <2>4. t[k] = Far(e, n + 1)
    BY <1>4, <2>2, <2>3
  <2> DEFINE v == Far(e, n + 1)
             me == Append(m, e)
  <2>5. /\ NodesOf(me) = Append(NodesOf(m), v) /\ v \in Node
        /\ me \in Seq(edges) /\ Len(me) = n + 1
        /\ NodesOf(m) \in Seq(Node) /\ Len(NodesOf(m)) = n + 1
    BY <1>3, NodesAppend, NodesOfIs, AppendIs
  <2>6. Append(NodesOf(m), v)[n + 2] = v
    <3> HIDE DEF v
    <3>1. Len(NodesOf(m)) + 1 = n + 2
      BY <1>1, <2>5
    <3> QED BY <2>5, <3>1, AppendIs
  <2>7. E[k].node = v /\ E[k].n = n + 1 /\ E[k].path = Append(x.path, v)
    BY <1>6, <2>4 DEF Entry
  <2>8. x.path = NodesOf(m) /\ (n + 1) + 1 = n + 2
    BY <1>1, <1>3 DEF StandsFor
  <2> HIDE DEF v, me
  <2>9. StandsFor(E[k], me)
    BY <2>3, <2>5, <2>6, <2>7, <2>8 DEF StandsFor, me
  <2> QED BY <2>1, <2>2, <2>5, <2>9 DEF me
<1> DEFINE new == [i \in DOMAIN work' |-> IF i < l THEN ms[i + 1] ELSE next(i - l + 1)]
<1>9. ASSUME NEW i \in DOMAIN work'
      PROVE  \/ i < l /\ i + 1 \in DOMAIN work /\ i + 1 # 1 /\ work'[i] = work[i + 1] /\ new[i] = ms[i + 1]
             \/ i >= l /\ i - l + 1 \in DOMAIN s /\ work'[i] = E[i - l + 1] /\ new[i] = next(i - l + 1)
  <2>1. i \in Nat \ {0}
    BY DEF QueryTypeOK
  <2>2. CASE i + 1 \in DOMAIN work /\ i < l /\ work'[i] = work[i + 1]
    BY <2>1, <2>2
  <2>3. CASE i >= l /\ i - l + 1 \in DOMAIN E /\ work'[i] = E[i - l + 1]
    BY <1>1, <1>6, <2>1, <2>3
  <2> QED BY <1>7, <2>2, <2>3 DEF Moves
<1>10. \A i \in DOMAIN work \ {1} : i - 1 \in DOMAIN work' /\ new[i - 1] = ms[i]
  <2> SUFFICES ASSUME NEW i \in DOMAIN work \ {1} PROVE i - 1 \in DOMAIN work' /\ new[i - 1] = ms[i]
    OBVIOUS
  <2>1. i - 1 \in DOMAIN work' /\ i - 1 < l /\ (i - 1) + 1 = i
    BY <1>1, <1>7 DEF Moves
  <2> QED BY <2>1
<1>11. \A k \in DOMAIN s : \E i \in DOMAIN work' : new[i] = next(k)
  <2> SUFFICES ASSUME NEW k \in DOMAIN s PROVE \E i \in DOMAIN work' : new[i] = next(k)
    OBVIOUS
  <2>1. k \in Nat \ {0}
    BY <1>6
  <2>2. k + l - 1 \in DOMAIN work' /\ ~(k + l - 1 < l) /\ (k + l - 1) - l + 1 = k
    BY <1>1, <1>6, <1>7, <2>1 DEF Moves
  <2> QED BY <2>2
<1> HIDE DEF x, h, B, t, l
<1>12. new \in [DOMAIN work' -> Seq(edges)]
  <2>1. \A i \in DOMAIN work' : new[i] \in Seq(edges)
    <3> HIDE DEF new, next
    <3> QED BY <1>1, <1>3, <1>8, <1>9
  <2>2. new = [i \in DOMAIN work' |-> new[i]]
    OBVIOUS
  <2> HIDE DEF new
  <2> QED BY <2>1, <2>2
<1> HIDE DEF new
<1>13. \A i \in DOMAIN work' : StandsFor(work'[i], new[i])
  <2> HIDE DEF next
  <2> SUFFICES ASSUME NEW i \in DOMAIN work' PROVE StandsFor(work'[i], new[i])
    OBVIOUS
  <2>1. CASE i + 1 \in DOMAIN work /\ work'[i] = work[i + 1] /\ new[i] = ms[i + 1]
    BY <2>1 DEF Cover
  <2>2. CASE i - l + 1 \in DOMAIN s /\ work'[i] = E[i - l + 1] /\ new[i] = next(i - l + 1)
    BY <1>8, <2>2
  <2> QED BY <1>9, <2>1, <2>2
<1>14. ASSUME NEW k \in DOMAIN s, NEW i \in DOMAIN work \ {1}
       PROVE  ~Starts(next(k), ms[i]) /\ ~Starts(ms[i], next(k))
  <2>1. ms[i] \in Seq(edges) /\ ~Starts(m, ms[i]) /\ ~Starts(ms[i], m)
    BY <1>1, <1>2, <1>3
  <2> QED BY <1>3, <1>8, <2>1, StartsAppend
<1>15. ASSUME NEW j \in DOMAIN s, NEW k \in DOMAIN s, Starts(next(j), next(k)) PROVE j = k
  <2>1. f[j] \in edges /\ f[k] \in edges
    BY <1>8
  <2>2. /\ Len(next(j)) = n + 1 /\ next(j)[n + 1] = f[j] /\ next(k)[n + 1] = f[k]
    BY <1>3, <2>1, AppendIs
  <2>3. n + 1 \in 1 .. n + 1
    BY <1>1
  <2>4. next(j)[n + 1] = next(k)[n + 1]
    BY <1>15, <2>2, <2>3 DEF Starts
  <2> QED BY <1>4, <2>2, <2>4
<1>16. ASSUME NEW i \in DOMAIN work', NEW j \in DOMAIN work', Starts(new[i], new[j]) PROVE i = j
  <2> HIDE DEF next
  <2>1. i \in Nat /\ j \in Nat
    BY DEF QueryTypeOK
  <2>2. CASE i < l /\ j < l
    <3>1. /\ i + 1 \in DOMAIN work /\ new[i] = ms[i + 1] /\ j + 1 \in DOMAIN work /\ new[j] = ms[j + 1]
      BY <1>1, <1>9, <2>1, <2>2
    <3>2. i + 1 = j + 1
      BY <1>1, <1>3, <1>16, <3>1
    <3> QED BY <2>1, <3>2
  <2>3. CASE i < l /\ j >= l
    <3>1. i + 1 \in DOMAIN work \ {1} /\ new[i] = ms[i + 1]
      BY <1>1, <1>9, <2>1, <2>3
    <3>2. j - l + 1 \in DOMAIN s /\ new[j] = next(j - l + 1)
      BY <1>1, <1>9, <2>1, <2>3
    <3> QED BY <1>14, <1>16, <3>1, <3>2
  <2>4. CASE i >= l /\ j < l
    <3>1. j + 1 \in DOMAIN work \ {1} /\ new[j] = ms[j + 1]
      BY <1>1, <1>9, <2>1, <2>4
    <3>2. i - l + 1 \in DOMAIN s /\ new[i] = next(i - l + 1)
      BY <1>1, <1>9, <2>1, <2>4
    <3> QED BY <1>14, <1>16, <3>1, <3>2
  <2>5. CASE i >= l /\ j >= l
    <3>1. /\ i - l + 1 \in DOMAIN s /\ new[i] = next(i - l + 1)
          /\ j - l + 1 \in DOMAIN s /\ new[j] = next(j - l + 1)
      BY <1>1, <1>9, <2>1, <2>5
    <3>2. i - l + 1 = j - l + 1
      BY <1>15, <1>16, <3>1
    <3> QED BY <1>1, <2>1, <3>2
  <2> QED BY <1>1, <2>1, <2>2, <2>3, <2>4, <2>5
<1>17. ASSUME NEW c \in Matching PROVE \E i \in DOMAIN work' : Starts(new[i], c)
  <2>1. PICK i \in DOMAIN work : Starts(ms[i], c)
    BY <1>17 DEF Cover
  <2>2. CASE i # 1
    BY <1>10, <2>1, <2>2
  <2>3. CASE i = 1
    <3>1. Partial(c) /\ c \in Seq(edges) /\ Len(c) = Len(query.hops) /\ Starts(m, c) /\ Len(m) < Len(c)
      BY <1>2, <1>3, <2>1, <2>3, MatchingIs DEF Partial
    <3>2. PICK e \in edges : e = c[n + 1] /\ Starts(Append(m, e), c)
      BY <1>3, <3>1, StartsNext
    <3>3. Append(m, e) \in Seq(edges) /\ Partial(Append(m, e))
      BY <1>3, <3>1, <3>2, AppendIs, PartialPrefix
    <3>4. e \in B
      BY <1>3, <3>3, HopTakes DEF B, h
    <3>5. PICK k \in DOMAIN s : f[k] = e
      BY <1>4, <3>4
    <3> QED BY <1>11, <3>2, <3>5
  <2> QED BY <2>2, <2>3
<1>18. Cover(work', new)
  BY <1>12, <1>13, <1>16, <1>17 DEF Cover
<1> QED BY <1>18

LEMMA SameMatches ==
  ASSUME UNCHANGED <<edges, query>>
  PROVE  /\ Matching' = Matching /\ \A m : NodesOf(m)' = NodesOf(m)
         /\ \A ms : Cover(work', ms) => Cover(work, ms)'
<1>1. \A m : NodesOf(m)' = NodesOf(m)
  BY DEF NodesOf, Far
<1>2. Matching' = Matching
  BY DEF Matching, NodesOf, Far, Near
<1>3. \A m : Partial(m)' <=> Partial(m)
  BY DEF Partial, Fits, NodesOf, Far, Near
<1>4. \A y, m : StandsFor(y, m)' <=> StandsFor(y, m)
  BY <1>1, <1>3 DEF StandsFor
<1>5. \A ms : Cover(work', ms) => Cover(work, ms)'
  BY <1>2, <1>4 DEF Cover, Starts
<1> QED BY <1>1, <1>2, <1>5

LEMMA PrefixesKept ==
  ASSUME PrefixesInv, UNCHANGED <<edges, query, work>> PROVE PrefixesInv'
<1>1. ASSUME query.kind = "match" PROVE \E ms : Cover(work, ms)'
  <2>1. PICK ms : Cover(work, ms)
    BY <1>1 DEF PrefixesInv
  <2>2. Cover(work', ms)
    BY <2>1
  <2> QED BY <2>2, SameMatches
<1> QED BY <1>1 DEF PrefixesInv

\* With every prefix at full length there is one for each match.
LEMMA MatchesFound ==
  ASSUME QueryTypeOK, NEW ms, Cover(work, ms), \A i \in DOMAIN work : work[i].n = Len(query.hops)
  PROVE  /\ {work[i].path : i \in DOMAIN work} = {NodesOf(m) : m \in Matching}
         /\ Len(work) = Cardinality(Matching)
<1> DEFINE l == Len(work)
           M == Matching
<1>1. l \in Nat /\ DOMAIN work = 1 .. l
  BY LenProperties DEF QueryTypeOK
<1>2. ASSUME NEW i \in DOMAIN work
      PROVE  ms[i] \in M /\ work[i].path = NodesOf(ms[i]) /\ Len(ms[i]) = Len(query.hops)
  BY MatchingIs DEF Cover, StandsFor
<1>3. ms \in [1 .. l -> M]
  <2>1. ms \in [1 .. l -> Seq(edges)]
    BY <1>1 DEF Cover
  <2> HIDE DEF M, l
  <2> QED BY <1>1, <1>2, <2>1
<1>4. ASSUME NEW i \in 1 .. l, NEW j \in 1 .. l, ms[i] = ms[j] PROVE i = j
  <2>1. Len(ms[i]) \in Nat
    BY <1>1, <1>2, HopFacts
  <2>2. Starts(ms[i], ms[j])
    BY <1>4, <2>1 DEF Starts
  <2> QED BY <1>1, <2>2 DEF Cover
<1>5. ASSUME NEW m \in M PROVE \E i \in 1 .. l : ms[i] = m
  <2>1. PICK i \in DOMAIN work : Starts(ms[i], m)
    BY <1>5 DEF Cover
  <2>2. m \in Seq(edges) /\ Len(m) = Len(query.hops) /\ ms[i] \in Seq(edges)
    BY <1>2, <1>5, MatchingIs DEF Partial
  <2>3. ms[i] = m
    BY <1>2, <2>1, <2>2, SeqEqual DEF Starts
  <2> QED BY <1>1, <2>3
<1> HIDE DEF l, M
<1>6. ms \in Bijection(1 .. l, M)
  BY <1>3, <1>4, <1>5 DEF Bijection, Injection, Surjection, IsInjective
<1>7. Cardinality(M) = l
  <2>1. IsFiniteSet(1 .. l) /\ Cardinality(1 .. l) = l
    BY <1>1, FS_Interval
  <2> QED BY <1>6, <2>1, FS_Bijection DEF ExistsBijection
<1>8. {work[i].path : i \in DOMAIN work} = {NodesOf(m) : m \in M}
  BY <1>1, <1>2, <1>5
<1> QED BY <1>7, <1>8 DEF l, M

LEMMA PrefixesInit == Init => PrefixesInv /\ MatchesAreExact
<1> SUFFICES ASSUME Init PROVE PrefixesInv /\ MatchesAreExact
  OBVIOUS
<1>1. MatchesAreExact
  BY DEF Init, MatchesAreExact, Answered
<1>2. ASSUME query.kind = "match" PROVE \E ms : Cover(work, ms)
  <2> DEFINE y == Entry(query.start, 0, <<query.start>>)
             ms == [i \in {1} |-> << >>]
  <2>1. work = <<y>> /\ QueryTypeOK
    BY <1>2, QueryTypeInit DEF Init, CarriesPath
  <2>2. DOMAIN work = {1} /\ work[1] = y
    BY <2>1
  <2>3. << >> \in Seq(edges) /\ Len(<< >>) = 0 /\ DOMAIN << >> = {}
    BY EmptySeq
  <2> DEFINE e == << >>
             p == NodesOf(e)
  <2>4. p \in Seq(Node) /\ Len(p) = 1 /\ DOMAIN p = 1 .. 1 /\ p[1] = query.start
    <3>1. e \in Seq(edges) /\ Len(e) = 0
      BY <2>3
    <3> HIDE DEF e
    <3>2. /\ p \in Seq(Node) /\ Len(p) = Len(e) + 1 /\ DOMAIN p = 1 .. Len(e) + 1
          /\ p[1] = query.start
      BY <2>1, <3>1, NodesOfIs
    <3> QED BY <3>1, <3>2
  <2>5. p = <<query.start>>
    <3> HIDE DEF p
    <3> QED BY <2>4
  <2>6. Partial(e)
    BY <2>1, <2>3, <2>4, HopFacts DEF Partial
  <2>7. StandsFor(y, e)
    <3>1. y.node = query.start /\ y.n = 0 /\ y.path = <<query.start>>
      BY DEF Entry
    <3>2. Len(e) = 0 /\ p[Len(e) + 1] = query.start
      BY <2>3, <2>4
    <3> HIDE DEF y, e
    <3> QED BY <2>5, <2>6, <3>1, <3>2 DEF StandsFor
  <2>8. \A m \in Matching : Starts(e, m)
    <3> SUFFICES ASSUME NEW m \in Matching PROVE Starts(e, m)
      OBVIOUS
    <3>1. Len(m) \in Nat
      BY <2>1, MatchingIs, HopFacts
    <3> QED BY <2>3, <3>1 DEF Starts
  <2>9. ms \in [{1} -> Seq(edges)] /\ ms[1] = e
    BY <2>3
  <2> HIDE DEF ms, e, y
  <2>10. Cover(work, ms)
    BY <2>2, <2>7, <2>8, <2>9 DEF Cover
  <2> QED BY <2>10
<1> QED BY <1>1, <1>2 DEF PrefixesInv

LEMMA PrefixesStep ==
  ASSUME QueryTypeOK, QueryTypeOK', PrefixesInv, MatchesAreExact, [Next]_vars
  PROVE  PrefixesInv' /\ MatchesAreExact'
<1>1. CASE UNCHANGED vars
  <2>1. UNCHANGED <<edges, query, work, answer>>
    BY <1>1 DEF vars, index
  <2>2. Matching' = Matching /\ \A m : NodesOf(m)' = NodesOf(m)
    BY <2>1, SameMatches
  <2> QED BY <2>1, <2>2, PrefixesKept DEF MatchesAreExact, Answered
<1>2. CASE Next /\ query.kind # "match"
  <2>1. query' = query
    BY <1>2 DEF Next, ReadNeighbors, Trivial, Bfs, Dfs, Search, Dijkstra, Skip, Settle, Running, Hop, Finish, Answer, index
  <2> QED BY <1>2, <2>1 DEF PrefixesInv, MatchesAreExact, Answered
<1>3. CASE Next /\ query.kind = "match"
  <2>1. answer = None /\ (Hop \/ Finish)
    BY <1>3 DEF Next, ReadNeighbors, Trivial, Seeks, Bfs, Dfs, Search, Dijkstra, Running, Hop, Finish
  <2>2. PICK ms : Cover(work, ms)
    BY <1>3 DEF PrefixesInv
  <2>3. CASE Hop
    <3> DEFINE x == Head(work)
               h == query.hops[x.n + 1]
    <3>1. /\ work # << >> /\ x.n < Len(query.hops) /\ UNCHANGED <<edges, query, visited, best, answer>>
          /\ \E s \in InOrder({e.edge_id : e \in Bucket(x, h)}) :
               work' = Tail(work) \o Entries(Taken(x, h, s), x, x.n + 1)
      BY <2>3 DEF Hop, Bucket, Taken, index
    <3>2. \E new : Cover(work', new)
      BY <1>3, <2>2, <3>1, HopCovers
    <3>3. \E new : Cover(work, new)'
      BY <3>1, <3>2, SameMatches
    <3> QED BY <2>1, <3>1, <3>3 DEF PrefixesInv, MatchesAreExact, Answered
  <2>4. CASE Finish
    <3>1. /\ UNCHANGED <<edges, query, work>>
          /\ \A i \in DOMAIN work : work[i].n = Len(query.hops)
      BY <1>3, <2>4 DEF Finish, Exhausted, Answer, index
    <3>2. /\ {work[i].path : i \in DOMAIN work} = {NodesOf(m) : m \in Matching}
          /\ Len(work) = Cardinality(Matching)
      BY <2>2, <3>1, MatchesFound
    <3>3. Matching' = Matching /\ \A m : NodesOf(m)' = NodesOf(m)
      BY <3>1, SameMatches
    <3> QED BY <3>1, <3>2, <3>3, PrefixesKept DEF MatchesAreExact
  <2> QED BY <2>1, <2>3, <2>4
<1> QED BY <1>1, <1>2, <1>3

\* match returns every simple path the pattern describes, once for each sequence of edges
\* that makes it, and no other.
THEOREM MatchIsExact == Spec => []MatchesAreExact
<1>1. Init => QueryTypeOK /\ PrefixesInv /\ MatchesAreExact
  BY QueryTypeInit, PrefixesInit
<1>2. QueryTypeOK /\ PrefixesInv /\ MatchesAreExact /\ [Next]_vars
        => (QueryTypeOK /\ PrefixesInv /\ MatchesAreExact)'
  BY QueryTypeStep, PrefixesStep
<1> QED BY <1>1, <1>2, PTL DEF Spec

----------------------------------------------------------------------------
(* The view: its types.                                                    *)

Version == Nat \cup {None}
BodyRecord == [id : Node, state : Version]
Bodies == UNION {[S -> Nat] : S \in SUBSET Node}
ViewRecord == [resident : Bodies, cache : Seq(BodyRecord)]

Call == [view : Nat, ids : Seq(Node), edges : Seq(Nat), bodies : Seq(BodyRecord),
         get : {"none", "sent", "read"}, got : Version]

ViewTypeOK ==
  /\ mode \in {"full", "lean"}
  /\ state \in [Node -> Version]
  /\ views \in Seq(ViewRecord)
  /\ folding \in [running : BOOLEAN, unread : SUBSET Node, resident : Bodies]
  /\ calls \in [Task -> Call]
  /\ held \in Seq([Node -> SUBSET Version])
  /\ used \in Seq(Seq(Node))

\* A set of edges that is not empty has the least edge that CarriedEdge looks for.
LEMMA LeastEdge ==
  ASSUME NEW S, S # {}, \A e \in S : e.edge_type \in Nat /\ e.edge_id \in Nat
  PROVE  \E e \in S : \A f \in S :
           e.edge_type < f.edge_type \/ (e.edge_type = f.edge_type /\ e.edge_id <= f.edge_id)
<1> DEFINE types == {e.edge_type : e \in S}
<1>1. PICK k \in types : \A j \in types : k <= j
  BY LeastNatural
<1> DEFINE ids == {e.edge_id : e \in {f \in S : f.edge_type = k}}
<1>2. ids # {} /\ ids \subseteq Nat
  BY <1>1
<1>3. PICK i \in ids : \A j \in ids : i <= j
  BY <1>2, LeastNatural
<1>4. PICK e \in S : e.edge_type = k /\ e.edge_id = i
  BY <1>3
<1>5. ASSUME NEW f \in S
      PROVE  e.edge_type < f.edge_type \/ (e.edge_type = f.edge_type /\ e.edge_id <= f.edge_id)
  <2>1. k \in Nat /\ f.edge_type \in Nat /\ k <= f.edge_type
    BY <1>1
  <2>2. CASE f.edge_type = k
    <3>1. f.edge_id \in ids
      BY <2>2
    <3> QED BY <1>3, <1>4, <2>2, <3>1
  <2>3. CASE f.edge_type # k
    BY <1>4, <2>1, <2>3
  <2> QED BY <2>2, <2>3
<1> QED BY <1>5

LEMMA CarriedEdgeType ==
  ASSUME QueryTypeOK, NEW v PROVE CarriedEdge(v) \in Nat
<1> DEFINE scope == UNION {{e \in Incident(v, d) : InScope(e)} : d \in Directions}
           least == CHOOSE e \in scope : \A f \in scope :
                      e.edge_type < f.edge_type \/ (e.edge_type = f.edge_type /\ e.edge_id <= f.edge_id)
<1>1. \A e \in scope : e.edge_type \in Nat /\ e.edge_id \in Nat
  <2>1. \A e \in edges : e.edge_type \in Nat /\ e.edge_id \in Nat
    BY QueryAssumption DEF QueryTypeOK, IsEdgeRecord
  <2>2. scope \subseteq edges
    BY DEF Incident
  <2> QED BY <2>1, <2>2
<1>2. CarriedEdge(v) = IF scope = {} THEN 0 ELSE least.edge_id
  BY DEF CarriedEdge
<1> HIDE DEF scope
<1>3. scope # {} => least \in scope
  BY <1>1, LeastEdge
<1> HIDE DEF least
<1> QED BY <1>1, <1>2, <1>3

LEMMA SortedByLists ==
  ASSUME NEW S, IsFiniteSet(S), NEW s \in [1 .. Cardinality(S) -> S]
  PROVE  s \in Seq(S) /\ DOMAIN s = 1 .. Len(s) /\ Len(s) \in Nat
<1>1. Cardinality(S) \in Nat
  BY FS_CardinalityType
<1> QED BY <1>1

\* The sequences of a sequence, one after the other, are a sequence.
LEMMA FlattenType ==
  ASSUME NEW S, NEW ss \in Seq(Seq(S)) PROVE FlattenSeq(ss) \in Seq(S)
<1> DEFINE l == Len(ss)
<1>1. l \in Nat /\ DOMAIN ss = 1 .. l /\ \A i \in 1 .. l : ss[i] \in Seq(S)
  OBVIOUS
<1>2. CASE l = 0
  BY <1>1, <1>2 DEF FlattenSeq
<1>3. CASE l # 0
  <2> DEFINE Q == Seq(S)
             x == ss[1]
             H == [i \in Nat |-> [y \in Q |-> IF i \in 1 .. l THEN y \o ss[i] ELSE y]]
             body(g) == [i \in 1 .. l |-> IF i = 1 THEN x ELSE H[i][g[i - 1]]]
             scan(g) == [i \in 1 .. l |-> IF i = 1 THEN ss[i] ELSE g[i - 1] \o ss[i]]
             flat == CHOOSE g : g = scan(g)
  <2>1. FlattenSeq(ss) = flat[l]
    BY <1>1, <1>3 DEF FlattenSeq
  <2>2. x \in Q /\ l \in Nat \ {0}
    BY <1>1, <1>3
  <2>3. H \in [Nat -> [Q -> Q]]
    <3>1. ASSUME NEW i \in Nat, NEW y \in Q PROVE H[i][y] \in Q
      <4>1. CASE i \in 1 .. l
        <5>1. ss[i] \in Seq(S)
          BY <1>1, <4>1
        <5> QED BY <4>1, <5>1, ConcatProperties
      <4>2. CASE i \notin 1 .. l
        BY <4>2
      <4> QED BY <4>1, <4>2
    <3> QED BY <3>1
  <2>4. PICK g \in [1 .. l -> Q] : g = body(g)
    <3> HIDE DEF H, Q, x, l
    <3>1. \E g \in [1 .. l -> Q] : RecursesTo(g, l, x, H)
      BY ONLY <2>2, <2>3, ListRecursion
    <3> QED BY <3>1 DEF RecursesTo
  <2> HIDE DEF l
  <2>5. g = scan(g)
    <3>1. ASSUME NEW i \in 1 .. l PROVE body(g)[i] = scan(g)[i]
      <4>1. CASE i = 1
        BY <4>1
      <4>2. CASE i # 1
        <5>1. i - 1 \in 1 .. l /\ i \in Nat /\ g[i - 1] \in Q
          BY <2>2, <4>2
        <5> QED BY <4>2, <5>1
      <4> QED BY <4>1, <4>2
    <3>2. body(g) = scan(g)
      BY <3>1
    <3> QED BY <2>4, <3>2
  <2>6. flat = scan(flat)
    <3> HIDE DEF body, scan
    <3> QED BY <2>5
  <2> HIDE DEF flat
  <2>7. \A i \in 1 .. l : flat[i] = IF i = 1 THEN ss[i] ELSE flat[i - 1] \o ss[i]
    BY <2>6
  <2> DEFINE T == {i \in Nat : i + 1 \in 1 .. l => flat[i + 1] \in Seq(S)}
  <2>8. 0 \in T
    BY <2>2, <2>7
  <2>9. ASSUME NEW i \in Nat, i \in T PROVE i + 1 \in T
    <3> SUFFICES ASSUME (i + 1) + 1 \in 1 .. l PROVE flat[(i + 1) + 1] \in Seq(S)
      OBVIOUS
    <3>1. i + 1 \in 1 .. l /\ (i + 1) + 1 # 1 /\ ((i + 1) + 1) - 1 = i + 1
      BY <2>2
    <3>2. flat[i + 1] \in Seq(S) /\ ss[(i + 1) + 1] \in Seq(S)
      BY <1>1, <2>9, <3>1 DEF l
    <3>3. flat[(i + 1) + 1] = flat[i + 1] \o ss[(i + 1) + 1]
      BY <2>7, <3>1
    <3> QED BY <3>2, <3>3, ConcatProperties
  <2>10. Nat \subseteq T
    <3> HIDE DEF T
    <3> QED BY <2>8, <2>9, Inductive
  <2>11. l - 1 \in Nat /\ (l - 1) + 1 = l /\ l \in 1 .. l
    BY <2>2
  <2>12. flat[(l - 1) + 1] \in Seq(S)
    BY <2>10, <2>11
  <2> QED BY <2>1, <2>11, <2>12
<1> QED BY <1>2, <1>3

\* What renders an answer lists nodes.
LEMMA BareType ==
  ASSUME NEW ids \in Seq(Node)
  PROVE  Bare(ids).ids = ids /\ Bare(ids).edges \in Seq(Nat)
<1>1. DOMAIN ids = 1 .. Len(ids) /\ Len(ids) \in Nat
  OBVIOUS
<1>2. [k \in DOMAIN ids |-> 0] \in Seq(Nat)
  BY <1>1
<1> QED BY <1>2 DEF Bare, Rendered

LEMMA TraversalType ==
  ASSUME QueryTypeOK, answer \in Result, NEW r \in Traversal
  PROVE  r.ids \in Seq(Node) /\ r.edges \in Seq(Nat)
<1>1. PICK ids \in InOrder(answer.ids) : r = Rendered(ids, [k \in DOMAIN ids |-> CarriedEdge(ids[k])])
  BY DEF Traversal
<1>2. ids \in Seq(Node) /\ DOMAIN ids = 1 .. Len(ids) /\ Len(ids) \in Nat
  <2>1. answer.ids \in SUBSET Node
    BY DEF Result
  <2> QED BY <1>1, <2>1, ListedNodes
<1>3. [k \in DOMAIN ids |-> CarriedEdge(ids[k])] \in Seq(Nat)
  BY <1>2, CarriedEdgeType
<1> QED BY <1>1, <1>2, <1>3 DEF Rendered

LEMMA PairsAreFinite ==
  ASSUME QueryTypeOK, NEW v
  PROVE  /\ IsFiniteSet(IncidentPairs(v))
         /\ \A p \in IncidentPairs(v) : EndOf(p) \in Node /\ p.edge.edge_id \in Nat
<1>1. ASSUME NEW p \in IncidentPairs(v)
      PROVE  /\ p.edge \in edges /\ p.direction \in Direction
             /\ p = [edge |-> p.edge, direction |-> p.direction]
  <2>1. PICK d \in Directions : \E e \in {f \in Incident(v, d) : InScope(f)} : p = [edge |-> e, direction |-> d]
    BY DEF IncidentPairs
  <2>2. PICK e \in edges : p = [edge |-> e, direction |-> d]
    BY <2>1 DEF Incident
  <2>3. d \in Direction
    BY QueryFacts DEF Directions, Direction
  <2> QED BY <2>2, <2>3
<1>2. \A p \in IncidentPairs(v) : EndOf(p) \in Node /\ p.edge.edge_id \in Nat
  BY <1>1, QueryFacts DEF EndOf, Endpoint
<1>3. IsFiniteSet(edges \X Direction)
  <2>1. IsFiniteSet(edges) /\ IsFiniteSet(Direction)
    <3>1. IsFiniteSet(edges)
      BY QueryAssumption DEF QueryTypeOK
    <3>2. IsFiniteSet({"out"}) /\ Direction = {"out"} \cup {"in"}
      BY FS_Singleton DEF Direction
    <3>3. IsFiniteSet(Direction)
      BY <3>2, FS_AddElement
    <3> QED BY <3>1, <3>3
  <2> QED BY <2>1, FS_Product
<1> DEFINE P == IncidentPairs(v)
           place == [p \in P |-> <<p.edge, p.direction>>]
<1>4. place \in [P -> edges \X Direction]
  BY <1>1
<1>5. ASSUME NEW p \in P, NEW q \in P, place[p] = place[q] PROVE p = q
  <2>1. p.edge = q.edge /\ p.direction = q.direction
    BY <1>5
  <2> QED BY <1>1, <2>1
<1> HIDE DEF place
<1>6. place \in Injection(P, edges \X Direction)
  BY <1>4, <1>5 DEF Injection, IsInjective
<1>7. IsFiniteSet(P)
  BY <1>3, <1>6, FS_Injection
<1> QED BY <1>2, <1>7

LEMMA NeighborsType ==
  ASSUME QueryTypeOK, NEW r \in Neighbors
  PROVE  r.ids \in Seq(Node) /\ r.edges \in Seq(Nat)
<1> DEFINE S == IncidentPairs(query.start)
<1>1. PICK pairs \in NeighborRecords(query.start) :
        r = Rendered([k \in DOMAIN pairs |-> EndOf(pairs[k])], [k \in DOMAIN pairs |-> pairs[k].edge.edge_id])
  BY DEF Neighbors
<1>2. pairs \in [1 .. Cardinality(S) -> S]
  BY DEF NeighborRecords, SortedBy
<1>3. IsFiniteSet(S) /\ \A p \in S : EndOf(p) \in Node /\ p.edge.edge_id \in Nat
  BY PairsAreFinite
<1> HIDE DEF S
<1>4. DOMAIN pairs = 1 .. Len(pairs) /\ Len(pairs) \in Nat /\ \A k \in DOMAIN pairs : pairs[k] \in S
  BY <1>2, <1>3, SortedByLists
<1>5. /\ [k \in DOMAIN pairs |-> EndOf(pairs[k])] \in Seq(Node)
      /\ [k \in DOMAIN pairs |-> pairs[k].edge.edge_id] \in Seq(Nat)
  BY <1>3, <1>4
<1> QED BY <1>1, <1>5 DEF Rendered

LEMMA MatchesType ==
  ASSUME QueryTypeOK, NEW r \in Matches
  PROVE  r.ids \in Seq(Node) /\ r.edges \in Seq(Nat)
<1>1. DOMAIN work = 1 .. Len(work) /\ Len(work) \in Nat /\ \A i \in DOMAIN work : work[i].path \in Seq(Node)
  <2>1. work \in Seq(WorkEntry)
    BY DEF QueryTypeOK
  <2>2. \A y \in WorkEntry : y.path \in Seq(Node)
    BY DEF WorkEntry
  <2> QED BY <2>1, <2>2
<1>2. PICK s \in [1 .. Cardinality(DOMAIN work) -> DOMAIN work] :
        r = Bare(FlattenSeq([k \in DOMAIN s |-> work[s[k]].path]))
  BY DEF Matches, SortedBy
<1>3. DOMAIN s = 1 .. Len(s) /\ Len(s) \in Nat
  <2>1. IsFiniteSet(DOMAIN work)
    BY <1>1, FS_Interval
  <2> QED BY <1>2, <2>1, SortedByLists
<1> DEFINE paths == [k \in DOMAIN s |-> work[s[k]].path]
<1>4. paths \in Seq(Seq(Node))
  <2>1. \A k \in 1 .. Len(s) : s[k] \in DOMAIN work
    BY <1>2, <1>3
  <2>2. \A k \in 1 .. Len(s) : work[s[k]].path \in Seq(Node)
    BY <1>1, <2>1
  <2> QED BY <1>3, <2>2
<1>5. FlattenSeq(paths) \in Seq(Node)
  <2> HIDE DEF paths
  <2> QED BY <1>4, FlattenType
<1> HIDE DEF paths
<1> QED BY <1>2, <1>5, BareType DEF paths

LEMMA RenderingType ==
  ASSUME QueryTypeOK, answer \in Result, NEW r \in Rendering
  PROVE  r.ids \in Seq(Node) /\ r.edges \in Seq(Nat)
<1>1. CASE query.kind \in {"bfs", "dfs"}
  BY <1>1, TraversalType DEF Rendering
<1>2. CASE query.kind = "neighbors"
  BY <1>2, NeighborsType DEF Rendering
<1>3. CASE query.kind = "match"
  BY <1>3, MatchesType DEF Rendering
<1>4. CASE query.kind \in {"reachable", "shortest_path", "dijkstra"}
  <2>1. r = Bare(answer.path) /\ answer.path \in Seq(Node)
    BY <1>4 DEF Rendering, Path, Result
  <2> QED BY <2>1, BareType
<1> QED BY <1>1, <1>2, <1>3, <1>4, QueryFacts
----------------------------------------------------------------------------
(* The view: its steps keep the types.                                     *)

LEMMA BeginIs ==
  ASSUME ViewTypeOK, NEW t \in Task, NEW n \in DOMAIN views, NEW r,
         r.ids \in Seq(Node), r.edges \in Seq(Nat), Begin(t, n, r)
  PROVE  /\ calls' \in [Task -> Call]
         /\ calls'[t] = [view |-> n, ids |-> r.ids, edges |-> r.edges, bodies |-> << >>,
                         get |-> "none", got |-> None]
         /\ \A u \in Task \ {t} : calls'[u] = calls[u]
<1> DEFINE c == [view |-> n, ids |-> r.ids, edges |-> r.edges, bodies |-> << >>, get |-> "none", got |-> None]
<1>1. calls' = [calls EXCEPT ![t] = c] /\ calls \in [Task -> Call]
  BY DEF Begin, NewCall, ViewTypeOK
<1>2. c \in Call
  <2>1. n \in Nat
    BY DEF ViewTypeOK
  <2> QED BY <2>1 DEF Call, Version
<1> HIDE DEF c
<1>3. calls' \in [Task -> Call] /\ calls'[t] = c /\ \A u \in Task \ {t} : calls'[u] = calls[u]
  BY <1>1, <1>2
<1> QED BY <1>3 DEF c

LEMMA ReturnsIs ==
  ASSUME ViewTypeOK, NEW t \in Task, NEW b \in BodyRecord, Returns(t, b)
  PROVE  /\ calls' \in [Task -> Call]
         /\ calls'[t] = [calls[t] EXCEPT !.bodies = Append(@, b), !.get = "none", !.got = None]
         /\ \A u \in Task \ {t} : calls'[u] = calls[u]
<1>1. calls \in [Task -> Call] /\ calls[t] \in Call /\ calls[t].bodies \in Seq(BodyRecord)
  BY DEF ViewTypeOK, Call
<1> DEFINE c == [calls[t] EXCEPT !.bodies = Append(@, b), !.get = "none", !.got = None]
<1>2. c \in Call
  <2>1. Append(calls[t].bodies, b) \in Seq(BodyRecord) /\ None \in Version
    BY <1>1 DEF Version
  <2> QED BY <1>1, <2>1 DEF Call
<1>3. calls' = [calls EXCEPT ![t] = c]
  BY DEF Returns
<1> HIDE DEF c
<1>4. calls' \in [Task -> Call] /\ calls'[t] = c /\ \A u \in Task \ {t} : calls'[u] = calls[u]
  BY <1>1, <1>2, <1>3
<1> QED BY <1>4 DEF c

LEMMA WantedType ==
  ASSUME ViewTypeOK, NEW t \in Task, Busy(t)
  PROVE  /\ Wanted(t) \in Node /\ Wanted(t) = calls[t].ids[Len(calls[t].bodies) + 1]
         /\ Len(calls[t].bodies) \in Nat /\ Len(calls[t].bodies) + 1 \in 1 .. Len(calls[t].ids)
<1>1. calls[t].ids \in Seq(Node) /\ calls[t].bodies \in Seq(BodyRecord)
  BY DEF ViewTypeOK, Call
<1>2. Len(calls[t].bodies) \in Nat /\ Len(calls[t].ids) \in Nat
  BY <1>1
<1>3. Len(calls[t].bodies) + 1 \in 1 .. Len(calls[t].ids)
  BY <1>2 DEF Busy
<1> QED BY <1>1, <1>2, <1>3 DEF Wanted

LEMMA WithoutType ==
  ASSUME NEW S, NEW s \in Seq(S), NEW places \in SUBSET DOMAIN s
  PROVE  Without(s, places) \in Seq(S)
<1>1. CASE places = {}
  BY <1>1 DEF Without
<1>2. CASE places # {}
  BY <1>2, RemoveAtIs DEF Without
<1> QED BY <1>1, <1>2

LEMMA CacheTypes ==
  ASSUME NEW c \in Seq(BodyRecord), NEW b \in BodyRecord
  PROVE  MoveToEnd(c, b) \in Seq(BodyRecord) /\ Evict(MoveToEnd(c, b)) \in Seq(BodyRecord)
<1>1. MoveToEnd(c, b) \in Seq(BodyRecord)
  <2>1. Without(c, {i \in DOMAIN c : c[i].id = b.id}) \in Seq(BodyRecord)
    BY WithoutType
  <2> QED BY <2>1 DEF MoveToEnd
<1>2. MoveToEnd(c, b) # << >>
  <2> DEFINE w == Without(c, {i \in DOMAIN c : c[i].id = b.id})
  <2>1. w \in Seq(BodyRecord)
    BY WithoutType
  <2> HIDE DEF w
  <2>2. Len(Append(w, b)) = Len(w) + 1 /\ Len(w) \in Nat
    BY <2>1, AppendProperties
  <2>3. Append(w, b) # << >>
    BY <2>2
  <2> QED BY <2>3 DEF MoveToEnd, w
<1> QED BY <1>1, <1>2 DEF Evict

LEMMA UsesIs ==
  ASSUME ViewTypeOK, NEW t \in Task, calls[t].view \in DOMAIN views, Len(used) = Len(views),
         NEW b \in BodyRecord, NEW cache \in Seq(BodyRecord), Uses(t, b, cache)
  PROVE  LET n == calls[t].view
         IN  /\ ViewTypeOK'
             /\ Returns(t, b)
             /\ views' = [views EXCEPT ![n] = View(views[n].resident, cache)]
             /\ used' = [used EXCEPT ![n] = Append(Without(used[n], {i \in DOMAIN used[n] : used[n][i] = b.id}), b.id)]
             /\ UNCHANGED <<mode, state, folding, held>>
<1> DEFINE n == calls[t].view
           u == used[n]
           u2 == Append(Without(u, {i \in DOMAIN u : u[i] = b.id}), b.id)
<1>1. /\ views \in Seq(ViewRecord)
      /\ n \in 1 .. Len(views) /\ views[n] \in ViewRecord
      /\ used \in Seq(Seq(Node)) /\ n \in 1 .. Len(used) /\ u \in Seq(Node)
  <2>1. views \in Seq(ViewRecord) /\ used \in Seq(Seq(Node)) /\ n \in DOMAIN views
    BY DEF ViewTypeOK
  <2> HIDE DEF n
  <2>2. n \in 1 .. Len(views) /\ n \in 1 .. Len(used)
    BY <2>1
  <2>3. views[n] \in ViewRecord
    BY <2>1, <2>2
  <2>4. used[n] \in Seq(Node)
    BY <2>1, <2>2
  <2> QED BY <2>1, <2>2, <2>3, <2>4 DEF u
<1>2. views' = [views EXCEPT ![n] = View(views[n].resident, cache)]
  <2>1. views' = [views EXCEPT ![n] = [views[n] EXCEPT !.cache = cache]]
    BY DEF Uses
  <2>2. [views[n] EXCEPT !.cache = cache] = View(views[n].resident, cache)
    <3> DEFINE w == views[n]
    <3>1. w \in ViewRecord
      BY <1>1
    <3> HIDE DEF w
    <3>2. [w EXCEPT !.cache = cache] = [resident |-> w.resident, cache |-> cache]
      BY <3>1 DEF ViewRecord
    <3> QED BY <3>2 DEF View, w
  <2> QED BY <2>1, <2>2
<1>3. used' = [used EXCEPT ![n] = u2]
  BY DEF Uses
<1>4. u2 \in Seq(Node)
  <2>1. Without(u, {i \in DOMAIN u : u[i] = b.id}) \in Seq(Node) /\ b.id \in Node
    BY <1>1, WithoutType DEF BodyRecord
  <2> QED BY <2>1
<1>5. View(views[n].resident, cache) \in ViewRecord
  BY <1>1 DEF View, ViewRecord
<1>6. Returns(t, b) /\ UNCHANGED <<mode, state, folding, held>>
  BY DEF Uses
<1>7. calls' \in [Task -> Call]
  BY <1>6, ReturnsIs
<1>8. views' \in Seq(ViewRecord) /\ used' \in Seq(Seq(Node))
  <2> HIDE DEF n, u2
  <2>1. views' \in Seq(ViewRecord)
    BY <1>1, <1>2, <1>5
  <2>2. used' \in Seq(Seq(Node))
    BY <1>1, <1>3, <1>4
  <2> QED BY <2>1, <2>2
<1>9. ViewTypeOK'
  BY <1>6, <1>7, <1>8 DEF ViewTypeOK
<1> QED BY <1>2, <1>3, <1>6, <1>9

----------------------------------------------------------------------------
(* The view: what it gives has been the node's state since its fold began. *)

Aligned ==
  /\ Len(used) = Len(views)
  /\ Len(held) = Len(views) + (IF folding.running THEN 1 ELSE 0)
  /\ \A t \in Task : /\ calls[t].view \in DOMAIN views
                     /\ Len(calls[t].bodies) <= Len(calls[t].ids)
                     /\ calls[t].get # "none" => Busy(t) /\ mode = "lean"

\* What a node has now, it has had since each fold.
HeldNow == \A n \in DOMAIN held : \A v \in Node : state[v] \in held[n][v]

\* A fold that has read S keeps states that the nodes have had since it began; in full
\* mode, a node it does not keep has been absent since then.
Kept(resident, S, h) ==
  \A v \in S : IF v \in DOMAIN resident THEN resident[v] \in h[v] ELSE mode = "full" => None \in h[v]

ResidentSince == \A n \in DOMAIN views : Kept(views[n].resident, Node, held[n])

\* A node that is still to be read has no body yet.
FoldSince ==
  folding.running =>
    /\ Kept(folding.resident, Node \ folding.unread, held[Len(held)])
    /\ \A v \in folding.unread : v \notin DOMAIN folding.resident

CachedSince ==
  \A n \in DOMAIN views : \A i \in DOMAIN views[n].cache :
    views[n].cache[i].state \in held[n][views[n].cache[i].id]

ResidentBody(n, v) ==
  Body(v, IF v \in DOMAIN views[n].resident THEN views[n].resident[v] ELSE None)

GivenSince(t) ==
  LET c == calls[t]
  IN  /\ \A k \in DOMAIN c.bodies :
           /\ c.bodies[k].id = c.ids[k] /\ c.bodies[k].state \in held[c.view][c.ids[k]]
           /\ mode = "full" => c.bodies[k] = ResidentBody(c.view, c.ids[k])
      /\ c.get = "read" => c.got \in held[c.view][Wanted(t)]

SinceInv ==
  /\ ViewTypeOK /\ Aligned /\ HeldNow
  /\ ResidentSince /\ FoldSince /\ CachedSince
  /\ \A t \in Task : GivenSince(t)

LEMMA SinceIsEnough == SinceInv => HydratedSinceFold
<1> SUFFICES ASSUME SinceInv, NEW t \in Task, NEW u \in Task,
                    NEW k \in DOMAIN calls[t].bodies, NEW j \in DOMAIN calls[u].bodies
             PROVE  /\ calls[t].bodies[k].id = calls[t].ids[k]
                    /\ calls[t].bodies[k].state \in held[calls[t].view][calls[t].bodies[k].id]
                    /\ (mode = "full" /\ calls[t].view = calls[u].view /\ calls[t].bodies[k].id = calls[u].ids[j])
                         => calls[t].bodies[k] = calls[u].bodies[j]
  BY DEF HydratedSinceFold
<1>1. GivenSince(t) /\ GivenSince(u)
  BY DEF SinceInv
<1>2. /\ calls[t].bodies[k].id = calls[t].ids[k] /\ calls[t].bodies[k].state \in held[calls[t].view][calls[t].ids[k]]
      /\ mode = "full" => calls[t].bodies[k] = ResidentBody(calls[t].view, calls[t].ids[k])
      /\ mode = "full" => calls[u].bodies[j] = ResidentBody(calls[u].view, calls[u].ids[j])
  BY <1>1 DEF GivenSince
<1> QED BY <1>2

\* The task's own call changes, and no view, state or fold.
LEMMA CallMoves ==
  ASSUME SinceInv, NEW t \in Task, UNCHANGED <<mode, state, views, folding, held, used>>,
         calls' \in [Task -> Call], \A u \in Task \ {t} : calls'[u] = calls[u],
         calls'[t].view \in DOMAIN views, Len(calls'[t].bodies) <= Len(calls'[t].ids),
         calls'[t].get # "none" => Busy(t)' /\ mode = "lean",
         GivenSince(t)'
  PROVE  SinceInv'
<1>1. ViewTypeOK'
  BY DEF SinceInv, ViewTypeOK
<1>2. \A u \in Task \ {t} : (Busy(u) <=> Busy(u)') /\ (Wanted(u) = Wanted(u)')
  BY DEF Busy, Wanted
<1>3. Aligned'
  BY <1>2 DEF SinceInv, Aligned
<1>4. HeldNow' /\ ResidentSince' /\ FoldSince' /\ CachedSince'
  BY DEF SinceInv, HeldNow, ResidentSince, Kept, FoldSince, CachedSince
<1>5. ASSUME NEW u \in Task \ {t} PROVE GivenSince(u)'
  BY <1>2 DEF SinceInv, GivenSince, ResidentBody
<1> QED BY <1>1, <1>3, <1>4, <1>5 DEF SinceInv

LEMMA BeginKeeps ==
  ASSUME SinceInv, NEW t \in Task, NEW n \in DOMAIN views, NEW r,
         r.ids \in Seq(Node), r.edges \in Seq(Nat), Begin(t, n, r),
         UNCHANGED <<mode, state, views, folding, held, used>>
  PROVE  SinceInv'
<1>1. /\ calls' \in [Task -> Call]
      /\ calls'[t] = [view |-> n, ids |-> r.ids, edges |-> r.edges, bodies |-> << >>,
                      get |-> "none", got |-> None]
      /\ \A u \in Task \ {t} : calls'[u] = calls[u]
  BY BeginIs DEF SinceInv
<1>2. /\ calls'[t].view = n /\ calls'[t].ids = r.ids /\ calls'[t].bodies = << >> /\ calls'[t].get = "none"
  BY <1>1
<1>3. Len(calls'[t].bodies) <= Len(calls'[t].ids)
  BY <1>2
<1>4. GivenSince(t)'
  BY <1>2 DEF GivenSince
<1> QED BY <1>1, <1>2, <1>3, <1>4, CallMoves

\* A body comes back: it is of the node asked for, and has been its state.
LEMMA GivenAppend ==
  ASSUME SinceInv, NEW t \in Task, Busy(t), NEW b \in BodyRecord, Returns(t, b),
         b.id = Wanted(t), b.state \in held[calls[t].view][Wanted(t)],
         mode = "full" => b = ResidentBody(calls[t].view, Wanted(t)),
         UNCHANGED <<mode, held>>, DOMAIN views' = DOMAIN views,
         \A n \in DOMAIN views : views'[n].resident = views[n].resident
  PROVE  /\ calls' \in [Task -> Call]
         /\ \A u \in Task \ {t} : calls'[u] = calls[u]
         /\ calls'[t].view = calls[t].view /\ calls'[t].get = "none"
         /\ Len(calls'[t].bodies) <= Len(calls'[t].ids)
         /\ GivenSince(t)'
<1>1. /\ calls' \in [Task -> Call]
      /\ calls'[t] = [calls[t] EXCEPT !.bodies = Append(@, b), !.get = "none", !.got = None]
      /\ \A u \in Task \ {t} : calls'[u] = calls[u]
  BY ReturnsIs DEF SinceInv
<1> DEFINE c == calls[t]
           l == Len(c.bodies)
<1>2. c \in Call /\ c.bodies \in Seq(BodyRecord) /\ l \in Nat /\ c.view \in DOMAIN views
  BY DEF SinceInv, ViewTypeOK, Call, Aligned
<1>3. Wanted(t) = c.ids[l + 1] /\ l + 1 \in 1 .. Len(c.ids)
  BY WantedType DEF SinceInv
<1> HIDE DEF c
<1>4. /\ calls'[t].view = c.view /\ calls'[t].ids = c.ids /\ calls'[t].get = "none"
      /\ calls'[t].bodies = Append(c.bodies, b)
  BY <1>1, <1>2 DEF c, Call
<1>5. /\ DOMAIN Append(c.bodies, b) = 1 .. l + 1 /\ Len(Append(c.bodies, b)) = l + 1
      /\ Append(c.bodies, b)[l + 1] = b
      /\ \A k \in 1 .. l : Append(c.bodies, b)[k] = c.bodies[k]
      /\ DOMAIN c.bodies = 1 .. l
  BY <1>2, AppendProperties
<1>6. ASSUME NEW k \in 1 .. l + 1
      PROVE  LET y == Append(c.bodies, b)[k]
             IN  /\ y.id = c.ids[k] /\ y.state \in held[c.view][c.ids[k]]
                 /\ mode = "full" => y = ResidentBody(c.view, c.ids[k])
  <2>1. CASE k = l + 1
    BY <1>3, <1>5, <2>1 DEF c
  <2>2. CASE k # l + 1
    <3>1. k \in 1 .. l /\ k \in DOMAIN c.bodies
      BY <1>2, <1>5, <2>2
    <3>2. GivenSince(t)
      BY DEF SinceInv
    <3> QED BY <1>5, <3>1, <3>2 DEF GivenSince, c
  <2> QED BY <2>1, <2>2
<1>7. \A n \in DOMAIN views, v \in Node : ResidentBody(n, v)' = ResidentBody(n, v)
  BY DEF ResidentBody
<1>8. GivenSince(t)'
  <2> SUFFICES ASSUME NEW k \in DOMAIN calls'[t].bodies
               PROVE  /\ calls'[t].bodies[k].id = calls'[t].ids[k]
                      /\ calls'[t].bodies[k].state \in held'[calls'[t].view][calls'[t].ids[k]]
                      /\ mode' = "full" => calls'[t].bodies[k] = ResidentBody(calls[t].view, calls[t].ids[k])'
    BY <1>4 DEF GivenSince
  <2>1. k \in 1 .. l + 1
    BY <1>4, <1>5
  <2>2. c.ids[k] \in Node
    <3>1. k \in 1 .. Len(c.ids) /\ c.ids \in Seq(Node)
      BY <1>2, <1>3, <2>1 DEF Call
    <3> QED BY <3>1
  <2>3. ResidentBody(c.view, c.ids[k]) = ResidentBody(calls[t].view, calls[t].ids[k])'
    BY <1>2, <1>4, <1>7, <2>2 DEF ResidentBody
  <2> QED BY <1>4, <1>6, <2>1, <2>3
<1>9. Len(calls'[t].bodies) <= Len(calls'[t].ids)
  <2> HIDE DEF l
  <2> QED BY <1>2, <1>3, <1>4, <1>5
<1> QED BY <1>1, <1>4, <1>8, <1>9 DEF c

LEMMA ViewOf ==
  ASSUME SinceInv, NEW t \in Task
  PROVE  LET n == calls[t].view
         IN  /\ calls[t] \in Call /\ n \in Nat /\ n \in DOMAIN views /\ n \in DOMAIN held /\ n \in 1 .. Len(used)
             /\ views[n] \in ViewRecord /\ held[n] \in [Node -> SUBSET Version]
<1>1. /\ calls[t] \in Call /\ calls[t].view \in DOMAIN views /\ Len(used) = Len(views)
      /\ Len(held) = Len(views) + (IF folding.running THEN 1 ELSE 0)
      /\ views \in Seq(ViewRecord) /\ held \in Seq([Node -> SUBSET Version])
  BY DEF SinceInv, ViewTypeOK, Aligned
<1> DEFINE n == calls[t].view
<1> HIDE DEF n
<1>2. n \in 1 .. Len(views) /\ Len(views) \in Nat /\ n \in Nat
  BY <1>1 DEF n
<1>3. n \in 1 .. Len(held)
  BY <1>1, <1>2
<1>4. views[n] \in ViewRecord
  BY <1>1, <1>2
<1>5. held[n] \in [Node -> SUBSET Version]
  BY <1>1, <1>3
<1>6. n \in DOMAIN held
  BY <1>1, <1>3
<1> QED BY <1>1, <1>2, <1>4, <1>5, <1>6 DEF n

\* A call that returns a body without touching the cache.
LEMMA ReturnKeeps ==
  ASSUME SinceInv, NEW t \in Task, Busy(t), NEW b \in BodyRecord, Returns(t, b),
         b.id = Wanted(t), b.state \in held[calls[t].view][Wanted(t)],
         mode = "full" => b = ResidentBody(calls[t].view, Wanted(t)),
         UNCHANGED <<mode, state, views, folding, held, used>>
  PROVE  SinceInv'
<1>1. /\ calls' \in [Task -> Call]
      /\ \A u \in Task \ {t} : calls'[u] = calls[u]
      /\ calls'[t].view = calls[t].view /\ calls'[t].get = "none"
      /\ Len(calls'[t].bodies) <= Len(calls'[t].ids)
      /\ GivenSince(t)'
  BY GivenAppend
<1>2. calls'[t].view \in DOMAIN views
  BY <1>1 DEF SinceInv, Aligned
<1> QED BY <1>1, <1>2, CallMoves

LEMMA PinnedKeeps ==
  ASSUME SinceInv, NEW t \in Task, Pinned(t) PROVE SinceInv'
<1> DEFINE n == calls[t].view
           v == Wanted(t)
           b == ResidentBody(n, v)
<1>1. /\ Busy(t) /\ mode = "full" /\ Returns(t, b)
      /\ UNCHANGED <<mode, state, views, folding, held, used>>
  BY DEF Pinned, ResidentBody
<1>2. v \in Node
  BY <1>1, WantedType DEF SinceInv
<1>3. n \in DOMAIN views /\ held[n] \in [Node -> SUBSET Version]
  BY ViewOf
<1> HIDE DEF n, v
<1>4. IF v \in DOMAIN views[n].resident THEN views[n].resident[v] \in held[n][v] ELSE None \in held[n][v]
  BY <1>1, <1>2, <1>3 DEF SinceInv, ResidentSince, Kept
<1>5. b.id = v /\ b.state \in held[n][v] /\ b \in BodyRecord
  BY <1>2, <1>3, <1>4 DEF ResidentBody, Body, BodyRecord
<1> HIDE DEF b
<1> QED BY <1>1, <1>5, ReturnKeeps DEF n, v, b

LEMMA MissKeeps ==
  ASSUME SinceInv, NEW t \in Task, Miss(t) PROVE SinceInv'
<1> DEFINE c == calls[t]
<1>1. c \in Call /\ c.view \in DOMAIN views
  BY ViewOf
<1>2. /\ calls' = [calls EXCEPT ![t] = [c EXCEPT !.get = "sent"]]
      /\ Busy(t) /\ mode = "lean" /\ UNCHANGED <<mode, state, views, folding, held, used>>
  BY DEF Miss
<1>3. [c EXCEPT !.get = "sent"] \in Call /\ calls \in [Task -> Call]
  BY <1>1 DEF Call, SinceInv, ViewTypeOK
<1>4. calls' \in [Task -> Call] /\ calls'[t] = [c EXCEPT !.get = "sent"] /\ \A u \in Task \ {t} : calls'[u] = calls[u]
  BY <1>2, <1>3
<1>5. /\ calls'[t].view = c.view /\ calls'[t].ids = c.ids /\ calls'[t].bodies = c.bodies
      /\ calls'[t].get = "sent"
  BY <1>1, <1>4 DEF Call
<1>6. Busy(t)' /\ Len(calls'[t].bodies) <= Len(calls'[t].ids)
  BY <1>2, <1>5 DEF Busy, SinceInv, Aligned
<1>7. GivenSince(t)'
  BY <1>2, <1>5 DEF SinceInv, GivenSince, ResidentBody
<1> QED BY <1>1, <1>2, <1>4, <1>5, <1>6, <1>7, CallMoves

LEMMA ReadKeeps ==
  ASSUME SinceInv, NEW t \in Task, Read(t) PROVE SinceInv'
<1> DEFINE c == calls[t]
           d == [c EXCEPT !.get = "read", !.got = state[Wanted(t)]]
<1>1. c \in Call /\ c.view \in DOMAIN views /\ c.view \in DOMAIN held
  BY ViewOf
<1>2. /\ calls' = [calls EXCEPT ![t] = d] /\ c.get = "sent"
      /\ UNCHANGED <<mode, state, views, folding, held, used>>
  BY DEF Read
<1>3. Busy(t) /\ mode = "lean"
  BY <1>2 DEF SinceInv, Aligned
<1>4. Wanted(t) \in Node
  BY <1>3, WantedType DEF SinceInv
<1>5. state[Wanted(t)] \in Version /\ state[Wanted(t)] \in held[c.view][Wanted(t)]
  BY <1>1, <1>4 DEF SinceInv, ViewTypeOK, HeldNow
<1>6. d \in Call /\ calls \in [Task -> Call]
  BY <1>1, <1>5 DEF Call, SinceInv, ViewTypeOK
<1>7. calls' \in [Task -> Call] /\ calls'[t] = d /\ \A u \in Task \ {t} : calls'[u] = calls[u]
  BY <1>2, <1>6
<1>8. /\ calls'[t].view = c.view /\ calls'[t].ids = c.ids /\ calls'[t].bodies = c.bodies
      /\ calls'[t].get = "read" /\ calls'[t].got = state[Wanted(t)]
  BY <1>1, <1>7 DEF Call
<1>9. Busy(t)' /\ Len(calls'[t].bodies) <= Len(calls'[t].ids) /\ Wanted(t)' = Wanted(t)
  BY <1>3, <1>8 DEF Busy, SinceInv, Aligned, Wanted
<1>10. GivenSince(t)'
  BY <1>2, <1>5, <1>8, <1>9 DEF SinceInv, GivenSince, ResidentBody
<1> QED BY <1>1, <1>2, <1>3, <1>7, <1>8, <1>9, <1>10, CallMoves

\* What is in a cache after a key has moved to its end was there before or has moved.
LEMMA WithoutSome ==
  ASSUME NEW S, NEW s \in Seq(S), NEW places \in SUBSET DOMAIN s, NEW k \in DOMAIN Without(s, places)
  PROVE  \E j \in DOMAIN s : Without(s, places)[k] = s[j]
<1>1. CASE places = {}
  BY <1>1 DEF Without
<1>2. CASE places # {}
  <2> DEFINE i == CHOOSE i \in places : TRUE
  <2>1. i \in DOMAIN s /\ Without(s, places) = RemoveAt(s, i)
    BY <1>2 DEF Without
  <2> HIDE DEF i
  <2> DEFINE r == RemoveAt(s, i)
  <2>2. /\ r \in Seq(S) /\ Len(r) = Len(s) - 1 /\ Len(s) \in Nat /\ DOMAIN s = 1 .. Len(s)
        /\ \A j \in 1 .. Len(s) - 1 : r[j] = IF j < i THEN s[j] ELSE s[j + 1]
    BY <2>1, RemoveAtIs
  <2> HIDE DEF r
  <2>3. k \in 1 .. Len(s) - 1
    BY <2>1, <2>2 DEF r
  <2>4. k \in DOMAIN s /\ k + 1 \in DOMAIN s
    BY <2>2, <2>3
  <2> QED BY <2>1, <2>2, <2>3, <2>4 DEF r
<1> QED BY <1>1, <1>2

LEMMA CacheHolds ==
  ASSUME NEW c \in Seq(BodyRecord), NEW b \in BodyRecord
  PROVE  /\ \A k \in DOMAIN MoveToEnd(c, b) : MoveToEnd(c, b)[k] = b \/ \E j \in DOMAIN c : MoveToEnd(c, b)[k] = c[j]
         /\ \A k \in DOMAIN Evict(MoveToEnd(c, b)) :
              Evict(MoveToEnd(c, b))[k] = b \/ \E j \in DOMAIN c : Evict(MoveToEnd(c, b))[k] = c[j]
<1> DEFINE w == Without(c, {i \in DOMAIN c : c[i].id = b.id})
           m == Append(w, b)
<1>1. w \in Seq(BodyRecord) /\ \A k \in DOMAIN w : \E j \in DOMAIN c : w[k] = c[j]
  <2> DEFINE places == {i \in DOMAIN c : c[i].id = b.id}
  <2>1. places \in SUBSET DOMAIN c
    OBVIOUS
  <2> HIDE DEF places
  <2>2. /\ Without(c, places) \in Seq(BodyRecord)
        /\ \A k \in DOMAIN Without(c, places) : \E j \in DOMAIN c : Without(c, places)[k] = c[j]
    BY <2>1, WithoutType, WithoutSome
  <2> QED BY <2>2 DEF places
<1> HIDE DEF w
<1>2. /\ m \in Seq(BodyRecord) /\ Len(m) = Len(w) + 1 /\ Len(w) \in Nat /\ DOMAIN m = 1 .. Len(w) + 1
      /\ m[Len(w) + 1] = b /\ \A k \in 1 .. Len(w) : m[k] = w[k]
      /\ DOMAIN w = 1 .. Len(w)
  BY <1>1, AppendProperties
<1>3. ASSUME NEW k \in DOMAIN m PROVE m[k] = b \/ \E j \in DOMAIN c : m[k] = c[j]
  <2>1. k = Len(w) + 1 \/ k \in DOMAIN w
    BY <1>2
  <2> QED BY <1>1, <1>2, <2>1
<1> HIDE DEF m
<1>4. /\ m # << >> /\ Tail(m) \in Seq(BodyRecord) /\ Len(Tail(m)) = Len(m) - 1
      /\ \A k \in 1 .. Len(m) - 1 : Tail(m)[k] = m[k + 1]
  <2>1. m # << >>
    BY <1>2
  <2> QED BY <1>2, <2>1, HeadTailProperties
<1>5. ASSUME NEW k \in DOMAIN Tail(m) PROVE Tail(m)[k] = b \/ \E j \in DOMAIN c : Tail(m)[k] = c[j]
  <2>1. k \in 1 .. Len(m) - 1 /\ k + 1 \in DOMAIN m
    BY <1>2, <1>4
  <2> QED BY <1>3, <1>4, <2>1
<1>6. MoveToEnd(c, b) = m
  BY DEF MoveToEnd, m, w
<1> QED BY <1>3, <1>5, <1>6 DEF Evict

LEMMA UsesKeeps ==
  ASSUME SinceInv, NEW t \in Task, Busy(t), mode = "lean", NEW b \in BodyRecord, NEW cache \in Seq(BodyRecord),
         Uses(t, b, cache), b.id = Wanted(t), b.state \in held[calls[t].view][Wanted(t)],
         \A k \in DOMAIN cache : cache[k] = b \/ \E j \in DOMAIN Cache(t) : cache[k] = Cache(t)[j]
  PROVE  SinceInv'
<1> DEFINE n == calls[t].view
<1>1. /\ ViewTypeOK' /\ Returns(t, b)
      /\ views' = [views EXCEPT ![n] = View(views[n].resident, cache)]
      /\ used' = [used EXCEPT ![n] = Append(Without(used[n], {i \in DOMAIN used[n] : used[n][i] = b.id}), b.id)]
      /\ UNCHANGED <<mode, state, folding, held>>
  BY UsesIs DEF SinceInv, Aligned
<1>2. n \in DOMAIN views /\ n \in 1 .. Len(used) /\ used \in Seq(Seq(Node)) /\ views \in Seq(ViewRecord)
  BY ViewOf DEF SinceInv, ViewTypeOK
<1> HIDE DEF n
<1>3. /\ DOMAIN views' = DOMAIN views /\ Len(views') = Len(views)
      /\ views'[n].resident = views[n].resident /\ views'[n].cache = cache
      /\ \A m \in DOMAIN views \ {n} : views'[m] = views[m]
  BY <1>1, <1>2 DEF View
<1>4. \A m \in DOMAIN views : views'[m].resident = views[m].resident
  BY <1>3
<1>5. Len(used') = Len(used)
  BY <1>1, <1>2
<1>6. /\ calls' \in [Task -> Call]
      /\ \A u \in Task \ {t} : calls'[u] = calls[u]
      /\ calls'[t].view = n /\ calls'[t].get = "none"
      /\ Len(calls'[t].bodies) <= Len(calls'[t].ids)
      /\ GivenSince(t)'
  BY <1>1, <1>3, <1>4, GivenAppend DEF n
<1>7. \A u \in Task \ {t} : (Busy(u) <=> Busy(u)') /\ (Wanted(u) = Wanted(u)')
  BY <1>6 DEF Busy, Wanted
<1>8. Aligned'
  BY <1>1, <1>2, <1>3, <1>5, <1>6, <1>7 DEF SinceInv, Aligned
<1>9. HeldNow' /\ FoldSince'
  BY <1>1 DEF SinceInv, HeldNow, FoldSince, Kept
<1>10. ResidentSince'
  BY <1>1, <1>3, <1>4 DEF SinceInv, ResidentSince, Kept
<1>11. ASSUME NEW m \in DOMAIN views', NEW i \in DOMAIN views'[m].cache
       PROVE  views'[m].cache[i].state \in held'[m][views'[m].cache[i].id]
  <2>1. CASE m # n
    BY <1>1, <1>3, <2>1 DEF SinceInv, CachedSince
  <2>2. CASE m = n
    <3>1. cache[i] = b \/ \E j \in DOMAIN views[n].cache : cache[i] = views[n].cache[j]
      BY <1>3, <2>2 DEF Cache, n
    <3>2. b.state \in held[n][b.id]
      BY DEF n
    <3> QED BY <1>1, <1>2, <1>3, <2>2, <3>1, <3>2 DEF SinceInv, CachedSince
  <2> QED BY <2>1, <2>2
<1>12. CachedSince'
  BY <1>11 DEF CachedSince
<1>13. ASSUME NEW u \in Task \ {t} PROVE GivenSince(u)'
  <2>1. calls[u].view \in DOMAIN views
    BY DEF SinceInv, Aligned
  <2> QED BY <1>1, <1>4, <1>6, <1>7, <2>1 DEF SinceInv, GivenSince, ResidentBody
<1> QED BY <1>1, <1>6, <1>8, <1>9, <1>10, <1>12, <1>13 DEF SinceInv

LEMMA CacheOf ==
  ASSUME SinceInv, NEW t \in Task
  PROVE  /\ Cache(t) \in Seq(BodyRecord)
         /\ \A i \in DOMAIN Cache(t) : /\ Cache(t)[i] \in BodyRecord
                                      /\ Cache(t)[i].state \in held[calls[t].view][Cache(t)[i].id]
<1>1. Cache(t) \in Seq(BodyRecord)
  BY ViewOf DEF Cache, ViewRecord
<1>2. \A i \in DOMAIN Cache(t) : Cache(t)[i] \in BodyRecord
  BY <1>1
<1> QED BY <1>1, <1>2, ViewOf DEF Cache, SinceInv, CachedSince

LEMMA HitKeeps ==
  ASSUME SinceInv, NEW t \in Task, Hit(t) PROVE SinceInv'
<1>1. PICK i \in DOMAIN Cache(t) : Cache(t)[i].id = Wanted(t) /\ Uses(t, Cache(t)[i], MoveToEnd(Cache(t), Cache(t)[i]))
  BY DEF Hit
<1> DEFINE b == Cache(t)[i]
           c == Cache(t)
<1>2. c \in Seq(BodyRecord) /\ b \in BodyRecord /\ b.state \in held[calls[t].view][b.id]
  BY <1>1, CacheOf
<1>3. b.id = Wanted(t) /\ Uses(t, b, MoveToEnd(c, b)) /\ Busy(t) /\ mode = "lean"
  BY <1>1 DEF Hit
<1> HIDE DEF b, c
<1>4. /\ MoveToEnd(c, b) \in Seq(BodyRecord)
      /\ \A k \in DOMAIN MoveToEnd(c, b) : MoveToEnd(c, b)[k] = b \/ \E j \in DOMAIN c : MoveToEnd(c, b)[k] = c[j]
  BY <1>2, CacheTypes, CacheHolds
<1> DEFINE cache == MoveToEnd(c, b)
<1> HIDE DEF cache
<1>5. /\ cache \in Seq(BodyRecord) /\ Uses(t, b, cache)
      /\ \A k \in DOMAIN cache : cache[k] = b \/ \E j \in DOMAIN Cache(t) : cache[k] = Cache(t)[j]
  BY <1>3, <1>4 DEF cache, c
<1> QED BY <1>2, <1>3, <1>5, UsesKeeps

LEMMA ResumeKeeps ==
  ASSUME SinceInv, NEW t \in Task, Resume(t) PROVE SinceInv'
<1> DEFINE b == Body(Wanted(t), calls[t].got)
           c == Cache(t)
<1>1. calls[t].get = "read" /\ calls[t] \in Call
  BY ViewOf DEF Resume
<1>2. Busy(t) /\ mode = "lean"
  BY <1>1 DEF SinceInv, Aligned
<1>3. Wanted(t) \in Node /\ calls[t].got \in Version /\ calls[t].got \in held[calls[t].view][Wanted(t)]
  BY <1>1, <1>2, WantedType DEF SinceInv, GivenSince, Call
<1>4. b \in BodyRecord /\ b.id = Wanted(t) /\ b.state \in held[calls[t].view][Wanted(t)]
  BY <1>3 DEF Body, BodyRecord
<1>5. \/ Returns(t, b) /\ UNCHANGED <<mode, state, views, folding, held, used>>
      \/ Uses(t, b, Evict(MoveToEnd(c, b)))
  BY DEF Resume
<1> HIDE DEF b
<1>6. CASE Returns(t, b) /\ UNCHANGED <<mode, state, views, folding, held, used>>
  BY <1>2, <1>4, <1>6, ReturnKeeps
<1>7. CASE Uses(t, b, Evict(MoveToEnd(c, b)))
  <2>1. c \in Seq(BodyRecord)
    BY CacheOf
  <2> DEFINE cache == Evict(MoveToEnd(c, b))
  <2> HIDE DEF c
  <2>2. /\ cache \in Seq(BodyRecord)
        /\ \A k \in DOMAIN cache : cache[k] = b \/ \E j \in DOMAIN c : cache[k] = c[j]
    BY <1>4, <2>1, CacheTypes, CacheHolds
  <2>3. Uses(t, b, cache)
    BY <1>7
  <2> HIDE DEF cache
  <2>4. \A k \in DOMAIN cache : cache[k] = b \/ \E j \in DOMAIN Cache(t) : cache[k] = Cache(t)[j]
    BY <2>2 DEF c
  <2> QED BY <1>2, <1>4, <2>2, <2>3, <2>4, UsesKeeps
<1> QED BY <1>5, <1>6, <1>7

\* The calls are left alone, and what they compare with only grows.
LEMMA GivenStays ==
  ASSUME SinceInv, UNCHANGED <<mode, calls>>, DOMAIN views \subseteq DOMAIN views',
         \A n \in DOMAIN views : views'[n].resident = views[n].resident,
         \A n \in DOMAIN views, v \in Node : held[n][v] \subseteq held'[n][v]
  PROVE  /\ \A t \in Task : GivenSince(t)'
         /\ \A t \in Task : /\ calls'[t].view \in DOMAIN views'
                            /\ Len(calls'[t].bodies) <= Len(calls'[t].ids)
                            /\ calls'[t].get # "none" => Busy(t)' /\ mode' = "lean"
<1> SUFFICES ASSUME NEW t \in Task
             PROVE  /\ GivenSince(t)' /\ calls'[t].view \in DOMAIN views'
                    /\ Len(calls'[t].bodies) <= Len(calls'[t].ids)
                    /\ calls'[t].get # "none" => Busy(t)' /\ mode' = "lean"
  OBVIOUS
<1>1. calls[t].view \in DOMAIN views /\ calls[t] \in Call
  BY ViewOf
<1>2. \A k \in DOMAIN calls[t].bodies : calls[t].ids[k] \in Node
  <2>1. calls[t].ids \in Seq(Node) /\ calls[t].bodies \in Seq(BodyRecord)
    BY <1>1 DEF Call
  <2>2. Len(calls[t].bodies) <= Len(calls[t].ids) /\ Len(calls[t].bodies) \in Nat /\ Len(calls[t].ids) \in Nat
    BY <2>1 DEF SinceInv, Aligned
  <2> TAKE k \in DOMAIN calls[t].bodies
  <2>3. k \in 1 .. Len(calls[t].ids)
    BY <2>1, <2>2
  <2> QED BY <2>1, <2>3
<1>3. calls[t].get # "none" => Busy(t) /\ Wanted(t) \in Node
  BY WantedType DEF SinceInv, Aligned
<1>4. (Busy(t)' <=> Busy(t)) /\ Wanted(t)' = Wanted(t)
  BY DEF Busy, Wanted
<1>5. GivenSince(t)'
  BY <1>1, <1>2, <1>3, <1>4 DEF SinceInv, GivenSince, ResidentBody
<1> QED BY <1>1, <1>4, <1>5 DEF SinceInv, Aligned

LEMMA WriteKeeps ==
  ASSUME SinceInv, NEW v \in Written, NEW s \in (1 .. MaxState) \cup {None}, Write(v, s) PROVE SinceInv'
<1>1. v \in Node /\ s \in Version
  BY ViewAssumption DEF Version
<1>2. /\ state' = [state EXCEPT ![v] = s]
      /\ held' = [n \in DOMAIN held |-> [held[n] EXCEPT ![v] = @ \cup {s}]]
      /\ UNCHANGED <<mode, views, folding, calls, used>>
  BY DEF Write
<1>3. /\ state \in [Node -> Version] /\ held \in Seq([Node -> SUBSET Version])
      /\ DOMAIN held = 1 .. Len(held) /\ Len(held) \in Nat
      /\ \A n \in DOMAIN held : held[n] \in [Node -> SUBSET Version]
  BY DEF SinceInv, ViewTypeOK
<1>4. /\ DOMAIN held' = DOMAIN held /\ Len(held') = Len(held)
      /\ \A n \in DOMAIN held : /\ held'[n] \in [Node -> SUBSET Version]
                               /\ held'[n][v] = held[n][v] \cup {s}
                               /\ \A u \in Node : held[n][u] \subseteq held'[n][u]
  BY <1>1, <1>2, <1>3
<1>5. held' \in Seq([Node -> SUBSET Version])
  <2>1. held' = [n \in 1 .. Len(held) |-> held'[n]]
    BY <1>2, <1>3
  <2> QED BY <1>3, <1>4, <2>1
<1>6. ViewTypeOK'
  BY <1>1, <1>2, <1>3, <1>5 DEF SinceInv, ViewTypeOK
<1>7. \A n \in DOMAIN views : n \in DOMAIN held
  <2>1. DOMAIN views = 1 .. Len(views) /\ Len(views) \in Nat /\ Len(views) <= Len(held)
    BY DEF SinceInv, ViewTypeOK, Aligned
  <2> QED BY <1>3, <2>1
<1>8. /\ \A t \in Task : GivenSince(t)'
      /\ \A t \in Task : /\ calls'[t].view \in DOMAIN views'
                         /\ Len(calls'[t].bodies) <= Len(calls'[t].ids)
                         /\ calls'[t].get # "none" => Busy(t)' /\ mode' = "lean"
  BY <1>2, <1>4, <1>7, GivenStays
<1>9. Aligned'
  BY <1>2, <1>4, <1>8 DEF SinceInv, Aligned
<1>10. HeldNow'
  BY <1>1, <1>2, <1>3, <1>4 DEF SinceInv, HeldNow
<1>11. ResidentSince'
  BY <1>2, <1>4, <1>7 DEF SinceInv, ResidentSince, Kept
<1>12. FoldSince'
  <2> SUFFICES ASSUME folding.running PROVE Kept(folding.resident, Node \ folding.unread, held[Len(held)])'
    BY <1>2 DEF SinceInv, FoldSince
  <2>1. Len(held) \in DOMAIN held
    BY <1>3 DEF SinceInv, Aligned, ViewTypeOK
  <2>2. Kept(folding.resident, Node \ folding.unread, held[Len(held)])
    BY DEF SinceInv, FoldSince
  <2> QED BY <1>2, <1>4, <2>1, <2>2 DEF Kept
<1>13. CachedSince'
  <2>1. \A n \in DOMAIN views : \A i \in DOMAIN views[n].cache : views[n].cache[i].id \in Node
    <3> TAKE n \in DOMAIN views
    <3>1. views[n] \in ViewRecord
      BY DEF SinceInv, ViewTypeOK
    <3>2. \A i \in DOMAIN views[n].cache : views[n].cache[i] \in BodyRecord
      BY <3>1 DEF ViewRecord
    <3> QED BY <3>2 DEF BodyRecord
  <2> QED BY <1>2, <1>4, <1>7, <2>1 DEF SinceInv, CachedSince
<1> QED BY <1>6, <1>8, <1>9, <1>10, <1>11, <1>12, <1>13 DEF SinceInv

LEMMA ResidentsAre ==
  ASSUME ViewTypeOK, NEW S \in SUBSET Node
  PROVE  /\ Residents(S) \in Bodies
         /\ \A v \in Node : v \in DOMAIN Residents(S) <=> mode = "full" /\ v \in S /\ state[v] # None
         /\ \A v \in DOMAIN Residents(S) : Residents(S)[v] = state[v]
<1> DEFINE D == IF mode = "full" THEN Live(S) ELSE {}
<1>1. D \in SUBSET Node /\ \A v \in D : state[v] \in Nat
  BY DEF Live, ViewTypeOK, Version
<1>2. Residents(S) = [v \in D |-> state[v]]
  BY DEF Residents
<1>3. \A v \in Node : v \in D <=> mode = "full" /\ v \in S /\ state[v] # None
  BY DEF Live
<1> HIDE DEF D
<1>4. Residents(S) \in [D -> Nat]
  BY <1>1, <1>2
<1> QED BY <1>1, <1>2, <1>3, <1>4 DEF Bodies

LEMMA RefreshKeeps ==
  ASSUME SinceInv, Refresh PROVE SinceInv'
<1> DEFINE h == [v \in Node |-> {state[v]}]
<1>1. /\ folding' = [running |-> TRUE, unread |-> Live(Written), resident |-> Residents(Node \ Written)]
      /\ held' = Append(held, h) /\ ~folding.running
      /\ UNCHANGED <<mode, state, views, calls, used>>
  BY DEF Refresh
<1>2. /\ state \in [Node -> Version] /\ held \in Seq([Node -> SUBSET Version])
      /\ views \in Seq(ViewRecord) /\ Len(held) = Len(views)
      /\ DOMAIN views = 1 .. Len(views) /\ Len(held) \in Nat
      /\ DOMAIN held = 1 .. Len(held)
  BY <1>1 DEF SinceInv, ViewTypeOK, Aligned
<1>3. h \in [Node -> SUBSET Version]
  BY <1>2
<1> HIDE DEF h
<1>4. /\ held' \in Seq([Node -> SUBSET Version]) /\ Len(held') = Len(held) + 1
      /\ held'[Len(held) + 1] = h /\ \A n \in 1 .. Len(held) : held'[n] = held[n]
      /\ DOMAIN held' = 1 .. Len(held) + 1
  BY <1>1, <1>2, <1>3, AppendProperties
<1>5. /\ Residents(Node \ Written) \in Bodies
      /\ \A v \in Node : v \in DOMAIN Residents(Node \ Written) <=> mode = "full" /\ v \in Node \ Written /\ state[v] # None
      /\ \A v \in DOMAIN Residents(Node \ Written) : Residents(Node \ Written)[v] = state[v]
  BY ResidentsAre DEF SinceInv
<1>6. Live(Written) \in SUBSET Node /\ \A v \in Node \ Live(Written) : v \notin Written \/ state[v] = None
  BY ViewAssumption DEF Live
<1>7. ViewTypeOK'
  BY <1>1, <1>4, <1>5, <1>6 DEF SinceInv, ViewTypeOK
<1>8. \A n \in DOMAIN views, v \in Node : held[n][v] \subseteq held'[n][v]
  BY <1>2, <1>4
<1>9. /\ \A t \in Task : GivenSince(t)'
      /\ \A t \in Task : /\ calls'[t].view \in DOMAIN views'
                         /\ Len(calls'[t].bodies) <= Len(calls'[t].ids)
                         /\ calls'[t].get # "none" => Busy(t)' /\ mode' = "lean"
  BY <1>1, <1>8, GivenStays
<1>10. Aligned'
  BY <1>1, <1>2, <1>4, <1>9 DEF SinceInv, Aligned
<1>11. HeldNow'
  <2> SUFFICES ASSUME NEW n \in DOMAIN held', NEW v \in Node PROVE state[v] \in held'[n][v]
    BY <1>1 DEF HeldNow
  <2>1. CASE n = Len(held) + 1
    BY <1>4, <2>1 DEF h
  <2>2. CASE n # Len(held) + 1
    <3>1. n \in 1 .. Len(held)
      BY <1>2, <1>4, <2>2
    <3> QED BY <1>2, <1>4, <3>1 DEF SinceInv, HeldNow
  <2> QED BY <2>1, <2>2
<1>12. ResidentSince'
  BY <1>1, <1>2, <1>4 DEF SinceInv, ResidentSince, Kept
<1>13. FoldSince'
  <2>1. /\ folding'.resident = Residents(Node \ Written) /\ folding'.unread = Live(Written)
        /\ held'[Len(held')] = h
    BY <1>1, <1>4
  <2>2. ASSUME NEW v \in Node \ Live(Written)
        PROVE  IF v \in DOMAIN Residents(Node \ Written) THEN Residents(Node \ Written)[v] \in h[v] ELSE mode = "full" => None \in h[v]
    BY <1>5, <1>6 DEF h
  <2>3. \A v \in Live(Written) : v \notin DOMAIN Residents(Node \ Written)
    BY <1>5, <1>6 DEF Live
  <2> QED BY <1>1, <2>1, <2>2, <2>3 DEF FoldSince, Kept
<1>14. CachedSince'
  BY <1>1, <1>2, <1>4 DEF SinceInv, CachedSince
<1> QED BY <1>7, <1>9, <1>10, <1>11, <1>12, <1>13, <1>14 DEF SinceInv

LEMMA ReadBodyKeeps ==
  ASSUME SinceInv, NEW v \in Written, ReadBody(v) PROVE SinceInv'
<1> DEFINE r == Joined(Residents({v}), folding.resident)
           f == [running |-> TRUE, unread |-> folding.unread \ {v}, resident |-> r]
           h == held[Len(held)]
<1>1. /\ folding.running /\ folding' = [folding EXCEPT !.unread = @ \ {v}, !.resident = r]
      /\ UNCHANGED <<mode, state, views, calls, held, used>>
  BY DEF ReadBody
<1>2. folding \in [running : BOOLEAN, unread : SUBSET Node, resident : Bodies] /\ v \in Node
  BY ViewAssumption DEF SinceInv, ViewTypeOK
<1>3. folding'.unread = folding.unread \ {v} /\ folding'.resident = r /\ folding'.running
  BY <1>1, <1>2
<1>4. /\ Residents({v}) \in Bodies
      /\ \A u \in Node : u \in DOMAIN Residents({v}) <=> mode = "full" /\ u = v /\ state[u] # None
      /\ \A u \in DOMAIN Residents({v}) : Residents({v})[u] = state[u]
  BY <1>2, ResidentsAre DEF SinceInv
<1>5. /\ DOMAIN r = DOMAIN Residents({v}) \cup DOMAIN folding.resident
      /\ \A u \in DOMAIN r : r[u] = IF u \in DOMAIN Residents({v}) THEN Residents({v})[u] ELSE folding.resident[u]
      /\ r = [u \in DOMAIN Residents({v}) \cup DOMAIN folding.resident |-> IF u \in DOMAIN Residents({v}) THEN Residents({v})[u] ELSE folding.resident[u]]
  BY DEF Joined
<1>6. r \in Bodies
  <2>1. \A g \in Bodies : DOMAIN g \in SUBSET Node /\ g \in [DOMAIN g -> Nat]
    BY DEF Bodies
  <2>2. DOMAIN r \in SUBSET Node /\ r \in [DOMAIN r -> Nat]
    <3> HIDE DEF r
    <3> QED BY <1>2, <1>4, <1>5, <2>1
  <2> HIDE DEF r
  <2> QED BY <2>2 DEF Bodies
<1> HIDE DEF r
<1>7. ViewTypeOK'
  <2>1. folding' \in [running : BOOLEAN, unread : SUBSET Node, resident : Bodies]
    BY <1>1, <1>2, <1>6
  <2> QED BY <1>1, <2>1 DEF SinceInv, ViewTypeOK
<1>8. /\ \A t \in Task : GivenSince(t)'
      /\ \A t \in Task : /\ calls'[t].view \in DOMAIN views'
                         /\ Len(calls'[t].bodies) <= Len(calls'[t].ids)
                         /\ calls'[t].get # "none" => Busy(t)' /\ mode' = "lean"
  BY <1>1, GivenStays
<1>9. Aligned'
  BY <1>1, <1>3, <1>8 DEF SinceInv, Aligned
<1>10. state[v] \in h[v]
  <2>1. Len(held) \in DOMAIN held
    BY <1>1 DEF SinceInv, ViewTypeOK, Aligned
  <2> QED BY <1>2, <2>1 DEF SinceInv, HeldNow
<1>11. Kept(r, Node \ (folding.unread \ {v}), h)
  <2> SUFFICES ASSUME NEW u \in Node \ (folding.unread \ {v})
               PROVE  IF u \in DOMAIN r THEN r[u] \in h[u] ELSE mode = "full" => None \in h[u]
    BY DEF Kept
  <2>1. u # v => IF u \in DOMAIN folding.resident THEN folding.resident[u] \in h[u] ELSE mode = "full" => None \in h[u]
    BY <1>1 DEF SinceInv, FoldSince, Kept
  <2>2. v \notin folding.unread \/ u # v \/ u = v
    OBVIOUS
  <2>3. CASE u # v
    BY <1>4, <1>5, <2>1, <2>3
  <2>4. CASE u = v
    <3>1. v \notin DOMAIN folding.resident
      BY DEF ReadBody, SinceInv, FoldSince
    <3> QED BY <1>4, <1>5, <1>10, <2>4, <3>1
  <2> QED BY <2>3, <2>4
<1>12. HeldNow' /\ ResidentSince' /\ CachedSince'
  BY <1>1 DEF SinceInv, HeldNow, ResidentSince, CachedSince, Kept
<1>13. FoldSince'
  <2>1. \A u \in folding.unread \ {v} : u \notin DOMAIN r
    BY <1>1, <1>2, <1>4, <1>5 DEF SinceInv, FoldSince
  <2> QED BY <1>1, <1>3, <1>11, <2>1 DEF FoldSince, Kept
<1> QED BY <1>7, <1>8, <1>9, <1>12, <1>13 DEF SinceInv

LEMMA RefreshedKeeps ==
  ASSUME SinceInv, Refreshed PROVE SinceInv'
<1> DEFINE w == View(folding.resident, << >>)
           h == held[Len(held)]
<1>1. /\ folding.running /\ folding.unread = {}
      /\ views' = Append(views, w) /\ used' = Append(used, << >>)
      /\ folding' = [running |-> FALSE, unread |-> {}, resident |-> << >>]
      /\ UNCHANGED <<mode, state, calls, held>>
  BY DEF Refreshed, NewCache, NoFold
<1>2. /\ views \in Seq(ViewRecord) /\ used \in Seq(Seq(Node))
      /\ folding.resident \in Bodies /\ Len(views) \in Nat /\ DOMAIN views = 1 .. Len(views)
      /\ Len(used) = Len(views) /\ Len(held) = Len(views) + 1
  BY <1>1 DEF SinceInv, ViewTypeOK, Aligned
<1>3. w \in ViewRecord /\ w.resident = folding.resident /\ w.cache = << >>
  BY <1>2 DEF View, ViewRecord
<1> HIDE DEF w
<1>4. /\ views' \in Seq(ViewRecord) /\ Len(views') = Len(views) + 1
      /\ views'[Len(views) + 1] = w /\ \A n \in 1 .. Len(views) : views'[n] = views[n]
      /\ DOMAIN views' = 1 .. Len(views) + 1
  BY <1>1, <1>2, <1>3, AppendProperties
<1>5. used' \in Seq(Seq(Node)) /\ Len(used') = Len(used) + 1
  <2>1. << >> \in Seq(Node)
    OBVIOUS
  <2> QED BY <1>1, <1>2, <2>1, AppendProperties
<1>6. ViewTypeOK'
  <2>1. << >> \in Bodies
    <3>1. << >> \in [{} -> Nat]
      OBVIOUS
    <3> QED BY <3>1 DEF Bodies
  <2>2. folding' \in [running : BOOLEAN, unread : SUBSET Node, resident : Bodies]
    BY <1>1, <2>1
  <2> QED BY <1>1, <1>4, <1>5, <2>2 DEF SinceInv, ViewTypeOK
<1>7. /\ \A t \in Task : (Busy(t)' <=> Busy(t)) /\ Wanted(t)' = Wanted(t)
      /\ \A t \in Task : calls[t].view \in DOMAIN views
  BY <1>1 DEF SinceInv, Aligned, Busy, Wanted
<1>8. Aligned'
  <2>1. \A t \in Task : calls[t].view \in DOMAIN views'
    BY <1>2, <1>4, <1>7
  <2> QED BY <1>1, <1>2, <1>4, <1>5, <1>7, <2>1 DEF SinceInv, Aligned
<1>9. ASSUME NEW t \in Task PROVE GivenSince(t)'
  <2>1. views'[calls[t].view] = views[calls[t].view]
    BY <1>2, <1>4, <1>7
  <2> QED BY <1>1, <1>7, <2>1 DEF SinceInv, GivenSince, ResidentBody
<1>10. HeldNow' /\ FoldSince'
  BY <1>1 DEF SinceInv, HeldNow, FoldSince
<1>11. ResidentSince'
  <2> SUFFICES ASSUME NEW n \in DOMAIN views' PROVE Kept(views[n].resident, Node, held[n])'
    BY DEF ResidentSince
  <2>1. CASE n = Len(views) + 1
    <3>1. Kept(folding.resident, Node, held[n])
      BY <1>1, <1>2, <2>1 DEF SinceInv, FoldSince
    <3> QED BY <1>1, <1>3, <1>4, <2>1, <3>1 DEF Kept
  <2>2. CASE n # Len(views) + 1
    <3>1. n \in 1 .. Len(views)
      BY <1>2, <1>4, <2>2
    <3> QED BY <1>1, <1>2, <1>4, <3>1 DEF SinceInv, ResidentSince, Kept
  <2> QED BY <2>1, <2>2
<1>12. CachedSince'
  <2> SUFFICES ASSUME NEW n \in DOMAIN views', NEW i \in DOMAIN views'[n].cache
               PROVE  views'[n].cache[i].state \in held[n][views'[n].cache[i].id]
    BY <1>1 DEF CachedSince
  <2>1. n # Len(views) + 1
    BY <1>3, <1>4
  <2>2. n \in 1 .. Len(views)
    BY <1>2, <1>4, <2>1
  <2> QED BY <1>2, <1>4, <2>2 DEF SinceInv, CachedSince
<1> QED BY <1>6, <1>8, <1>9, <1>10, <1>11, <1>12 DEF SinceInv

LEMMA SinceInit == ViewInit => SinceInv
<1> SUFFICES ASSUME ViewInit PROVE SinceInv
  OBVIOUS
<1> DEFINE S == {u \in Node : mode = "full" /\ state[u] # None}
           r == [v \in S |-> state[v]]
           w == View(r, << >>)
           h == [v \in Node |-> {state[v]}]
<1>1. /\ mode \in {"full", "lean"} /\ views = <<w>> /\ held = <<h>> /\ used = << << >> >>
      /\ state = [v \in Node |-> IF NodeType[v] = None THEN None ELSE 0]
      /\ folding = [running |-> FALSE, unread |-> {}, resident |-> << >>]
      /\ calls = [t \in Task |-> [view |-> 1, ids |-> << >>, edges |-> << >>, bodies |-> << >>, get |-> "none", got |-> None]]
  BY DEF ViewInit, NoFold, NoCall, NewCall
<1>2. state \in [Node -> Version]
  BY <1>1 DEF Version
<1>3. /\ S \in SUBSET Node /\ \A v \in S : state[v] \in Nat
      /\ \A v \in Node : v \in S <=> mode = "full" /\ state[v] # None
  BY <1>2 DEF Version
<1> HIDE DEF S
<1>4. r \in [S -> Nat] /\ r \in Bodies
  <2>1. r \in [S -> Nat]
    BY <1>3
  <2> QED BY <1>3, <2>1 DEF Bodies
<1>5. w.resident = r /\ w.cache = << >> /\ w \in ViewRecord
  BY <1>4 DEF View, ViewRecord
<1>6. h \in [Node -> SUBSET Version]
  BY <1>2
<1>7. << >> \in Bodies
  <2>1. << >> \in [{} -> Nat]
    OBVIOUS
  <2> QED BY <2>1 DEF Bodies
<1> HIDE DEF w, h
<1>8. /\ views \in Seq(ViewRecord) /\ held \in Seq([Node -> SUBSET Version]) /\ used \in Seq(Seq(Node))
      /\ DOMAIN views = {1} /\ DOMAIN held = {1} /\ Len(views) = 1 /\ Len(held) = 1 /\ Len(used) = 1
      /\ views[1] = w /\ held[1] = h
  <2>1. << >> \in Seq(Node)
    OBVIOUS
  <2> QED BY <1>1, <1>5, <1>6, <2>1
<1>9. \A t \in Task : /\ calls[t] \in Call /\ calls[t].view = 1 /\ calls[t].bodies = << >>
                      /\ calls[t].ids = << >> /\ calls[t].get = "none"
  BY <1>1 DEF Call, Version
<1>10. ViewTypeOK
  <2>1. calls \in [Task -> Call]
    BY <1>1, <1>9
  <2>2. folding \in [running : BOOLEAN, unread : SUBSET Node, resident : Bodies]
    BY <1>1, <1>7
  <2> QED BY <1>1, <1>2, <1>8, <2>1, <2>2 DEF ViewTypeOK
<1>11. Aligned
  BY <1>1, <1>8, <1>9 DEF Aligned
<1>12. HeldNow /\ CachedSince
  BY <1>1, <1>5, <1>8 DEF HeldNow, CachedSince, h
<1>13. FoldSince /\ \A t \in Task : GivenSince(t)
  BY <1>1, <1>9 DEF FoldSince, GivenSince
<1>14. ResidentSince
  <2>1. ASSUME NEW v \in Node
        PROVE  IF v \in DOMAIN r THEN r[v] \in h[v] ELSE mode = "full" => None \in h[v]
    BY <1>3, <2>1 DEF h
  <2> QED BY <1>5, <1>8, <2>1 DEF ResidentSince, Kept
<1> QED BY <1>10, <1>11, <1>12, <1>13, <1>14 DEF SinceInv

LEMMA RenderKeeps ==
  ASSUME QueryTypeOK, SinceInv, NEW n \in DOMAIN views, Render(n) PROVE SinceInv'
<1>1. answer \in Result
  BY DEF QueryTypeOK, Render, Answers
<1>2. PICK r \in Rendering : Begin(Caller, n, r)
  BY DEF Render
<1>3. r.ids \in Seq(Node) /\ r.edges \in Seq(Nat)
  BY <1>1, RenderingType
<1> QED BY <1>2, <1>3, BeginKeeps DEF Render, Task

LEMMA HydrateKeeps ==
  ASSUME SinceInv, NEW n \in DOMAIN views, NEW t \in Reader, NEW ids \in Asked, Hydrate(t, n, ids)
  PROVE  SinceInv'
<1>1. Bare(ids).ids \in Seq(Node) /\ Bare(ids).edges \in Seq(Nat)
  BY ViewAssumption, BareType
<1> QED BY <1>1, BeginKeeps DEF Hydrate, Task

LEMMA SinceStays ==
  ASSUME SinceInv, UNCHANGED hydration PROVE SinceInv'
<1>1. ViewTypeOK' /\ Aligned' /\ HeldNow' /\ ResidentSince' /\ FoldSince' /\ CachedSince'
  BY DEF SinceInv, hydration, ViewTypeOK, Aligned, Busy, HeldNow, ResidentSince, Kept, FoldSince, CachedSince
<1>2. ASSUME NEW t \in Task PROVE GivenSince(t)'
  BY DEF SinceInv, hydration, GivenSince, Wanted, ResidentBody
<1> QED BY <1>1, <1>2 DEF SinceInv

\* The index and the query are those of GraphQuery: a step of the view asks on or leaves
\* them alone.
LEMMA ViewSteps ==
  ASSUME [ViewNext]_viewVars PROVE [Next]_vars
BY DEF ViewNext, viewVars, Ask, Render, Hydrate, Pinned, Hit, Miss, Read, Resume, Uses, Write,
       Refresh, ReadBody, Refreshed

LEMMA SinceStep ==
  ASSUME QueryTypeOK, SinceInv, [ViewNext]_viewVars PROVE SinceInv'
<1>1. CASE Ask \/ UNCHANGED viewVars
  BY <1>1, SinceStays DEF Ask, viewVars
<1>2. CASE \E n \in DOMAIN views : Render(n)
  BY <1>2, RenderKeeps
<1>3. CASE \E n \in DOMAIN views, t \in Reader, ids \in Asked : Hydrate(t, n, ids)
  BY <1>3, HydrateKeeps
<1>4. CASE \E t \in Task : Pinned(t) \/ Hit(t) \/ Miss(t) \/ Read(t) \/ Resume(t)
  BY <1>4, PinnedKeeps, HitKeeps, MissKeeps, ReadKeeps, ResumeKeeps
<1>5. CASE \E v \in Written, s \in (1 .. MaxState) \cup {None} : Write(v, s)
  BY <1>5, WriteKeeps
<1>6. CASE Refresh \/ Refreshed \/ \E v \in Written : ReadBody(v)
  BY <1>6, RefreshKeeps, RefreshedKeeps, ReadBodyKeeps
<1> QED BY <1>1, <1>2, <1>3, <1>4, <1>5, <1>6 DEF ViewNext

\* Whatever else goes on in the views, the query is asked as GraphQuery asks it: what
\* SearchesReach, DijkstraIsCheapest, ShortestIsCanonical and MatchIsExact say of its
\* answers they say of a query that others hydrate, write and refresh around.
THEOREM ViewsAsk == ViewSpec => Spec
<1>1. ViewInit => Init
  BY DEF ViewInit
<1> QED BY <1>1, ViewSteps, PTL DEF ViewSpec, Spec

ViewInv == QueryTypeOK /\ SinceInv

LEMMA ViewInvariant == ViewSpec => []ViewInv
<1>1. ViewInit => ViewInv
  BY SinceInit, QueryTypeInit DEF ViewInit, ViewInv
<1>2. ViewInv /\ [ViewNext]_viewVars => ViewInv'
  BY SinceStep, ViewSteps, QueryTypeStep DEF ViewInv
<1> QED BY <1>1, <1>2, PTL DEF ViewSpec

\* Whatever is written while a query hydrates, and however refreshes and other readers
\* interleave with it, each body a view gives is of the node asked for, in a state it has
\* had since the fold of that view began; and a full view gives everyone the same one.
THEOREM BodiesSinceFold == ViewSpec => []HydratedSinceFold
<1>1. ViewInv => HydratedSinceFold
  BY SinceIsEnough DEF ViewInv
<1> QED BY <1>1, ViewInvariant, PTL

----------------------------------------------------------------------------
(* The view: its cache is an LRU.                                          *)

\* No node is twice in an order of use, and the cache holds the last of it.
Recent(c, u) ==
  /\ \A i, j \in DOMAIN u : u[i] = u[j] => i = j
  /\ Len(c) = IF Len(u) < Capacity THEN Len(u) ELSE Capacity
  /\ \A i \in DOMAIN c : c[i].id = u[Len(u) - Len(c) + i]

RecentInv == \A n \in DOMAIN views : Recent(views[n].cache, used[n])

\* An entry taken out at its place, or at none, and put at the end.
MovedTo(s, places, x, t) ==
  /\ places = {} => Len(t) = Len(s) + 1 /\ t[Len(s) + 1] = x /\ \A j \in 1 .. Len(s) : t[j] = s[j]
  /\ \A p : places = {p} =>
       /\ Len(t) = Len(s) /\ t[Len(s)] = x
       /\ \A j \in 1 .. Len(s) - 1 : t[j] = IF j < p THEN s[j] ELSE s[j + 1]

LEMMA Moved ==
  ASSUME NEW S, NEW s \in Seq(S), NEW places \in SUBSET DOMAIN s, NEW x \in S
  PROVE  /\ Append(Without(s, places), x) \in Seq(S)
         /\ MovedTo(s, places, x, Append(Without(s, places), x))
<1> DEFINE w == Without(s, places)
<1>1. w \in Seq(S)
  BY WithoutType
<1>2. ASSUME places = {} PROVE w = s
  BY <1>2 DEF Without
<1>3. ASSUME NEW p, places = {p}
      PROVE  p \in DOMAIN s /\ Len(w) = Len(s) - 1 /\ \A j \in 1 .. Len(s) - 1 : w[j] = IF j < p THEN s[j] ELSE s[j + 1]
  <2>1. p \in DOMAIN s /\ w = RemoveAt(s, p)
    BY <1>3 DEF Without
  <2> QED BY <2>1, RemoveAtIs
<1> HIDE DEF w
<1>4. /\ Append(w, x) \in Seq(S) /\ Len(Append(w, x)) = Len(w) + 1 /\ Len(w) \in Nat /\ Len(s) \in Nat
      /\ Append(w, x)[Len(w) + 1] = x /\ \A j \in 1 .. Len(w) : Append(w, x)[j] = w[j]
  BY <1>1, AppendProperties
<1>5. ASSUME NEW p, places = {p}
      PROVE  /\ Len(Append(w, x)) = Len(s) /\ Append(w, x)[Len(s)] = x
             /\ \A j \in 1 .. Len(s) - 1 : Append(w, x)[j] = IF j < p THEN s[j] ELSE s[j + 1]
  BY <1>3, <1>4, <1>5
<1>6. places = {} => /\ Len(Append(w, x)) = Len(s) + 1 /\ Append(w, x)[Len(s) + 1] = x
                     /\ \A j \in 1 .. Len(s) : Append(w, x)[j] = s[j]
  BY <1>2, <1>4
<1> QED BY <1>4, <1>5, <1>6 DEF w, MovedTo

\* The key moves to the end of the order of use, without a copy left behind.
LEMMA UsedMoves ==
  ASSUME NEW u \in Seq(Node), \A i, j \in DOMAIN u : u[i] = u[j] => i = j, NEW x \in Node
  PROVE  LET v == Append(Without(u, {i \in DOMAIN u : u[i] = x}), x)
         IN  /\ v \in Seq(Node)
             /\ \A i, j \in DOMAIN v : v[i] = v[j] => i = j
             /\ \A p \in DOMAIN u : u[p] = x =>
                  /\ Len(v) = Len(u) /\ v[Len(u)] = x
                  /\ \A j \in 1 .. Len(u) - 1 : v[j] = IF j < p THEN u[j] ELSE u[j + 1]
             /\ (\A p \in DOMAIN u : u[p] # x) =>
                  /\ Len(v) = Len(u) + 1 /\ v[Len(u) + 1] = x
                  /\ \A j \in 1 .. Len(u) : v[j] = u[j]
<1> DEFINE places == {i \in DOMAIN u : u[i] = x}
           v == Append(Without(u, places), x)
<1>1. Len(u) \in Nat /\ DOMAIN u = 1 .. Len(u)
  OBVIOUS
<1>2. places \in SUBSET DOMAIN u
  OBVIOUS
<1>3. \A p \in DOMAIN u : u[p] = x => places = {p}
  OBVIOUS
<1>4. (\A p \in DOMAIN u : u[p] # x) => places = {}
  OBVIOUS
<1>5. places = {} \/ \E p \in DOMAIN u : u[p] = x
  OBVIOUS
<1>6. \A i \in DOMAIN u : i \in places <=> u[i] = x
  OBVIOUS
<1> HIDE DEF places
<1>typed. u \in Seq(Node) /\ x \in Node
  OBVIOUS
<1>moved. v \in Seq(Node) /\ MovedTo(u, places, x, v)
  BY ONLY <1>typed, <1>2, Moved
<1>7. /\ v \in Seq(Node)
      /\ places = {} => Len(v) = Len(u) + 1 /\ v[Len(u) + 1] = x /\ \A j \in 1 .. Len(u) : v[j] = u[j]
      /\ \A p : places = {p} =>
           /\ Len(v) = Len(u) /\ v[Len(u)] = x
           /\ \A j \in 1 .. Len(u) - 1 : v[j] = IF j < p THEN u[j] ELSE u[j + 1]
  BY ONLY <1>moved DEF MovedTo
<1> HIDE DEF v
<1>8. DOMAIN v = 1 .. Len(v)
  BY <1>7
<1>9. ASSUME NEW i \in DOMAIN v, NEW j \in DOMAIN v, v[i] = v[j] PROVE i = j
  <2>1. CASE places = {}
    <3>1. Len(v) = Len(u) + 1 /\ v[Len(u) + 1] = x /\ \A k \in 1 .. Len(u) : v[k] = u[k] /\ u[k] # x
      BY <1>1, <1>6, <1>7, <2>1
    <3>2. \A k \in 1 .. Len(v) : k = Len(u) + 1 \/ k \in DOMAIN u
      BY <1>1, <3>1
    <3> QED BY <1>1, <1>8, <1>9, <3>1, <3>2
  <2>2. CASE places # {}
    <3>1. PICK p \in DOMAIN u : u[p] = x /\ places = {p}
      BY <1>3, <1>5, <2>2
    <3>2. /\ Len(v) = Len(u) /\ v[Len(u)] = x
          /\ \A k \in 1 .. Len(u) - 1 : v[k] = IF k < p THEN u[k] ELSE u[k + 1]
      BY <1>7, <3>1
    <3> DEFINE from == [k \in 1 .. Len(u) |-> IF k = Len(u) THEN p ELSE IF k < p THEN k ELSE k + 1]
    <3>3. ASSUME NEW k \in 1 .. Len(u) PROVE from[k] \in DOMAIN u /\ v[k] = u[from[k]]
      <4>1. CASE k = Len(u)
        BY <3>1, <3>2, <4>1
      <4>2. CASE k # Len(u)
        <5>1. k \in 1 .. Len(u) - 1 /\ k \in DOMAIN u /\ k + 1 \in DOMAIN u
          <6>1. k \in 1 .. Len(u)
            OBVIOUS
          <6>2. \A l \in Nat : k \in 1 .. l /\ k # l => k \in 1 .. l - 1 /\ k + 1 \in 1 .. l
            OBVIOUS
          <6> QED BY ONLY <1>1, <4>2, <6>1, <6>2
        <5> QED BY <3>2, <4>2, <5>1
      <4> QED BY <4>1, <4>2
    <3>4. i \in 1 .. Len(u) /\ j \in 1 .. Len(u)
      BY <1>8, <3>2
    <3>5. from[i] = from[j]
      <4> HIDE DEF from
      <4> QED BY <1>9, <3>3, <3>4
    <3> QED BY <1>1, <3>1, <3>4, <3>5
  <2> QED BY <2>1, <2>2
<1> QED BY <1>3, <1>4, <1>7, <1>9 DEF v, places

\* The next use of a key: one in the cache moves to its end, another is appended, and
\* evicts the least recent one when the cache is full.
LEMMA RecentMoves ==
  ASSUME NEW c \in Seq(BodyRecord), NEW u \in Seq(Node), Recent(c, u), NEW b \in BodyRecord
  PROVE  /\ Recent(Evict(MoveToEnd(c, b)), Append(Without(u, {i \in DOMAIN u : u[i] = b.id}), b.id))
         /\ (\E i \in DOMAIN c : c[i].id = b.id) => Evict(MoveToEnd(c, b)) = MoveToEnd(c, b)
<1> DEFINE x == b.id
           v == Append(Without(u, {i \in DOMAIN u : u[i] = x}), x)
           places == {i \in DOMAIN c : c[i].id = x}
           m == MoveToEnd(c, b)
           e == Evict(m)
           k == Len(c)
           n == Len(u)
           off == n - k
<1>1. x \in Node /\ Capacity \in Nat
  BY ViewAssumption DEF BodyRecord
<1>2. k \in Nat /\ DOMAIN c = 1 .. k /\ n \in Nat /\ DOMAIN u = 1 .. n /\ k = (IF n < Capacity THEN n ELSE Capacity)
  BY DEF Recent
<1>3. off \in Nat /\ n = off + k /\ k <= Capacity /\ (k < Capacity => off = 0)
  <2> HIDE DEF k, n
  <2> QED BY <1>1, <1>2
<1>4. \A i, j \in DOMAIN u : u[i] = u[j] => i = j
  BY DEF Recent
<1>5. \A i \in 1 .. k : off + i \in 1 .. n /\ c[i].id = u[off + i]
  <2>1. \A i \in 1 .. k : c[i].id = u[off + i]
    BY <1>2 DEF Recent
  <2> HIDE DEF off, k, n
  <2> QED BY <1>2, <1>3, <2>1
<1>6. places \in SUBSET DOMAIN c /\ m = Append(Without(c, places), b)
  BY DEF MoveToEnd
<1>7. \A i \in DOMAIN c : i \in places <=> c[i].id = x
  OBVIOUS
<1> HIDE DEF x
<1>8. u \in Seq(Node) /\ c \in Seq(BodyRecord) /\ b \in BodyRecord
  OBVIOUS
<1>9. /\ v \in Seq(Node)
      /\ \A i, j \in DOMAIN v : v[i] = v[j] => i = j
      /\ \A p \in DOMAIN u : u[p] = x =>
           /\ Len(v) = n /\ v[n] = x
           /\ \A j \in 1 .. n - 1 : v[j] = IF j < p THEN u[j] ELSE u[j + 1]
      /\ (\A p \in DOMAIN u : u[p] # x) =>
           /\ Len(v) = n + 1 /\ v[n + 1] = x
           /\ \A j \in 1 .. n : v[j] = u[j]
  BY ONLY <1>1, <1>4, <1>8, UsedMoves
<1> HIDE DEF v, places, m
<1>moved. m \in Seq(BodyRecord) /\ MovedTo(c, places, b, m)
  BY ONLY <1>6, <1>8, Moved
<1>10. /\ m \in Seq(BodyRecord)
       /\ places = {} => Len(m) = k + 1 /\ m[k + 1] = b /\ \A j \in 1 .. k : m[j] = c[j]
       /\ \A p : places = {p} =>
            /\ Len(m) = k /\ m[k] = b
            /\ \A j \in 1 .. k - 1 : m[j] = IF j < p THEN c[j] ELSE c[j + 1]
  BY ONLY <1>moved DEF MovedTo
<1> HIDE DEF k, n, off
\* What is left of the goal: the lengths, and that the ids agree one by one.
<1>11. ASSUME NEW s \in Seq(BodyRecord), Len(s) = IF Len(v) < Capacity THEN Len(v) ELSE Capacity,
              \A i \in 1 .. Len(s) : s[i].id = v[Len(v) - Len(s) + i]
       PROVE  Recent(s, v)
  <2>1. DOMAIN s = 1 .. Len(s)
    OBVIOUS
  <2> QED BY <1>9, <1>11, <2>1 DEF Recent
<1>12. CASE places # {}
  <2>1. PICK p \in DOMAIN c : c[p].id = x
    BY <1>6, <1>7, <1>12
  <2>2. p \in 1 .. k /\ off + p \in DOMAIN u /\ u[off + p] = x
    BY <1>2, <1>5, <2>1
  <2>3. places = {p}
    <3>1. ASSUME NEW i \in 1 .. k, c[i].id = x PROVE i = p
      <4>1. off + i \in DOMAIN u /\ u[off + i] = x
        BY <1>2, <1>5, <3>1
      <4>2. off + i = off + p
        BY <1>4, <2>2, <4>1
      <4> QED BY <1>2, <1>3, <2>2, <4>2
    <3> QED BY <1>2, <1>6, <1>7, <2>1, <3>1
  <2>4. /\ Len(m) = k /\ m[k] = b
        /\ \A j \in 1 .. k - 1 : m[j] = IF j < p THEN c[j] ELSE c[j + 1]
    BY <1>10, <2>3
  <2>5. /\ Len(v) = n /\ v[n] = x
        /\ \A j \in 1 .. n - 1 : v[j] = IF j < off + p THEN u[j] ELSE u[j + 1]
    BY <1>9, <2>2
  <2>6. e = m
    BY <1>1, <1>2, <1>3, <2>4 DEF Evict
  <2>7. ASSUME NEW i \in 1 .. k PROVE m[i].id = v[Len(v) - Len(m) + i]
    <3>0. Len(v) - Len(m) + i = off + i
      <4>1. Len(v) = n /\ Len(m) = k
        BY <2>4, <2>5
      <4>2. n - k + i = off + i
        <5>1. i \in Nat
          BY <1>2
        <5> QED BY ONLY <1>2, <1>3, <5>1
      <4> QED BY <4>1, <4>2
    <3>1. CASE i = k
      <4>1. off + i = n
        BY <1>3, <3>1
      <4> QED BY <2>4, <2>5, <3>0, <3>1, <4>1 DEF x
    <3>2. CASE i # k
      <4>1. i \in 1 .. k - 1 /\ i + 1 \in 1 .. k /\ off + i \in 1 .. n - 1
        BY <1>2, <1>3, <3>2
      <4>2. m[i] = IF i < p THEN c[i] ELSE c[i + 1]
        BY <2>4, <4>1
      <4>3. v[off + i] = IF off + i < off + p THEN u[off + i] ELSE u[off + i + 1]
        BY <2>5, <4>1
      <4>4. c[i].id = u[off + i] /\ c[i + 1].id = u[off + (i + 1)]
        BY <1>5, <4>1
      <4>5. (off + i < off + p <=> i < p) /\ off + (i + 1) = off + i + 1
        BY <1>2, <1>3, <2>2
      <4> QED BY <3>0, <4>2, <4>3, <4>4, <4>5
    <3> QED BY <3>1, <3>2
  <2>8. Len(m) = IF Len(v) < Capacity THEN Len(v) ELSE Capacity
    BY <1>2, <2>4, <2>5
  <2>9. Recent(m, v)
    BY <1>10, <1>11, <2>4, <2>7, <2>8
  <2> QED BY <2>6, <2>9 DEF m, v, x
<1>13. CASE places = {}
  <2>1. \A i \in DOMAIN c : c[i].id # x
    BY <1>7, <1>13
  <2>2. Len(m) = k + 1 /\ m[k + 1] = b /\ \A j \in 1 .. k : m[j] = c[j]
    BY <1>10, <1>13
  <2> DEFINE t == Tail(m)
  <2>3. t \in Seq(BodyRecord) /\ Len(t) = k /\ \A j \in 1 .. k : t[j] = m[j + 1]
    <3>1. m # << >>
      BY <1>2, <2>2
    <3> QED BY <1>2, <1>10, <2>2, <3>1, HeadTailProperties
  <2> HIDE DEF t
  \* The entries move up, and the new one comes last.
  <2>4. ASSUME NEW i \in 1 .. k, i = k PROVE t[i].id = x
    BY <2>2, <2>3, <2>4 DEF x
  <2>inner. ASSUME NEW i \in 1 .. k, i # k PROVE off + i + 1 \in 1 .. n /\ t[i].id = u[off + i + 1]
    <3>1. i + 1 \in 1 .. k /\ off + (i + 1) = off + i + 1
      BY <1>2, <1>3, <2>inner
    <3>2. t[i] = c[i + 1] /\ off + (i + 1) \in 1 .. n /\ c[i + 1].id = u[off + (i + 1)]
      BY <1>5, <2>2, <2>3, <3>1
    <3> QED BY <3>1, <3>2
  <2>5. CASE \E p \in DOMAIN u : u[p] = x
    <3>1. PICK p \in 1 .. n : u[p] = x
      BY <1>2, <2>5
    <3>2. p <= off
      <4> SUFFICES ASSUME p > off PROVE FALSE
        BY <1>2, <1>3
      <4>1. p - off \in 1 .. k /\ off + (p - off) = p
        BY <1>2, <1>3
      <4>2. c[p - off].id = u[off + (p - off)]
        BY <1>5, <4>1
      <4> QED BY <1>2, <2>1, <3>1, <4>1, <4>2
    <3>3. k = Capacity
      BY <1>1, <1>2, <1>3, <3>2
    <3>4. /\ Len(v) = n /\ v[n] = x
          /\ \A j \in 1 .. n - 1 : v[j] = IF j < p THEN u[j] ELSE u[j + 1]
      BY <1>2, <1>9, <3>1
    <3>5. e = t
      BY <1>1, <1>2, <2>2, <3>3 DEF Evict, t
    <3>6. ASSUME NEW i \in 1 .. k PROVE t[i].id = v[Len(v) - Len(t) + i]
      <4>0. Len(v) - Len(t) + i = off + i
        <5>1. Len(v) = n /\ Len(t) = k
          BY <2>3, <3>4
        <5>2. n - k + i = off + i
          BY ONLY <1>2, <1>3, <3>6
        <5> QED BY <5>1, <5>2
      <4>1. CASE i = k
        <5>1. off + i = n
          BY <1>3, <4>1
        <5>2. t[i].id = x
          BY <2>4, <4>1
        <5> QED BY <3>4, <4>0, <5>1, <5>2
      <4>2. CASE i # k
        <5>1. off + i \in 1 .. n - 1 /\ ~(off + i < p)
          BY <1>2, <1>3, <3>1, <3>2, <4>2
        <5>2. v[off + i] = u[off + i + 1]
          BY <3>4, <5>1
        <5> QED BY <2>inner, <4>0, <4>2, <5>2
      <4> QED BY <4>1, <4>2
    <3>7. Len(t) = IF Len(v) < Capacity THEN Len(v) ELSE Capacity
      BY <1>2, <2>3, <3>4
    <3>8. Recent(t, v)
      BY <1>11, <2>3, <3>6, <3>7
    <3> QED BY <1>7, <1>13, <3>5, <3>8 DEF m, v, x
  <2>6. CASE \A p \in DOMAIN u : u[p] # x
    <3>1. /\ Len(v) = n + 1 /\ v[n + 1] = x
          /\ \A j \in 1 .. n : v[j] = u[j]
      BY <1>9, <2>6
    <3>2. CASE n < Capacity
      <4>1. off = 0 /\ k = n /\ Len(m) = n + 1 /\ e = m
        BY <1>1, <1>2, <1>3, <2>2, <3>2 DEF Evict
      <4>2. ASSUME NEW i \in 1 .. Len(m) PROVE m[i].id = v[Len(v) - Len(m) + i]
        <5>1. Len(v) - Len(m) + i = i
          BY <1>2, <3>1, <4>1
        <5>2. CASE i = n + 1
          BY <2>2, <3>1, <4>1, <5>1, <5>2 DEF x
        <5>3. CASE i # n + 1
          <6>1. i \in 1 .. n /\ off + i = i
            BY <1>2, <4>1, <5>3
          <6>2. m[i] = c[i] /\ c[i].id = u[i] /\ v[i] = u[i]
            BY <1>5, <2>2, <3>1, <4>1, <6>1
          <6> QED BY <5>1, <6>2
        <5> QED BY <5>2, <5>3
      <4>3. Len(m) = IF Len(v) < Capacity THEN Len(v) ELSE Capacity
        BY <1>1, <1>2, <3>1, <3>2, <4>1
      <4>4. Recent(m, v)
        BY <1>10, <1>11, <4>2, <4>3
      <4> QED BY <4>1, <4>4 DEF m, v, x
    <3>3. CASE ~(n < Capacity)
      <4>1. k = Capacity /\ e = t
        BY <1>1, <1>2, <2>2, <3>3 DEF Evict, t
      <4>2. ASSUME NEW i \in 1 .. k PROVE t[i].id = v[Len(v) - Len(t) + i]
        <5>1. Len(v) - Len(t) + i = off + i + 1
          <6>1. Len(v) = n + 1 /\ Len(t) = k
            BY <2>3, <3>1
          <6>2. (n + 1) - k + i = off + i + 1
            BY ONLY <1>2, <1>3, <4>2
          <6> QED BY <6>1, <6>2
        <5>2. CASE i = k
          <6>1. off + i + 1 = n + 1
            BY <1>3, <5>2
          <6>2. t[i].id = x
            BY <2>4, <5>2
          <6> QED BY <3>1, <5>1, <6>1, <6>2
        <5>3. CASE i # k
          BY <2>inner, <3>1, <5>1, <5>3
        <5> QED BY <5>2, <5>3
      <4>3. Len(t) = IF Len(v) < Capacity THEN Len(v) ELSE Capacity
        BY <1>1, <1>2, <2>3, <3>1, <3>3, <4>1
      <4>4. Recent(t, v)
        BY <1>11, <2>3, <4>2, <4>3
      <4> QED BY <1>7, <1>13, <4>1, <4>4 DEF m, v, x
    <3> QED BY <3>2, <3>3
  <2> QED BY <2>5, <2>6
<1> QED BY <1>12, <1>13

LEMMA UsesRecent ==
  ASSUME SinceInv, RecentInv, NEW t \in Task, NEW b \in BodyRecord,
         Uses(t, b, Evict(MoveToEnd(Cache(t), b)))
  PROVE  RecentInv'
<1> DEFINE n == calls[t].view
           c == Cache(t)
           cache == Evict(MoveToEnd(c, b))
           u == used[n]
           v == Append(Without(u, {i \in DOMAIN u : u[i] = b.id}), b.id)
<1>1. /\ n \in DOMAIN views /\ Len(used) = Len(views) /\ views \in Seq(ViewRecord) /\ n \in 1 .. Len(used)
      /\ used \in Seq(Seq(Node)) /\ c \in Seq(BodyRecord) /\ c = views[n].cache
  BY ViewOf, CacheOf DEF SinceInv, ViewTypeOK, Aligned, Cache
<1>2. u \in Seq(Node) /\ Recent(c, u)
  <2> HIDE DEF n, c
  <2> QED BY <1>1 DEF RecentInv
<1>3. Recent(cache, v)
  <2> HIDE DEF n, c, u
  <2> QED BY <1>1, <1>2, RecentMoves
<1>4. cache \in Seq(BodyRecord)
  <2> HIDE DEF c
  <2> QED BY <1>1, CacheTypes
<1>5. views' = [views EXCEPT ![n] = View(views[n].resident, cache)] /\ used' = [used EXCEPT ![n] = v]
  <2> HIDE DEF cache
  <2>1. Uses(t, b, cache)
    BY DEF cache
  <2> QED BY <1>1, <1>4, <2>1, UsesIs DEF SinceInv
<1> HIDE DEF n, c, cache, u, v
<1>6. /\ DOMAIN views' = DOMAIN views /\ views'[n].cache = cache /\ used'[n] = v
      /\ \A m \in DOMAIN views \ {n} : views'[m] = views[m] /\ used'[m] = used[m]
  <2>1. DOMAIN views = DOMAIN used
    BY <1>1
  <2> QED BY <1>1, <1>5, <2>1 DEF View
<1>7. ASSUME NEW m \in DOMAIN views' PROVE Recent(views'[m].cache, used'[m])
  <2>1. CASE m = n
    BY <1>3, <1>6, <2>1
  <2>2. CASE m # n
    BY <1>6, <2>2 DEF RecentInv
  <2> QED BY <2>1, <2>2
<1> QED BY <1>7 DEF RecentInv, Recent

LEMMA HitRecent ==
  ASSUME SinceInv, RecentInv, NEW t \in Task, Hit(t) PROVE RecentInv'
<1> DEFINE c == Cache(t)
<1>1. PICK i \in DOMAIN c : c[i].id = Wanted(t) /\ Uses(t, c[i], MoveToEnd(c, c[i]))
  BY DEF Hit
<1> DEFINE n == calls[t].view
           b == c[i]
<1>2. c \in Seq(BodyRecord) /\ b \in BodyRecord /\ c = views[n].cache /\ used[n] \in Seq(Node) /\ Recent(c, used[n])
  <2>1. /\ n \in DOMAIN views /\ n \in 1 .. Len(used) /\ used \in Seq(Seq(Node))
        /\ c \in Seq(BodyRecord) /\ b \in BodyRecord /\ c = views[n].cache
    BY <1>1, ViewOf, CacheOf DEF SinceInv, ViewTypeOK, Cache
  <2> HIDE DEF n, c, b
  <2> QED BY <2>1 DEF RecentInv
<1>3. Uses(t, b, MoveToEnd(c, b)) /\ \E j \in DOMAIN c : c[j].id = b.id
  BY <1>1
<1> HIDE DEF n, c, b
<1>4. Evict(MoveToEnd(c, b)) = MoveToEnd(c, b)
  BY <1>2, <1>3, RecentMoves
<1>5. Uses(t, b, Evict(MoveToEnd(c, b)))
  BY <1>3, <1>4
<1> QED BY <1>2, <1>5, UsesRecent DEF c

LEMMA ResumeRecent ==
  ASSUME SinceInv, RecentInv, NEW t \in Task, Resume(t) PROVE RecentInv'
<1> DEFINE b == Body(Wanted(t), calls[t].got)
<1>1. calls[t].get = "read" /\ calls[t] \in Call
  BY ViewOf DEF Resume
<1>2. Wanted(t) \in Node /\ calls[t].got \in Version
  BY <1>1, WantedType DEF SinceInv, Aligned, Call
<1>3. b \in BodyRecord
  BY <1>2 DEF Body, BodyRecord
<1>4. UNCHANGED <<views, used>> \/ Uses(t, b, Evict(MoveToEnd(Cache(t), b)))
  BY DEF Resume
<1> HIDE DEF b
<1>5. CASE UNCHANGED <<views, used>>
  BY <1>5 DEF RecentInv, Recent
<1> QED BY <1>3, <1>4, <1>5, UsesRecent

LEMMA RefreshedRecent ==
  ASSUME SinceInv, RecentInv, Refreshed PROVE RecentInv'
<1> DEFINE w == View(folding.resident, << >>)
<1>1. views' = Append(views, w) /\ used' = Append(used, << >>) /\ w.cache = << >>
  BY DEF Refreshed, NewCache, View
<1> HIDE DEF w
<1>2. views \in Seq(ViewRecord) /\ used \in Seq(Seq(Node)) /\ Len(used) = Len(views) /\ Len(views) \in Nat
  BY DEF SinceInv, ViewTypeOK, Aligned
<1>3. /\ DOMAIN views' = 1 .. Len(views) + 1 /\ views'[Len(views) + 1] = w /\ used'[Len(views) + 1] = << >>
      /\ \A n \in 1 .. Len(views) : views'[n] = views[n] /\ used'[n] = used[n]
  BY <1>1, <1>2
<1>4. Recent(<< >>, << >>)
  BY ViewAssumption DEF Recent
<1>5. ASSUME NEW n \in DOMAIN views' PROVE Recent(views'[n].cache, used'[n])
  <2>1. CASE n = Len(views) + 1
    BY <1>1, <1>3, <1>4, <2>1
  <2>2. CASE n # Len(views) + 1
    <3>1. n \in 1 .. Len(views) /\ n \in DOMAIN views
      BY <1>2, <1>3, <2>2
    <3> QED BY <1>3, <3>1 DEF RecentInv
  <2> QED BY <2>1, <2>2
<1> QED BY <1>5 DEF RecentInv, Recent

LEMMA RecentStep ==
  ASSUME SinceInv, RecentInv, [ViewNext]_viewVars PROVE RecentInv'
<1>1. CASE UNCHANGED <<views, used>>
  BY <1>1 DEF RecentInv, Recent
<1>2. CASE \E t \in Task : Hit(t) \/ Resume(t)
  BY <1>2, HitRecent, ResumeRecent
<1>3. CASE Refreshed
  BY <1>3, RefreshedRecent
<1> QED BY <1>1, <1>2, <1>3
        DEF ViewNext, viewVars, hydration, Ask, Render, Hydrate, Pinned, Miss, Read, Write, Refresh, ReadBody

LEMMA RecentInit == ViewInit => RecentInv
<1> SUFFICES ASSUME ViewInit PROVE RecentInv
  OBVIOUS
<1>1. Recent(<< >>, << >>)
  BY ViewAssumption DEF Recent
<1>2. DOMAIN views = {1} /\ views[1].cache = << >> /\ used[1] = << >>
  BY DEF ViewInit, View
<1> QED BY <1>1, <1>2 DEF RecentInv

LEMMA RecentIsEnough ==
  ASSUME SinceInv, RecentInv PROVE LruHoldsRecent
<1> SUFFICES ASSUME NEW n \in DOMAIN views
             PROVE  LET last == Min({Capacity, Len(used[n])})
                    IN  [i \in DOMAIN views[n].cache |-> views[n].cache[i].id]
                          = SubSeq(used[n], Len(used[n]) - last + 1, Len(used[n]))
  BY DEF LruHoldsRecent
<1> DEFINE c == views[n].cache
           u == used[n]
           last == Min({Capacity, Len(u)})
           ids == [i \in DOMAIN c |-> c[i].id]
           s == SubSeq(u, Len(u) - last + 1, Len(u))
<1>1. c \in Seq(BodyRecord) /\ u \in Seq(Node) /\ Recent(c, u)
  <2>1. /\ Len(used) = Len(views) /\ views \in Seq(ViewRecord) /\ used \in Seq(Seq(Node))
    BY DEF SinceInv, ViewTypeOK, Aligned
  <2>2. views[n] \in ViewRecord /\ n \in DOMAIN used
    BY <2>1
  <2>3. used[n] \in Seq(Node)
    BY <2>1, <2>2
  <2> QED BY <2>2, <2>3 DEF ViewRecord, RecentInv
<1> HIDE DEF c, u
<1>2. last = Len(c) /\ Len(c) \in Nat /\ Len(u) \in Nat /\ Len(c) <= Len(u)
  <2>1. Len(c) \in Nat /\ Len(u) \in Nat /\ Capacity \in Nat
    BY <1>1, ViewAssumption
  <2>2. Len(c) \in {Capacity, Len(u)} /\ \A y \in {Capacity, Len(u)} : Len(c) <= y
    BY <1>1, <2>1 DEF Recent
  <2>3. last \in {Capacity, Len(u)} /\ \A y \in {Capacity, Len(u)} : last <= y
    BY <2>2 DEF Min
  <2> HIDE DEF last
  <2> QED BY <2>1, <2>2, <2>3
<1> HIDE DEF last
<1>3. s \in Seq(Node) /\ Len(s) = Len(c) /\ \A i \in 1 .. Len(c) : s[i] = u[Len(u) - Len(c) + i]
  <2> DEFINE lo == Len(u) - Len(c) + 1
  <2>1. lo \in Int /\ Len(u) \in Int /\ \A i \in lo .. Len(u) : i \in 1 .. Len(u)
    BY <1>2
  <2>2. \A i \in lo .. Len(u) : u[i] \in Node
    BY <1>1, <2>1
  <2>3. /\ SubSeq(u, lo, Len(u)) \in Seq(Node)
        /\ Len(SubSeq(u, lo, Len(u))) = IF lo <= Len(u) THEN Len(u) - lo + 1 ELSE 0
        /\ \A i \in 1 .. Len(u) - lo + 1 : SubSeq(u, lo, Len(u))[i] = u[lo + i - 1]
    <3> HIDE DEF lo
    <3> QED BY <2>1, <2>2, SubSeqProperties
  <2>4. s = SubSeq(u, lo, Len(u)) /\ Len(u) - lo + 1 = Len(c) /\ (lo <= Len(u) <=> Len(c) > 0)
    BY <1>2
  <2>5. \A i \in 1 .. Len(c) : lo + i - 1 = Len(u) - Len(c) + i
    BY <1>2
  <2> HIDE DEF lo, s
  <2> QED BY <1>2, <2>3, <2>4, <2>5
<1> HIDE DEF s
<1>4. DOMAIN c = 1 .. Len(c) /\ \A i \in DOMAIN c : c[i].id = u[Len(u) - Len(c) + i]
  BY <1>1 DEF Recent
<1>5. ids = s
  <2>1. ids = [i \in 1 .. Len(c) |-> c[i].id] /\ s = [i \in 1 .. Len(c) |-> s[i]]
    BY <1>3, <1>4
  <2> QED BY <1>3, <1>4, <2>1
<1> QED BY <1>5 DEF ids, s, last, c, u

LruInv == ViewInv /\ RecentInv

\* Also when two tasks miss one id at once, or a refresh runs between a get and its
\* return: the cache of each view holds the nodes hydrated through it most recently, as
\* many as its capacity allows, in the order of their last use, none of them twice.
THEOREM LruIsRecent == ViewSpec => []LruHoldsRecent
<1>1. ViewInit => LruInv
  BY SinceInit, QueryTypeInit, RecentInit DEF ViewInit, LruInv, ViewInv
<1>2. LruInv /\ [ViewNext]_viewVars => LruInv'
  BY SinceStep, ViewSteps, QueryTypeStep, RecentStep DEF LruInv, ViewInv
<1>3. LruInv => LruHoldsRecent
  BY RecentIsEnough DEF LruInv, ViewInv
<1> QED BY <1>1, <1>2, <1>3, PTL DEF ViewSpec
=============================================================================
