----------------------------- MODULE Projection -----------------------------
(***************************************************************************)
(* vella-graph's projections of a tenant's log.  A pulled view (fold, then *)
(* refresh) drains the stream to the live edge, reads every live entity    *)
(* with get, and swaps in a new index; a follower does the same and then   *)
(* carries the parked pull over the live edge to keep its index current.   *)
(*                                                                         *)
(* What a view holds of an entity is named by the log position of the      *)
(* write it comes from, 0 for nothing.  The stream delivers the log in     *)
(* order without gaps (ObserveStream), so it is a position here.           *)
(***************************************************************************)
EXTENDS Naturals, Sequences

CONSTANTS
  Id,         \* the entities of the projected tenant
  Edge,       \* those that are edges: only they can be unlinked
  View,       \* independent projections of the same log
  MaxLog,     \* bound: entries the log may hold
  MaxOpen     \* bound: times each view opens a stream

ASSUME ProjectionAssumption == Edge \subseteq Id

VARIABLES
  log,       \* the runtime's log: entity and what happened to it
  entity,    \* what get returns
  pc,        \* of each view: idle, draining, reading or parked
  pull,      \* its pending __anext__: none, started, parked or got an entry
  pos,       \* entries its stream has handed to it
  base,      \* position its accumulator was seeded at
  live,      \* _FoldState.live_nodes and live_edges
  todo,      \* live ids the authority pass has still to get
  found,     \* what it got
  index,     \* the view's index and resident bodies
  high,      \* the view's high_water
  caughtUp,  \* GraphFollower.caught_up
  followed,  \* the views a GraphFollower keeps current, fixed from the start
  opens      \* streams opened so far, for the bound

runtime == <<log, entity>>
stream == <<pc, pull, pos>>
pass == <<base, live, todo, found>>
view == <<index, high, caughtUp>>
setup == <<followed, opens>>
vars == <<runtime, stream, pass, view, setup>>

Init ==
  /\ log = << >> /\ entity = [i \in Id |-> 0]
  /\ pc = [v \in View |-> "idle"] /\ pull = [v \in View |-> "none"]
  /\ pos = [v \in View |-> 0] /\ base = [v \in View |-> 0]
  /\ live = [v \in View |-> {}] /\ todo = [v \in View |-> {}]
  /\ found = [v \in View |-> [i \in Id |-> 0]]
  /\ index = [v \in View |-> [i \in Id |-> 0]]
  /\ high = [v \in View |-> 0] /\ caughtUp = [v \in View |-> FALSE]
  /\ followed \in SUBSET View /\ opens = [v \in View |-> 0]

----------------------------------------------------------------------------
(* The runtime's writers, as far as a projection sees them.                *)

Logged(i, op) ==
  /\ Len(log) < MaxLog
  /\ log' = Append(log, [id |-> i, op |-> op])
  /\ UNCHANGED <<stream, pass, view, setup>>

\* create, link, edit, set_desired or upsert.
Put(i) == Logged(i, "put") /\ entity' = [entity EXCEPT ![i] = Len(log) + 1]

Delete(i) ==
  /\ entity[i] # 0
  /\ Logged(i, "delete") /\ entity' = [entity EXCEPT ![i] = 0]

\* An unlinked edge is still what get returns.
Unlink(i) ==
  /\ i \in Edge /\ entity[i] # 0
  /\ Logged(i, "unlink") /\ UNCHANGED entity

\* Telemetry, or an entry of another tenant.
Other(i) == Logged(i, "other") /\ UNCHANGED entity

----------------------------------------------------------------------------
(* Bugs for the mutation runs: an accumulator that is not seeded, an edge  *)
(* declared before the pull has run, a wakeup that never comes, an Event   *)
(* that a new batch leaves set.                                            *)

SeedEmpty(v) == {}

EdgeUnprobed(v) == pc[v] = "draining" /\ pull[v] \in {"started", "parked"}

NothingNew(v) == FALSE

NeverCleared(v) == UNCHANGED caughtUp

----------------------------------------------------------------------------
(* The fold.                                                               *)

\* _FoldState.apply to the next entry.
AfterNext(v, ids) ==
  LET e == log[pos[v] + 1]
  IN  CASE e.op = "put" -> ids \cup {e.id}
        [] e.op \in {"delete", "unlink"} -> ids \ {e.id}
        [] OTHER -> ids

\* seed_state from the current index.
Seed(v) == {i \in Id : index[v][i] # 0}

\* fold and refresh observe from the view's high_water; a follower's run()
\* observes from the start, whatever its index already holds.
Open(v) ==
  LET since == IF v \in followed THEN 0 ELSE high[v]
  IN  /\ pc[v] = "idle" /\ opens[v] < MaxOpen
      /\ pc' = [pc EXCEPT ![v] = "draining"] /\ pull' = [pull EXCEPT ![v] = "started"]
      /\ pos' = [pos EXCEPT ![v] = since] /\ base' = [base EXCEPT ![v] = since]
      /\ live' = [live EXCEPT ![v] = Seed(v)]
      /\ opens' = [opens EXCEPT ![v] = @ + 1]
      /\ UNCHANGED <<runtime, todo, found, view, followed>>

\* The fetch task runs before the drain resumes from its bare yield.
PullRuns(v) ==
  /\ pull[v] = "started"
  /\ pull' = [pull EXCEPT ![v] = IF pos[v] < Len(log) THEN "got" ELSE "parked"]
  /\ UNCHANGED <<runtime, pc, pos, pass, view, setup>>

\* An entry appended while the pull is parked resolves it.
Arrived(v) == pos[v] < Len(log)

PullWakes(v) ==
  /\ pull[v] = "parked" /\ Arrived(v)
  /\ pull' = [pull EXCEPT ![v] = "got"]
  /\ UNCHANGED <<runtime, pc, pos, pass, view, setup>>

Take(v, ids) ==
  /\ pos' = [pos EXCEPT ![v] = @ + 1]
  /\ live' = [live EXCEPT ![v] = AfterNext(v, ids)]
  /\ pull' = [pull EXCEPT ![v] = "started"]

Drain(v) ==
  /\ pc[v] = "draining" /\ pull[v] = "got"
  /\ Take(v, live[v])
  /\ UNCHANGED <<runtime, pc, base, todo, found, view, setup>>

\* The pull has run and its entry is not there when the drain resumes.
AtEdge(v) == pc[v] = "draining" /\ pull[v] = "parked"

Drained(v) == pos[v] # base[v]

\* A one-shot drain drops its pull and its stream.  The authority pass begins,
\* except that a follower whose batch is empty keeps its index.
LiveEdge(v) ==
  /\ AtEdge(v)
  /\ v \in followed => Drained(v)
  /\ pc' = [pc EXCEPT ![v] = "reading"]
  /\ pull' = [pull EXCEPT ![v] = IF v \in followed THEN @ ELSE "none"]
  /\ todo' = [todo EXCEPT ![v] = live[v]]
  /\ found' = [found EXCEPT ![v] = [i \in Id |-> 0]]
  /\ UNCHANGED <<runtime, pos, base, live, view, setup>>

Signal(v) == caughtUp' = [caughtUp EXCEPT ![v] = TRUE]

EmptyEdge(v) ==
  /\ AtEdge(v) /\ v \in followed /\ ~Drained(v)
  /\ pc' = [pc EXCEPT ![v] = "parked"]
  /\ Signal(v)
  /\ UNCHANGED <<runtime, pull, pos, pass, index, high, setup>>

\* authority_pass: one get per live id, edges before nodes.  A store may suspend
\* in each get, so writes come between them.
Read(v, i) ==
  /\ pc[v] = "reading" /\ i \in todo[v]
  /\ todo[v] \cap Edge # {} => i \in Edge
  /\ found' = [found EXCEPT ![v][i] = entity[i]]
  /\ todo' = [todo EXCEPT ![v] = @ \ {i}]
  /\ UNCHANGED <<runtime, stream, base, live, view, setup>>

\* apply_delta and the new view.
NewIndex(v) == found[v]

Swap(v) ==
  /\ pc[v] = "reading" /\ todo[v] = {}
  /\ index' = [index EXCEPT ![v] = NewIndex(v)]
  /\ high' = [high EXCEPT ![v] = pos[v]]
  /\ IF v \in followed
       THEN pc' = [pc EXCEPT ![v] = "parked"] /\ Signal(v)
       ELSE pc' = [pc EXCEPT ![v] = "idle"] /\ UNCHANGED caughtUp
  /\ UNCHANGED <<runtime, pull, pos, pass, setup>>

\* The carried pull delivers: a fresh batch begins with its entry.
Clear(v) == caughtUp' = [caughtUp EXCEPT ![v] = FALSE]

PickUp(v) ==
  /\ pc[v] = "parked" /\ pull[v] = "got"
  /\ pc' = [pc EXCEPT ![v] = "draining"]
  /\ base' = [base EXCEPT ![v] = pos[v]]
  /\ Take(v, Seed(v))
  /\ Clear(v)
  /\ UNCHANGED <<runtime, todo, found, index, high, setup>>

\* aclose, run() returning, or a cancelled fold or refresh: the view it already
\* gave out, and a set Event, remain.
Close(v) ==
  /\ pc[v] # "idle"
  /\ pc' = [pc EXCEPT ![v] = "idle"] /\ pull' = [pull EXCEPT ![v] = "none"]
  /\ live' = [live EXCEPT ![v] = {}] /\ todo' = [todo EXCEPT ![v] = {}]
  /\ UNCHANGED <<runtime, pos, base, found, view, setup>>

----------------------------------------------------------------------------

Write == \E i \in Id : Put(i) \/ Delete(i) \/ Unlink(i) \/ Other(i)

Progress(v) ==
  \/ PullRuns(v) \/ PullWakes(v) \/ Drain(v) \/ LiveEdge(v) \/ EmptyEdge(v)
  \/ Swap(v) \/ PickUp(v) \/ \E i \in Id : Read(v, i)

Next == Write \/ \E v \in View : Progress(v) \/ Open(v) \/ Close(v)

\* The event loop runs a view's tasks and gets return.
Spec == Init /\ [][Next]_vars
FairSpec == Spec /\ \A v \in View : WF_vars(Progress(v))

----------------------------------------------------------------------------
(* Properties.                                                             *)

TypeOK ==
  /\ log \in Seq([id : Id, op : {"put", "delete", "unlink", "other"}])
  /\ entity \in [Id -> Nat]
  /\ pc \in [View -> {"idle", "draining", "reading", "parked"}]
  /\ pull \in [View -> {"none", "started", "parked", "got"}]
  /\ pos \in [View -> Nat] /\ base \in [View -> Nat]
  /\ live \in [View -> SUBSET Id] /\ todo \in [View -> SUBSET Id]
  /\ found \in [View -> [Id -> Nat]] /\ index \in [View -> [Id -> Nat]]
  /\ high \in [View -> Nat] /\ caughtUp \in [View -> BOOLEAN]
  /\ followed \subseteq View /\ opens \in [View -> Nat]

Is(n, i, ops) == log[n].id = i /\ log[n].op \in ops

\* Replaying the first n entries leaves i live.
Tracked(i, n) ==
  \E m \in 1 .. n : /\ Is(m, i, {"put"})
                    /\ \A k \in m + 1 .. n : ~Is(k, i, {"delete", "unlink"})

\* What entry p wrote is what get returned at n or later.
Current(i, p, n) ==
  /\ p \in 1 .. Len(log) /\ Is(p, i, {"put"})
  /\ \A k \in p + 1 .. n : ~Is(k, i, {"put", "delete"})

DeletedAfter(i, n) == \E k \in n + 1 .. Len(log) : Is(k, i, {"delete"})

\* A view agrees with a fresh fold of the log up to its cursor, except that what
\* it read with get may already be newer: every entity the replay leaves live is
\* held no older than the cursor, or was deleted since, and nothing else is held.
\* It makes a refresh equal to a cold fold, and holds across batches, restarts
\* of a follower, and writes between the gets of one pass.
Agrees(held, n) ==
  \A i \in Id :
    IF Tracked(i, n)
    THEN IF held[i] = 0 THEN DeletedAfter(i, n) ELSE Current(i, held[i], n)
    ELSE held[i] = 0

ViewAgreesWithLog == \A v \in View : Agrees(index[v], high[v])

\* A follower signals quiescence only over a view that has every entry its stream
\* handed to it, for as long as its run() lasts.
QuiescentViewIsApplied ==
  \A v \in followed : (pc[v] # "idle" /\ opens[v] = 1 /\ caughtUp[v]) => high[v] = pos[v]

\* No pass, not even a second run() that replays from the start, moves a view's
\* cursor back.
CursorNeverRegresses == [][\A v \in View : high'[v] >= high[v]]_vars

\* A follower that is left running folds every logged entry into its view.
FollowerCatchesUp ==
  \A v \in View, n \in 1 .. MaxLog :
    (v \in followed /\ pc[v] # "idle" /\ Len(log) >= n)
      ~> (pc[v] = "idle" \/ high[v] >= n)
=============================================================================
