# Verification of vella

vella keeps the state of a multi-tenant system as a graph of *nodes* and *edges*
recorded in an append-only log.  This directory holds TLA+ models of its five
packages, the TLC configurations that check them on small instances, and
theorems about them that TLAPS checks for every instance.

Paths below are relative to `src/packages/`; `runtime.py` is short for
`vella-runtime/src/vella/runtime/runtime.py`, and so on.

1. [The system](#1-the-system)
2. [The modules](#2-the-modules-and-the-code)
3. [What the runs check](#3-what-the-runs-check)
4. [Fairness](#4-fairness)
5. [What is proved](#5-what-is-proved)
6. [Where code and documents disagree](#6-where-code-and-documents-disagree)
7. [What is not modelled](#7-what-is-not-modelled)
8. [Plan](#8-plan)

## 1. The system

All concurrency is that of one `asyncio` event loop: tasks are switched at
`await`s and nowhere else.  Persistence is the log; everything else in memory is
lost with the process.

| part | state it keeps | operations | talks to |
|---|---|---|---|
| Runtime verbs (`runtime.py`) | none | `create` `edit` `set_desired` `upsert` `delete` `link` `unlink` `emit_telemetry` `get` `history` `observe` | one store transaction per verb |
| In-memory store (`_inmemory.py`) | the log, the state table, the binding index, a queue per observer | `transaction` (one lock), `append`, `get`, `find_by_binding`, `observe` | fans appends out to observers |
| Reconciler (`reconciler.py`, `workset.py`, `deadletter.py`, `cursor_store.py`) | work queue with its guard set, attempts, retry timers, resume cursor, dead letters | `run` `step` `drain`; tasks: watch, worker, resync ticker, one timer per backing-off key | observes the runtime; handlers write through it |
| Graph projection (`_fold.py`, `_drain.py`, `_refresh.py`, `_index.py`) | an immutable index with a high-water cursor | `fold_graph`, `refresh` | drains `observe`, point `get`s |
| Graph follower (`follower.py`) | the same, an Event `caught_up`, a watch task with a parked pull | `run` `aclose` | as above, for as long as it runs |
| Graph queries (`_query.py`, `_weighted.py`, `_motif.py`) | none | `bfs` `dfs` `reachable` `shortest_path` `dijkstra` `match` | read one index |
| Agent loop (`interpreter.py`, `_writeback.py`, `policy.py`) | run, steps, messages, traces and tool calls, all of them nodes of the runtime; a frame per activation in memory | `run` | context assembly, provider, tool invoker; writes through the runtime |
| Sub-agents (`_subagent.py`) | the links between runs | gate, spawn, recursion | the loop |
| Context assembly (`graph_assembler.py`) | summaries, as nodes of the runtime | `assemble` | folds a view of the run |
| Tool invokers (`invoker.py`, `adapters/mcp_invoker.py`) | none | `invoke` with retries and backoff | the loop, the clock |
| Provider seam (`provider.py`, `_assembler.py`, `mock_provider.py`, `adapters/openrouter.py`) | the mock's cursor; per turn, the blocks opened and their buffers | `turn`, `feed`, `finish` | the loop; a server that streams chunks |
| View and hydration (`view.py`, `_hydrate.py`) | an LRU of bodies in lean mode | query methods, `hydrate` | the index, the runtime |
| Clocks (`clock.py`, three copies) | virtual time and sleepers | `sleep`, `advance` | reconciler, follower, invokers |
| Core models and ids (`vella-core`) | the uuid7 generator's millisecond and counter | construct, evolve, parse | every package |

What is hard about each, and what makes it correct:

* **Verbs and store.** Clients edit from what they read earlier.  The version
  check must lose no write; the state table must stay a fold of the log; upsert
  must find what has its binding although its index is never cleaned; what was deleted must
  not come back.
* **observe.** The seam between replay and live entries: an append in between is
  in the slice, in the queue or in both.  A consumer may stop between taking an
  entry and saving its cursor.
* **Reconciler.** Fold, worker, timers, resync and drain touch one queue; keys
  are written while they are dispatched; retries race writes; teardown drops
  timers.  No change may be forgotten, idle must mean quiet, `run()` must end.
* **Projection.** Writes fall between the `get`s of one authority pass; batches
  replay entries whose effect is already held; a follower is cancelled and run
  again from the start.  A view must always be a fold of the log up to its cursor.
* **Queries.** Ties, cycles, parallel edges, self-loops, dangling endpoints, and
  bounds compared at one step and marked at another.
* **Agent loop.** A run is resumed by another process from what was written;
  exceptions, crashes and cancellations at any await; recursion into sub-agents.
  Budgets must hold over all segments together, the tree of runs must stay bounded.
* **Context assembly.** A summary is looked for in a view and then written in two
  steps, while other drivers of the run do the same and messages arrive in any order
  of their ids.  A compacted context must account for every message, and repeated
  assembly must find the summary it wrote.
* **View and hydration.** A hydration awaits one `get` after the other while others
  edit and delete the nodes, hydrate through the same cache, and refresh the view.
  What a view gives may be old, but no older than its fold; the cache must stay an LRU.
* **Provider seam.** One turn arrives as interleaved fragments of several blocks, cut
  anywhere, and may end early or break.  The turn must be what was sent, or a part of
  it nobody can mistake for the arguments of another call.
* **Tool invokers and clock.** Retries of several invocations sleep on one clock; an
  attempt may fail at opening, calling or closing, and is cancelled at any await.  One
  result, of the last attempt; wake-ups in order; nobody left asleep.
* **Ids.** Threads share a counter; the clock stands still, goes back, and reaches a
  millisecond the counter already borrowed.  Ids must follow the order of the calls.

## 2. The modules and the code

| module | models | composed or extended by |
|---|---|---|
| `Store` | the verbs over the in-memory store | `MCStore`, `StoreProofs` |
| `EntityMap` | abstract: what `get` promises | instanced by `Store` |
| `ObserveStream` | `InMemoryStore.observe` and its consumers | `MCObserve`, `StreamProofs` |
| `Reconciler` | the control loop, its work set, dead letters and cursor | `MCReconciler`, `ReconcilerProofs` |
| `Projection` | fold, refresh and follower | `MCProjection`, `ProjectionProofs` |
| `Interpreter` | the agent loop, its resume and its sub-agents | `MCInterpreter`, `InterpreterProofs` |
| `GraphQuery` | the queries over an index | `GraphView` |
| `GraphView` | what a view renders of the answers: full and lean hydration, `refresh` | `MCGraphQuery`, `GraphProofs` |
| `ContextAssembly` | which messages a turn sees, and the summaries | `MCContext`, `SeamProofs` |
| `ProviderStream` | the events of a turn, their fold, the two providers | `MCContext`, `SeamProofs` |
| `ManualClock` | the deterministic clock of the three packages | `ToolRetry` |
| `ToolRetry` | `invoke` of both invokers: attempts, backoff, cancellation | `MCContext`, `SeamProofs` |
| `Uuid7` | the id generator under its lock | `MCContext`, `SeamProofs` |
| `Induction` | no code: induction and recursion on the naturals, as facts about sets and functions | `GraphProofs`, `InterpreterProofs`, `SeamProofs` |

`PROJECT.json` maps each definition to the lines it stands for.  Definitions
under "Bugs for the mutation runs" are plausible mistakes in the definition of a
similar name; no specification uses them.

**`Store`.** `log`, `state` and `bindings` are the fields of `_Index`; `seen` is
what each client last read.  A verb holds the store's lock from its read to its
append, so a verb is one action: `Create`, `Link`, `Edit`, `SetDesired`,
`UpsertNew`, `UpsertExisting`, `Delete`, `Unlink`, `EmitTelemetry`, `Get`, and
`Conflict` for an edit whose version check fails.  All of them append through
`AppendEntry`, which is `_append`: stamp, fold, register bindings.  The position
of the telemetry entries, the tombstone rule and the never-cleaned binding index
are the code's.  `desired`, `current` and the data of an entity are one value.
`UpsertNew` appends the entity its caller supplies as it is: an `UpsertCall` names
the tenant and binding looked up and, apart from them, the tenant and the bindings of
that entity.  What callers pass to any verb is at version 1, core's default.

**`EntityMap`.** An entity appears at version 1, is revised one version at a
time, and once removed never returns.  `Store` implements it under
`VisibleEntity` (what `get` answers) and `RemovedEntities`.

**`ObserveStream`.** The log is its length; an entry is its offset.  Each
consumer drives a generator through `created`, `backlog` and `live`; `ids` is
`backlog_ids`, the set by which the live phase skips what the slice had.  `Save`
and `Close` are the consumer's: a stream is closed, cancelled or lost at any
point and opened again at the saved cursor.

**`Reconciler`.** The runtime is its log and, per key, whether the entity is
absent, settled or drifting.  Every await on a seam (runtime, handler, stores,
clock) is a boundary between actions; steps without one between them are one
action.  Delays are abstracted: a timer or ticker may wake whenever it likes.  A
handler is a client as any other (`HandlerWrites` is an `Edit`): before it returns,
fails, conflicts or asks for a requeue it may create, change or delete any entity, any
number of times, and leave it drifting; a `Converging` one edits its own entity once, to
its target, and returns `done`.  `Stop` is
`max_steps` and any cancellation of `run()`.  The dead-letter store is absent, the
in-memory one, or one that suspends, which opens an interleaving in the resync
pass (`CanSwitch`).  `StreamSurvives` says whether cancelling a parked pull leaves
the stream usable: with the repository's own store it does not.  When it is `TRUE`,
the stream may survive or end.

**`Projection`.** What a view holds of an entity is named by the log position of
the write it comes from.  `PullRuns`, `Arrived`, `Take` and `AtEdge` are the
bounded drain with its one-turn probe; `Read` is one `get` of the authority pass,
so writes fall between reads; `Swap` installs the index.  A pulled view opens a new
stream for every refresh; a follower carries its parked pull over the edge.
`followed` is chosen at the start and covers both.

**`Interpreter`.** `frame[r]` is one activation of `run()` on node r; `policy`,
`parent`, `status`, `steps` and `tokens` are what the runtime holds.  `Raise` ends
a frame at any await and stands for exceptions, cancelled tasks and crashes alike:
they leave behind what was written.  `Start` drives any run at any time, so a run
is resumed after whatever ended its last segment.  What the provider answers is any
of `Turn`; a tool use is good, the stop tool, a spawn or one the policy refuses.
A run is never driven by two frames at once; the code does not prevent it, and two
frames on one run could exceed the fanout (`spawn_child` does not check the gate
again, although its docstring says so).

**`GraphQuery`.** A query awaits nothing and its index does not change, so an
action is one pass of the loop over its deque, stack, heap or list of prefixes.
Ids are naturals in the order of their strings, weights naturals.  `EdgeWeight` is the
caller's override, by edge, or the weight the fold read.

**`GraphView`.** A query that hydrates goes on, when its loop has an answer, with
`Render`: the ids, with the edge each is rendered with (`CarriedEdge`,
`NeighborRecords`).  Then each task hydrates id after id: `Pinned` reads what a full
view's fold kept; `Hit`, or `Miss`, `Read` and `Resume`, are the lean view, whose `get`
is called, reads and returns at three moments, as it may over a store that suspends.
`Write` edits or deletes a node, `Refresh`, `ReadBody` and `Refreshed` make a new view
`get` by `get`; callers go on using the old one.  `held` and `used` are history: the
states each node has had since a view's fold began, and the order of the last uses.

**`ContextAssembly`.** Any number of drivers assemble contexts of one run.  An
assembly that writes nothing is one action, `Assemble`: messages are never edited or
deleted, so what it reads after its fold is what the fold saw.  One that finds no
summary keeps its `view` from `Perceive` over `CreateSummary` to `LinkSummary`, and
may die in between (`Crash`).  A message is a role and an id; the token count of the
code is the length of the text, here one unit for the roles in `Spoken`; the text of a
summary is the list of the roles it stands for.  `covers` and `by` are what no node
records: which messages a summary was made of, and by whom.

**`ProviderStream`.** `Feed` and `Finish` are the assembler: it never looks at a block's
stop, and parses the arguments of the calls at the end.  `Yield` is one turn of the loop
in `drain`: an event is taken from the provider and fed.  `Ask` is the mock, whose script
is lowered to the list of its events (`TurnEvents`): each stamped with its place in the
loops of `_turn_events` and listed in the order of the stamps (`Listing`).  `Chunk` is one
chunk of the server: the next piece of any of its channels, the finish reason with or
after the last, the usage after that; its events are fed before the next chunk is awaited.
`StreamEnds` covers `[DONE]` and an end without it, `StreamBreaks` what raises.  A text is
a sequence of tokens; the JSON of a call ends with the token 0 and has it nowhere else,
so a cut one does not parse.  The usage of a turn is one number.

**`ManualClock` and `ToolRetry`.** `vella-reconciler`, `vella-graph` and `vella-agent`
each have a `clock.py` with the same code; the definitions are mapped to one of them.
`Advance` resolves what is due, `Runs` lets the next woken task run, `CancelSleep`
marks the future of a cancelled sleeper.  An invocation goes through `opening`,
`calling` and `closing` of a session (a builtin only calls) and sleeps between
attempts; `AttemptEnds` is the rest of the loop's body.

**`Uuid7`.** A thread enters, takes its timestamp and counter under the lock
(`TakeId`), and returns the id it built outside it.  `earlier` is history: what had
been returned when the call began.

`MCContext` explores the four small seams of a turn - assembly, provider, tools, ids -
in one instance.  They share no state, so a behaviour chooses one and leaves the
others in their initial states.

## 3. What the runs check

| run | instance | distinct states |
|---|---|---|
| `store` | 2 tenants, 2 ids, 2 bindings, 2 values, 2 clients, 3 log entries; symmetric in all | 59 thousand |
| `store_unlink` | 1 tenant, 1 client, 4 entries | violation |
| `observe` | 2 consumers, 4 entries, each opens twice | 107 thousand |
| `reconcile` | 2 keys, one converging; 2 attempts, 1 immediate retry, in-memory dead letters, a stream that ends or survives; 2 writes of clients or handlers, 1 run, 2 sweeps, 1 drain | 382 thousand |
| `reconcile_idle`, `reconcile_watch` | 2 keys, 2 runs; 2 keys, 1 run | violation |
| `projection` | a node and an edge, one view of either kind; 3 entries, 2 streams | 53 thousand |
| `interpret` | root and 2 spare runs; 3 policies, 6 answers; backstop 2, 2 starts, 1 cancel | 258 thousand |
| `interpret_replan` | the same | violation |
| `graph` | 28 queries over 256 graphs on 6 nodes; 4 of them hydrate on one graph, beside another reader: capacity 2, one node edited once or deleted, 2 views | 183 thousand |
| `graph_dfs` | the same | violation |
| `context` | assembly: 2 drivers, 3 messages of 2 roles, 3 summaries; tail of 1; 3 policies, cached or not | 499 thousand |
| | provider: scripts of up to 3 of 4 blocks, with and without interleaving; 4 responses of up to 2 texts and 2 calls, in any chunks | |
| | tools: 2 invocations of 4 tools with up to 3 attempts; clock steps 0, 1 and 3 | |
| | ids: 3 threads, a counter of 2 values, 3 milliseconds | |

Deadlock is not checked where the bounds, or the end of a run or query, really
stop the system.

**`store`.** `StateIsFold`: each row of the state table is the last write of its
key, tombstoned exactly by a delete.  `NoLostUpdate`: when a client's version is
still current, so are the contents it read - with every other verb in between.
`BindingIdentifiesOne`: at most one live entity of a tenant carries a binding and
the index leads to it.  `ImplementsEntityMap`: the refinement.  Three entries are
enough for read, interfering write, edit, and for create, delete, re-creation by
upsert; two tenants share ids and bindings.  Two assumptions are named: callers mint
fresh ids (`ReuseIds = FALSE`; `create` does not look), and `OnlyUpsertBinds`, on
which `BindingIdentifiesOne` alone depends: an entity gets a binding only by being
upserted under it, in its own tenant.  The instance makes every call that allows,
entities that lack the looked-up binding or belong to another tenant included.  The
runtime checks none of it: `create`, `edit` and the updates of `upsert` take any
bindings, and an entity supplied with a second binding, or for another tenant, becomes
a second carrier (TLC finds it with two upserts).  `_discovery.py:95-104`, the one
caller of `upsert` among the packages, builds its entity with the looked-up binding
and tenant, as the assumption asks.

**`observe`.** `DeliveredInOrder`: what a stream has yielded is a gapless run of
offsets from its cursor.  `NothingLost`: the unread slice and the queue are
together the rest of the log.  `ResumeLosesNothing`: over all openings a consumer
that saves after handling has handled every entry up to its cursor.
`EventuallyDelivered`: a consumer that keeps asking gets every entry after its cursor,
those of its backlog and those appended while it replays or is live.  Four entries
put appends before the slice, in it, and after it, for a stream opened in the
middle; two openings are one resume.

**`reconcile`.** `QueueGuarded`: the guard set is the
queue and a key is queued once.  `NothingForgotten`: a folded change no dispatch
has dealt with has its key queued, in flight or on a timer.  `FirstIdleIsQuiet` and
`ConvergedWhenIdle`: when the first `run()` returns by itself, all that was logged
before it began has been dealt with and, under converging handlers, nothing drifts
but what was written since or has a dead letter, drained back into the work set or
not.  `RunReturns`: whatever verdicts the handlers give, `run()` ends once its inputs do.
That condition is a formula, `InputsEnd`: from some point on there is no write but that of
a converging handler, no resync tick, no `drain`.  The code needs it: on a stream that goes
live, a handler that answers every dispatch with a value that drifts again is dispatched
for ever, and so is a key whose ticks come faster than its dispatches.  The instance meets
it by its bounds.
Two keys are enough for a handler that writes another key; two writes, for a handler that
feeds itself once and for a client's write in the middle of a dispatch; a stream that
survives adds live folding.  The theorems of section 5 have no such bound.  Not run with
the others for their time, and passing: three writes without `drain` (1.4 million states),
and a dead-letter store that suspends in the middle of a resync pass (1.7 million), which
the repository does not have.  Several runs are left to the proofs.

**`projection`.** `ViewAgreesWithLog`: a view holds what a fold up to its cursor
leaves live, no older, and nothing else, except what was deleted since.
`QuiescentViewIsApplied`: a follower of a first `run()` that signals `caught_up` has
applied all its stream handed it.  `CursorNeverRegresses`: also not when a second
`run()` replays from the start.  `FollowerCatchesUp`: one left running folds every
entry.  Three entries on a node and an edge are put, removed and put again, or put,
edited between two reads of a pass and removed.

**`interpret`.** `StepBudgetHolds`, `ProgressIsDurable`, `TokenBudgetEndsSegment`:
budgets over all segments; the first turn of a segment is exempt from the token
budget, as in the code, so a run over its budget takes one more turn each time it is
driven.  `TreeBounded`: depth, fanout and the closed-form size of the tree, with
segments that end between gate and link.  `PlansAreEarned`: a planning step is the
first, or follows a failed call; resuming adds none.  `CancelIsKept`: a
cancellation is not overwritten by a segment that began before.  `RunsReturn`: every
`run()` ends, down the tree it drives.  The three policies reach every stop
condition, both planning modes, a forced tool, a chain of two sub-agents and two
siblings; two starts are a crash and its resume, of any run of the tree.

**`graph`.** Each answer is compared with a definition that does not search:
`ReachIsExact` (of `bfs` and `reachable`), `PathIsCanonical` (a shortest
path and the first in id order), `PathIsCheapest`, also with an override,
`MatchesAreExact` (as many matches as there are edge sequences).  `QueriesEnd`: every loop ends.  The graphs
have two ways to most nodes, equal costs, two cycles, a self-loop, a parallel edge
and a dangling endpoint.  The tie-break of `dijkstra` is not checked: of two paths
of equal cost it keeps the first pushed, which need not be the smaller in id order.
`HydratedSinceFold`: a body is the one of the node asked for, in a state it has had
since the view's fold began, and a full view gives all its callers the same one.
`LruHoldsRecent`: a lean view's cache is exactly the last ids hydrated through it, in
order, also when two tasks miss one id at once.  A path, a node with a self-loop, a
motif and two neighbours, read by two tasks through a cache of two, evict, hit after
an edit or a delete, and hit the new view's cache before and after its refresh.

**`graph_dfs`** refutes what is documented of `dfs`.

**`context`.** `OneSummaryEach`: no driver links two summaries of one text, however
drivers overlap and die.  `SummaryCoversRest`: the summary of a context stands for
exactly the messages that are neither pinned nor in its tail, also when another driver
wrote it from another view.  `SummaryRefSettles`: while a driver compacts the same
messages, the summary it gets never moves to a later one.  Three messages and a tail of
one (four in the code) leave two to compact, in one step or after one another and with
a late message of a smaller id among them; two drivers and three summaries are a
duplicate, an orphan and its replacement.  Of the policies one compacts early and
stops at a hard budget, one pins a role, one never compacts.
`AssembledIsSent`: fragments of any size, blocks interleaved or not, a message cut into
chunks of any channels: the turn has the blocks that were scripted or said, in order,
with their stop reason and usage.  `PartialTurnIsPrefix`: a stream that ends early
gives a turn with cut texts, but the arguments of a call are those the model sent or
none.  The responses have empty pieces, channels that lag behind one another, two
calls, a call without arguments, and nothing at all.
`OneHonestResult`: an invocation returns the outcome of its last attempt, the first
success or the last failure its policy allows.  `WakesInOrder`: sleepers wake by
deadline and then by insertion, never early, over all advances.  `InvocationEnds`:
what is not cancelled returns.  Two invocations are enough for a woken task that sleeps
again while the other is due, is cancelled or waits; of the tools one backs off, one
meets the cap, one is an MCP tool, one is refused.
`RealTimeOrder`: an id is greater than every id returned before its call began, and no
id is given twice.  With a counter of two values and three threads the counter
overflows into a millisecond the clock reaches afterwards.

## 4. Fairness

* `Reconciler`: weak fairness of the watch, the worker, the resync pass and each
  timer.  The event loop runs every ready task; handlers return; the clock advances.
  Nothing is assumed of other clients, of `drain`, or of cancellation, but that
  `RunReturns` is claimed where they end (`InputsEnd`), with the handlers' own writes.
* `ObserveStream`: weak fairness of each generator's next step, for the consumer
  that loops on it.  None of appends, closing or saving.
* `Projection`: weak fairness of the step a view's tasks are at.  None of writes,
  of opening or of closing.
* `Interpreter`: weak fairness of each frame: the event loop runs it, provider and
  tools return or raise.  Starting, raising and cancelling are free.
* `GraphQuery`, `GraphView`: weak fairness of the next pass; a synchronous loop cannot
  be kept from it.  None of hydration, writes or refreshes.
* `ToolRetry`: weak fairness of each invocation's attempt (a tool answers or fails in
  the end), of each woken task (the event loop runs what is ready), and of the clock's
  going on while somebody sleeps.  None of invoking or cancelling.
* `ContextAssembly`, `ProviderStream`, `Uuid7`: none.

The counterexamples of the `violation` runs are all finite, against invariants.

## 5. What is proved

All theorems are of the specifications above, with constants constrained only by
the assumptions their modules name (`StoreAssumption`, `StreamAssumption`, ...),
which say of what kind a query, policy, script or message is, what is finite, and that
`None` is no id.  The bounds (`MaxLog`, `MaxRuns`,
...) are arbitrary.

**`StoreProofs`.** `Typed` adds to the type invariant that every row is a write
stored under its own key (`RowsAreWrites`).  With it every verb is shown to be
one append of a well-formed entry (`StepCases`), and `StateTableIsFoldOfLog`
follows from what `_append` does with one.  For the versions, a live entity carries the greatest
version its log ever gave it (`LiveVersionIsGreatest`), so an edit stamps a version
no earlier write has: `VersionsNameContents`, and from it `EditsLoseNothing`.
`StoreImplementsEntityMap` maps each step to an appearance, a revision, a removal
or a stutter.  These three assume `~ReuseIds`; without it `NoLostUpdate` is false.
`BindingsIdentify` holds although the index is never cleaned: it may name entities that
are gone or have lost the binding, but whoever carries a binding is the one it names
(`Indexed`), as an appended entry carries only the bindings its entity had or, from
upsert, one the index leads nobody alive to.  It assumes `OnlyUpsertBinds` and
nothing of the ids.  The other theorems hold of whatever entities are upserted.

**`StreamProofs`.** What a stream has yielded, the rest of its slice and its queue
are three consecutive runs of offsets from the cursor to the end of the log.  Each
action moves one offset across a seam: `StreamsAreOrdered`, `StreamsLoseNothing`,
for any number of observers.  `ResumesLoseNothing` adds that a consumer has handled
everything up to what it saved and up to where its open stream started (`HandledTo`),
over any number of openings.

**`ReconcilerProofs`.** `TypeCorrect` and `QueueStaysGuarded` need where each
program counter leaves `inflight` and the timers (`Control`, `Within`).
`NothingIsForgotten` says of each folded change that its key is owned
(`Owned`: dealt with, queued, in flight or on a timer); the delicate steps are the
pop, which clears the guard before the read, and the finish, which may claim
changes only up to that read.  `FirstIdleMeansQuiet` adds that in a first run
everything logged before it began has been folded when `drained` is set.  Both
assume `NoResume`: no cursor is saved while a stream survives its live edge.
Otherwise a restart resumes after changes whose keys were only in memory.
`FirstIdleIsConverged` adds that a converging key drifts only by a write later than what
its last dispatch examined, or is held: queued, in flight, on a timer or dead-lettered.
It also assumes a dead-letter store, as a key given up without one leaves no trace.

**`ProjectionProofs`.** `ViewsAgree`: the accumulator is the set of ids a replay up
to its position leaves live, over its seed (`Folding`); what a pass has read is no
older than the position it started from (`Reading`); so the index it swaps in
agrees, also when the pass began from an index newer than its cursor.
`CursorsOnlyAdvance`: a batch that starts behind the cursor is drained past it before it
is read.  `QuiescenceIsApplied`: in a first `run()` the Event is clear wherever a batch is
being drained or read (`Signalled`).

**`InterpreterProofs`.** The invariant says of each frame, by its program counter,
how its counts stand to the recorded steps and tokens: ahead of the boundary by the
turn in hand (`Counted`, `Ledger`), within the budgets (`Within`), what the last
step owes (`Earned`), whether it saw a cancellation (`Cancelled`), what it may
hold (`Holding`), and that frames await one another soundly (`Awaited`).
`StepBudgets`, `DurableProgress`, `TokenBudgets`, `EarnedPlans` and `CancelKept` are
its consequences, for every policy, model and number of runs.
`TreeStaysBounded` needs `TreeInv` besides: the links make a tree, whose every run has
the root's bounds and a depth within them, and a run about to spawn still passes the gate
it has passed, as nobody else adds to its children.  Its size follows by counting, level
by level: a child is told by its parent and its place among its siblings (`LevelGrows`),
so each level has at most `max_fanout` times the runs of the one above.

**`GraphProofs`: queries.** For every finite set of nodes, every graph on it - cycles,
self-loops, parallel and dangling edges - and every query; of the edges it is assumed
that no two share an id.  `QueryTypeCorrect` is the type invariant.

* `SearchesReach`: the queue holds what is left of one level and then nodes of the next;
  all within the level is visited, and what is visited beyond it is queued (`Level`).
  An empty queue means the visited set is closed, and then nothing else is in reach
  (`WithinClosed`); nor is anything more than as many hops away as there are nodes
  (`WithinEverything`), which is how many `reachable`'s reference takes.
* `ShortestIsCanonical`: each entry's path is the first, in id order, of the shortest
  paths to its node, and the queue is in the order of the paths (`CanonicalInv`); so the
  first path to arrive at a node is the first of its paths.
* `DijkstraIsCheapest`: settled nodes are relaxed and none that is left is nearer; every
  node seen and not settled is in the heap with its best distance (`DistanceInv`).  The
  answer is compared with the cost of any simple path, which crosses the frontier
  somewhere (`Frontier`).
* `MatchIsExact`: the entries stand for partial matches, none of which continues another,
  and every match continues one of them (`Cover`).  `MatchesAreExact` counts answers, so
  the proof makes the bijection between entries and matches.

**`GraphProofs`: views.** `ViewsAsk`: whatever callers, writers and refreshes do, a view
takes the steps of `GraphQuery` or none, so the four theorems hold of its answers.
`BodiesSinceFold` rests on `SinceInv`: resident bodies, cached bodies and bodies in the
hand of a suspended `get` are all states their node had since the fold of their view
began, and what a refresh has read so far is no older than its own beginning.
`LruIsRecent`: the last uses name no node twice, and the cache holds exactly the last of
them, in order (`Recent`) - one operation, take out and put at the end, keeps that for a
hit, a resumed miss and a miss that another task filled meanwhile.

**`SeamProofs`: assembly.** `AssemblyInv` says that every summary has the text of what it
stands for, which is part of the older messages (`Sound`), that a context is the split
of the messages it was made from and its summary stands for the older ones (`Given`,
`Backed`), and that the view of a driver about to write holds every summary it linked
before and none with the text it will write (`Pending`).  Reuse goes by the text alone,
which names no message; that it is still exact rests on three lemmas: messages are only
added, the older part only grows with them (`OlderGrows`), and a text tells how many
messages it stands for (`TextIdentifies`) - of two older parts, one within the other,
equal texts mean equal sets.  `CompactionIsIdempotent`, `CompactionLosesNothing` and
`ReuseSettles` follow, for any number of drivers, messages, roles and policies.

**`SeamProofs`: ids.** The globals are at or past everything taken, returned or in hand,
and what a thread took under the lock is past all that was there when it entered:
`IdsOrderTheCalls`, for any number of threads, any counter width and any clock.

**`SeamProofs`: clock and retries.** `ClockInv`: the last task woken comes before all
that wait, and what is due before what is not; each operation of the clock keeps it, a cancelled sleeper's
too.  `SleepersInv`: who is asleep has exactly one waiter that is not done, and nobody
else has one.  `Honest` says of each stage what the attempts so far are.
`ClockWakesInOrder` and `RetryIsHonest` follow, for any policies and steps.
`BackoffAssumption` says that a backoff is a natural, as the prover knows no powers.

**`SeamProofs`: providers.** `SentIsAssembled` and `PartsArePrefixes`, for every script and
every message a server may send, cut into any chunks.  Both invariants say of a stream in
progress that what the assembler has of a block and what the events still to be fed bring
it is what was sent so far.  The events are not looked at one by one but as a set: stamps
tell any two events apart (`TurnEventsStamped`), feeding the head of a listing is taking
the least of the set, and a block is opened before its fragments come.  `MockInv` has of
each scripted block its first m fragments, the rest being still to come (`Fed`); the
fragments of a text join to the text, whatever their number.  `WireInv` has of each channel
of the server all that came before the chunk in hand and, until it is fed, the piece that
chunk brings (`Kept`); chunks open blocks in any order, and `Sorted` puts them in the
dialect's (`SortedElements`).  A turn that could be finished has whole calls only
(`WholeCalls`), and JSON that ends is all that was sent (`PartIsPrefix`).

**`Induction`.** The library's induction theorems take an operator as a parameter, which
the provers cannot instantiate.  `Induction` derives from the well-foundedness of the
naturals what the proofs above need, as facts about sets and functions: a set of naturals
has a least member, a set that holds 0 and all successors holds every natural, and a
recursion, on the naturals or along a list, defines a function.  That is why the reference
definitions of `GraphQuery` and `TreeSize` are recursive functions, and why
`ProviderStream` has none of its own.

Only model-checked:

* every liveness property (`EventuallyDelivered`, `RunReturns`, `FollowerCatchesUp`,
  `RunsReturn`, `QueriesEnd`, `InvocationEnds`): the prover does not reason about fairness;
* the behaviour the `violation` runs exhibit.

Every safety property of a passing run is stated by a theorem.  The type invariants of
`Store`, `ObserveStream`, `Reconciler`, `Projection`, `Interpreter`, `GraphQuery`,
`ContextAssembly`, `ToolRetry` and `Uuid7` are proved, and so is
`VersionNamesContents`; no run repeats them.

## 6. Where code and documents disagree

| run | the code | the document |
|---|---|---|
| `store_unlink` | `_apply` tombstones only a `delete`, so `get` still returns an unlinked edge (`_inmemory.py:99`) | `runtime.py:302-303` and the fold of `tests/test_fold_invariant.py`: `get` returns `None` |
| `reconcile_watch` | cancelling the parked pull finishes the generator, so the watch task ends at the live edge (`workset.py:308`) | `reconciler.py:570-572`: it continues with live entries |
| `reconcile_idle` | `backlog_drained` is never cleared: a second `run()` may return idle before it has folded anything (`reconciler.py:208`) | `reconciler.py:199-201` |
| `interpret_replan` | the planning turn a failed call is owed is only in the frame; a resumed run goes straight on (`interpreter.py:272`) | `policy.py:201-202`, `interpreter.py:52-53` |
| `graph_dfs` | a node first pushed near the bound of a long branch is not pushed again by a shorter one, so nodes within the bound are missed (`_query.py:180`) | `_query.py:153-154`: the set equals that of `bfs` |

Other observations, met while modelling and shown by no run:

* verbs return the entry they built, whose cursor is a placeholder, not the stamped
  copy (`runtime.py:409`; `runtime.py:129-130` says otherwise);
* telemetry of an absent entity has version 0, so `history` is not in version order;
* the bounded drain takes a pull that needs more than one turn of the loop for the
  live edge: right for the in-memory store, not for one whose `observe` suspends;
* a follower's `caught_up` and its count of passes survive into the next `run()`;
* a crash between a leading planning step and the answer leaves a step that counts
  as the plan;
* a spawn that succeeds leaves its `tool_use` without a `tool_result` message;
* of two paths of equal cost `dijkstra` keeps the one pushed first, where
  `view.py:406-408` promises the smallest in id order (`_weighted.py:100`);
* with a dead-letter store that suspends, a resync pass may enqueue a key that went
  in flight or began to back off while its record was read (`reconciler.py:618`);
* `_write_summary` promises "one summary per compacted range, never a duplicate": two
  drivers of one run write one each, and a crash between create and link leaves one no
  view leads to;
* the context tail is cut to the last four unpinned messages even when nothing is
  compacted - below the watermark, at the hard budget, with no threshold - and the older
  ones then leave the context without a summary (`graph_assembler.py:157`);
* compaction and its hard stop compare the length of the recorded text with
  `token_budget`, the loop compares the recorded usage with it;
* recall and the summary are part of the prefix marked as cacheable, and both change
  with the tail;
* the JSON of a tool call is parsed when the turn is finished, not at its
  block's stop as `provider.py:126` and `_assembler.py:59` say;
* a stream of the OpenRouter adapter that ends without a `finish_reason` gives a turn
  that says `end_turn`, and a call cut before its arguments is a call with none;
* the mock's cursor moves on even when the forced tool choice then raises;
* an MCP call that succeeded is repeated when closing its session raises, and a
  cancelled one whose session fails to close is retried instead of cancelled
  (`mcp_invoker.py`);
* `ManualClock.sleep(0)` waits for the next `advance`;
* a lean view's hits are as old as their first hydration, also of deleted nodes, where
  `view.py` and `results.py` call its bodies live; over a store whose `get` suspends, an
  older body may replace a newer one in the cache;
* the edge a traversal's neighbour carries is one of that node's own edges in the
  query's direction, not the one it was reached by: a sink carries none (`_neighbor_for`);
* `neighbors` in direction `both` lists a self-loop twice;
* ids of one millisecond are ordered within a process only;
* `upsert` is "idempotent find-or-create" (`runtime.py:213`) only for callers that supply
  an entity with the binding and of the tenant they look up: an entity without the
  binding is appended again by each call, one with others can be a second carrier.

## 7. What is not modelled

* `history` and the per-anchor buckets of the index: a read and a representation that
  decide nothing.
* Core's models, parsing, schemas and migrations: pure functions of data that pydantic
  decides; `Store`'s payloads stand for them.
* The schema export and catalog scripts: build-time tooling.
* Request bodies, the rendering of messages and tools, and the network below the
  OpenRouter adapter: wording, and a service outside the program.
* Handler registration, tool discovery, hints: assignments, one query and text.
* Wall-clock time, delays and backoff lengths in the reconciler: timers wake at any
  time instead.  `ToolRetry` keeps the lengths, on its clock.
* A clock before 1970 or past 2^48 ms, which `uuid7` masks.
* Overflow in queries: Python's integers have no width.

## 8. Plan

Done in this order, the most important behaviour first: store and its abstract
map, stream, reconciler, projection, agent loop, queries, context assembly; then the
smaller parts beside them: ids, clock and tool retries, provider streams, views and
hydration.  Each has its theorems, and every safety property the runs check is proved.

Next theorems: that `dfs` visits nothing outside the bound it misses nodes of, and
what a second `run()` of the reconciler keeps without `NoResume`; and, from `Induction`,
`BackoffAssumption`, which is assumed so far.

Next modules: parsing (`parse.py`), whose migration chain and quarantine never raise -
little of it is state - and the composition of `Interpreter` with `ContextAssembly`,
whose messages the loop writes.
