----------------------------- MODULE Reconciler -----------------------------
(***************************************************************************)
(* vella-reconciler's control loop.  run() starts three tasks: the watch   *)
(* folds the log into a deduplicated queue of keys, the worker takes one   *)
(* key at a time, reads it afresh and calls its handler, and the resync    *)
(* ticker re-enqueues known keys.  A failed dispatch is retried by a timer *)
(* of its own, a bounded number of times, and then dead-lettered.          *)
(*                                                                         *)
(* The tasks are cooperative: every await on an injected seam (runtime,    *)
(* handler, store, clock) is a point where another task may run.  Delays   *)
(* are abstracted: a sleeping timer or ticker may wake at any time.  The   *)
(* runtime is its log and, per key, whether the entity is absent, settled  *)
(* (current = desired, or no desired) or drifting.                         *)
(***************************************************************************)
EXTENDS Naturals, Sequences, FiniteSets, Functions

CONSTANTS
  Key,            \* (tenant_id, entity_id)
  Handled,        \* the keys whose kind has a registered handler
  Converging,     \* the keys whose handler writes current := desired, returns done
  MaxAttempts,    \* attempts before a key is dead-lettered
  MaxRetries,     \* _MAX_IMMEDIATE_RETRIES
  DeadLetter,     \* the dead-letter store: none, memory, or one that suspends
  StreamSurvives, \* may the log stream outlive a cancelled __anext__?
  CursorStore,    \* is a cursor store wired?
  MaxWrites,      \* bound: writes of other clients and of handlers not converging
  MaxRuns,        \* bound: calls of run()
  MaxSweeps,      \* bound: resync ticks
  MaxDrains,      \* bound: calls of drain()
  None

ASSUME ReconcilerAssumption ==
  /\ IsFiniteSet(Key) /\ None \notin Key
  /\ Handled \subseteq Key /\ Converging \subseteq Key
  /\ MaxAttempts \in Nat \ {0} /\ MaxRetries \in Nat
  /\ DeadLetter \in {"none", "memory", "suspending"}
  /\ {StreamSurvives, CursorStore} \subseteq BOOLEAN

VARIABLES
  log,        \* the runtime's log: which key, and is it a state change
  entity,     \* what get returns, as far as drift goes
  pc,         \* where run()'s worker loop is
  inflight,   \* _inflight
  seen,       \* log length at the handler's (or the drift gate's) read
  retries,    \* conflicts met in this dispatch
  attempts,   \* _attempts, 0 for a key it does not hold
  delayed,    \* keys of _delayed: a timer is pending
  queue,      \* WorkSet._queue
  pending,    \* WorkSet._pending
  known,      \* keys of WorkSet._versions
  drained,    \* WorkSet._backlog_drained
  watch,      \* the watch task: off, replay, live, or ended by itself
  pos,        \* entries the stream has delivered to it
  saved,      \* the stored resume cursor, as a log position
  sweep,      \* keys the resync pass has still to look at
  checking,   \* the key whose dead-letter record it is reading
  dead,       \* keys with a dead-letter record
  started,    \* history: log length when the run began
  examined,   \* history: log length up to which a key has been dealt with
  outcome,    \* how the last run ended
  count       \* runs, sweeps, drains and writes so far, for the bounds

runtime == <<log, entity>>
worker == <<pc, inflight, seen, retries>>
retry == <<attempts, delayed>>
workset == <<queue, pending, known>>
fold == <<drained, watch, pos, saved>>
resync == <<sweep, checking>>
history == <<started, examined, outcome>>
vars == <<runtime, worker, retry, workset, fold, resync, dead, history, count>>

\* What is counted for the bounds.
Bounded == {"runs", "sweeps", "drains", "writes"}

Items(q) == {q[n] : n \in DOMAIN q}
Running == pc # "stopped"

Init ==
  /\ log = << >>
  /\ entity = [k \in Key |-> "absent"]
  /\ pc = "stopped" /\ inflight = None /\ seen = 0 /\ retries = 0
  /\ attempts = [k \in Key |-> 0] /\ delayed = {}
  /\ queue = << >> /\ pending = {} /\ known = {}
  /\ drained = FALSE /\ watch = "off" /\ pos = 0 /\ saved = 0
  /\ sweep = {} /\ checking = None /\ dead = {}
  /\ started = 0 /\ examined = [k \in Key |-> 0] /\ outcome = "none"
  /\ count = [c \in Bounded |-> 0]

Counted(c) == count' = [count EXCEPT ![c] = @ + 1]

----------------------------------------------------------------------------
(* Bugs for the mutation runs: an enqueue that takes a known key for a     *)
(* pending one, a pop that leaves the guard set, a timer that keeps its    *)
(* entry, an idle that ignores the backlog.                                *)

EnqueueUnknown(k) ==
  IF k \in known THEN UNCHANGED <<queue, pending>>
  ELSE queue' = Append(queue, k) /\ pending' = pending \cup {k}

PopUnguarded ==
  /\ pc = "polling" /\ queue # << >>
  /\ inflight' = Head(queue) /\ queue' = Tail(queue)
  /\ pc' = "getting"
  /\ UNCHANGED <<runtime, pending, known, seen, retries, retry, fold, resync, dead, history, count>>

TimerKept(k) ==
  /\ k \in delayed
  /\ queue' = IF k \in pending THEN queue ELSE Append(queue, k)
  /\ pending' = pending \cup {k}
  /\ UNCHANGED <<runtime, worker, retry, known, fold, resync, dead, history, count>>

IdleUndrained == queue = << >> /\ inflight = None /\ delayed = {}

----------------------------------------------------------------------------
(* The work-set.                                                           *)

\* _enqueue: through the guard set.
Enqueue(k) ==
  IF k \in pending THEN UNCHANGED <<queue, pending>>
  ELSE queue' = Append(queue, k) /\ pending' = pending \cup {k}

Write(k, status) ==
  /\ log' = Append(log, [key |-> k, write |-> TRUE])
  /\ entity' = [entity EXCEPT ![k] = status]

Written(k, after) == \E n \in DOMAIN log : n > after /\ log[n].key = k /\ log[n].write

----------------------------------------------------------------------------
(* The outside world: other clients of the runtime.                        *)

\* Any verb of a client: it creates, changes or deletes k.  Ids are fresh: a deleted
\* entity is not created again.
Edit(k) ==
  /\ count["writes"] < MaxWrites
  /\ entity[k] = "absent" => ~Written(k, 0)
  /\ \E status \in {"settled", "drifting", "absent"} :
       /\ status = "absent" => entity[k] # "absent"
       /\ Write(k, status)
  /\ Counted("writes")
  /\ UNCHANGED <<worker, retry, workset, fold, resync, dead, history>>

----------------------------------------------------------------------------
(* The watch task.                                                         *)

\* WorkSet.apply: telemetry only moves the position.
Fold ==
  LET entry == log[pos + 1]
  IN  /\ watch \in {"replay", "live"} /\ pos < Len(log)
      /\ pos' = pos + 1
      /\ IF entry.write
           THEN Enqueue(entry.key) /\ known' = known \cup {entry.key}
           ELSE UNCHANGED workset
      /\ saved' = IF watch = "live" /\ CursorStore THEN pos + 1 ELSE saved
      /\ UNCHANGED <<runtime, worker, retry, drained, watch, resync, dead, history, count>>

\* fold_available finds nothing to take: it cancels the parked __anext__, which
\* finishes an async generator such as InMemoryStore.observe.
ReachLiveEdge ==
  /\ watch = "replay" /\ pos = Len(log)
  /\ drained' = TRUE
  /\ watch' \in IF StreamSurvives THEN {"live", "ended"} ELSE {"ended"}
  /\ UNCHANGED <<runtime, worker, retry, workset, pos, saved, resync, dead, history, count>>

----------------------------------------------------------------------------
(* The worker.                                                             *)

Pop ==
  /\ pc = "polling" /\ queue # << >>
  /\ inflight' = Head(queue)
  /\ queue' = Tail(queue) /\ pending' = pending \ {Head(queue)}
  /\ pc' = "getting"
  /\ UNCHANGED <<runtime, known, seen, retries, retry, fold, resync, dead, history, count>>

\* _clear.
Clear(k) == attempts' = [attempts EXCEPT ![k] = 0]

Finish(k, upto) ==
  /\ examined' = [examined EXCEPT ![k] = upto]
  /\ inflight' = None /\ seen' = 0 /\ retries' = 0
  /\ pc' = "polling"
  /\ UNCHANGED <<started, outcome>>

Drifting(k) == k \in Handled /\ entity[k] = "drifting"

\* _dispatch: a fresh get, the drift gate and the handler lookup.
Get ==
  /\ pc = "getting"
  /\ IF Drifting(inflight)
       THEN /\ pc' = "handling" /\ seen' = Len(log) /\ retries' = 0
            /\ UNCHANGED <<inflight, attempts, history>>
       ELSE Clear(inflight) /\ Finish(inflight, Len(log))
  /\ UNCHANGED <<runtime, delayed, workset, fold, resync, dead, count>>

\* A handler is given the runtime and not the key, and is a client as any other: before
\* it returns it may write any entity any number of times, and leave it drifting.
HandlerWrites(j) == pc = "handling" /\ inflight \notin Converging /\ Edit(j)

\* A converging one reads its entity and edits it once.
HandlerConverges ==
  /\ pc = "handling" /\ inflight \in Converging /\ entity[inflight] = "drifting"
  /\ Write(inflight, "settled")
  /\ pc' = "returning"
  /\ UNCHANGED <<inflight, seen, retries, retry, workset, fold, resync, dead, history, count>>

\* _backoff_or_giveup and _schedule_requeue.
BackOff(k) ==
  /\ attempts' = [attempts EXCEPT ![k] = @ + 1]
  /\ IF attempts[k] + 1 >= MaxAttempts
       THEN pc' = "recording" /\ UNCHANGED <<delayed, inflight, seen, retries>>
       ELSE /\ delayed' = delayed \cup {k}
            /\ inflight' = None /\ seen' = 0 /\ retries' = 0 /\ pc' = "polling"

\* ConcurrencyConflict, on an entity written since the handler read it: called again
\* at once, up to the retry budget.
HandlerConflicts ==
  /\ pc = "handling"
  /\ \E j \in Key : Written(j, seen) /\ (inflight \in Converging => j = inflight)
  /\ IF retries < MaxRetries
       THEN /\ retries' = retries + 1 /\ seen' = Len(log)
            /\ UNCHANGED <<pc, inflight, retry>>
       ELSE BackOff(inflight)
  /\ UNCHANGED <<runtime, workset, fold, resync, dead, history, count>>

\* done and drop clear the key, whatever the entity now is.
HandlerDone ==
  /\ pc \in {"handling", "returning"}
  /\ inflight \in Converging => pc = "returning" \/ ~Drifting(inflight)
  /\ Clear(inflight) /\ Finish(inflight, seen)
  /\ UNCHANGED <<runtime, delayed, workset, fold, resync, dead, count>>

\* Any other exception, or a requeue verdict.
HandlerFails ==
  /\ pc \in {"handling", "returning"} /\ inflight \notin Converging
  /\ BackOff(inflight)
  /\ UNCHANGED <<runtime, workset, fold, resync, dead, history, count>>

\* _giveup: the record, then one telemetry entry, then the bookkeeping.
RecordGiveUp ==
  /\ pc = "recording" /\ pc' = "emitting"
  /\ dead' = IF DeadLetter = "none" THEN dead ELSE dead \cup {inflight}
  /\ UNCHANGED <<runtime, inflight, seen, retries, retry, workset, fold, resync, history, count>>

EmitGiveUp ==
  /\ pc = "emitting"
  /\ log' = Append(log, [key |-> inflight, write |-> FALSE])
  /\ Clear(inflight) /\ Finish(inflight, seen)
  /\ UNCHANGED <<entity, delayed, workset, fold, resync, dead, count>>

\* A timer's sleep is over.
TimerFires(k) ==
  /\ k \in delayed /\ delayed' = delayed \ {k}
  /\ Enqueue(k)
  /\ UNCHANGED <<runtime, worker, attempts, known, fold, resync, dead, history, count>>

----------------------------------------------------------------------------
(* The resync ticker.                                                      *)

ResyncWakes ==
  /\ Running /\ sweep = {} /\ checking = None /\ count["sweeps"] < MaxSweeps
  /\ sweep' = known
  /\ Counted("sweeps")
  /\ UNCHANGED <<runtime, worker, retry, workset, fold, checking, dead, history>>

\* The keys a pass leaves alone.
Busy == {inflight} \cup delayed

\* A key that is neither in flight nor backing off has its record looked up.
ResyncLooks(k) ==
  /\ k \in sweep /\ checking = None
  /\ sweep' = sweep \ {k}
  /\ checking' = IF k \in Busy THEN None ELSE k
  /\ UNCHANGED <<runtime, worker, retry, workset, fold, dead, history, count>>

ResyncEnqueues ==
  /\ checking # None /\ checking' = None
  /\ IF checking \in dead THEN UNCHANGED <<queue, pending>> ELSE Enqueue(checking)
  /\ UNCHANGED <<runtime, worker, retry, known, fold, sweep, dead, history, count>>

\* A pass holds the event loop except while a store that suspends is read.
CanSwitch ==
  IF DeadLetter = "suspending" THEN sweep = {} \/ checking # None
  ELSE sweep = {} /\ checking = None

----------------------------------------------------------------------------
(* run() and drain().                                                      *)

Start ==
  /\ ~Running /\ count["runs"] < MaxRuns
  /\ pc' = "polling" /\ watch' = "replay" /\ pos' = saved
  /\ started' = Len(log) /\ outcome' = "none"
  /\ Counted("runs")
  /\ UNCHANGED <<runtime, inflight, seen, retries, retry, workset, drained, saved,
                 resync, dead, examined>>

IsIdle == queue = << >> /\ inflight = None /\ delayed = {} /\ drained

\* Cancels the tasks and every pending timer; the queue and the attempts stay.
Teardown(how) ==
  /\ pc' = "stopped" /\ inflight' = None /\ seen' = 0 /\ retries' = 0
  /\ watch' = "off" /\ pos' = 0 /\ delayed' = {} /\ sweep' = {} /\ checking' = None
  /\ outcome' = how
  /\ UNCHANGED <<runtime, attempts, workset, drained, saved, dead, started, examined, count>>

ReturnIdle == pc = "polling" /\ IsIdle /\ Teardown("idle")

\* max_steps is reached, or the caller cancels run() at one of its awaits.
Stop == Running /\ Teardown("stopped")

\* Every dead-lettered key is enqueued, in some order.
Drain ==
  /\ DeadLetter # "none" /\ dead # {} /\ count["drains"] < MaxDrains
  /\ dead' = {}
  /\ attempts' = [k \in Key |-> IF k \in dead THEN 0 ELSE attempts[k]]
  /\ \E order \in Bijection(1 .. Cardinality(dead \ pending), dead \ pending) :
       queue' = queue \o order
  /\ pending' = pending \cup dead
  /\ Counted("drains")
  /\ UNCHANGED <<runtime, worker, delayed, known, fold, resync, history>>

----------------------------------------------------------------------------

Watch == Fold \/ ReachLiveEdge
Handler ==
  \/ HandlerConverges \/ HandlerConflicts \/ HandlerDone \/ HandlerFails
  \/ \E j \in Key : HandlerWrites(j)
Work == Pop \/ Get \/ Handler \/ RecordGiveUp \/ EmitGiveUp \/ ReturnIdle
Resync == ResyncEnqueues \/ \E k \in sweep : ResyncLooks(k)

Next ==
  \/ Resync
  \/ /\ CanSwitch
     /\ \/ Watch \/ Work \/ ResyncWakes \/ Start \/ Stop \/ Drain
        \/ \E k \in delayed : TimerFires(k)
        \/ \E k \in Key : Edit(k)

\* The event loop runs every ready task, handlers return, and clocks advance.
Fairness ==
  /\ WF_vars(CanSwitch /\ Watch) /\ WF_vars(CanSwitch /\ Work) /\ WF_vars(Resync)
  /\ \A k \in Key : WF_vars(CanSwitch /\ TimerFires(k))

Spec == Init /\ [][Next]_vars
FairSpec == Spec /\ Fairness

----------------------------------------------------------------------------
(* Properties.                                                             *)

TypeOK ==
  /\ log \in Seq([key : Key, write : BOOLEAN])
  /\ entity \in [Key -> {"absent", "settled", "drifting"}]
  /\ pc \in {"stopped", "polling", "getting", "handling", "returning", "recording", "emitting"}
  /\ inflight \in Key \cup {None} /\ seen \in Nat /\ retries \in Nat
  /\ attempts \in [Key -> Nat] /\ delayed \subseteq Key
  /\ queue \in Seq(Key) /\ pending \subseteq Key /\ known \subseteq Key
  /\ drained \in BOOLEAN /\ watch \in {"off", "replay", "live", "ended"}
  /\ pos \in Nat /\ saved \in Nat
  /\ sweep \subseteq Key /\ checking \in Key \cup {None} /\ dead \subseteq Key
  /\ started \in Nat /\ examined \in [Key -> Nat]
  /\ outcome \in {"none", "idle", "stopped"}
  /\ count \in [Bounded -> Nat]

\* The guard set is exactly the queue, and the queue holds a key once, however
\* the fold, timers, resync and drain race to enqueue it.
QueueGuarded ==
  /\ pending = Items(queue)
  /\ \A m, n \in DOMAIN queue : queue[m] = queue[n] => m = n

\* No change is forgotten while run() lasts: a key with a folded change that no
\* dispatch has dealt with is queued, in flight or waiting on a timer.
NothingForgotten ==
  Running => \A n \in 1 .. pos :
    log[n].write => \/ examined[log[n].key] >= n
                    \/ log[n].key \in pending \cup delayed \cup {inflight}

\* When the first run() returns by itself, every change logged before it began has
\* been dealt with.
FirstIdleIsQuiet ==
  (outcome = "idle" /\ count["runs"] = 1) =>
    \A n \in 1 .. started : log[n].write => examined[log[n].key] >= n

\* What the idle predicate is documented to mean (reconciler.py:21-26): whenever
\* run() returns by itself, its watch had caught up with what was logged before.
IdleIsQuiet ==
  outcome = "idle" =>
    \A n \in 1 .. started : log[n].write => examined[log[n].key] >= n

\* Under converging handlers, what drifts when the first run() returns by itself was
\* written after the run began or has a dead letter, which drain() may have enqueued
\* since.
ConvergedWhenIdle ==
  (outcome = "idle" /\ count["runs"] = 1) =>
    \A k \in (Handled \cap Converging) \ (dead \cup pending) :
      entity[k] = "drifting" => Written(k, started)

\* The watch keeps folding live entries for as long as run() lasts
\* (reconciler.py:570-575).
WatchStaysOpen == Running => watch # "ended"

\* From some point on nobody writes, but for a converging handler, nobody drains, and
\* no resync tick comes.
InputsEnd == <>[][count' = count]_vars

\* Then run() returns.  InputsEnd is needed: on a stream that goes live, a handler that
\* answers each dispatch with a write that drifts again feeds itself for ever.
RunReturns == InputsEnd => (Running ~> ~Running)
=============================================================================
