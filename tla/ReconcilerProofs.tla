-------------------------- MODULE ReconcilerProofs --------------------------
(***************************************************************************)
(* Theorems about the control loop for every finite set of keys, every     *)
(* retry budget and any number of runs, edits, resyncs and drains.         *)
(***************************************************************************)
EXTENDS Reconciler, FiniteSetTheorems, TLAPS

(***************************************************************************)
(* A saved cursor makes a later run skip entries whose keys an earlier one *)
(* may have dropped at its teardown, so what is never forgotten is proved  *)
(* where no cursor is ever saved: no cursor store, or a stream that ends   *)
(* with a cancelled __anext__ as InMemoryStore's does.                     *)
(***************************************************************************)
NoResume == ~StreamSurvives \/ ~CursorStore

\* How the control state hangs together.
Control ==
  /\ IF pc \in {"stopped", "polling"} THEN inflight = None ELSE inflight \in Key
  /\ pc = "stopped" => pos = 0 /\ watch = "off" /\ delayed = {}
  /\ NoResume => saved = 0
  /\ watch = "live" => StreamSurvives

\* Every position is within the log.
Within(l) == pos <= l /\ seen <= l /\ started <= l /\ saved <= l

Shape == Control /\ Within(Len(log))

\* Entry n has been dealt with, or its key is queued, waiting, or in flight with a
\* read that is not older than the entry.
Owned(n) ==
  \/ examined[log[n].key] >= n
  \/ log[n].key \in pending \cup delayed
  \/ log[n].key = inflight /\ (pc = "getting" \/ n <= seen)

Accounted == NoResume => \A n \in 1 .. pos : log[n].write => Owned(n)

\* No dispatch reads an older log than the last one dealt with.
Fresh ==
  /\ \A k \in Key : examined[k] <= Len(log)
  /\ pc \in {"handling", "returning", "recording", "emitting"} =>
       \A k \in Key : examined[k] <= seen

\* The backlog event is not stale before the second run.
FirstRun ==
  /\ Running => outcome = "none"
  /\ count["runs"] = 0 => ~Running /\ ~drained /\ outcome = "none"
  /\ count["runs"] = 1 /\ Running /\ drained => pos >= started

Frame == TypeOK /\ QueueGuarded /\ Shape
LoopInv == Frame /\ Fresh /\ Accounted /\ FirstRun /\ FirstIdleIsQuiet

----------------------------------------------------------------------------
(* The queue and the guard set.                                            *)

Guards(p, q) ==
  /\ p = Items(q)
  /\ \A m, n \in DOMAIN q : q[m] = q[n] => m = n

LEMMA GuardsAppend ==
  ASSUME NEW S, NEW q \in Seq(S), NEW p, Guards(p, q), NEW k \in S, k \notin p
  PROVE  Guards(p \cup {k}, Append(q, k))
<1> DEFINE t == Append(q, k)
<1>1. PICK l \in Nat : l = Len(q)
  OBVIOUS
<1>2. /\ DOMAIN q = 1 .. l /\ DOMAIN t = 1 .. l + 1 /\ t[l + 1] = k
      /\ \A n \in 1 .. l : t[n] = q[n]
  BY <1>1
<1> HIDE DEF t
<1>3. \A n \in 1 .. l : q[n] \in p
  BY <1>2 DEF Guards, Items
<1>4. \A m, n \in 1 .. l + 1 : t[m] = t[n] => m = n
  BY <1>2, <1>3 DEF Guards
<1>5. Items(t) = p \cup {k}
  <2>1. \A n \in 1 .. l + 1 : t[n] \in p \cup {k}
    BY <1>2, <1>3
  <2>2. \A x \in p : \E n \in 1 .. l + 1 : t[n] = x
    BY <1>2 DEF Guards, Items
  <2>3. l + 1 \in DOMAIN t
    BY <1>1, <1>2
  <2> QED BY <1>2, <2>1, <2>2, <2>3 DEF Items
<1> QED BY <1>2, <1>4, <1>5 DEF Guards, t

LEMMA GuardsTail ==
  ASSUME NEW S, NEW q \in Seq(S), q # << >>, NEW p, Guards(p, q)
  PROVE  /\ Guards(p \ {Head(q)}, Tail(q)) /\ Head(q) \in p
         /\ Head(q) \in S /\ Tail(q) \in Seq(S)
<1> DEFINE t == Tail(q)
<1>1. PICK l \in Nat : l + 1 = Len(q)
  <2>1. Len(q) \in Nat /\ Len(q) > 0
    OBVIOUS
  <2> QED BY <2>1
<1>2. /\ DOMAIN q = 1 .. l + 1 /\ DOMAIN t = 1 .. l /\ Head(q) = q[1]
      /\ \A n \in 1 .. l : t[n] = q[n + 1]
      /\ Head(q) \in S /\ t \in Seq(S)
  BY <1>1
<1> HIDE DEF t
<1>3. \A n \in 1 .. l : n + 1 \in 1 .. l + 1 /\ n + 1 # 1
  OBVIOUS
<1>4. ASSUME NEW m \in 1 .. l, NEW n \in 1 .. l, t[m] = t[n] PROVE m = n
  <2>1. q[m + 1] = q[n + 1]
    BY <1>2, <1>4
  <2>2. m + 1 = n + 1
    BY <1>2, <1>3, <2>1 DEF Guards
  <2> QED BY <2>2
<1>5. 1 \in 1 .. l + 1
  OBVIOUS
<1>6. Items(t) = p \ {Head(q)}
  <2>1. \A n \in 1 .. l : t[n] \in p /\ t[n] # Head(q)
    BY SMTT(60), <1>2, <1>3, <1>5 DEF Guards, Items
  <2>2. ASSUME NEW x \in p, x # Head(q) PROVE \E n \in 1 .. l : t[n] = x
    <3>1. PICK m \in 1 .. l + 1 : q[m] = x
      BY <1>2 DEF Guards, Items
    <3>2. m # 1 /\ m - 1 \in 1 .. l /\ (m - 1) + 1 = m
      BY <1>2, <2>2, <3>1
    <3> QED BY <1>2, <3>1, <3>2
  <2>3. Items(t) = {t[n] : n \in 1 .. l}
    BY <1>2 DEF Items
  <2>4. Items(t) \subseteq p \ {Head(q)}
    BY <2>1, <2>3
  <2>5. p \ {Head(q)} \subseteq Items(t)
    BY <2>2, <2>3
  <2> QED BY <2>4, <2>5
<1>7. Head(q) \in p
  BY <1>2, <1>5 DEF Guards, Items
<1> QED BY <1>2, <1>4, <1>6, <1>7 DEF Guards, t

LEMMA GuardsConcat ==
  ASSUME NEW S, NEW q \in Seq(S), NEW p, Guards(p, q),
         NEW D \in SUBSET S, IsFiniteSet(D), D \cap p = {},
         NEW r \in Bijection(1 .. Cardinality(D), D)
  PROVE  Guards(p \cup D, q \o r) /\ q \o r \in Seq(S)
<1> DEFINE t == q \o r
<1>1. PICK l \in Nat, c \in Nat : l = Len(q) /\ c = Cardinality(D)
  BY FS_CardinalityType
<1>2. /\ r \in [1 .. c -> D]
      /\ \A m, n \in 1 .. c : r[m] = r[n] => m = n
      /\ \A x \in D : \E n \in 1 .. c : r[n] = x
  BY <1>1 DEF Bijection, Injection, Surjection, IsInjective
<1>3. r \in Seq(S) /\ Len(r) = c
  BY <1>1, <1>2
<1>4. /\ DOMAIN q = 1 .. l /\ DOMAIN t = 1 .. l + c /\ t \in Seq(S)
      /\ \A n \in 1 .. l : t[n] = q[n]
      /\ \A n \in l + 1 .. l + c : t[n] = r[n - l]
  BY <1>1, <1>3
<1> HIDE DEF t
<1>5. \A n \in 1 .. l : q[n] \in p
  BY <1>4 DEF Guards, Items
<1>6. \A n \in l + 1 .. l + c : n - l \in 1 .. c
  OBVIOUS
<1>7. \A m, n \in 1 .. l + c : t[m] = t[n] => m = n
  <2> SUFFICES ASSUME NEW m \in 1 .. l + c, NEW n \in 1 .. l + c, t[m] = t[n]
               PROVE  m = n
    OBVIOUS
  <2>1. CASE m \in 1 .. l /\ n \in 1 .. l
    BY <1>4, <2>1 DEF Guards
  <2>2. CASE m \in l + 1 .. l + c /\ n \in l + 1 .. l + c
    <3>1. m - l = n - l
      BY <1>2, <1>4, <1>6, <2>2
    <3> QED BY <3>1
  <2>3. CASE m \in 1 .. l /\ n \in l + 1 .. l + c
    <3>1. t[m] \in p /\ t[n] \in D
      BY <1>2, <1>4, <1>5, <1>6, <2>3
    <3> QED BY <3>1
  <2>4. CASE n \in 1 .. l /\ m \in l + 1 .. l + c
    <3>1. t[n] \in p /\ t[m] \in D
      BY <1>2, <1>4, <1>5, <1>6, <2>4
    <3> QED BY <3>1
  <2> QED BY <2>1, <2>2, <2>3, <2>4
<1>8. Items(t) = p \cup D
  <2>1. \A n \in 1 .. l + c : t[n] \in p \cup D
    <3> SUFFICES ASSUME NEW n \in 1 .. l + c PROVE t[n] \in p \cup D
      OBVIOUS
    <3>1. CASE n \in 1 .. l
      BY <1>4, <1>5, <3>1
    <3>2. CASE n \in l + 1 .. l + c
      BY <1>2, <1>4, <1>6, <3>2
    <3> QED BY <3>1, <3>2
  <2>2. \A x \in p : \E n \in 1 .. l + c : t[n] = x
    <3>1. \A n \in 1 .. l : n \in 1 .. l + c
      OBVIOUS
    <3> QED BY <1>4, <3>1 DEF Guards, Items
  <2>3. ASSUME NEW x \in D PROVE \E n \in 1 .. l + c : t[n] = x
    <3>1. PICK m \in 1 .. c : r[m] = x
      BY <1>2
    <3>2. l + m \in l + 1 .. l + c /\ (l + m) - l = m /\ l + m \in 1 .. l + c
      OBVIOUS
    <3> QED BY <1>4, <3>1, <3>2
  <2>4. Items(t) = {t[n] : n \in 1 .. l + c}
    BY <1>4 DEF Items
  <2>5. Items(t) \subseteq p \cup D
    BY <2>1, <2>4
  <2>6. p \subseteq Items(t) /\ D \subseteq Items(t)
    BY <2>2, <2>3, <2>4
  <2> QED BY <2>5, <2>6
<1> QED BY <1>4, <1>7, <1>8 DEF Guards, t

\* Through the guard, an enqueue of a key keeps the queue and adds the key.
LEMMA EnqueueGuards ==
  ASSUME TypeOK, QueueGuarded, NEW k \in Key, Enqueue(k)
  PROVE  /\ queue' \in Seq(Key) /\ pending' = pending \cup {k} /\ QueueGuarded'
<1>1. Guards(pending, queue) /\ queue \in Seq(Key)
  BY DEF QueueGuarded, Guards, TypeOK
<1>2. CASE k \in pending
  BY <1>1, <1>2 DEF Enqueue, QueueGuarded, Items
<1>3. CASE k \notin pending
  <2>1. queue' = Append(queue, k) /\ pending' = pending \cup {k}
    BY <1>3 DEF Enqueue
  <2>2. Guards(pending \cup {k}, Append(queue, k))
    BY <1>1, <1>3, GuardsAppend
  <2> QED BY <1>1, <2>1, <2>2 DEF Guards, QueueGuarded, Items
<1> QED BY <1>2, <1>3

----------------------------------------------------------------------------
(* Types, guard and control shape, action by action.                       *)

USE DEF runtime, worker, retry, workset, fold, resync, history, Bounded

LEMMA LogGrows ==
  ASSUME TypeOK, NEW k \in Key, NEW w \in BOOLEAN,
         log' = Append(log, [key |-> k, write |-> w])
  PROVE  /\ log' \in Seq([key : Key, write : BOOLEAN])
         /\ Len(log) \in Nat /\ Len(log') = Len(log) + 1
         /\ \A n \in 1 .. Len(log) : log'[n] = log[n]
BY DEF TypeOK

\* The queue and the guard set as they were.
LEMMA QueueKept ==
  ASSUME QueueGuarded, UNCHANGED <<queue, pending>> PROVE QueueGuarded'
BY DEF QueueGuarded, Items

LEMMA CountedType ==
  ASSUME TypeOK, NEW c \in Bounded, Counted(c)
  PROVE  count' \in [Bounded -> Nat]
BY SMTT(60) DEF TypeOK, Counted

\* Positions stay within a log that grows.
LEMMA WithinGrows ==
  ASSUME TypeOK, Within(Len(log)), NEW l \in Nat, l >= Len(log) PROVE Within(l)
<1>1. /\ Len(log) \in Nat /\ pos \in Nat /\ seen \in Nat /\ started \in Nat /\ saved \in Nat
  BY DEF TypeOK
<1> QED BY <1>1 DEF Within

LEMMA EditFrame == ASSUME Frame, NEW k \in Key, Edit(k) PROVE Frame'
<1>1. PICK status \in {"settled", "drifting", "absent"} : Write(k, status)
  BY DEF Edit
<1>2. /\ log' \in Seq([key : Key, write : BOOLEAN])
      /\ Len(log) \in Nat /\ Len(log') = Len(log) + 1
  BY <1>1, LogGrows DEF Frame, Write
<1>3. TypeOK'
  <2>1. count' \in [Bounded -> Nat]
    BY CountedType DEF Frame, Edit
  <2>2. entity' \in [Key -> {"absent", "settled", "drifting"}]
    BY <1>1 DEF Frame, TypeOK, Write
  <2> QED BY ZenonT(60), <1>2, <2>1, <2>2 DEF Frame, TypeOK, Edit
<1>4. Shape'
  <2>1. Within(Len(log'))
    BY <1>2, WithinGrows DEF Frame, Shape
  <2> QED BY <2>1 DEF Frame, Shape, Control, Within, Edit
<1> QED BY <1>3, <1>4, QueueKept DEF Frame, Edit

LEMMA FoldFrame == ASSUME Frame, Fold PROVE Frame'
<1>1. pos \in Nat /\ Len(log) \in Nat /\ pos + 1 \in 1 .. Len(log)
  <2>1. pos \in Nat /\ Len(log) \in Nat /\ pos < Len(log)
    BY DEF Frame, TypeOK, Fold
  <2> QED BY <2>1
<1>2. log[pos + 1] \in [key : Key, write : BOOLEAN]
  <2> DEFINE R == [key : Key, write : BOOLEAN]
  <2>1. log \in Seq(R)
    BY DEF Frame, TypeOK
  <2> HIDE DEF R
  <2>2. log[pos + 1] \in R
    BY <1>1, <2>1
  <2> QED BY <2>2 DEF R
<1>3. /\ queue' \in Seq(Key) /\ pending' \subseteq Key /\ known' \subseteq Key
      /\ QueueGuarded'
  <2>1. CASE log[pos + 1].write
    BY ZenonT(60), <1>2, <2>1, EnqueueGuards DEF Frame, Fold, TypeOK
  <2>2. CASE ~log[pos + 1].write
    BY <2>2, QueueKept DEF Frame, Fold, TypeOK
  <2> QED BY <2>1, <2>2
<1>4. saved' \in Nat /\ pos' \in Nat /\ pos' <= Len(log) /\ saved' <= Len(log)
  BY <1>1 DEF Frame, TypeOK, Shape, Control, Within, Fold
<1>5. NoResume => saved' = 0
  BY DEF Frame, Shape, Control, Within, Fold, NoResume
<1>6. TypeOK'
  BY ZenonT(60), <1>3, <1>4 DEF Frame, TypeOK, Fold
<1>7. Shape'
  BY <1>4, <1>5 DEF Frame, Shape, Control, Within, Fold
<1> QED BY <1>3, <1>6, <1>7 DEF Frame

LEMMA LiveEdgeFrame == ASSUME Frame, ReachLiveEdge PROVE Frame'
<1>1. TypeOK'
  BY DEF Frame, TypeOK, ReachLiveEdge
<1>2. Shape'
  BY DEF Frame, TypeOK, Shape, Control, Within, ReachLiveEdge
<1> QED BY <1>1, <1>2, QueueKept DEF Frame, ReachLiveEdge

LEMMA PopFrame == ASSUME Frame, Pop PROVE Frame'
<1>1. Guards(pending, queue) /\ queue \in Seq(Key) /\ queue # << >>
  BY DEF Frame, TypeOK, QueueGuarded, Guards, Pop
<1>2. /\ Guards(pending', queue') /\ inflight' \in Key /\ queue' \in Seq(Key)
      /\ pending' \subseteq Key
  BY <1>1, GuardsTail DEF Pop, Frame, TypeOK
<1>3. TypeOK'
  BY <1>2 DEF Frame, TypeOK, Pop
<1>4. Shape'
  BY <1>2 DEF Frame, Shape, Control, Within, Pop
<1> QED BY <1>2, <1>3, <1>4 DEF Frame, Guards, QueueGuarded, Items

LEMMA FinishFrame ==
  ASSUME Frame, Running, inflight \in Key, NEW u \in Nat,
         Clear(inflight), Finish(inflight, u), log' \in Seq([key : Key, write : BOOLEAN]),
         Len(log') >= Len(log),
         UNCHANGED <<entity, delayed, workset, fold, resync, dead, count>>
  PROVE  Frame'
<1>1. Len(log) \in Nat /\ Len(log') \in Nat
  BY SMTT(60) DEF Frame, TypeOK
<1>2. TypeOK'
  BY DEF Frame, TypeOK, Clear, Finish
<1>3. Shape'
  <2>1. Within(Len(log'))
    BY <1>1, WithinGrows DEF Frame, Shape
  <2> QED BY <1>1, <2>1 DEF Frame, Shape, Control, Within, Finish, Running
<1> QED BY <1>2, <1>3, QueueKept DEF Frame

LEMMA GetFrame == ASSUME Frame, Get PROVE Frame'
<1>1. Len(log) \in Nat /\ inflight \in Key
  BY DEF Frame, TypeOK, Shape, Control, Within, Get
<1>2. CASE Drifting(inflight)
  <2>1. TypeOK'
    BY SMTT(60), <1>1, <1>2 DEF Frame, TypeOK, Get
  <2>2. Shape'
    BY <1>1, <1>2 DEF Frame, Shape, Control, Within, Get
  <2> QED BY <2>1, <2>2, QueueKept DEF Frame, Get
<1>3. CASE ~Drifting(inflight)
  <2>1. log' = log /\ log \in Seq([key : Key, write : BOOLEAN]) /\ Running
    BY DEF Frame, TypeOK, Get, Running
  <2>2. /\ Clear(inflight) /\ Finish(inflight, Len(log))
        /\ UNCHANGED <<entity, delayed, workset, fold, resync, dead, count>>
    BY <1>3 DEF Get
  <2>3. Len(log') >= Len(log)
    BY <1>1, <2>1
  <2> QED BY <1>1, <2>1, <2>2, <2>3, FinishFrame
<1> QED BY <1>2, <1>3

\* A handler that does not converge writes as any client does.
LEMMA HandlerEdits == (\E j \in Key : HandlerWrites(j)) => \E j \in Key : Edit(j)
BY DEF HandlerWrites

LEMMA SettlesFrame == ASSUME Frame, HandlerConverges PROVE Frame'
<1>1. inflight \in Key
  BY DEF Frame, Shape, Control, Within, HandlerConverges
<1>2. /\ log' \in Seq([key : Key, write : BOOLEAN])
      /\ Len(log) \in Nat /\ Len(log') = Len(log) + 1
  BY <1>1, LogGrows DEF Frame, HandlerConverges, Write
<1>3. TypeOK'
  BY <1>1, <1>2 DEF Frame, TypeOK, HandlerConverges, Write
<1>4. Shape'
  <2>1. Within(Len(log'))
    BY <1>2, WithinGrows DEF Frame, Shape
  <2> QED BY <1>1, <2>1 DEF Frame, Shape, Control, Within, HandlerConverges
<1> QED BY <1>3, <1>4, QueueKept DEF Frame, HandlerConverges

LEMMA BackOffFrame ==
  ASSUME Frame, BackOff(inflight), inflight \in Key, Running,
         UNCHANGED <<runtime, workset, fold, resync, dead, history, count>>
  PROVE  Frame'
<1>1. attempts[inflight] + 1 \in Nat
  BY DEF Frame, TypeOK
<1>2. attempts' \in [Key -> Nat]
  BY <1>1 DEF Frame, TypeOK, BackOff
<1>3. CASE attempts[inflight] + 1 >= MaxAttempts
  <2>1. TypeOK'
    BY <1>2, <1>3 DEF Frame, TypeOK, BackOff
  <2>2. Shape'
    BY <1>3 DEF Frame, Shape, Control, Within, BackOff, Running
  <2> QED BY <2>1, <2>2, QueueKept DEF Frame
<1>4. CASE ~(attempts[inflight] + 1 >= MaxAttempts)
  <2>1. TypeOK'
    BY SMTT(60), <1>2, <1>4 DEF Frame, TypeOK, BackOff
  <2>2. Shape'
    BY <1>4 DEF Frame, TypeOK, Shape, Control, Within, BackOff, Running
  <2> QED BY <2>1, <2>2, QueueKept DEF Frame
<1> QED BY <1>3, <1>4

LEMMA ConflictsFrame == ASSUME Frame, HandlerConflicts PROVE Frame'
<1>1. inflight \in Key /\ Running /\ Len(log) \in Nat
  BY DEF Frame, TypeOK, Shape, Control, Within, HandlerConflicts, Running
<1>2. CASE retries < MaxRetries
  <2>1. TypeOK'
    BY SMTT(60), <1>1, <1>2 DEF Frame, TypeOK, HandlerConflicts
  <2>2. Shape'
    BY <1>1, <1>2 DEF Frame, Shape, Control, Within, HandlerConflicts
  <2> QED BY <2>1, <2>2, QueueKept DEF Frame, HandlerConflicts
<1>3. CASE ~(retries < MaxRetries)
  BY <1>1, <1>3, BackOffFrame DEF HandlerConflicts
<1> QED BY <1>2, <1>3

LEMMA DoneFrame == ASSUME Frame, HandlerDone PROVE Frame'
<1>1. inflight \in Key /\ Running /\ seen \in Nat /\ Len(log) \in Nat
  BY SMTT(60) DEF Frame, TypeOK, Shape, Control, Within, HandlerDone, Running
<1>2. log' = log /\ log \in Seq([key : Key, write : BOOLEAN])
  BY DEF HandlerDone, Frame, TypeOK
<1>3. Len(log') >= Len(log)
  BY <1>1, <1>2
<1> QED BY <1>1, <1>2, <1>3, FinishFrame DEF HandlerDone

LEMMA FailsFrame == ASSUME Frame, HandlerFails PROVE Frame'
<1>1. inflight \in Key /\ Running
  BY DEF Frame, Shape, Control, Within, HandlerFails, Running
<1> QED BY <1>1, BackOffFrame DEF HandlerFails

LEMMA RecordFrame == ASSUME Frame, RecordGiveUp PROVE Frame'
<1>1. inflight \in Key
  BY DEF Frame, Shape, Control, Within, RecordGiveUp
<1>2. TypeOK'
  BY <1>1 DEF Frame, TypeOK, RecordGiveUp
<1>3. Shape'
  BY <1>1 DEF Frame, Shape, Control, Within, RecordGiveUp
<1> QED BY <1>2, <1>3, QueueKept DEF Frame, RecordGiveUp

LEMMA EmitFrame == ASSUME Frame, EmitGiveUp PROVE Frame'
<1>1. inflight \in Key /\ Running /\ seen \in Nat
  BY DEF Frame, TypeOK, Shape, Control, Within, EmitGiveUp, Running
<1>2. /\ log' \in Seq([key : Key, write : BOOLEAN])
      /\ Len(log) \in Nat /\ Len(log') = Len(log) + 1
  BY <1>1, LogGrows DEF Frame, EmitGiveUp
<1>3. Len(log') >= Len(log)
  BY <1>2
<1> QED BY <1>1, <1>2, <1>3, FinishFrame DEF EmitGiveUp

LEMMA TimerFrame == ASSUME Frame, NEW k \in delayed, TimerFires(k) PROVE Frame'
<1>1. k \in Key
  BY DEF Frame, TypeOK
<1>2. queue' \in Seq(Key) /\ pending' = pending \cup {k} /\ QueueGuarded'
  BY <1>1, EnqueueGuards DEF Frame, TimerFires
<1>3. TypeOK'
  BY SMTT(60), <1>1, <1>2 DEF Frame, TypeOK, TimerFires
<1>4. Shape'
  BY DEF Frame, Shape, Control, Within, TimerFires
<1> QED BY <1>2, <1>3, <1>4 DEF Frame

LEMMA ResyncFrame ==
  ASSUME Frame, ResyncWakes \/ ResyncEnqueues \/ \E k \in sweep : ResyncLooks(k)
  PROVE  Frame'
<1>1. CASE ResyncWakes
  <2>1. TypeOK'
    BY SMTT(60), <1>1 DEF Frame, TypeOK, ResyncWakes, Counted
  <2>2. Shape'
    BY <1>1 DEF Frame, Shape, Control, Within, ResyncWakes
  <2> QED BY <1>1, <2>1, <2>2, QueueKept DEF Frame, ResyncWakes
<1>2. CASE \E k \in sweep : ResyncLooks(k)
  <2>1. TypeOK'
    BY SMTT(60), <1>2 DEF Frame, TypeOK, ResyncLooks
  <2>2. Shape'
    BY <1>2 DEF Frame, Shape, Control, Within, ResyncLooks
  <2> QED BY <1>2, <2>1, <2>2, QueueKept DEF Frame, ResyncLooks
<1>3. CASE ResyncEnqueues
  <2>1. checking \in Key
    BY <1>3 DEF Frame, TypeOK, ResyncEnqueues
  <2>2. queue' \in Seq(Key) /\ pending' \subseteq Key /\ QueueGuarded'
    <3>1. CASE checking \in dead
      BY <1>3, <3>1, QueueKept DEF Frame, TypeOK, ResyncEnqueues
    <3>2. CASE checking \notin dead
      BY <1>3, <2>1, <3>2, EnqueueGuards DEF Frame, TypeOK, ResyncEnqueues
    <3> QED BY <3>1, <3>2
  <2>3. TypeOK'
    BY SMTT(60), <1>3, <2>2 DEF Frame, TypeOK, ResyncEnqueues
  <2>4. Shape'
    BY <1>3 DEF Frame, Shape, Control, Within, ResyncEnqueues
  <2> QED BY <2>2, <2>3, <2>4 DEF Frame
<1> QED BY <1>1, <1>2, <1>3

LEMMA StartFrame == ASSUME Frame, Start PROVE Frame'
<1>1. Len(log) \in Nat
  BY DEF Frame, TypeOK
<1>2. TypeOK'
  <2>1. count' \in [Bounded -> Nat]
    BY CountedType DEF Frame, Start
  <2> QED BY <1>1, <2>1 DEF Frame, TypeOK, Start
<1>3. Shape'
  BY <1>1 DEF Frame, TypeOK, Shape, Control, Within, Start, Running
<1> QED BY <1>2, <1>3, QueueKept DEF Frame, Start

LEMMA TeardownFrame ==
  ASSUME Frame, NEW how \in {"idle", "stopped"}, Teardown(how) PROVE Frame'
<1>1. TypeOK'
  BY DEF Frame, TypeOK, Teardown
<1>2. Shape'
  BY DEF Frame, TypeOK, Shape, Control, Within, Teardown
<1> QED BY <1>1, <1>2, QueueKept DEF Frame, Teardown

LEMMA DrainFrame == ASSUME Frame, Drain PROVE Frame'
<1> DEFINE D == dead \ pending
<1>1. D \in SUBSET Key /\ IsFiniteSet(D) /\ D \cap pending = {}
  BY ReconcilerAssumption, FS_Subset DEF Frame, TypeOK
<1>2. PICK order \in Bijection(1 .. Cardinality(D), D) : queue' = queue \o order
  BY DEF Drain
<1>3. Guards(pending, queue) /\ queue \in Seq(Key)
  BY DEF Frame, TypeOK, QueueGuarded, Guards
<1>4. Guards(pending \cup D, queue') /\ queue' \in Seq(Key)
  BY <1>1, <1>2, <1>3, GuardsConcat
<1>5. pending' = pending \cup D
  BY DEF Drain
<1>6. TypeOK'
  <2>1. count' \in [Bounded -> Nat]
    BY CountedType DEF Frame, Drain
  <2>2. attempts' \in [Key -> Nat] /\ pending' \subseteq Key /\ dead' \subseteq Key
    BY <1>1, <1>5 DEF Frame, TypeOK, Drain
  <2> QED BY ZenonT(60), <1>4, <2>1, <2>2 DEF Frame, TypeOK, Drain
<1>7. Shape'
  BY DEF Frame, Shape, Control, Within, Drain
<1> QED BY <1>4, <1>5, <1>6, <1>7 DEF Frame, Guards, QueueGuarded, Items

LEMMA StutterFrame == ASSUME Frame, UNCHANGED vars PROVE Frame'
<1>1. /\ log' = log /\ entity' = entity /\ pc' = pc /\ inflight' = inflight
      /\ seen' = seen /\ retries' = retries /\ attempts' = attempts
      /\ delayed' = delayed /\ queue' = queue /\ pending' = pending
      /\ known' = known /\ drained' = drained /\ watch' = watch /\ pos' = pos
      /\ saved' = saved /\ sweep' = sweep /\ checking' = checking /\ dead' = dead
      /\ started' = started /\ examined' = examined /\ outcome' = outcome
      /\ count' = count
  BY DEF vars
<1>2. TypeOK'
  BY <1>1 DEF Frame, TypeOK
<1>3. Shape'
  BY <1>1 DEF Frame, Shape, Control, Within
<1> QED BY <1>1, <1>2, <1>3, QueueKept DEF Frame

LEMMA FrameStep == Frame /\ [Next]_vars => Frame'
<1> SUFFICES ASSUME Frame, [Next]_vars PROVE Frame'
  OBVIOUS
<1>1. CASE Resync \/ ResyncWakes
  BY <1>1, ResyncFrame DEF Resync
<1>2. CASE Watch
  BY <1>2, FoldFrame, LiveEdgeFrame DEF Watch
<1>3. CASE Work
  <2>1. CASE Pop \/ Get \/ RecordGiveUp \/ EmitGiveUp
    BY <2>1, PopFrame, GetFrame, RecordFrame, EmitFrame
  <2>2. CASE Handler
    BY <2>2, ConflictsFrame, DoneFrame, FailsFrame, SettlesFrame, HandlerEdits, EditFrame
    DEF Handler
  <2>3. CASE ReturnIdle
    BY <2>3, TeardownFrame DEF ReturnIdle
  <2> QED BY <1>3, <2>1, <2>2, <2>3 DEF Work
<1>4. CASE Start \/ Stop \/ Drain
  BY <1>4, StartFrame, TeardownFrame, DrainFrame DEF Stop
<1>5. CASE \/ \E k \in delayed : TimerFires(k)
           \/ \E k \in Key : Edit(k)
  BY <1>5, TimerFrame, EditFrame
<1>6. CASE UNCHANGED vars
  BY <1>6, StutterFrame
<1> QED BY <1>1, <1>2, <1>3, <1>4, <1>5, <1>6 DEF Next

LEMMA FrameInit == Init => Frame
<1> SUFFICES ASSUME Init PROVE Frame
  OBVIOUS
<1>1. TypeOK
  <2>1. entity \in [Key -> {"absent", "settled", "drifting"}] /\ count \in [Bounded -> Nat]
    BY DEF Init
  <2>2. attempts \in [Key -> Nat] /\ examined \in [Key -> Nat]
    BY DEF Init
  <2>3. log \in Seq([key : Key, write : BOOLEAN]) /\ queue \in Seq(Key)
    BY DEF Init
  <2> QED BY <2>1, <2>2, <2>3 DEF Init, TypeOK
<1>2. QueueGuarded
  BY DEF Init, QueueGuarded, Items
<1>3. Shape
  BY DEF Init, Shape, Control, Within
<1> QED BY <1>1, <1>2, <1>3 DEF Frame

\* Every variable of the control loop keeps its type.
THEOREM TypeCorrect == Spec => []TypeOK
<1>1. Frame => TypeOK
  BY DEF Frame
<1> QED BY <1>1, FrameInit, FrameStep, PTL DEF Spec

\* The guard set is the queue and a key is queued once, however fold, timers, resync
\* and drain interleave with the worker's pops.
THEOREM QueueStaysGuarded == Spec => []QueueGuarded
<1>1. Frame => QueueGuarded
  BY DEF Frame
<1> QED BY <1>1, FrameInit, FrameStep, PTL DEF Spec

----------------------------------------------------------------------------
(* Nothing is forgotten.                                                   *)

\* What the ownership of an entry already folded reads is the same, or better for
\* it, after the step.
Keeps(n) ==
  /\ log'[n] = log[n]
  /\ pending \cup delayed \subseteq pending' \cup delayed'
  /\ examined[log[n].key] <= examined'[log[n].key]
  /\ inflight' = inflight /\ (pc = "getting" => pc' = "getting") /\ seen <= seen'

LEMMA Kept ==
  ASSUME TypeOK, TypeOK', NEW n \in 1 .. Len(log), n \in Nat, log[n].key \in Key,
         Owned(n), Keeps(n)
  PROVE  Owned(n)'
<1>1. /\ examined[log[n].key] \in Nat /\ examined'[log[n].key] \in Nat
      /\ seen \in Nat /\ seen' \in Nat
  BY DEF TypeOK
<1>2. CASE examined[log[n].key] >= n
  <2>1. examined'[log'[n].key] >= n
    BY <1>1, <1>2 DEF Keeps
  <2> QED BY <2>1 DEF Owned
<1>3. CASE log[n].key \in pending \cup delayed
  BY <1>3 DEF Keeps, Owned
<1>4. CASE log[n].key = inflight /\ (pc = "getting" \/ n <= seen)
  <2>1. pc = "getting" \/ n <= seen'
    BY <1>1, <1>4 DEF Keeps
  <2> QED BY <1>4, <2>1 DEF Keeps, Owned
<1> QED BY <1>2, <1>3, <1>4 DEF Owned

LEMMA LogEntry ==
  ASSUME TypeOK, NEW n \in 1 .. Len(log)
  PROVE  /\ log[n] \in [key : Key, write : BOOLEAN] /\ n \in Nat
         /\ log[n].key \in Key /\ log[n].write \in BOOLEAN
<1> DEFINE R == [key : Key, write : BOOLEAN]
<1>1. log \in Seq(R)
  BY DEF TypeOK
<1> HIDE DEF R
<1>2. log[n] \in R
  BY <1>1
<1> QED BY <1>2 DEF R

\* A step that moves neither the position nor the owners keeps the account.
LEMMA AccountKept ==
  ASSUME Frame, Frame', Accounted, pos' = pos, \A n \in 1 .. pos : Keeps(n)
  PROVE  Accounted'
<1> SUFFICES ASSUME NoResume, NEW n \in 1 .. pos, log'[n].write PROVE Owned(n)'
  BY DEF Accounted, NoResume
<1>1. n \in 1 .. Len(log)
  BY DEF Frame, TypeOK, Shape, Within
<1>2. log[n].key \in Key /\ n \in Nat
  BY <1>1, LogEntry DEF Frame
<1>3. Keeps(n) /\ Owned(n)
  BY DEF Accounted, Keeps
<1> QED BY <1>1, <1>2, <1>3, Kept DEF Frame

\* ... in particular one that leaves the log alone, or appends to it.
LEMMA AccountUntouched ==
  ASSUME Frame, Frame', Accounted,
         \/ log' = log
         \/ \E k \in Key, w \in BOOLEAN : log' = Append(log, [key |-> k, write |-> w]),
         pos' = pos, pending \cup delayed \subseteq pending' \cup delayed',
         examined' = examined, inflight' = inflight, seen' = seen,
         pc = "getting" => pc' = "getting"
  PROVE  Accounted'
<1>1. ASSUME NEW n \in 1 .. pos PROVE Keeps(n)
  <2>1. n \in 1 .. Len(log)
    BY DEF Frame, TypeOK, Shape, Within
  <2>2. log'[n] = log[n]
    BY <2>1, LogGrows DEF Frame
  <2>3. examined[log[n].key] \in Nat /\ seen \in Nat
    BY <2>1, LogEntry DEF Frame, TypeOK
  <2> QED BY <2>2, <2>3 DEF Keeps
<1> QED BY <1>1, AccountKept

\* The dispatch is over: what was in flight is dealt with up to the read.
LEMMA AccountFinished ==
  ASSUME Frame, Frame', Accounted, inflight \in Key, NEW u \in Nat,
         Finish(inflight, u), pos' = pos, delayed' = delayed, pending' = pending,
         \A n \in 1 .. pos : log'[n] = log[n],
         IF pc = "getting" THEN pos <= u ELSE u = seen,
         examined[inflight] <= u
  PROVE  Accounted'
<1> SUFFICES ASSUME NoResume, NEW n \in 1 .. pos, log'[n].write PROVE Owned(n)'
  BY DEF Accounted, NoResume
<1>1. n \in 1 .. Len(log) /\ pos \in Nat
  BY SMTT(60) DEF Frame, TypeOK, Shape, Within
<1>2. log[n].key \in Key /\ n \in Nat /\ log'[n] = log[n]
  BY <1>1, LogEntry DEF Frame
<1>3. examined \in [Key -> Nat] /\ seen \in Nat
  BY DEF Frame, TypeOK
<1>4. Owned(n)
  BY <1>2 DEF Accounted
<1>5. examined'[inflight] = u /\ \A k \in Key \ {inflight} : examined'[k] = examined[k]
  BY <1>3 DEF Finish
<1>6. CASE log[n].key \in pending \cup delayed
  BY <1>2, <1>6 DEF Owned
<1>7. CASE examined[log[n].key] >= n
  <2>1. examined'[log[n].key] >= n
    BY <1>2, <1>3, <1>5, <1>7
  <2> QED BY <1>2, <2>1 DEF Owned
<1>8. CASE log[n].key = inflight /\ (pc = "getting" \/ n <= seen)
  <2>1. u >= n
    BY <1>1, <1>2, <1>3, <1>8
  <2> QED BY <1>2, <1>5, <1>8, <2>1 DEF Owned
<1> QED BY <1>4, <1>6, <1>7, <1>8 DEF Owned

LEMMA LogNeverShrinks ==
  ASSUME Frame, [Next]_vars
  PROVE  \/ log' = log
         \/ \E k \in Key, w \in BOOLEAN : log' = Append(log, [key |-> k, write |-> w])
<1>1. CASE \E k \in Key : Edit(k)
  BY <1>1 DEF Edit, Write
<1>2. CASE EmitGiveUp
  BY <1>2 DEF EmitGiveUp, Frame, Shape, Control
<1>3. CASE HandlerConverges
  BY <1>3 DEF HandlerConverges, Write, Frame, Shape, Control
<1>4. CASE Resync \/ ResyncWakes \/ Watch
  BY <1>4 DEF Resync, ResyncWakes, ResyncLooks, ResyncEnqueues, Watch, Fold, ReachLiveEdge
<1>5. CASE \/ Pop \/ Get \/ RecordGiveUp \/ ReturnIdle
           \/ HandlerConflicts \/ HandlerDone \/ HandlerFails
  BY <1>5 DEF Pop, Get, RecordGiveUp, ReturnIdle, Teardown, HandlerConflicts,
              HandlerDone, HandlerFails
<1>6. CASE Start \/ Stop \/ Drain \/ (\E k \in delayed : TimerFires(k)) \/ UNCHANGED vars
  BY <1>6 DEF Start, Stop, Teardown, Drain, TimerFires, vars
<1> QED BY <1>1, <1>2, <1>3, <1>4, <1>5, <1>6, HandlerEdits DEF Next, Work, Handler

LEMMA LogMonotone ==
  ASSUME Frame, [Next]_vars
  PROVE  /\ Len(log) \in Nat /\ Len(log') \in Nat /\ Len(log') >= Len(log)
         /\ \A n \in 1 .. Len(log) : log'[n] = log[n]
<1>1. Len(log) \in Nat
  BY DEF Frame, TypeOK
<1>2. CASE log' = log
  BY <1>1, <1>2
<1>3. CASE \E k \in Key, w \in BOOLEAN : log' = Append(log, [key |-> k, write |-> w])
  <2>1. /\ Len(log') = Len(log) + 1
        /\ \A n \in 1 .. Len(log) : log'[n] = log[n]
    BY <1>3, LogGrows DEF Frame
  <2> QED BY <1>1, <2>1
<1> QED BY <1>2, <1>3, LogNeverShrinks

LEMMA FreshStep == ASSUME Frame, Fresh, [Next]_vars PROVE Fresh'
<1>1. /\ Len(log) \in Nat /\ Len(log') >= Len(log) /\ Len(log') \in Nat
      /\ examined \in [Key -> Nat] /\ seen \in Nat /\ seen <= Len(log)
  BY LogMonotone DEF Frame, TypeOK, Shape, Within
<1>2. ASSUME examined' = examined, seen' = seen,
             \/ pc' \notin {"handling", "returning", "recording", "emitting"}
             \/ pc \in {"handling", "returning", "recording", "emitting"}
      PROVE  Fresh'
  BY <1>1, <1>2 DEF Fresh
<1>3. ASSUME NEW u \in Nat, u <= Len(log), Finish(inflight, u)
      PROVE  Fresh'
  BY <1>1, <1>3 DEF Fresh, Finish
<1>4. ASSUME examined' = examined, seen' = Len(log) PROVE Fresh'
  BY <1>1, <1>4 DEF Fresh
<1>5. ASSUME BackOff(inflight), examined' = examined,
             pc \in {"handling", "returning", "recording", "emitting"}
      PROVE  Fresh'
  <2>1. CASE attempts[inflight] + 1 >= MaxAttempts
    BY <1>2, <1>5, <2>1 DEF BackOff
  <2>2. CASE ~(attempts[inflight] + 1 >= MaxAttempts)
    BY <1>1, <1>5, <2>2 DEF BackOff, Fresh
  <2> QED BY <2>1, <2>2
<1>6. CASE Resync \/ ResyncWakes \/ Watch
  BY <1>2, <1>6 DEF Resync, ResyncWakes, ResyncLooks, ResyncEnqueues, Watch, Fold, ReachLiveEdge
<1>7. CASE Pop \/ RecordGiveUp \/ HandlerConverges
  BY <1>2, <1>7 DEF Pop, RecordGiveUp, HandlerConverges
<1>8. CASE Get
  <2>1. CASE Drifting(inflight)
    BY <1>4, <1>8, <2>1 DEF Get
  <2>2. CASE ~Drifting(inflight)
    BY <1>1, <1>3, <1>8, <2>2 DEF Get
  <2> QED BY <2>1, <2>2
<1>9. CASE HandlerConflicts
  <2>1. CASE retries < MaxRetries
    BY <1>4, <1>9, <2>1 DEF HandlerConflicts
  <2>2. CASE ~(retries < MaxRetries)
    BY <1>5, <1>9, <2>2 DEF HandlerConflicts
  <2> QED BY <2>1, <2>2
<1>10. CASE HandlerDone \/ EmitGiveUp
  BY <1>1, <1>3, <1>10 DEF HandlerDone, EmitGiveUp
<1>11. CASE HandlerFails
  BY <1>5, <1>11 DEF HandlerFails
<1>12. CASE ReturnIdle \/ Stop
  <2>1. pc' = "stopped" /\ examined' = examined
    BY <1>12 DEF ReturnIdle, Stop, Teardown
  <2> QED BY <1>1, <2>1 DEF Fresh
<1>13. CASE Start \/ Drain \/ (\E k \in delayed : TimerFires(k)) \/ (\E k \in Key : Edit(k))
  BY <1>2, <1>13 DEF Start, Drain, TimerFires, Edit
<1>14. CASE UNCHANGED vars
  BY <1>2, <1>14 DEF vars
<1> QED
  BY <1>6, <1>7, <1>8, <1>9, <1>10, <1>11, <1>12, <1>13, <1>14, HandlerEdits
  DEF Next, Work, Handler

LEMMA AccountedStep == ASSUME Frame, Fresh, Accounted, [Next]_vars PROVE Accounted'
<1>0. Frame'
  BY FrameStep
<1>1. /\ \/ log' = log
         \/ \E k \in Key, w \in BOOLEAN : log' = Append(log, [key |-> k, write |-> w])
      /\ Len(log) \in Nat /\ \A n \in 1 .. Len(log) : log'[n] = log[n]
  BY LogNeverShrinks, LogMonotone
<1>2. /\ pos \in Nat /\ pos <= Len(log) /\ seen \in Nat /\ seen <= Len(log)
      /\ examined \in [Key -> Nat] /\ \A k \in Key : examined[k] <= Len(log)
  BY DEF Frame, TypeOK, Shape, Within, Fresh
<1>3. \A n \in 1 .. pos : n \in 1 .. Len(log)
  BY <1>1, <1>2
<1>4. ASSUME UNCHANGED <<pos, pending, delayed, examined, inflight, seen>>,
             pc = "getting" => pc' = "getting"
      PROVE  Accounted'
  BY <1>0, <1>1, <1>4, AccountUntouched
<1>5. ASSUME BackOff(inflight), inflight \in Key, pc # "getting",
             UNCHANGED <<pos, pending, examined>>
      PROVE  Accounted'
  <2>1. CASE attempts[inflight] + 1 >= MaxAttempts
    BY <1>4, <1>5, <2>1 DEF BackOff
  <2>2. CASE ~(attempts[inflight] + 1 >= MaxAttempts)
    <3>1. delayed' = delayed \cup {inflight}
      BY <1>5, <2>2 DEF BackOff
    <3> SUFFICES ASSUME NoResume, NEW n \in 1 .. pos, log'[n].write PROVE Owned(n)'
      BY <1>5 DEF Accounted, NoResume
    <3>2. log'[n] = log[n] /\ Owned(n)
      BY <1>1, <1>3 DEF Accounted
    <3> QED BY <1>5, <3>1, <3>2 DEF Owned
  <2> QED BY <2>1, <2>2
<1>6. CASE Resync \/ ResyncWakes
  <2>1. /\ UNCHANGED <<pos, delayed, examined, inflight, seen, pc>>
        /\ pending \subseteq pending'
    BY <1>6 DEF Resync, ResyncWakes, ResyncLooks, ResyncEnqueues, Enqueue
  <2> QED BY <1>0, <1>1, <2>1, AccountUntouched
<1>7. CASE Fold
  <2> SUFFICES ASSUME NoResume, NEW n \in 1 .. pos + 1, log[n].write PROVE Owned(n)'
    BY <1>7 DEF Accounted, NoResume, Fold
  <2>1. /\ UNCHANGED <<log, delayed, examined, inflight, seen, pc>>
        /\ pending \subseteq pending'
    BY <1>7 DEF Fold, Enqueue
  <2>2. CASE n \in 1 .. pos
    <3>1. Owned(n)
      BY <2>2 DEF Accounted
    <3> QED BY <2>1, <3>1 DEF Owned
  <2>3. CASE n = pos + 1
    <3>1. log[n].key \in pending'
      BY <1>7, <2>3 DEF Fold, Enqueue
    <3> QED BY <2>1, <3>1 DEF Owned
  <2>4. n \in 1 .. pos \/ n = pos + 1
    BY <1>2
  <2> QED BY <2>2, <2>3, <2>4
<1>8. CASE ReachLiveEdge
  BY <1>4, <1>8 DEF ReachLiveEdge
<1>9. CASE Pop
  <2> SUFFICES ASSUME NoResume, NEW n \in 1 .. pos, log[n].write PROVE Owned(n)'
    BY <1>9 DEF Accounted, NoResume, Pop
  <2>1. /\ pending' = pending \ {inflight'} /\ pc' = "getting" /\ inflight = None
        /\ UNCHANGED <<log, delayed, examined>>
    BY <1>9 DEF Pop, Frame, Shape, Control
  <2>2. Owned(n) /\ log[n].key \in Key
    BY <1>3, LogEntry DEF Accounted, Frame
  <2> QED BY <2>1, <2>2, ReconcilerAssumption DEF Owned
<1>10. CASE Get
  <2>1. CASE Drifting(inflight)
    <3> SUFFICES ASSUME NoResume, NEW n \in 1 .. pos, log[n].write PROVE Owned(n)'
      BY <1>10 DEF Accounted, NoResume, Get
    <3>1. /\ seen' = Len(log) /\ UNCHANGED <<log, inflight, delayed, pending, examined>>
      BY <1>10, <2>1 DEF Get
    <3>2. Owned(n) /\ n <= Len(log)
      BY <1>1, <1>2 DEF Accounted
    <3> QED BY <3>1, <3>2 DEF Owned
  <2>2. CASE ~Drifting(inflight)
    <3>1. /\ Finish(inflight, Len(log))
          /\ UNCHANGED <<pos, delayed, pending, log>> /\ inflight \in Key /\ pc = "getting"
      BY <1>10, <2>2 DEF Get, Frame, Shape, Control
    <3> QED BY <1>0, <1>1, <1>2, <3>1, AccountFinished
  <2> QED BY <2>1, <2>2
<1>11. CASE RecordGiveUp \/ HandlerConverges
  BY <1>4, <1>11 DEF RecordGiveUp, HandlerConverges
<1>12. CASE HandlerConflicts
  <2>1. CASE retries < MaxRetries
    <3> SUFFICES ASSUME NoResume, NEW n \in 1 .. pos, log[n].write PROVE Owned(n)'
      BY <1>12 DEF Accounted, NoResume, HandlerConflicts
    <3>1. seen' = Len(log) /\ UNCHANGED <<log, pc, inflight, delayed, pending, examined>>
      BY <1>12, <2>1 DEF HandlerConflicts
    <3>2. Owned(n) /\ n <= Len(log)
      BY <1>1, <1>2 DEF Accounted
    <3> QED BY <3>1, <3>2 DEF Owned
  <2>2. CASE ~(retries < MaxRetries)
    <3>1. inflight \in Key
      BY <1>12 DEF HandlerConflicts, Frame, Shape, Control
    <3> QED BY <1>5, <1>12, <2>2, <3>1 DEF HandlerConflicts
  <2> QED BY <2>1, <2>2
<1>13. CASE HandlerDone \/ EmitGiveUp
  <2>1. /\ Finish(inflight, seen) /\ UNCHANGED <<pos, delayed, pending>>
        /\ inflight \in Key /\ pc # "getting" /\ examined[inflight] <= seen
    BY <1>13 DEF HandlerDone, EmitGiveUp, Frame, Shape, Control, Fresh
  <2>2. \A n \in 1 .. pos : log'[n] = log[n]
    BY <1>1, <1>3
  <2> QED BY <1>0, <1>2, <2>1, <2>2, AccountFinished
<1>14. CASE HandlerFails
  <2>1. inflight \in Key
    BY <1>14 DEF HandlerFails, Frame, Shape, Control
  <2> QED BY <1>5, <1>14, <2>1 DEF HandlerFails
<1>15. CASE ReturnIdle \/ Stop
  <2>1. pos' = 0
    BY <1>15 DEF ReturnIdle, Stop, Teardown
  <2> QED BY <2>1 DEF Accounted
<1>16. CASE Start
  <2>1. NoResume => pos' = 0
    BY <1>16 DEF Start, Frame, Shape, Control
  <2> QED BY <2>1 DEF Accounted, NoResume
<1>17. CASE Drain \/ \E k \in delayed : TimerFires(k)
  <2>1. /\ UNCHANGED <<pos, examined, inflight, seen, pc>>
        /\ pending \cup delayed \subseteq pending' \cup delayed'
    BY <1>17 DEF Drain, TimerFires, Enqueue
  <2> QED BY <1>0, <1>1, <2>1, AccountUntouched
<1>18. CASE (\E k \in Key : Edit(k)) \/ UNCHANGED vars
  BY <1>4, <1>18 DEF Edit, vars
<1> QED
  BY <1>6, <1>7, <1>8, <1>9, <1>10, <1>11, <1>12, <1>13, <1>14, <1>15, <1>16, <1>17, <1>18,
     HandlerEdits
  DEF Next, Work, Handler, Watch

\* While run() lasts, a key with a folded change that no dispatch has dealt with is
\* queued, in flight or waiting on a timer - unless a saved cursor may hide changes.
THEOREM NothingIsForgotten == NoResume => (Spec => []NothingForgotten)
<1> SUFFICES ASSUME NoResume PROVE Spec => []NothingForgotten
  OBVIOUS
<1> DEFINE I == Frame /\ Fresh /\ Accounted
<1>1. Init => I
  <2>1. Init => Fresh /\ Accounted
    BY DEF Init, Fresh, Accounted
  <2> QED BY <2>1, FrameInit
<1>2. I /\ [Next]_vars => I'
  BY FrameStep, FreshStep, AccountedStep
<1>3. I => NothingForgotten
  BY DEF Accounted, Owned, NothingForgotten
<1> HIDE DEF I
<1> QED BY <1>1, <1>2, <1>3, PTL DEF Spec

LEMMA FirstRunStep ==
  ASSUME Frame, FirstRun, [Next]_vars PROVE FirstRun'
<1>1. /\ pos \in Nat /\ Len(log) \in Nat /\ started \in Nat /\ started <= Len(log)
      /\ pos <= Len(log) /\ count["runs"] \in Nat
  BY DEF Frame, TypeOK, Shape, Within
<1>2. ASSUME (pc' = "stopped") <=> (pc = "stopped"),
             UNCHANGED <<outcome, drained, pos, started>>, count'["runs"] = count["runs"]
      PROVE  FirstRun'
  BY <1>2 DEF FirstRun, Running
<1>3. CASE Resync \/ ResyncWakes
  BY <1>2, <1>3 DEF Resync, ResyncWakes, ResyncLooks, ResyncEnqueues, Counted, Frame, TypeOK
<1>4. CASE Fold
  <2>1. /\ UNCHANGED <<pc, outcome, drained, started, count>> /\ pos' = pos + 1
    BY <1>4 DEF Fold
  <2> QED BY <1>1, <2>1 DEF FirstRun, Running
<1>5. CASE ReachLiveEdge
  <2>1. /\ UNCHANGED <<pc, outcome, started, count, pos>> /\ pos = Len(log)
        /\ pc # "stopped"
    BY <1>5 DEF ReachLiveEdge, Frame, Shape, Control
  <2> QED BY <1>1, <2>1 DEF FirstRun, Running
<1>6. CASE Pop \/ Get \/ RecordGiveUp \/ EmitGiveUp
  BY <1>2, <1>6 DEF Pop, Get, RecordGiveUp, EmitGiveUp, Finish
<1>7. CASE HandlerConverges \/ HandlerConflicts \/ HandlerDone \/ HandlerFails
  BY <1>2, <1>7 DEF HandlerConverges, HandlerConflicts, HandlerDone, HandlerFails,
                    Finish, BackOff
<1>8. CASE ReturnIdle \/ Stop
  <2>1. pc # "stopped" /\ pc' = "stopped" /\ count' = count
    BY <1>8 DEF ReturnIdle, Stop, Teardown, Running
  <2> QED BY <1>1, <2>1 DEF FirstRun, Running
<1>9. CASE Start
  <2>1. /\ count'["runs"] = count["runs"] + 1 /\ ~Running /\ outcome' = "none"
        /\ drained' = drained
    BY <1>9 DEF Start, Counted, Frame, TypeOK
  <2> QED BY <1>1, <2>1 DEF FirstRun, Running
<1>10. CASE Drain \/ (\E k \in delayed : TimerFires(k)) \/ (\E k \in Key : Edit(k))
  BY <1>2, <1>10 DEF Drain, TimerFires, Edit, Counted, Frame, TypeOK
<1>11. CASE UNCHANGED vars
  BY <1>2, <1>11 DEF vars
<1> QED
  BY <1>3, <1>4, <1>5, <1>6, <1>7, <1>8, <1>9, <1>10, <1>11, HandlerEdits
  DEF Next, Work, Watch, Handler

LEMMA FirstIdleStep ==
  ASSUME Frame, Accounted, FirstRun, FirstIdleIsQuiet, NoResume, [Next]_vars
  PROVE  FirstIdleIsQuiet'
<1>1. /\ pos \in Nat /\ Len(log) \in Nat /\ started \in Nat /\ started <= Len(log)
      /\ pos <= Len(log)
  BY DEF Frame, TypeOK, Shape, Within
<1>2. \A n \in 1 .. Len(log) : log'[n] = log[n]
  BY LogMonotone
<1>3. ASSUME UNCHANGED <<outcome, started, examined>>,
             count'["runs"] = count["runs"] \/ outcome = "none"
      PROVE  FirstIdleIsQuiet'
  BY <1>1, <1>2, <1>3 DEF FirstIdleIsQuiet
<1>4. ASSUME outcome' # "idle" PROVE FirstIdleIsQuiet'
  BY <1>4 DEF FirstIdleIsQuiet
<1>5. CASE Resync \/ ResyncWakes \/ Watch
  BY <1>3, <1>5 DEF Resync, ResyncWakes, ResyncLooks, ResyncEnqueues, Counted, Watch, Fold,
                    ReachLiveEdge, Frame, TypeOK
<1>6. CASE \/ Pop \/ Get \/ RecordGiveUp \/ EmitGiveUp
           \/ HandlerConverges \/ HandlerConflicts \/ HandlerDone \/ HandlerFails
  <2>1. outcome = "none" /\ outcome' = outcome
    BY <1>6 DEF FirstRun, Running, Pop, Get, RecordGiveUp, EmitGiveUp, Finish,
                HandlerConverges, HandlerConflicts, HandlerDone, HandlerFails, BackOff
  <2> QED BY <1>4, <2>1
<1>7. CASE ReturnIdle
  <2> SUFFICES ASSUME count["runs"] = 1, NEW n \in 1 .. started, log[n].write
               PROVE  examined[log[n].key] >= n
    BY <1>7 DEF FirstIdleIsQuiet, ReturnIdle, Teardown
  <2>1. /\ queue = << >> /\ inflight = None /\ delayed = {} /\ drained /\ pc = "polling"
    BY <1>7 DEF ReturnIdle, IsIdle
  <2>2. pending = {}
    BY <2>1 DEF Frame, QueueGuarded, Items
  <2>3. n \in 1 .. pos
    BY <1>1, <2>1 DEF FirstRun, Running
  <2>4. log[n].key \in Key
    BY <1>1, <2>3, LogEntry DEF Frame
  <2>5. Owned(n)
    BY <2>3 DEF Accounted
  <2> QED BY <2>1, <2>2, <2>4, <2>5, ReconcilerAssumption DEF Owned
<1>8. CASE Stop \/ Start
  BY <1>4, <1>8 DEF Stop, Teardown, Start
<1>9. CASE Drain \/ (\E k \in delayed : TimerFires(k)) \/ (\E k \in Key : Edit(k))
  BY <1>3, <1>9 DEF Drain, TimerFires, Edit, Counted, Frame, TypeOK
<1>10. CASE UNCHANGED vars
  BY <1>3, <1>10 DEF vars
<1> QED
  BY <1>5, <1>6, <1>7, <1>8, <1>9, <1>10, HandlerEdits DEF Next, Work, Handler

LEMMA LoopInit == Init => LoopInv
<1>1. Init => Fresh /\ Accounted /\ FirstRun /\ FirstIdleIsQuiet
  BY DEF Init, Fresh, Accounted, FirstRun, FirstIdleIsQuiet, Running
<1> QED BY <1>1, FrameInit DEF LoopInv

LEMMA LoopStep == ASSUME NoResume, LoopInv, [Next]_vars PROVE LoopInv'
BY FrameStep, FreshStep, AccountedStep, FirstRunStep, FirstIdleStep DEF LoopInv

\* When the first run() returns by itself, every change logged before it began has
\* been dealt with.
THEOREM FirstIdleMeansQuiet == NoResume => (Spec => []FirstIdleIsQuiet)
<1> SUFFICES ASSUME NoResume PROVE Spec => []FirstIdleIsQuiet
  OBVIOUS
<1>1. LoopInv /\ [Next]_vars => LoopInv'
  BY LoopStep
<1>2. LoopInv => FirstIdleIsQuiet
  BY DEF LoopInv
<1> QED BY <1>1, <1>2, LoopInit, PTL DEF Spec

(***************************************************************************)
(* Convergence.  In the first run a key whose handler converges drifts     *)
(* only by a write later than the last dispatch dealt with, or as long as  *)
(* somebody still holds it; at the end nobody does.                        *)
(***************************************************************************)
Settling == Handled \cap Converging

Drifts(k) == entity[k] = "drifting"

HeldBack(k) == k \in dead \cup pending \cup delayed

KeyConverges(k) ==
  Drifts(k) => Written(k, examined[k]) \/ HeldBack(k) \/ k = inflight

\* The dispatch in hand has written its entity, or given the key up.
InHandConverges ==
  (pc \in {"returning", "emitting"} /\ inflight \in Settling /\ Drifts(inflight)) =>
    Written(inflight, seen) \/ HeldBack(inflight)

Converges == (\A k \in Settling : KeyConverges(k)) /\ InHandConverges

Convergent == (outcome = "none" /\ count["runs"] <= 1) => Converges

\* What was written stays written, and what is written now is later than any read.
LEMMA WrittenKept ==
  ASSUME Frame, [Next]_vars, NEW k, NEW n \in Nat, Written(k, n)
  PROVE  Written(k, n)'
<1>1. PICK m \in 1 .. Len(log) : m > n /\ log[m].key = k /\ log[m].write
  BY DEF Written, Frame, TypeOK
<1>2. m \in 1 .. Len(log') /\ log'[m] = log[m]
  BY <1>1, LogMonotone
<1>3. DOMAIN log' = 1 .. Len(log')
  BY FrameStep DEF Frame, TypeOK
<1> QED BY <1>1, <1>2, <1>3 DEF Written

LEMMA WriteIsWritten ==
  ASSUME Frame, NEW k \in Key, NEW status, Write(k, status), NEW n \in Nat, n <= Len(log)
  PROVE  Written(k, n)'
<1> DEFINE e == [key |-> k, write |-> TRUE]
<1>1. log \in Seq([key : Key, write : BOOLEAN]) /\ log' = Append(log, e)
      /\ e.key = k /\ e.write = TRUE
  BY DEF Frame, TypeOK, Write
<1> HIDE DEF e
<1>2. Len(log) \in Nat /\ DOMAIN log' = 1 .. Len(log) + 1 /\ log'[Len(log) + 1] = e
  BY <1>1
<1>3. Len(log) + 1 \in DOMAIN log' /\ Len(log) + 1 > n
  BY <1>2
<1> QED BY <1>1, <1>2, <1>3 DEF Written

\* What a step of the first run starts from.
LEMMA FirstRunFacts ==
  ASSUME Frame, Fresh
  PROVE  /\ Settling \subseteq Key /\ None \notin Key
         /\ examined \in [Key -> Nat] /\ seen \in Nat /\ count["runs"] \in Nat
         /\ Len(log) \in Nat /\ seen <= Len(log) /\ \A k \in Key : examined[k] <= Len(log)
         /\ entity \in [Key -> {"absent", "settled", "drifting"}]
BY ReconcilerAssumption DEF Settling, Frame, TypeOK, Shape, Within, Fresh, Bounded

\* A step that writes no entity and ends no dispatch lets go of no key.
LEMMA ConvergesKept ==
  ASSUME Frame, Fresh, Converges, [Next]_vars,
         UNCHANGED <<entity, examined, inflight, seen>>,
         pc' \in {"returning", "emitting"} => pc' = pc,
         \A k \in Key : HeldBack(k) => HeldBack(k)'
  PROVE  Converges'
<1>1. ASSUME NEW k \in Settling PROVE KeyConverges(k)'
  <2>1. k \in Key /\ examined[k] \in Nat /\ KeyConverges(k)
    BY FirstRunFacts DEF Converges
  <2> QED BY <2>1, WrittenKept DEF KeyConverges, Drifts
<1>2. InHandConverges'
  <2> SUFFICES ASSUME pc' \in {"returning", "emitting"}, inflight \in Settling, Drifts(inflight)
               PROVE  Written(inflight, seen)' \/ HeldBack(inflight)'
    BY DEF InHandConverges, Drifts
  <2>1. Written(inflight, seen) \/ HeldBack(inflight)
    BY DEF Converges, InHandConverges
  <2> QED BY <2>1, WrittenKept, FirstRunFacts
<1> QED BY <1>1, <1>2 DEF Converges

\* The end of a dispatch: its key does not drift, was written after the read, or is held.
LEMMA ConvergesFinished ==
  ASSUME Frame, Fresh, Converges, [Next]_vars, inflight \in Key,
         NEW u \in Nat, Finish(inflight, u), UNCHANGED <<entity, dead, pending, delayed>>,
         inflight \in Settling /\ Drifts(inflight) => Written(inflight, u) \/ HeldBack(inflight)
  PROVE  Converges'
<1>1. ASSUME NEW k \in Settling PROVE KeyConverges(k)'
  <2>1. /\ k \in Key /\ examined[k] \in Nat /\ KeyConverges(k)
        /\ examined'[k] = IF k = inflight THEN u ELSE examined[k]
    BY FirstRunFacts DEF Converges, Finish
  <2> QED BY <2>1, WrittenKept DEF KeyConverges, Drifts, HeldBack
<1>2. InHandConverges'
  BY DEF InHandConverges, Finish
<1> QED BY <1>1, <1>2 DEF Converges

\* A write settles the entity, or is later than what was examined and read.
LEMMA ConvergesWritten ==
  ASSUME Frame, Fresh, Converges, [Next]_vars, NEW j \in Key, NEW status, Write(j, status),
         UNCHANGED <<examined, inflight, seen, dead, pending, delayed>>,
         \/ status # "drifting" /\ (pc' = "returning" => pc' = pc \/ j = inflight \/ inflight \notin Converging)
         \/ pc' = pc,
         pc' = "emitting" => pc' = pc
  PROVE  Converges'
<1>1. /\ entity' = [entity EXCEPT ![j] = status] /\ entity'[j] = status
      /\ \A k \in Key \ {j} : entity'[k] = entity[k]
  BY FirstRunFacts DEF Write
<1>2. ASSUME NEW k \in Settling PROVE KeyConverges(k)'
  <2>1. k \in Key /\ examined[k] \in Nat /\ examined[k] <= Len(log) /\ KeyConverges(k)
    BY FirstRunFacts DEF Converges
  <2>2. CASE k = j
    BY <2>1, <2>2, WriteIsWritten DEF KeyConverges
  <2>3. CASE k # j
    BY <1>1, <2>1, <2>3, WrittenKept DEF KeyConverges, Drifts, HeldBack
  <2> QED BY <2>2, <2>3
<1>3. InHandConverges'
  <2> SUFFICES ASSUME pc' \in {"returning", "emitting"}, inflight \in Settling, Drifts(inflight)'
               PROVE  Written(inflight, seen)' \/ HeldBack(inflight)'
    BY DEF InHandConverges, Drifts
  <2>1. inflight \in Key /\ inflight \in Converging /\ seen \in Nat /\ seen <= Len(log)
    BY FirstRunFacts DEF Settling
  <2>2. CASE inflight = j
    BY <2>1, <2>2, WriteIsWritten
  <2>3. CASE inflight # j
    <3>1. Drifts(inflight)
      BY <1>1, <2>1, <2>3 DEF Drifts
    <3>2. pc' = pc
      BY <1>1, <2>1, <2>3
    <3>3. Written(inflight, seen) \/ HeldBack(inflight)
      BY <3>1, <3>2 DEF Converges, InHandConverges
    <3> QED BY <2>1, <3>3, WrittenKept DEF HeldBack
  <2> QED BY <2>2, <2>3
<1> QED BY <1>2, <1>3 DEF Converges

\* The worker's part of the step.
LEMMA ConvergesWork ==
  ASSUME DeadLetter # "none", Frame, Fresh, Converges, [Next]_vars,
         \/ Pop \/ Get \/ RecordGiveUp \/ EmitGiveUp
         \/ HandlerConverges \/ HandlerConflicts \/ HandlerDone \/ HandlerFails
  PROVE  Converges'
<1>0. /\ pc \notin {"stopped", "polling"} => inflight \in Key
      /\ pc \in {"stopped", "polling"} => inflight = None
      /\ examined \in [Key -> Nat] /\ seen \in Nat /\ None \notin Key
      /\ Settling \subseteq Key /\ Len(log) \in Nat
  BY FirstRunFacts DEF Frame, Shape, Control
<1>1. ASSUME BackOff(inflight), pc = "handling", UNCHANGED <<entity, examined, dead, pending>>
      PROVE  Converges'
  <2>1. ASSUME NEW k \in Settling PROVE KeyConverges(k)'
    <3>1. k \in Key /\ examined[k] \in Nat /\ KeyConverges(k)
      BY <1>0 DEF Converges
    <3>2. HeldBack(k) \/ k = inflight => HeldBack(k)' \/ k = inflight'
      BY <1>1 DEF BackOff, HeldBack
    <3> QED BY <1>1, <3>1, <3>2, WrittenKept DEF KeyConverges, Drifts
  <2>2. pc' \notin {"returning", "emitting"}
    BY <1>1 DEF BackOff
  <2> QED BY <2>1, <2>2 DEF Converges, InHandConverges
<1>2. CASE Pop
  <2>1. /\ inflight = None /\ pending' = pending \ {inflight'} /\ pc' = "getting"
        /\ UNCHANGED <<entity, examined, dead, delayed>>
    BY <1>0, <1>2 DEF Pop
  <2>2. ASSUME NEW k \in Settling PROVE KeyConverges(k)'
    <3>1. k \in Key /\ examined[k] \in Nat /\ KeyConverges(k)
      BY <1>0 DEF Converges
    <3> QED BY <1>0, <2>1, <3>1, WrittenKept DEF KeyConverges, Drifts, HeldBack
  <2> QED BY <2>1, <2>2 DEF Converges, InHandConverges
<1>3. CASE Get
  <2>1. CASE Drifting(inflight)
    <3>1. /\ pc' = "handling" /\ UNCHANGED <<entity, examined, inflight, dead, pending, delayed>>
      BY <1>3, <2>1 DEF Get
    <3>2. ASSUME NEW k \in Settling PROVE KeyConverges(k)'
      <4>1. k \in Key /\ examined[k] \in Nat /\ KeyConverges(k)
        BY <1>0 DEF Converges
      <4> QED BY <3>1, <4>1, WrittenKept DEF KeyConverges, Drifts, HeldBack
    <3> QED BY <3>1, <3>2 DEF Converges, InHandConverges
  <2>2. CASE ~Drifting(inflight)
    <3>1. /\ Finish(inflight, Len(log)) /\ inflight \in Key
          /\ UNCHANGED <<entity, dead, pending, delayed>>
      BY <1>0, <1>3, <2>2 DEF Get
    <3>2. ~(inflight \in Settling /\ Drifts(inflight))
      BY <2>2 DEF Drifting, Settling, Drifts
    <3> QED BY <1>0, <3>1, <3>2, ConvergesFinished
  <2> QED BY <2>1, <2>2
<1>4. CASE HandlerConverges
  <2>1. /\ inflight \in Key /\ Write(inflight, "settled") /\ pc' = "returning"
        /\ UNCHANGED <<examined, inflight, seen, dead, pending, delayed>>
    BY <1>0, <1>4 DEF HandlerConverges
  <2> QED BY <2>1, ConvergesWritten
<1>5. CASE HandlerConflicts
  <2>1. CASE retries < MaxRetries
    <3>1. /\ pc = "handling" /\ pc' = "handling"
          /\ UNCHANGED <<entity, examined, inflight, dead, pending, delayed>>
      BY <1>5, <2>1 DEF HandlerConflicts
    <3>2. ASSUME NEW k \in Settling PROVE KeyConverges(k)'
      <4>1. k \in Key /\ examined[k] \in Nat /\ KeyConverges(k)
        BY <1>0 DEF Converges
      <4> QED BY <3>1, <4>1, WrittenKept DEF KeyConverges, Drifts, HeldBack
    <3> QED BY <3>1, <3>2 DEF Converges, InHandConverges
  <2>2. CASE ~(retries < MaxRetries)
    BY <1>1, <1>5, <2>2 DEF HandlerConflicts
  <2> QED BY <2>1, <2>2
<1>6. CASE HandlerDone
  <2>1. /\ Finish(inflight, seen) /\ inflight \in Key
        /\ UNCHANGED <<entity, dead, pending, delayed>>
    BY <1>0, <1>6 DEF HandlerDone
  <2>2. inflight \in Settling /\ Drifts(inflight) => Written(inflight, seen) \/ HeldBack(inflight)
    BY <1>6 DEF HandlerDone, Settling, Drifting, Drifts, Converges, InHandConverges
  <2> QED BY <1>0, <2>1, <2>2, ConvergesFinished
<1>7. CASE HandlerFails
  <2>1. ASSUME NEW k \in Settling PROVE KeyConverges(k)'
    <3>1. k \in Key /\ examined[k] \in Nat /\ KeyConverges(k)
      BY <1>0 DEF Converges
    <3>2. k # inflight /\ (HeldBack(k) => HeldBack(k)') /\ UNCHANGED <<entity, examined>>
      BY <1>7 DEF HandlerFails, BackOff, HeldBack, Settling
    <3> QED BY <3>1, <3>2, WrittenKept DEF KeyConverges, Drifts
  <2>2. pc' \notin {"returning", "emitting"}
    BY <1>7 DEF HandlerFails, BackOff
  <2> QED BY <2>1, <2>2 DEF Converges, InHandConverges
<1>8. CASE RecordGiveUp
  <2>1. /\ dead' = dead \cup {inflight} /\ inflight \in Key
        /\ UNCHANGED <<entity, examined, inflight, seen, pending, delayed>>
    BY <1>0, <1>8 DEF RecordGiveUp
  <2>2. ASSUME NEW k \in Settling PROVE KeyConverges(k)'
    <3>1. k \in Key /\ examined[k] \in Nat /\ KeyConverges(k)
      BY <1>0 DEF Converges
    <3> QED BY <2>1, <3>1, WrittenKept DEF KeyConverges, Drifts, HeldBack
  <2> QED BY <2>1, <2>2 DEF Converges, InHandConverges, HeldBack
<1>9. CASE EmitGiveUp
  <2>1. /\ Finish(inflight, seen) /\ inflight \in Key /\ pc = "emitting"
        /\ UNCHANGED <<entity, dead, pending, delayed>>
    BY <1>0, <1>9 DEF EmitGiveUp
  <2>2. inflight \in Settling /\ Drifts(inflight) => Written(inflight, seen) \/ HeldBack(inflight)
    BY <2>1 DEF Converges, InHandConverges
  <2> QED BY <1>0, <2>1, <2>2, ConvergesFinished
<1> QED BY <1>2, <1>3, <1>4, <1>5, <1>6, <1>7, <1>8, <1>9

LEMMA ConvergentStep ==
  ASSUME DeadLetter # "none", Frame, Fresh, FirstRun, Convergent, [Next]_vars
  PROVE  Convergent'
<1> SUFFICES ASSUME outcome' = "none", count'["runs"] <= 1 PROVE Converges'
  BY DEF Convergent
<1>1. count["runs"] \in Nat
  BY FirstRunFacts
<1>2. ASSUME UNCHANGED <<entity, examined, inflight, seen, outcome>>,
             count["runs"] <= 1, pc' \in {"returning", "emitting"} => pc' = pc,
             dead \cup pending \cup delayed \subseteq dead' \cup pending' \cup delayed'
      PROVE  Converges'
  BY <1>2, ConvergesKept DEF Convergent, HeldBack
<1>3. CASE Resync \/ ResyncWakes \/ Watch
  <2>1. /\ UNCHANGED <<entity, examined, inflight, seen, outcome, pc, dead, delayed>>
        /\ pending \subseteq pending' /\ count'["runs"] = count["runs"]
    BY <1>3 DEF Resync, ResyncWakes, ResyncLooks, ResyncEnqueues, Enqueue, Watch, Fold,
                ReachLiveEdge, Counted, Frame, TypeOK
  <2> QED BY <1>2, <2>1
<1>4. CASE \/ Pop \/ Get \/ RecordGiveUp \/ EmitGiveUp
           \/ HandlerConverges \/ HandlerConflicts \/ HandlerDone \/ HandlerFails
  <2>1. outcome' = outcome /\ count' = count
    BY <1>4 DEF Pop, Get, RecordGiveUp, EmitGiveUp, Finish, HandlerConverges,
                HandlerConflicts, HandlerDone, HandlerFails, BackOff
  <2> QED BY <1>4, <2>1, ConvergesWork DEF Convergent
<1>5. CASE ReturnIdle \/ Stop
  BY <1>5 DEF ReturnIdle, Stop, Teardown
<1>6. CASE Start
  <2>1. count'["runs"] = count["runs"] + 1 /\ pc' = "polling"
        /\ UNCHANGED <<entity, examined, inflight, seen, dead, pending, delayed>>
    BY <1>6 DEF Start, Counted, Frame, TypeOK
  <2>2. count["runs"] = 0 /\ outcome = "none"
    BY <1>1, <2>1 DEF FirstRun
  <2> QED BY <2>1, <2>2, ConvergesKept DEF Convergent, HeldBack
<1>7. CASE Drain \/ \E k \in delayed : TimerFires(k)
  <2>1. /\ UNCHANGED <<entity, examined, inflight, seen, outcome, pc>>
        /\ count'["runs"] = count["runs"]
        /\ dead \cup pending \cup delayed \subseteq dead' \cup pending' \cup delayed'
    <3>1. CASE Drain
      BY <3>1 DEF Drain, Counted, Frame, TypeOK
    <3>2. ASSUME NEW j \in delayed, TimerFires(j)
          PROVE  /\ UNCHANGED <<entity, examined, inflight, seen, outcome, pc>>
                 /\ count' = count
                 /\ dead \cup pending \cup delayed \subseteq dead' \cup pending' \cup delayed'
      BY <3>2 DEF TimerFires, Enqueue
    <3> QED BY <1>7, <3>1, <3>2
  <2> QED BY <1>2, <2>1
<1>8. CASE \E j \in Key : Edit(j)
  <2>1. PICK j \in Key : Edit(j)
    BY <1>8
  <2>2. PICK status : Write(j, status)
    BY <2>1 DEF Edit
  <2>3. /\ UNCHANGED <<examined, inflight, seen, dead, pending, delayed, pc, outcome>>
        /\ count'["runs"] = count["runs"]
    BY <2>1 DEF Edit, Counted, Frame, TypeOK
  <2> QED BY <2>2, <2>3, ConvergesWritten DEF Convergent
<1>9. CASE UNCHANGED vars
  BY <1>2, <1>9 DEF vars
<1> QED
  BY <1>3, <1>4, <1>5, <1>6, <1>7, <1>8, <1>9, HandlerEdits DEF Next, Work, Handler

LEMMA ConvergedStep ==
  ASSUME LoopInv, NoResume, Convergent, ConvergedWhenIdle, [Next]_vars
  PROVE  ConvergedWhenIdle'
<1> SUFFICES ASSUME outcome' = "idle", count'["runs"] = 1,
                    NEW k \in (Handled \cap Converging) \ (dead' \cup pending'), Drifts(k)'
             PROVE  Written(k, started)'
  BY DEF ConvergedWhenIdle, Drifts
<1>0. /\ Frame /\ Fresh /\ k \in Key /\ started \in Nat /\ started <= Len(log)
      /\ examined[k] \in Nat /\ k \in Settling /\ Len(log) \in Nat
  BY FirstRunFacts DEF LoopInv, Frame, TypeOK, Shape, Within, Settling
<1>1. ASSUME outcome = "idle", count'["runs"] = count["runs"], started' = started,
             entity' = entity, dead \cup pending \subseteq dead' \cup pending'
      PROVE  Written(k, started)'
  BY <1>0, <1>1, WrittenKept DEF ConvergedWhenIdle, Drifts
<1>2. CASE Resync \/ ResyncWakes \/ Watch
  BY <1>1, <1>2 DEF Resync, ResyncWakes, ResyncLooks, ResyncEnqueues, Enqueue, Watch, Fold,
                    ReachLiveEdge, Counted, Frame, TypeOK, LoopInv
<1>3. CASE \/ Pop \/ Get \/ RecordGiveUp \/ EmitGiveUp
           \/ HandlerConverges \/ HandlerConflicts \/ HandlerDone \/ HandlerFails
  <2>1. outcome' = outcome /\ pc # "stopped"
    BY <1>3 DEF Pop, Get, RecordGiveUp, EmitGiveUp, Finish, HandlerConverges,
                HandlerConflicts, HandlerDone, HandlerFails, BackOff
  <2> QED BY <2>1 DEF LoopInv, FirstRun, Running
<1>4. CASE ReturnIdle
  <2>1. /\ queue = << >> /\ inflight = None /\ delayed = {} /\ pc = "polling"
        /\ UNCHANGED <<log, entity, dead, pending, started, examined, count>>
    BY <1>4 DEF ReturnIdle, IsIdle, Teardown
  <2>2. pending = {}
    BY <2>1 DEF LoopInv, Frame, QueueGuarded, Items
  <2>3. outcome = "none"
    BY <2>1 DEF LoopInv, FirstRun, Running
  <2>4. KeyConverges(k) /\ Drifts(k)
    BY <1>0, <2>1, <2>3 DEF Convergent, Converges, Drifts
  <2>5. Written(k, examined[k])
    BY <1>0, <2>1, <2>2, <2>4, ReconcilerAssumption DEF KeyConverges, HeldBack
  <2>6. PICK n \in DOMAIN log : n > examined[k] /\ log[n].key = k /\ log[n].write
    BY <2>5 DEF Written
  <2>7. n \in Nat /\ n >= 1
    <3>1. DOMAIN log = 1 .. Len(log)
      BY <1>0 DEF Frame, TypeOK
    <3> QED BY <1>0, <2>6, <3>1
  <2>8. FirstIdleIsQuiet'
    BY FirstIdleStep DEF LoopInv
  <2>9. n \in 1 .. started => examined[k] >= n
    BY <2>1, <2>6, <2>8 DEF FirstIdleIsQuiet
  <2>10. n > started
    BY <1>0, <2>6, <2>7, <2>9
  <2> QED BY <2>1, <2>6, <2>10 DEF Written
<1>5. CASE Stop \/ Start
  BY <1>5 DEF Stop, Teardown, Start
<1>6. CASE Drain \/ \E j \in delayed : TimerFires(j)
  BY <1>1, <1>6 DEF Drain, TimerFires, Enqueue, Counted, Frame, TypeOK, LoopInv
<1>7. CASE \E j \in Key : Edit(j)
  <2>1. PICK j \in Key : Edit(j)
    BY <1>7
  <2>2. PICK status : Write(j, status)
    BY <2>1 DEF Edit
  <2>3. UNCHANGED <<dead, pending, started, outcome>> /\ count'["runs"] = count["runs"]
    BY <2>1 DEF Edit, Counted, LoopInv, Frame, TypeOK
  <2>4. CASE k = j
    BY <1>0, <2>2, <2>3, <2>4, WriteIsWritten
  <2>5. CASE k # j
    <3>1. Drifts(k)
      BY <1>0, <2>2, <2>5 DEF Write, Drifts, Frame, TypeOK
    <3>2. Written(k, started)
      BY <2>3, <3>1 DEF ConvergedWhenIdle, Drifts
    <3> QED BY <1>0, <2>3, <3>2, WrittenKept
  <2> QED BY <2>4, <2>5
<1>8. CASE UNCHANGED vars
  BY <1>1, <1>8 DEF vars
<1> QED
  BY <1>2, <1>3, <1>4, <1>5, <1>6, <1>7, <1>8, HandlerEdits DEF Next, Work, Handler

\* With a dead-letter store, what drifts under converging handlers when the first run()
\* returns by itself was written after it began, or is dead-lettered.
THEOREM FirstIdleIsConverged ==
  ASSUME NoResume, DeadLetter # "none" PROVE Spec => []ConvergedWhenIdle
<1> DEFINE I == LoopInv /\ Convergent /\ ConvergedWhenIdle
<1>1. Init => I
  <2>1. Init => LoopInv
    BY LoopInit
  <2>2. Init => Convergent /\ ConvergedWhenIdle
    BY ReconcilerAssumption
    DEF Init, Convergent, Converges, KeyConverges, InHandConverges, Drifts, Settling,
        ConvergedWhenIdle
  <2> QED BY <2>1, <2>2
<1>2. I /\ [Next]_vars => I'
  <2> SUFFICES ASSUME I, [Next]_vars PROVE I'
    OBVIOUS
  <2>1. LoopInv'
    BY LoopStep
  <2>2. Convergent'
    BY ConvergentStep DEF LoopInv
  <2>3. ConvergedWhenIdle'
    BY ConvergedStep
  <2> QED BY <2>1, <2>2, <2>3
<1>3. I => ConvergedWhenIdle
  OBVIOUS
<1> HIDE DEF I
<1> QED BY <1>1, <1>2, <1>3, PTL DEF Spec
=============================================================================
