---------------------------- MODULE StreamProofs ----------------------------
(***************************************************************************)
(* Theorems about ObserveStream for every number of observers and every    *)
(* length of the log.                                                      *)
(***************************************************************************)
EXTENDS ObserveStream, TLAPS

(***************************************************************************)
(* The invariant, in numbers: First(o) is within the log; what a generator *)
(* has yielded, still replays and has queued are three consecutive runs of *)
(* offsets that end where the log ends; and the slice's ids lie below the  *)
(* queue.                                                                  *)
(***************************************************************************)
InLog(c) == c # None => c < length

\* s is a run of consecutive offsets that starts at a.
Run(s, a) == \A n \in 1 .. Len(s) : s[n] = a + n - 1

\* Where the run of the slice, and the run of the queue, must start.
Taken(o) == First(o) + Len(delivered[o])
Ahead(o) == Taken(o) + Len(backlog[o])

Runs(o) ==
  /\ Run(backlog[o], Taken(o))
  /\ Run(queue[o], Ahead(o))
  /\ Ahead(o) + Len(queue[o]) = length
  /\ \A e \in ids[o] : e < Ahead(o)
  /\ phase[o] = "live" => backlog[o] = << >>

Shape(o) ==
  /\ InLog(since[o]) /\ InLog(saved[o])
  /\ Run(delivered[o], First(o))
  /\ ~Registered(o) => delivered[o] = << >> /\ backlog[o] = << >> /\ queue[o] = << >>
  /\ Registered(o) => Runs(o)

StreamInv == TypeOK /\ \A o \in Observer : Shape(o)

LEMMA FirstType ==
  ASSUME TypeOK, NEW o \in Observer PROVE First(o) \in Nat
BY DEF TypeOK, First, Cursor

LEMMA OffsetsType ==
  ASSUME NEW a \in Nat, NEW b \in Nat
  PROVE  /\ Offsets(a, b) \in Seq(Nat)
         /\ a <= b => Len(Offsets(a, b)) = b - a
         /\ \A n \in 1 .. Len(Offsets(a, b)) : Offsets(a, b)[n] = a + n - 1
<1> DEFINE k == IF b > a THEN b - a ELSE 0
<1>1. k \in Nat
  OBVIOUS
<1>2. Offsets(a, b) = [n \in 1 .. k |-> a + n - 1]
  BY DEF Offsets
<1>3. \A n \in 1 .. k : a + n - 1 \in Nat
  BY <1>1
<1>4. Offsets(a, b) \in Seq(Nat) /\ Len(Offsets(a, b)) = k
  <2> HIDE DEF k
  <2> QED BY <1>1, <1>2, <1>3
<1> QED BY <1>2, <1>4

LEMMA RunAppend ==
  ASSUME NEW s \in Seq(Nat), NEW a \in Nat, Run(s, a)
  PROVE  LET t == Append(s, a + Len(s))
         IN  Run(t, a) /\ t \in Seq(Nat) /\ Len(t) = Len(s) + 1
<1> DEFINE t == Append(s, a + Len(s))
<1>1. PICK k \in Nat : k = Len(s)
  OBVIOUS
<1>2. /\ t \in Seq(Nat) /\ Len(t) = k + 1 /\ t[k + 1] = a + k
      /\ \A n \in 1 .. k : t[n] = s[n]
  BY <1>1
<1>3. \A n \in 1 .. k : s[n] = a + n - 1
  BY <1>1 DEF Run
<1> HIDE DEF t
<1>4. ASSUME NEW n \in 1 .. k + 1 PROVE t[n] = a + n - 1
  <2>1. CASE n \in 1 .. k
    BY <1>2, <1>3, <2>1
  <2>2. CASE n = k + 1
    BY <1>2, <2>2
  <2> QED BY <2>1, <2>2
<1>5. Run(t, a)
  BY <1>2, <1>4 DEF Run
<1> QED BY <1>1, <1>2, <1>5 DEF t

LEMMA RunTail ==
  ASSUME NEW s \in Seq(Nat), NEW a \in Nat, Run(s, a), s # << >>
  PROVE  /\ Head(s) = a /\ Run(Tail(s), a + 1)
         /\ Tail(s) \in Seq(Nat) /\ Len(s) = Len(Tail(s)) + 1
<1> DEFINE t == Tail(s)
<1>1. PICK k \in Nat : k + 1 = Len(s)
  <2>1. Len(s) \in Nat /\ Len(s) > 0
    OBVIOUS
  <2> QED BY <2>1
<1>2. /\ t \in Seq(Nat) /\ Len(t) = k /\ Head(s) = s[1]
      /\ \A n \in 1 .. k : t[n] = s[n + 1]
  BY <1>1
<1>3. \A n \in 1 .. k + 1 : s[n] = a + n - 1
  BY <1>1 DEF Run
<1> HIDE DEF t
<1>4. \A n \in 1 .. k : t[n] = a + 1 + n - 1
  <2> SUFFICES ASSUME NEW n \in 1 .. k PROVE t[n] = a + 1 + n - 1
    OBVIOUS
  <2>1. n + 1 \in 1 .. k + 1 /\ a + (n + 1) - 1 = a + 1 + n - 1
    OBVIOUS
  <2>2. t[n] = s[n + 1] /\ s[n + 1] = a + (n + 1) - 1
    BY <1>2, <1>3, <2>1
  <2> QED BY <2>1, <2>2
<1>5. Run(t, a + 1) /\ Head(s) = a
  BY <1>2, <1>3, <1>4 DEF Run
<1> QED BY <1>1, <1>2, <1>5 DEF t

LEMMA RunConcat ==
  ASSUME NEW s \in Seq(Nat), NEW t \in Seq(Nat), NEW a \in Nat,
         Run(s, a), Run(t, a + Len(s))
  PROVE  s \o t = Offsets(a, a + Len(s) + Len(t))
<1> DEFINE u == s \o t
<1>1. PICK j \in Nat, k \in Nat : j = Len(s) /\ k = Len(t)
  OBVIOUS
<1> DEFINE v == Offsets(a, a + j + k)
<1>2. /\ u \in Seq(Nat) /\ Len(u) = j + k
      /\ \A n \in 1 .. j : u[n] = s[n]
      /\ \A n \in j + 1 .. j + k : u[n] = t[n - j]
  BY <1>1
<1>3. \A n \in 1 .. j : s[n] = a + n - 1
  BY <1>1 DEF Run
<1>4. \A n \in 1 .. k : t[n] = a + j + n - 1
  BY <1>1 DEF Run
<1>5. /\ v \in Seq(Nat) /\ Len(v) = j + k
      /\ \A n \in 1 .. j + k : v[n] = a + n - 1
  <2>1. PICK c \in Nat : c = a + j + k
    OBVIOUS
  <2>2. a <= c /\ c - a = j + k
    BY <2>1
  <2>3. /\ Offsets(a, c) \in Seq(Nat) /\ Len(Offsets(a, c)) = c - a
        /\ \A n \in 1 .. Len(Offsets(a, c)) : Offsets(a, c)[n] = a + n - 1
    BY <2>2, OffsetsType
  <2>4. v = Offsets(a, c)
    BY <2>1
  <2> HIDE DEF v
  <2> QED BY <2>2, <2>3, <2>4
<1> HIDE DEF u, v
<1>6. \A n \in j + 1 .. j + k : n - j \in 1 .. k /\ a + j + (n - j) - 1 = a + n - 1
  OBVIOUS
<1>7. \A n \in j + 1 .. j + k : u[n] = a + n - 1
  BY <1>2, <1>4, <1>6
<1>8. ASSUME NEW n \in 1 .. j + k PROVE u[n] = a + n - 1
  <2>1. CASE n \in 1 .. j
    BY <1>2, <1>3, <2>1
  <2>2. CASE n \in j + 1 .. j + k
    BY <1>7, <2>2
  <2> QED BY <2>1, <2>2
<1>9. u = v
  <2>1. \A n \in 1 .. j + k : u[n] = v[n]
    BY <1>5, <1>8
  <2> QED BY <1>2, <1>5, <2>1
<1> QED BY <1>1, <1>9 DEF u, v

LEMMA RunItems ==
  ASSUME NEW s \in Seq(Nat), NEW a \in Nat, Run(s, a)
  PROVE  \A e \in ItemsOf(s) : e >= a /\ e < a + Len(s)
<1>1. PICK k \in Nat : k = Len(s)
  OBVIOUS
<1>2. \A n \in 1 .. k : s[n] = a + n - 1
  BY <1>1 DEF Run
<1>3. \A e \in ItemsOf(s) : \E n \in 1 .. k : e = s[n]
  <2>1. DOMAIN s = 1 .. k
    BY <1>1
  <2> QED BY <2>1 DEF ItemsOf
<1>4. \A n \in 1 .. k : a + n - 1 >= a /\ a + n - 1 < a + k
  OBVIOUS
<1>5. \A e \in ItemsOf(s) : e >= a /\ e < a + k
  BY <1>2, <1>3, <1>4
<1> QED BY <1>1, <1>5

\* The sequences and numbers Shape speaks of, and that they keep their types.
LEMMA Parts ==
  ASSUME TypeOK, NEW o \in Observer
  PROVE  /\ delivered[o] \in Seq(Nat) /\ backlog[o] \in Seq(Nat) /\ queue[o] \in Seq(Nat)
         /\ First(o) \in Nat /\ Taken(o) \in Nat /\ Ahead(o) \in Nat /\ length \in Nat
         /\ ids[o] \in SUBSET Nat /\ since[o] \in Cursor /\ saved[o] \in Cursor
<1>1. /\ delivered[o] \in Seq(Nat) /\ backlog[o] \in Seq(Nat) /\ queue[o] \in Seq(Nat)
      /\ First(o) \in Nat /\ length \in Nat
      /\ ids[o] \in SUBSET Nat /\ since[o] \in Cursor /\ saved[o] \in Cursor
  BY FirstType DEF TypeOK
<1>2. Taken(o) \in Nat
  BY <1>1 DEF Taken
<1> QED BY <1>1, <1>2 DEF Ahead

\* Everything Shape(p) reads is the same after the step.
Same(p) ==
  /\ length' = length
  /\ phase'[p] = phase[p] /\ since'[p] = since[p] /\ backlog'[p] = backlog[p]
  /\ ids'[p] = ids[p] /\ queue'[p] = queue[p]
  /\ delivered'[p] = delivered[p] /\ saved'[p] = saved[p]

LEMMA SameShape ==
  ASSUME NEW p \in Observer, Shape(p), Same(p) PROVE Shape(p)'
BY DEF Same, Shape, Runs, InLog, First, Taken, Ahead, Registered

LEMMA AppendStep == ASSUME StreamInv, AppendEntry PROVE StreamInv'
<1>1. TypeOK'
  BY DEF StreamInv, TypeOK, AppendEntry, FanOut
<1>2. ASSUME NEW p \in Observer PROVE Shape(p)'
  <2>1. Shape(p) /\ length' = length + 1 /\ length \in Nat
    BY DEF StreamInv, TypeOK, AppendEntry
  <2>2. /\ phase'[p] = phase[p] /\ since'[p] = since[p] /\ backlog'[p] = backlog[p]
        /\ ids'[p] = ids[p] /\ delivered'[p] = delivered[p] /\ saved'[p] = saved[p]
    BY DEF AppendEntry
  <2>3. InLog(since[p])' /\ InLog(saved[p])'
    BY <2>1, <2>2 DEF Shape, InLog, StreamInv, TypeOK, Cursor
  <2>4. CASE Registered(p)
    <3>1. queue'[p] = Append(queue[p], length)
      BY <2>4 DEF AppendEntry, FanOut, StreamInv, TypeOK
    <3>2. Runs(p) /\ length = Ahead(p) + Len(queue[p])
      BY <2>1, <2>4 DEF Shape, Runs
    <3>3. /\ queue[p] \in Seq(Nat) /\ Ahead(p) \in Nat
      BY Parts DEF StreamInv
    <3>4. Run(queue'[p], Ahead(p)) /\ Len(queue'[p]) = Len(queue[p]) + 1
      BY <3>1, <3>2, <3>3, RunAppend DEF Runs
    <3>5. First(p)' = First(p) /\ Taken(p)' = Taken(p) /\ Ahead(p)' = Ahead(p)
      BY <2>2 DEF First, Taken, Ahead
    <3>6. Ahead(p) + Len(queue'[p]) = length'
      BY <2>1, <3>2, <3>3, <3>4
    <3>7. Runs(p)'
      BY <2>2, <3>2, <3>4, <3>5, <3>6 DEF Runs
    <3> QED BY <2>1, <2>2, <2>3, <2>4, <3>5, <3>7 DEF Shape, Registered
  <2>5. CASE ~Registered(p)
    <3>1. queue'[p] = queue[p]
      BY <2>5 DEF AppendEntry, FanOut, StreamInv, TypeOK
    <3> QED BY <2>1, <2>2, <2>3, <2>5, <3>1 DEF Shape, First, Registered
  <2> QED BY <2>4, <2>5
<1> QED BY <1>1, <1>2 DEF StreamInv

LEMMA StartStep ==
  ASSUME StreamInv, NEW o \in Observer, Start(o) PROVE StreamInv'
<1> DEFINE rest == Offsets(First(o), length)
<1>1. First(o) \in Nat /\ length \in Nat /\ Shape(o)
  BY FirstType DEF StreamInv, TypeOK
<1>2. First(o) <= length
  BY <1>1 DEF First, Shape, InLog, StreamInv, TypeOK, Cursor
<1>3. /\ rest \in Seq(Nat) /\ Len(rest) = length - First(o) /\ Run(rest, First(o))
  BY <1>1, <1>2, OffsetsType DEF Run
<1>4. ItemsOf(rest) \in SUBSET Nat /\ \A e \in ItemsOf(rest) : e < length
  <2>1. ItemsOf(rest) \in SUBSET Nat
    BY <1>3 DEF ItemsOf
  <2>2. \A e \in ItemsOf(rest) : e < First(o) + Len(rest)
    BY <1>1, <1>3, RunItems
  <2> HIDE DEF rest
  <2> QED BY <1>1, <1>2, <1>3, <2>1, <2>2
<1>5. TypeOK'
  BY <1>3, <1>4 DEF StreamInv, TypeOK, Start, Phase
<1>6. Shape(o)'
  <2>1. /\ phase'[o] = "backlog" /\ backlog'[o] = rest /\ ids'[o] = ItemsOf(rest)
        /\ queue'[o] = << >>
    BY DEF Start, StreamInv, TypeOK
  <2>2. /\ since'[o] = since[o] /\ delivered'[o] = delivered[o]
        /\ saved'[o] = saved[o] /\ length' = length
    BY DEF Start
  <2>3. delivered[o] = << >>
    BY <1>1 DEF Start, Shape, Registered
  <2> HIDE DEF rest
  <2>4. First(o)' = First(o) /\ Taken(o)' = First(o) /\ Ahead(o)' = length
    <3>1. First(o)' = First(o)
      BY <2>2 DEF First
    <3>2. Taken(o)' = First(o)
      BY <1>1, <2>2, <2>3, <3>1 DEF Taken
    <3> QED BY <1>1, <1>2, <1>3, <2>1, <3>1, <3>2 DEF Ahead
  <2>5. Run(queue'[o], length) /\ length + Len(queue'[o]) = length'
    BY <1>1, <2>1, <2>2 DEF Run
  <2>6. Runs(o)'
    BY <1>1, <1>3, <1>4, <2>1, <2>4, <2>5 DEF Runs
  <2> QED BY <1>1, <2>1, <2>2, <2>3, <2>4, <2>6 DEF Shape, InLog, Registered
<1>7. ASSUME NEW p \in Observer \ {o} PROVE Shape(p)'
  BY SameShape DEF Start, StreamInv, TypeOK, Same
<1> QED BY <1>5, <1>6, <1>7 DEF StreamInv

LEMMA YieldBacklogStep ==
  ASSUME StreamInv, NEW o \in Observer, YieldBacklog(o) PROVE StreamInv'
<1>1. /\ backlog[o] \in Seq(Nat) /\ backlog[o] # << >> /\ delivered[o] \in Seq(Nat)
      /\ queue[o] \in Seq(Nat) /\ First(o) \in Nat /\ Taken(o) \in Nat
  BY Parts DEF StreamInv, YieldBacklog
<1>2. Shape(o) /\ Runs(o) /\ phase[o] = "backlog"
  BY DEF StreamInv, YieldBacklog, Shape, Registered
<1>3. TypeOK'
  BY <1>1 DEF StreamInv, TypeOK, YieldBacklog
<1>4. /\ delivered'[o] = Append(delivered[o], Head(backlog[o]))
      /\ backlog'[o] = Tail(backlog[o])
      /\ queue'[o] = queue[o] /\ phase'[o] = phase[o] /\ since'[o] = since[o]
      /\ ids'[o] = ids[o] /\ saved'[o] = saved[o] /\ length' = length
  BY DEF StreamInv, TypeOK, YieldBacklog
<1>5. /\ Head(backlog[o]) = Taken(o) /\ Run(backlog'[o], Taken(o) + 1)
      /\ Len(backlog[o]) = Len(backlog'[o]) + 1 /\ backlog'[o] \in Seq(Nat)
  BY <1>1, <1>2, <1>4, RunTail DEF Runs
<1>6. Run(delivered'[o], First(o)) /\ Len(delivered'[o]) = Len(delivered[o]) + 1
  <2>1. delivered'[o] = Append(delivered[o], First(o) + Len(delivered[o]))
    BY <1>4, <1>5 DEF Taken
  <2>2. Run(delivered[o], First(o))
    BY <1>2 DEF Shape
  <2> QED BY <1>1, <2>1, <2>2, RunAppend
<1>7. First(o)' = First(o)
  BY <1>4 DEF First
<1>8. Taken(o)' = Taken(o) + 1
  BY <1>1, <1>6, <1>7 DEF Taken
<1>9. Ahead(o)' = Ahead(o)
  <2>1. PICK k \in Nat : k = Len(backlog'[o])
    BY <1>5
  <2>2. Len(backlog[o]) = k + 1
    BY <1>5, <2>1
  <2>3. Ahead(o)' = Taken(o) + 1 + k /\ Ahead(o) = Taken(o) + (k + 1)
    BY <1>8, <2>1, <2>2 DEF Ahead
  <2> QED BY <1>1, <2>3
<1>10. Shape(o)'
  <2>1. Runs(o)'
    BY <1>2, <1>4, <1>5, <1>8, <1>9 DEF Runs
  <2> QED BY <1>2, <1>4, <1>6, <1>7, <2>1 DEF Shape, InLog, Registered
<1>11. ASSUME NEW p \in Observer \ {o} PROVE Shape(p)'
  BY SameShape DEF YieldBacklog, StreamInv, TypeOK, Same
<1> QED BY <1>3, <1>10, <1>11 DEF StreamInv

LEMMA GoLiveStep ==
  ASSUME StreamInv, NEW o \in Observer, GoLive(o) PROVE StreamInv'
<1>1. TypeOK'
  BY DEF StreamInv, TypeOK, GoLive, Phase
<1>2. Shape(o)'
  BY DEF StreamInv, TypeOK, GoLive, Shape, Runs, First, Taken, Ahead, InLog, Registered
<1>3. ASSUME NEW p \in Observer \ {o} PROVE Shape(p)'
  BY SameShape DEF GoLive, StreamInv, TypeOK, Same
<1> QED BY <1>1, <1>2, <1>3 DEF StreamInv

LEMMA YieldLiveStep ==
  ASSUME StreamInv, NEW o \in Observer, YieldLive(o) PROVE StreamInv'
<1>1. /\ queue[o] \in Seq(Nat) /\ queue[o] # << >> /\ delivered[o] \in Seq(Nat)
      /\ backlog[o] \in Seq(Nat) /\ First(o) \in Nat /\ Taken(o) \in Nat
      /\ ids[o] \in SUBSET Nat
  BY Parts DEF StreamInv, YieldLive
<1>2. Shape(o) /\ Runs(o) /\ phase[o] = "live" /\ backlog[o] = << >>
  BY DEF StreamInv, YieldLive, Shape, Registered, Runs
<1>3. Ahead(o) = Taken(o)
  BY <1>1, <1>2 DEF Ahead
<1>4. /\ Head(queue[o]) = Taken(o) /\ Run(Tail(queue[o]), Taken(o) + 1)
      /\ Tail(queue[o]) \in Seq(Nat) /\ Len(queue[o]) = Len(Tail(queue[o])) + 1
  BY <1>1, <1>2, <1>3, RunTail DEF Runs
<1>5. Head(queue[o]) \notin ids[o]
  BY <1>1, <1>2, <1>3, <1>4 DEF Runs
<1>6. /\ queue'[o] = Tail(queue[o])
      /\ delivered'[o] = Append(delivered[o], Head(queue[o]))
      /\ ids'[o] = ids[o]
      /\ backlog'[o] = backlog[o] /\ phase'[o] = phase[o] /\ since'[o] = since[o]
      /\ saved'[o] = saved[o] /\ length' = length
  BY <1>5 DEF YieldLive, StreamInv, TypeOK
<1>7. TypeOK'
  BY SMTT(30), <1>1 DEF StreamInv, TypeOK, YieldLive
<1>8. Run(delivered'[o], First(o)) /\ Len(delivered'[o]) = Len(delivered[o]) + 1
  BY <1>1, <1>2, <1>4, <1>6, RunAppend DEF Shape, Taken
<1>9. First(o)' = First(o)
  BY <1>6 DEF First
<1>10. Taken(o)' = Taken(o) + 1
  BY <1>1, <1>8, <1>9 DEF Taken
<1>11. Ahead(o)' = Taken(o) + 1
  BY <1>1, <1>2, <1>6, <1>10 DEF Ahead
<1>12. Shape(o)'
  <2>1. Taken(o) + 1 + Len(queue'[o]) = length'
    BY <1>1, <1>2, <1>3, <1>4, <1>6 DEF Runs
  <2>2. \A e \in ids'[o] : e < Taken(o) + 1
    BY <1>1, <1>2, <1>3, <1>6 DEF Runs
  <2>3. Run(backlog'[o], Taken(o)')
    BY <1>2, <1>6 DEF Run
  <2>4. Runs(o)'
    BY <1>2, <1>4, <1>6, <1>11, <2>1, <2>2, <2>3 DEF Runs
  <2> QED BY <1>2, <1>6, <1>8, <1>9, <2>4 DEF Shape, InLog, Registered
<1>13. ASSUME NEW p \in Observer \ {o} PROVE Shape(p)'
  BY SameShape DEF YieldLive, StreamInv, TypeOK, Same
<1> QED BY <1>7, <1>12, <1>13 DEF StreamInv

LEMMA OpenStep ==
  ASSUME StreamInv, NEW o \in Observer, Open(o) PROVE StreamInv'
<1>1. TypeOK'
  BY DEF StreamInv, TypeOK, Open, Phase
<1>2. Shape(o)'
  <2>1. /\ delivered'[o] = << >> /\ backlog'[o] = backlog[o] /\ queue'[o] = queue[o]
        /\ since'[o] = saved[o] /\ saved'[o] = saved[o] /\ length' = length
        /\ ~Registered(o) /\ ~Registered(o)'
    BY DEF StreamInv, TypeOK, Open, Registered
  <2>2. Run(delivered'[o], First(o)')
    BY <2>1 DEF Run
  <2> QED BY <2>1, <2>2 DEF StreamInv, Shape, InLog
<1>3. ASSUME NEW p \in Observer \ {o} PROVE Shape(p)'
  BY SameShape DEF Open, StreamInv, TypeOK, Same
<1> QED BY <1>1, <1>2, <1>3 DEF StreamInv

LEMMA LastIsLogged ==
  ASSUME StreamInv, NEW o \in Observer, LastCursor(o) # None
  PROVE  /\ delivered[o] # << >> /\ Registered(o)
         /\ LastCursor(o) = First(o) + Len(delivered[o]) - 1
         /\ LastCursor(o) \in Nat /\ LastCursor(o) < length
<1>1. /\ delivered[o] \in Seq(Nat) /\ backlog[o] \in Seq(Nat) /\ queue[o] \in Seq(Nat)
      /\ First(o) \in Nat /\ Shape(o)
  BY Parts DEF StreamInv
<1>2. delivered[o] # << >> /\ LastCursor(o) = delivered[o][Len(delivered[o])]
  BY DEF LastCursor
<1>3. Registered(o) /\ Runs(o)
  BY <1>1, <1>2 DEF Shape
<1>4. PICK d \in Nat, b \in Nat, q \in Nat :
         d = Len(delivered[o]) /\ b = Len(backlog[o]) /\ q = Len(queue[o])
  BY <1>1
<1>5. d > 0
  BY <1>1, <1>2, <1>4
<1>6. LastCursor(o) = First(o) + d - 1
  <2>1. Run(delivered[o], First(o)) /\ d \in 1 .. d
    BY <1>1, <1>5 DEF Shape
  <2>2. delivered[o][d] = First(o) + d - 1
    BY <1>4, <2>1 DEF Run
  <2> QED BY <1>2, <1>4, <2>2
<1>7. First(o) + d + b + q = length
  BY <1>3, <1>4 DEF Runs, Taken, Ahead
<1>8. First(o) + d - 1 \in Nat /\ First(o) + d - 1 < length
  BY <1>1, <1>5, <1>7
<1> QED BY <1>2, <1>3, <1>4, <1>6, <1>8

LEMMA SaveStep ==
  ASSUME StreamInv, NEW o \in Observer, Save(o) PROVE StreamInv'
<1>1. LastCursor(o) \in Nat /\ LastCursor(o) < length
  BY LastIsLogged DEF Save
<1>2. ItemsOf(delivered[o]) \subseteq Nat
  BY DEF StreamInv, TypeOK, ItemsOf
<1>3. TypeOK'
  BY <1>1, <1>2 DEF StreamInv, TypeOK, Save, Cursor, stream
<1>4. Shape(o)'
  <2>1. saved'[o] = LastCursor(o) /\ UNCHANGED <<length, stream>>
    BY DEF Save, StreamInv, TypeOK
  <2>2. InLog(saved[o])'
    BY <1>1, <2>1 DEF InLog, stream
  <2> QED BY <2>1, <2>2 DEF StreamInv, Shape, stream, InLog, Registered, Runs, First, Taken, Ahead
<1>5. ASSUME NEW p \in Observer \ {o} PROVE Shape(p)'
  BY SameShape DEF Save, StreamInv, TypeOK, Same, stream
<1> QED BY <1>3, <1>4, <1>5 DEF StreamInv

LEMMA CloseStep ==
  ASSUME StreamInv, NEW o \in Observer, Close(o) PROVE StreamInv'
<1>1. TypeOK'
  BY DEF StreamInv, TypeOK, Close, Phase, Cursor
<1>2. Shape(o)'
  BY DEF StreamInv, TypeOK, Close, Shape, InLog, Registered, Run
<1>3. ASSUME NEW p \in Observer \ {o} PROVE Shape(p)'
  BY SameShape DEF Close, StreamInv, TypeOK, Same
<1> QED BY <1>1, <1>2, <1>3 DEF StreamInv

LEMMA StreamInit == Init => StreamInv
BY DEF Init, StreamInv, TypeOK, Shape, InLog, Registered, Phase, Cursor, Run

LEMMA StreamStep == StreamInv /\ [Next]_vars => StreamInv'
<1> SUFFICES ASSUME StreamInv, [Next]_vars PROVE StreamInv'
  OBVIOUS
<1>1. CASE AppendEntry
  BY <1>1, AppendStep
<1>2. ASSUME NEW o \in Observer, Generate(o) PROVE StreamInv'
  BY <1>2, StartStep, YieldBacklogStep, GoLiveStep, YieldLiveStep DEF Generate
<1>3. ASSUME NEW o \in Observer, Open(o) \/ Save(o) \/ Close(o) PROVE StreamInv'
  BY <1>3, OpenStep, SaveStep, CloseStep
<1>4. CASE UNCHANGED vars
  <2>1. TypeOK'
    BY <1>4 DEF vars, stream, StreamInv, TypeOK
  <2>2. ASSUME NEW p \in Observer PROVE Shape(p)'
    BY <1>4, SameShape DEF StreamInv, vars, stream, Same
  <2> QED BY <2>1, <2>2 DEF StreamInv
<1> QED BY <1>1, <1>2, <1>3, <1>4 DEF Next

\* Every stream yields the log after its cursor in order, with no gap and no
\* duplicate, whatever is appended while it replays.
THEOREM StreamsAreOrdered == Spec => []DeliveredInOrder
<1>1. StreamInv => DeliveredInOrder
  <2> SUFFICES ASSUME StreamInv, NEW o \in Observer, NEW n \in DOMAIN delivered[o]
               PROVE  delivered[o][n] = First(o) + n - 1
    BY DEF DeliveredInOrder
  <2>1. delivered[o] \in Seq(Nat) /\ Run(delivered[o], First(o))
    BY Parts DEF StreamInv, Shape
  <2>2. n \in 1 .. Len(delivered[o])
    BY <2>1
  <2> QED BY <2>1, <2>2 DEF Run
<1> QED BY <1>1, StreamInit, StreamStep, PTL DEF Spec

\* The rest of the slice and the queue are together the rest of the log.
THEOREM StreamsLoseNothing == Spec => []NothingLost
<1>1. StreamInv => NothingLost
  <2> SUFFICES ASSUME StreamInv, NEW o \in Observer, Registered(o)
               PROVE  /\ backlog[o] \o queue[o] =
                           Offsets(First(o) + Len(delivered[o]), length)
                      /\ ItemsOf(queue[o]) \cap ids[o] = {}
    BY DEF NothingLost
  <2>1. /\ Taken(o) \in Nat /\ Ahead(o) \in Nat /\ Runs(o) /\ ids[o] \in SUBSET Nat
        /\ backlog[o] \in Seq(Nat) /\ queue[o] \in Seq(Nat)
    BY Parts DEF StreamInv, Shape
  <2>2. backlog[o] \o queue[o] = Offsets(Taken(o), Taken(o) + Len(backlog[o]) + Len(queue[o]))
    BY <2>1, RunConcat DEF Runs, Ahead
  <2>3. Taken(o) + Len(backlog[o]) + Len(queue[o]) = length
    BY <2>1 DEF Runs, Ahead
  <2>4. \A e \in ItemsOf(queue[o]) : e >= Ahead(o)
    BY <2>1, RunItems DEF Runs
  <2>5. ItemsOf(queue[o]) \cap ids[o] = {}
    <3> SUFFICES ASSUME NEW e \in ItemsOf(queue[o]), e \in ids[o] PROVE FALSE
      OBVIOUS
    <3> QED BY <2>1, <2>4 DEF Runs
  <2> QED BY <2>2, <2>3, <2>5 DEF Taken
<1> QED BY <1>1, StreamInit, StreamStep, PTL DEF Spec

(***************************************************************************)
(* Resuming: what a consumer saved, and what its open stream started from, *)
(* it has handled.                                                         *)
(***************************************************************************)
HandledTo(o, c) == c # None => \A e \in 0 .. c : e \in handled[o]

Kept(o) == HandledTo(o, saved[o]) /\ HandledTo(o, since[o])

ResumeInv == StreamInv /\ \A o \in Observer : Kept(o)

\* A saved cursor covers what was handled before the stream was opened and all it yielded.
LEMMA SaveIsKept ==
  ASSUME ResumeInv, NEW o \in Observer, Save(o)
  PROVE  Kept(o)'
<1>1. /\ delivered[o] \in Seq(Nat) /\ First(o) \in Nat /\ Run(delivered[o], First(o))
      /\ since[o] \in Cursor
  BY Parts DEF ResumeInv, StreamInv, Shape
<1>2. PICK d \in Nat : d = Len(delivered[o])
  BY <1>1
<1>3. /\ LastCursor(o) = First(o) + d - 1 /\ LastCursor(o) \in Nat
  BY <1>2, LastIsLogged DEF ResumeInv, Save
<1>4. /\ saved'[o] = LastCursor(o) /\ since'[o] = since[o]
      /\ handled'[o] = handled[o] \cup ItemsOf(delivered[o])
  BY DEF ResumeInv, StreamInv, TypeOK, Save, stream
<1>5. ASSUME NEW e \in 0 .. LastCursor(o) PROVE e \in handled'[o]
  <2>1. CASE e < First(o)
    <3>1. since[o] # None /\ First(o) = since[o] + 1 /\ since[o] \in Nat
      BY <1>1, <2>1 DEF First, Cursor
    <3>2. e \in 0 .. since[o]
      BY <2>1, <3>1
    <3> QED BY <1>4, <3>1, <3>2 DEF ResumeInv, Kept, HandledTo
  <2>2. CASE e >= First(o)
    <3>1. e - First(o) + 1 \in 1 .. d /\ First(o) + (e - First(o) + 1) - 1 = e
      BY <1>1, <1>2, <1>3, <2>2
    <3>2. delivered[o][e - First(o) + 1] = e
      BY <1>2, <3>1, <1>1 DEF Run
    <3>3. e - First(o) + 1 \in DOMAIN delivered[o]
      BY <1>1, <1>2, <3>1
    <3> QED BY <1>4, <3>2, <3>3 DEF ItemsOf
  <2> QED BY <1>1, <1>3, <2>1, <2>2
<1>6. HandledTo(o, since[o])'
  BY <1>4 DEF ResumeInv, Kept, HandledTo
<1> QED BY <1>3, <1>4, <1>5, <1>6 DEF Kept, HandledTo

LEMMA ResumeStep == ResumeInv /\ [Next]_vars => ResumeInv'
<1> SUFFICES ASSUME ResumeInv, [Next]_vars PROVE ResumeInv'
  OBVIOUS
<1>1. StreamInv'
  BY StreamStep DEF ResumeInv
<1>2. ASSUME NEW p \in Observer, saved'[p] = saved[p], handled'[p] = handled[p],
             since'[p] \in {since[p], saved[p], None}
      PROVE  Kept(p)'
  BY <1>2 DEF ResumeInv, Kept, HandledTo
<1>3. ASSUME NEW o \in Observer, Save(o), NEW p \in Observer PROVE Kept(p)'
  <2>1. CASE p = o
    BY <1>3, <2>1, SaveIsKept
  <2>2. CASE p # o
    BY <1>2, <1>3, <2>2 DEF ResumeInv, StreamInv, TypeOK, Save, stream
  <2> QED BY <2>1, <2>2
<1>4. ASSUME AppendEntry \/ UNCHANGED vars, NEW p \in Observer PROVE Kept(p)'
  BY <1>2, <1>4 DEF AppendEntry, vars, stream
<1>5. ASSUME NEW o \in Observer, Generate(o) \/ Open(o) \/ Close(o), NEW p \in Observer
      PROVE  Kept(p)'
  BY <1>2, <1>5 DEF ResumeInv, StreamInv, TypeOK, Generate, Start, YieldBacklog, GoLive, YieldLive,
     Open, Close
<1>6. \A p \in Observer : Kept(p)'
  BY <1>3, <1>4, <1>5 DEF Next
<1> QED BY <1>1, <1>6 DEF ResumeInv

\* Every variable keeps its type, whatever the consumers do.
THEOREM TypeCorrect == Spec => []TypeOK
BY StreamInit, StreamStep, PTL DEF Spec, StreamInv

\* However often a consumer is closed, cancelled or restarted, it has handled every entry
\* up to the cursor it resumes from.
THEOREM ResumesLoseNothing == Spec => []ResumeLosesNothing
<1>1. Init => ResumeInv
  BY StreamInit DEF Init, ResumeInv, Kept, HandledTo
<1>2. ResumeInv => ResumeLosesNothing
  BY DEF ResumeInv, Kept, HandledTo, ResumeLosesNothing
<1> QED BY <1>1, <1>2, ResumeStep, PTL DEF Spec
=============================================================================
