-------------------------- MODULE ProjectionProofs --------------------------
(***************************************************************************)
(* Projection's type invariant, the agreement of a view with the log, that *)
(* cursors only advance and what a set Event means, for every log and any  *)
(* number of views.                                                        *)
(*                                                                         *)
(* ViewAgreesWithLog is not inductive: a refresh starts from the ids of    *)
(* the index, and a follower's second run() replays the whole log over     *)
(* them.  The strengthening says what the accumulator holds at each point  *)
(* of a batch.  An id touched since the batch was seeded is held exactly   *)
(* when the replay leaves it live, any other exactly when the index holds  *)
(* it (Folding), and what the authority pass has got so far is no older    *)
(* than the end of the batch (Reading).                                    *)
(***************************************************************************)
EXTENDS Projection, TLAPS

Touched(i, a, b) == \E m \in a + 1 .. b : Is(m, i, {"put", "delete", "unlink"})

\* What get returns, in terms of the log.
Answer(i) ==
  IF entity[i] # 0 THEN Current(i, entity[i], Len(log))
  ELSE \A p \in 1 .. Len(log) : Is(p, i, {"put"}) => DeletedAfter(i, p)

Placed(v) ==
  /\ base[v] <= pos[v] /\ pos[v] <= Len(log) /\ high[v] <= Len(log)
  /\ pc[v] = "idle" => pull[v] = "none"
  /\ pc[v] \in {"draining", "reading"} => base[v] \in {0, high[v]}
  /\ pc[v] = "reading" => high[v] <= pos[v]
  /\ pull[v] = "parked" => high[v] <= pos[v]
  /\ pull[v] = "got" => pos[v] < Len(log)
  /\ pc[v] = "reading" /\ v \notin followed => pull[v] = "none"
  /\ pc[v] = "parked" => high[v] = pos[v]

\* ids is what entries b + 1 .. n leave of the ids of an index held.
FoldsTo(ids, held, b, n) ==
  \A i \in Id :
    IF Touched(i, b, n) THEN i \in ids <=> Tracked(i, n) ELSE i \in ids <=> held[i] # 0

Folding(v) == FoldsTo(live[v], index[v], base[v], pos[v])

Got(v, i) ==
  /\ found[v][i] # 0 => i \in live[v] /\ Current(i, found[v][i], pos[v])
  /\ found[v][i] = 0 /\ i \in live[v] /\ Tracked(i, pos[v]) => DeletedAfter(i, pos[v])

Reading(v) ==
  /\ todo[v] \subseteq live[v]
  /\ \A i \in Id : IF i \in todo[v] THEN found[v][i] = 0 ELSE Got(v, i)

ViewInv(v) ==
  /\ Placed(v)
  /\ Agrees(index[v], high[v])
  /\ pc[v] \in {"draining", "reading"} => Folding(v)
  /\ pc[v] = "reading" => Reading(v)

Inv ==
  /\ TypeOK
  /\ \A i \in Id : Answer(i)
  /\ \A v \in View : ViewInv(v)

----------------------------------------------------------------------------
(* The log only grows, and what was said of a prefix stays true.           *)

Grown ==
  /\ Len(log) \in Nat /\ Len(log') \in Nat /\ Len(log) <= Len(log')
  /\ \A n \in 1 .. Len(log) : log'[n] = log[n]

LEMMA LoggedGrows ==
  ASSUME TypeOK, NEW i \in Id, NEW op \in {"put", "delete", "unlink", "other"},
         Logged(i, op)
  PROVE  /\ log' \in Seq([id : Id, op : {"put", "delete", "unlink", "other"}])
         /\ Len(log) \in Nat /\ Len(log') = Len(log) + 1
         /\ log'[Len(log) + 1] = [id |-> i, op |-> op]
         /\ Grown
<1>1. log \in Seq([id : Id, op : {"put", "delete", "unlink", "other"}])
  BY DEF TypeOK
<1>2. log' = Append(log, [id |-> i, op |-> op])
  BY DEF Logged
<1>3. /\ Len(log) \in Nat /\ Len(log') = Len(log) + 1
      /\ log'[Len(log) + 1] = [id |-> i, op |-> op]
      /\ \A n \in 1 .. Len(log) : log'[n] = log[n]
  BY <1>1, <1>2
<1> QED BY <1>1, <1>2, <1>3 DEF Grown

LEMMA PrefixIs ==
  ASSUME Grown, NEW n \in 1 .. Len(log), NEW i, NEW ops
  PROVE  Is(n, i, ops)' <=> Is(n, i, ops)
BY DEF Grown, Is

LEMMA PrefixTracked ==
  ASSUME Grown, NEW i, NEW n \in Nat, n <= Len(log)
  PROVE  Tracked(i, n)' <=> Tracked(i, n)
<1>1. \A m \in 1 .. n : log'[m] = log[m]
  BY DEF Grown
<1>2. \A m \in 1 .. n : \A k \in m + 1 .. n : k \in 1 .. n
  OBVIOUS
<1> QED BY <1>1, <1>2 DEF Tracked, Is

LEMMA PrefixTouched ==
  ASSUME Grown, NEW i, NEW a \in Nat, NEW n \in Nat, n <= Len(log)
  PROVE  Touched(i, a, n)' <=> Touched(i, a, n)
<1>1. \A m \in a + 1 .. n : log'[m] = log[m]
  BY DEF Grown
<1> QED BY <1>1 DEF Touched, Is

LEMMA PrefixCurrent ==
  ASSUME Grown, NEW i, NEW p, NEW n \in Nat, n <= Len(log), Current(i, p, n)
  PROVE  Current(i, p, n)'
<1>1. p \in 1 .. Len(log) /\ p \in 1 .. Len(log')
  BY DEF Grown, Current
<1>2. \A k \in p + 1 .. n : k \in 1 .. Len(log)
  BY <1>1 DEF Grown
<1> QED BY <1>1, <1>2 DEF Current, Is, Grown

LEMMA PrefixDeleted ==
  ASSUME Grown, NEW i, NEW n \in Nat, DeletedAfter(i, n)
  PROVE  DeletedAfter(i, n)'
<1>1. PICK k \in n + 1 .. Len(log) : Is(k, i, {"delete"})
  BY DEF DeletedAfter
<1>2. k \in 1 .. Len(log) /\ k \in n + 1 .. Len(log')
  BY <1>1 DEF Grown
<1>3. Is(k, i, {"delete"})'
  BY <1>1, <1>2, PrefixIs
<1> QED BY <1>2, <1>3 DEF DeletedAfter

----------------------------------------------------------------------------
(* A view no step touches keeps its invariant while the log grows.         *)

Same(v) ==
  /\ pc'[v] = pc[v] /\ pos'[v] = pos[v]
  /\ base'[v] = base[v] /\ live'[v] = live[v] /\ todo'[v] = todo[v]
  /\ found'[v] = found[v] /\ index'[v] = index[v] /\ high'[v] = high[v]

LEMMA Numbers ==
  ASSUME TypeOK, NEW v \in View
  PROVE  /\ pos[v] \in Nat /\ base[v] \in Nat /\ high[v] \in Nat
         /\ found[v] \in [Id -> Nat] /\ index[v] \in [Id -> Nat]
         /\ live[v] \subseteq Id /\ todo[v] \subseteq Id
         /\ Len(log) \in Nat
BY DEF TypeOK

LEMMA SamePlaced ==
  ASSUME Grown, NEW v \in View, Placed(v), Same(v), TypeOK, pull'[v] = pull[v],
         followed' = followed
  PROVE  Placed(v)'
<1>1. pos[v] \in Nat /\ high[v] \in Nat
  BY Numbers
<1> QED BY <1>1 DEF Placed, Same, Grown

LEMMA AgreesKept ==
  ASSUME Grown, NEW n \in Nat, NEW h, n <= Len(log), Agrees(h, n)
  PROVE  Agrees(h, n)'
<1> SUFFICES ASSUME NEW i \in Id
             PROVE  (IF Tracked(i, n)
                     THEN IF h[i] = 0 THEN DeletedAfter(i, n) ELSE Current(i, h[i], n)
                     ELSE h[i] = 0)'
  BY DEF Agrees
<1>1. Tracked(i, n)' <=> Tracked(i, n)
  BY PrefixTracked
<1>2. DeletedAfter(i, n) => DeletedAfter(i, n)'
  BY PrefixDeleted
<1>3. Current(i, h[i], n) => Current(i, h[i], n)'
  BY PrefixCurrent
<1> QED BY <1>1, <1>2, <1>3 DEF Agrees

LEMMA SameAgrees ==
  ASSUME Grown, TypeOK, NEW v \in View, Same(v), high[v] <= Len(log),
         Agrees(index[v], high[v])
  PROVE  Agrees(index[v], high[v])'
<1>1. PICK n \in Nat, h \in [Id -> Nat] : n = high[v] /\ h = index[v]
  BY Numbers
<1>2. Agrees(h, n)'
  BY <1>1, AgreesKept
<1>3. n = high'[v] /\ h = index'[v]
  BY <1>1 DEF Same
<1> QED BY <1>2, <1>3 DEF Agrees, Tracked, Current, DeletedAfter, Is

LEMMA FoldingKept ==
  ASSUME Grown, TypeOK, NEW v \in View, Same(v), pos[v] <= Len(log), Folding(v)
  PROVE  Folding(v)'
<1>1. PICK n \in Nat, b \in Nat : n = pos[v] /\ b = base[v]
  BY Numbers
<1>2. n = pos'[v] /\ b = base'[v] /\ live'[v] = live[v] /\ index'[v] = index[v]
  BY <1>1 DEF Same
<1>3. \A i \in Id : /\ Touched(i, b, n)' <=> Touched(i, b, n)
                    /\ Tracked(i, n)' <=> Tracked(i, n)
  BY <1>1, PrefixTouched, PrefixTracked
<1>4. \A i \in Id : IF Touched(i, b, n)'
                    THEN i \in live[v] <=> Tracked(i, n)'
                    ELSE i \in live[v] <=> index[v][i] # 0
  BY <1>1, <1>3 DEF Folding, FoldsTo
<1> QED BY <1>2, <1>4 DEF Folding, FoldsTo, Touched, Tracked, Is

LEMMA ReadingKept ==
  ASSUME Grown, TypeOK, NEW v \in View, Same(v), pos[v] <= Len(log), Reading(v)
  PROVE  Reading(v)'
<1>1. PICK n \in Nat, h \in [Id -> Nat] : n = pos[v] /\ h = found[v]
  BY Numbers
<1>2. n = pos'[v] /\ h = found'[v] /\ live'[v] = live[v] /\ todo'[v] = todo[v]
  BY <1>1 DEF Same
<1>3. ASSUME NEW i \in Id, i \notin todo[v]
      PROVE  /\ h[i] # 0 => i \in live[v] /\ Current(i, h[i], n)'
             /\ h[i] = 0 /\ i \in live[v] /\ Tracked(i, n)' => DeletedAfter(i, n)'
  <2>1. /\ h[i] # 0 => i \in live[v] /\ Current(i, h[i], n)
        /\ h[i] = 0 /\ i \in live[v] /\ Tracked(i, n) => DeletedAfter(i, n)
    BY <1>1, <1>3 DEF Reading, Got
  <2>2. Tracked(i, n)' <=> Tracked(i, n)
    BY <1>1, PrefixTracked
  <2>3. DeletedAfter(i, n) => DeletedAfter(i, n)'
    BY PrefixDeleted
  <2>4. Current(i, h[i], n) => Current(i, h[i], n)'
    BY <1>1, PrefixCurrent
  <2> QED BY <2>1, <2>2, <2>3, <2>4
<1>4. \A i \in Id : i \in todo[v] => h[i] = 0
  BY <1>1 DEF Reading
<1>5. todo[v] \subseteq live[v]
  BY DEF Reading
<1>6. \A i \in Id : i \notin todo[v] => Got(v, i)'
  BY <1>2, <1>3 DEF Got, Tracked, Current, DeletedAfter, Is
<1> QED BY <1>2, <1>4, <1>5, <1>6 DEF Reading

LEMMA ViewKept ==
  ASSUME Grown, TypeOK, NEW v \in View, Same(v), ViewInv(v), pull'[v] = pull[v],
         followed' = followed
  PROVE  ViewInv(v)'
<1>1. Placed(v)'
  BY SamePlaced DEF ViewInv
<1>2. Agrees(index[v], high[v])'
  BY SameAgrees DEF ViewInv, Placed
<1>3. pc'[v] \in {"draining", "reading"} => Folding(v)'
  BY FoldingKept DEF ViewInv, Placed, Same
<1>4. pc'[v] = "reading" => Reading(v)'
  BY ReadingKept DEF ViewInv, Placed, Same
<1> QED BY <1>1, <1>2, <1>3, <1>4 DEF ViewInv

----------------------------------------------------------------------------
(* The writers.                                                            *)

LEMMA AnswerKept ==
  ASSUME TypeOK, NEW i \in Id, NEW op \in {"put", "delete", "unlink", "other"},
         Logged(i, op), NEW j \in Id, entity'[j] = entity[j],
         j # i \/ op \notin {"put", "delete"}, Answer(j)
  PROVE  Answer(j)'
<1>1. PICK l \in Nat : l = Len(log)
  BY LoggedGrows
<1>2. Len(log') = l + 1 /\ Grown /\ log'[l + 1] = [id |-> i, op |-> op]
  BY <1>1, LoggedGrows
<1>3. ~(log'[l + 1].id = j /\ log'[l + 1].op \in {"put", "delete"})
  BY <1>2
<1>4. CASE entity[j] # 0
  <2>1. PICK p \in 1 .. l : p = entity[j]
    BY <1>1, <1>4 DEF Answer, Current
  <2>2. Current(j, p, l)
    BY <1>1, <1>4, <2>1 DEF Answer
  <2>3. Current(j, p, l)'
    BY <1>1, <1>2, <2>2, PrefixCurrent
  <2>4. \A k \in p + 1 .. l + 1 : k \in p + 1 .. l \/ k = l + 1
    BY <2>1
  <2>5. Current(j, p, l + 1)'
    BY <1>3, <2>3, <2>4 DEF Current, Is
  <2> QED BY <1>2, <1>4, <2>1, <2>5 DEF Answer, Current, Is
<1>5. CASE entity[j] = 0
  <2> SUFFICES ASSUME NEW p \in 1 .. l + 1, Is(p, j, {"put"})'
               PROVE  DeletedAfter(j, p)'
    BY <1>2, <1>5 DEF Answer
  <2>1. p # l + 1
    BY <1>3 DEF Is
  <2>2. p \in 1 .. l /\ p \in Nat
    BY <2>1
  <2>3. DeletedAfter(j, p)
    BY <1>1, <1>2, <1>5, <2>2, PrefixIs DEF Answer
  <2> QED BY <1>2, <2>2, <2>3, PrefixDeleted
<1> QED BY <1>4, <1>5

LEMMA PutAnswer == ASSUME TypeOK, NEW i \in Id, Put(i) PROVE Answer(i)'
<1>1. Logged(i, "put") /\ entity'[i] = Len(log) + 1
  BY DEF Put, TypeOK
<1>2. /\ Len(log) \in Nat /\ Len(log') = Len(log) + 1
      /\ log'[Len(log) + 1] = [id |-> i, op |-> "put"]
  BY <1>1, LoggedGrows
<1> QED BY <1>1, <1>2 DEF Answer, Current, Is

LEMMA DeleteAnswer == ASSUME TypeOK, NEW i \in Id, Delete(i) PROVE Answer(i)'
<1>1. Logged(i, "delete") /\ entity'[i] = 0
  BY DEF Delete, TypeOK
<1>2. /\ Len(log) \in Nat /\ Len(log') = Len(log) + 1
      /\ log'[Len(log) + 1] = [id |-> i, op |-> "delete"]
  BY <1>1, LoggedGrows
<1>3. ASSUME NEW p \in 1 .. Len(log'), Is(p, i, {"put"})' PROVE DeletedAfter(i, p)'
  <2>1. p # Len(log) + 1
    BY <1>2, <1>3 DEF Is
  <2>2. Len(log) + 1 \in p + 1 .. Len(log')
    BY <1>2, <2>1
  <2> QED BY <1>2, <2>2 DEF DeletedAfter, Is
<1> QED BY <1>1, <1>3 DEF Answer

LEMMA WriteStep == ASSUME Inv, Write PROVE Inv'
<1>1. PICK i \in Id : Put(i) \/ Delete(i) \/ Unlink(i) \/ Other(i)
  BY DEF Write
<1>2. PICK op \in {"put", "delete", "unlink", "other"} : Logged(i, op)
  BY <1>1 DEF Put, Delete, Unlink, Other
<1>3. Grown /\ TypeOK
  <2>1. TypeOK
    BY DEF Inv
  <2> QED BY <1>2, <2>1, LoggedGrows
<1>4. \A j \in Id : Answer(j)'
  <2>1. CASE Put(i)
    <3>1. \A j \in Id : j # i => entity'[j] = entity[j]
      BY <2>1 DEF Put, Inv, TypeOK
    <3> QED BY <2>1, <3>1, PutAnswer, AnswerKept DEF Put, Inv
  <2>2. CASE Delete(i)
    <3>1. \A j \in Id : j # i => entity'[j] = entity[j]
      BY <2>2 DEF Delete, Inv, TypeOK
    <3> QED BY <2>2, <3>1, DeleteAnswer, AnswerKept DEF Delete, Inv
  <2>3. CASE Unlink(i)
    BY <2>3, AnswerKept DEF Unlink, Inv
  <2>4. CASE Other(i)
    BY <2>4, AnswerKept DEF Other, Inv
  <2> QED BY <1>1, <2>1, <2>2, <2>3, <2>4
<1>5. \A v \in View : ViewInv(v)'
  <2> SUFFICES ASSUME NEW v \in View PROVE ViewInv(v)'
    OBVIOUS
  <2>1. Same(v) /\ pull'[v] = pull[v] /\ followed' = followed
    BY <1>2 DEF Logged, Same, stream, pass, view, setup
  <2> QED BY <1>3, <2>1, ViewKept DEF Inv
<1>6. TypeOK'
  <2>1. entity' \in [Id -> Nat]
    <3>1. Len(log) + 1 \in Nat
      BY <1>3 DEF Grown
    <3>2. entity \in [Id -> Nat]
      BY <1>3 DEF TypeOK
    <3> QED BY <1>1, <3>1, <3>2 DEF Put, Delete, Unlink, Other
  <2>2. log' \in Seq([id : Id, op : {"put", "delete", "unlink", "other"}])
    BY <1>2, <1>3, LoggedGrows
  <2> QED BY <1>2, <1>3, <2>1, <2>2 DEF Logged, TypeOK, stream, pass, view, setup
<1> QED BY <1>4, <1>5, <1>6 DEF Inv

----------------------------------------------------------------------------
(* What a view's own steps do to its batch.                                *)

LEMMA SeqItem ==
  ASSUME NEW S, NEW s \in Seq(S), NEW k \in 1 .. Len(s)
  PROVE  s[k] \in S
OBVIOUS

\* One more entry: what the batch holds is again what the replay leaves.
LEMMA FoldOne ==
  ASSUME TypeOK, NEW v \in View, NEW ids, NEW held, NEW b \in Nat, NEW n \in Nat,
         n = pos[v], b <= n, n < Len(log), FoldsTo(ids, held, b, n)
  PROVE  FoldsTo(AfterNext(v, ids), held, b, n + 1)
<1> DEFINE e == log[n + 1]
<1>1. e \in [id : Id, op : {"put", "delete", "unlink", "other"}]
  <2>1. log \in Seq([id : Id, op : {"put", "delete", "unlink", "other"}])
    BY DEF TypeOK
  <2>2. n + 1 \in 1 .. Len(log)
    BY <2>1
  <2> QED BY <2>1, <2>2, SeqItem
<1>2. AfterNext(v, ids) = IF e.op = "put" THEN ids \cup {e.id}
                          ELSE IF e.op = "other" THEN ids ELSE ids \ {e.id}
  BY <1>1 DEF AfterNext
<1> SUFFICES ASSUME NEW i \in Id
             PROVE  IF Touched(i, b, n + 1)
                    THEN i \in AfterNext(v, ids) <=> Tracked(i, n + 1)
                    ELSE i \in AfterNext(v, ids) <=> held[i] # 0
  BY DEF FoldsTo
<1>3. /\ n + 1 \in b + 1 .. n + 1 /\ n + 1 \in 1 .. n + 1
      /\ \A m \in b + 1 .. n : m \in b + 1 .. n + 1
      /\ \A m \in b + 1 .. n + 1 : m \in b + 1 .. n \/ m = n + 1
      /\ \A m \in 1 .. n : m \in 1 .. n + 1 /\ n + 1 \in m + 1 .. n + 1
      /\ \A m \in 1 .. n + 1 : m \in 1 .. n \/ m = n + 1
  OBVIOUS
<1>4. \A m \in 1 .. n : \A k \in m + 1 .. n + 1 : k \in m + 1 .. n \/ k = n + 1
  OBVIOUS
<1>5. \A m \in 1 .. n : \A k \in m + 1 .. n : k \in m + 1 .. n + 1
  OBVIOUS
<1>6. CASE e.id = i /\ e.op = "put"
  <2>1. Touched(i, b, n + 1)
    BY <1>3, <1>6 DEF Touched, Is
  <2>2. \A k \in n + 2 .. n + 1 : FALSE
    OBVIOUS
  <2>3. Tracked(i, n + 1)
    BY <1>3, <1>6, <2>2 DEF Tracked, Is
  <2> QED BY <1>2, <1>6, <2>1, <2>3
<1>7. CASE e.id = i /\ e.op \in {"delete", "unlink"}
  <2>1. Touched(i, b, n + 1)
    BY <1>3, <1>7 DEF Touched, Is
  <2>2. ~Tracked(i, n + 1)
    BY <1>3, <1>7 DEF Tracked, Is
  <2> QED BY <1>2, <1>7, <2>1, <2>2
<1>8. CASE e.id # i \/ e.op = "other"
  <2>1. ~Is(n + 1, i, {"put", "delete", "unlink"})
    BY <1>8 DEF Is
  <2>2. Touched(i, b, n + 1) <=> Touched(i, b, n)
    BY <1>3, <2>1 DEF Touched
  <2>3. Tracked(i, n + 1) <=> Tracked(i, n)
    BY <1>3, <1>4, <1>5, <2>1, SMTT(30) DEF Tracked, Is
  <2>4. i \in AfterNext(v, ids) <=> i \in ids
    BY <1>2, <1>8
  <2> QED BY <2>2, <2>3, <2>4 DEF FoldsTo
<1> QED BY <1>1, <1>6, <1>7, <1>8

LEMMA NextType ==
  ASSUME TypeOK, NEW v \in View, NEW ids, ids \subseteq Id, pos[v] \in Nat,
         pos[v] < Len(log)
  PROVE  AfterNext(v, ids) \subseteq Id
<1>1. log \in Seq([id : Id, op : {"put", "delete", "unlink", "other"}])
  BY DEF TypeOK
<1>2. pos[v] + 1 \in 1 .. Len(log)
  BY <1>1
<1>3. log[pos[v] + 1] \in [id : Id, op : {"put", "delete", "unlink", "other"}]
  BY <1>1, <1>2, SeqItem
<1> QED BY <1>3 DEF AfterNext

\* A batch that has taken nothing holds what its index holds.
LEMMA FoldNone ==
  ASSUME NEW v \in View, NEW n \in Nat
  PROVE  FoldsTo(Seed(v), index[v], n, n)
<1>1. \A m \in n + 1 .. n : FALSE
  OBVIOUS
<1> QED BY <1>1 DEF FoldsTo, Seed, Touched

\* What get returned is no older than the end of the batch.
LEMMA AnswerIsCurrent ==
  ASSUME TypeOK, NEW i \in Id, Answer(i), NEW n \in Nat, n <= Len(log)
  PROVE  /\ entity[i] # 0 => Current(i, entity[i], n)
         /\ entity[i] = 0 /\ Tracked(i, n) => DeletedAfter(i, n)
<1>1. Len(log) \in Nat
  BY DEF TypeOK
<1>2. CASE entity[i] # 0
  <2>1. Current(i, entity[i], Len(log))
    BY <1>2 DEF Answer
  <2>2. entity[i] \in Nat
    BY DEF TypeOK
  <2>3. \A k \in entity[i] + 1 .. n : k \in entity[i] + 1 .. Len(log)
    BY <1>1, <2>2
  <2> QED BY <1>2, <2>1, <2>3 DEF Current
<1>3. CASE entity[i] = 0
  <2> SUFFICES ASSUME Tracked(i, n) PROVE DeletedAfter(i, n)
    BY <1>3
  <2>1. PICK m \in 1 .. n : /\ Is(m, i, {"put"})
                            /\ \A k \in m + 1 .. n : ~Is(k, i, {"delete", "unlink"})
    BY DEF Tracked
  <2>2. DeletedAfter(i, m)
    BY <1>1, <1>3, <2>1 DEF Answer
  <2>3. PICK k \in m + 1 .. Len(log) : Is(k, i, {"delete"})
    BY <2>2 DEF DeletedAfter
  <2>4. k \notin m + 1 .. n
    BY <2>1, <2>3 DEF Is
  <2>5. k \in n + 1 .. Len(log)
    BY <1>1, <2>3, <2>4
  <2> QED BY <2>3, <2>5 DEF DeletedAfter
<1> QED BY <1>2, <1>3

\* What a finished pass found agrees with the log up to the end of its batch.
LEMMA FoundAgrees ==
  ASSUME TypeOK, NEW v \in View, ViewInv(v), pc[v] = "reading", todo[v] = {}
  PROVE  Agrees(found[v], pos[v])
<1>1. PICK n \in Nat, b \in Nat, h \in Nat : n = pos[v] /\ b = base[v] /\ h = high[v]
  BY Numbers
<1>2. b <= n /\ n <= Len(log) /\ h <= n /\ b \in {0, h} /\ Len(log) \in Nat
  BY <1>1, Numbers DEF ViewInv, Placed
<1> SUFFICES ASSUME NEW i \in Id
             PROVE  IF Tracked(i, n)
                    THEN IF found[v][i] = 0 THEN DeletedAfter(i, n)
                         ELSE Current(i, found[v][i], n)
                    ELSE found[v][i] = 0
  BY <1>1 DEF Agrees
<1>3. /\ found[v][i] # 0 => i \in live[v] /\ Current(i, found[v][i], n)
      /\ found[v][i] = 0 /\ i \in live[v] /\ Tracked(i, n) => DeletedAfter(i, n)
  BY <1>1 DEF ViewInv, Reading, Got
<1>4. IF Touched(i, b, n) THEN i \in live[v] <=> Tracked(i, n)
      ELSE i \in live[v] <=> index[v][i] # 0
  BY <1>1 DEF ViewInv, Folding, FoldsTo
<1>5. IF Tracked(i, h) THEN index[v][i] = 0 => DeletedAfter(i, h) ELSE index[v][i] = 0
  BY <1>1 DEF ViewInv, Agrees
<1>6. CASE Touched(i, b, n)
  BY <1>3, <1>4, <1>6
<1>7. CASE ~Touched(i, b, n) /\ b = h
  <2>1. \A m \in h + 1 .. n : ~Is(m, i, {"put", "delete", "unlink"})
    BY <1>7 DEF Touched
  <2>2. Tracked(i, n) <=> Tracked(i, h)
    <3>1. \A m \in 1 .. n : m \in 1 .. h \/ m \in h + 1 .. n
      BY <1>2
    <3>2. \A m \in 1 .. h : m \in 1 .. n
      BY <1>2
    <3>3. \A m \in 1 .. h : /\ \A k \in m + 1 .. n : k \in m + 1 .. h \/ k \in h + 1 .. n
                            /\ \A k \in m + 1 .. h : k \in m + 1 .. n
      BY <1>2
    <3> QED BY <2>1, <3>1, <3>2, <3>3 DEF Tracked, Is
  <2>3. DeletedAfter(i, h) => DeletedAfter(i, n)
    <3>1. \A k \in h + 1 .. Len(log) : k \in h + 1 .. n \/ k \in n + 1 .. Len(log)
      BY <1>2
    <3> QED BY <2>1, <3>1 DEF DeletedAfter, Is
  <2> QED BY <1>3, <1>4, <1>5, <1>7, <2>2, <2>3
<1>8. CASE ~Touched(i, b, n) /\ b = 0
  <2>1. \A m \in 1 .. n : ~Is(m, i, {"put", "delete", "unlink"})
    BY <1>8 DEF Touched
  <2>2. \A m \in 1 .. h : m \in 1 .. n
    BY <1>2
  <2>3. ~Tracked(i, n) /\ ~Tracked(i, h)
    BY <2>1, <2>2 DEF Tracked, Is
  <2> QED BY <1>3, <1>4, <1>5, <1>8, <2>3
<1> QED BY <1>2, <1>6, <1>7, <1>8

----------------------------------------------------------------------------
(* The steps of a view.  None writes the log, so the other views keep      *)
(* their invariants.                                                       *)

Elsewhere(v) ==
  /\ UNCHANGED <<runtime, followed>>
  /\ \A u \in View \ {v} : Same(u) /\ pull'[u] = pull[u]

LEMMA Quiet ==
  ASSUME TypeOK, UNCHANGED runtime
  PROVE  Grown /\ log' = log /\ entity' = entity
BY DEF TypeOK, Grown, runtime

LEMMA OneView ==
  ASSUME Inv, TypeOK', NEW v \in View, Elsewhere(v), ViewInv(v)'
  PROVE  Inv'
<1>1. TypeOK /\ Grown /\ log' = log /\ entity' = entity /\ followed' = followed
  BY Quiet DEF Inv, Elsewhere
<1>2. \A i \in Id : Answer(i)'
  BY <1>1 DEF Inv, Answer, Current, DeletedAfter, Is
<1>3. ASSUME NEW u \in View \ {v} PROVE ViewInv(u)'
  BY <1>1, ViewKept DEF Inv, Elsewhere
<1> QED BY <1>2, <1>3 DEF Inv

\* The parts of a view's invariant that a step with the log and the rest of the
\* view unchanged leaves alone.
LEMMA PullStep ==
  ASSUME Inv, NEW v \in View, UNCHANGED <<runtime, pc, pos, pass, view, setup>>,
         \E s \in {"parked", "got"} :
           /\ pull' = [pull EXCEPT ![v] = s] /\ pull[v] \in {"started", "parked"}
           /\ IF s = "got" THEN pos[v] < Len(log) ELSE pos[v] >= Len(log)
  PROVE  Inv'
<1>1. TypeOK /\ Grown /\ log' = log /\ followed' = followed
  BY Quiet DEF Inv, setup
<1>2. TypeOK'
  BY <1>1 DEF TypeOK, runtime, pass, view, setup
<1>3. \A u \in View : Same(u)
  BY DEF Same, pass, view
<1>4. Elsewhere(v)
  BY <1>1, <1>3 DEF Elsewhere, runtime, TypeOK
<1>5. Placed(v)'
  <2>1. Placed(v) /\ pull[v] \in {"started", "parked"}
    BY DEF Inv, ViewInv
  <2>2. pc'[v] = pc[v] /\ pos'[v] = pos[v] /\ high'[v] = high[v] /\ base'[v] = base[v]
    BY <1>3 DEF Same
  <2>3. PICK s \in {"parked", "got"} :
          /\ pull'[v] = s
          /\ IF s = "got" THEN pos[v] < Len(log) ELSE pos[v] >= Len(log)
    BY <1>1 DEF TypeOK
  <2>4. pos[v] \in Nat /\ high[v] \in Nat /\ Len(log) \in Nat
    BY <1>1, Numbers
  <2>5. ~(pc[v] = "reading" /\ v \notin followed) /\ pc[v] # "idle"
    BY <2>1 DEF Placed
  <2> QED BY <1>1, <2>1, <2>2, <2>3, <2>4, <2>5 DEF Placed
<1>6. ViewInv(v)'
  <2>1. Agrees(index[v], high[v])'
    BY <1>1, <1>3, SameAgrees DEF Inv, ViewInv, Placed
  <2>2. pc'[v] \in {"draining", "reading"} => Folding(v)'
    BY <1>1, <1>3, FoldingKept DEF Inv, ViewInv, Placed, Same
  <2>3. pc'[v] = "reading" => Reading(v)'
    BY <1>1, <1>3, ReadingKept DEF Inv, ViewInv, Placed, Same
  <2> QED BY <1>5, <2>1, <2>2, <2>3 DEF ViewInv
<1> QED BY <1>2, <1>4, <1>6, OneView

LEMMA DrainStep == ASSUME Inv, NEW v \in View, Drain(v) PROVE Inv'
<1>1. TypeOK /\ Grown /\ log' = log /\ followed' = followed /\ ViewInv(v)
  BY Quiet DEF Inv, Drain, setup
<1>2. PICK n \in Nat, b \in Nat : n = pos[v] /\ b = base[v]
  BY <1>1, Numbers
<1>3. b <= n /\ n < Len(log) /\ Len(log) \in Nat /\ high[v] \in Nat
  BY <1>1, <1>2, Numbers DEF ViewInv, Placed, Drain
<1>4. /\ pos'[v] = n + 1 /\ base'[v] = b /\ live'[v] = AfterNext(v, live[v])
      /\ pull'[v] = "started" /\ pc'[v] = "draining" /\ high'[v] = high[v]
      /\ index'[v] = index[v]
  BY <1>1, <1>2 DEF Drain, Take, TypeOK, view
<1>5. AfterNext(v, live[v]) \subseteq Id
  BY <1>1, <1>2, <1>3, NextType, Numbers
<1>6. TypeOK'
  <2>1. pos' \in [View -> Nat] /\ live' \in [View -> SUBSET Id]
    BY <1>1, <1>5 DEF Drain, Take, TypeOK
  <2> QED BY <1>1, <2>1 DEF Drain, Take, TypeOK, runtime, view, setup
<1>7. Elsewhere(v)
  BY <1>1 DEF Elsewhere, Same, Drain, Take, TypeOK, view, setup
<1>8. FoldsTo(AfterNext(v, live[v]), index[v], b, n + 1)
  BY <1>1, <1>2, <1>3, <1>4, FoldOne DEF ViewInv, Folding, Drain
<1>9. Folding(v)'
  BY <1>1, <1>4, <1>8 DEF Folding, FoldsTo, Touched, Tracked, Is
<1>10. Agrees(index[v], high[v])'
  BY <1>1, <1>4 DEF ViewInv, Agrees, Tracked, Current, DeletedAfter, Is
<1>11. Placed(v)'
  BY <1>1, <1>2, <1>3, <1>4 DEF ViewInv, Placed, Drain
<1>12. ViewInv(v)'
  BY <1>4, <1>9, <1>10, <1>11 DEF ViewInv
<1> QED BY <1>6, <1>7, <1>12, OneView

LEMMA PickUpStep == ASSUME Inv, NEW v \in View, PickUp(v) PROVE Inv'
<1>1. TypeOK /\ Grown /\ log' = log /\ followed' = followed /\ ViewInv(v)
  BY Quiet DEF Inv, PickUp, setup
<1>2. PICK n \in Nat : n = pos[v]
  BY <1>1, Numbers
<1>3. n < Len(log) /\ Len(log) \in Nat /\ high[v] = n
  BY <1>1, <1>2, Numbers DEF ViewInv, Placed, PickUp
<1>4. /\ pos'[v] = n + 1 /\ base'[v] = n /\ live'[v] = AfterNext(v, Seed(v))
      /\ pull'[v] = "started" /\ pc'[v] = "draining" /\ high'[v] = high[v]
      /\ index'[v] = index[v]
  BY <1>1, <1>2 DEF PickUp, Take, TypeOK
<1>5. AfterNext(v, Seed(v)) \subseteq Id
  BY <1>1, <1>2, <1>3, NextType DEF Seed
<1>6. TypeOK'
  <2>1. /\ pos' \in [View -> Nat] /\ live' \in [View -> SUBSET Id]
        /\ base' \in [View -> Nat] /\ caughtUp' \in [View -> BOOLEAN]
    BY <1>1, <1>5 DEF PickUp, Take, Clear, TypeOK
  <2> QED BY <1>1, <2>1 DEF PickUp, Take, TypeOK, runtime, setup
<1>7. Elsewhere(v)
  BY <1>1 DEF Elsewhere, Same, PickUp, Take, TypeOK
<1>8. FoldsTo(AfterNext(v, Seed(v)), index[v], n, n + 1)
  BY <1>1, <1>2, <1>3, FoldOne, FoldNone
<1>9. Folding(v)'
  BY <1>1, <1>4, <1>8 DEF Folding, FoldsTo, Touched, Tracked, Is
<1>10. Agrees(index[v], high[v])'
  BY <1>1, <1>4 DEF ViewInv, Agrees, Tracked, Current, DeletedAfter, Is
<1>11. Placed(v)'
  BY <1>1, <1>3, <1>4 DEF ViewInv, Placed
<1>12. ViewInv(v)'
  BY <1>4, <1>9, <1>10, <1>11 DEF ViewInv
<1> QED BY <1>6, <1>7, <1>12, OneView

LEMMA EdgeStep == ASSUME Inv, NEW v \in View, LiveEdge(v) PROVE Inv'
<1>1. TypeOK /\ Grown /\ log' = log /\ followed' = followed /\ ViewInv(v)
  BY Quiet DEF Inv, LiveEdge, setup
<1>2. /\ pos'[v] = pos[v] /\ base'[v] = base[v] /\ live'[v] = live[v]
      /\ pc'[v] = "reading" /\ high'[v] = high[v] /\ index'[v] = index[v]
      /\ todo'[v] = live[v] /\ found'[v] = [i \in Id |-> 0]
      /\ pull'[v] = IF v \in followed THEN "parked" ELSE "none"
      /\ pc[v] = "draining" /\ pull[v] = "parked"
  BY <1>1 DEF LiveEdge, AtEdge, TypeOK, view
<1>3. TypeOK'
  BY <1>1 DEF LiveEdge, TypeOK, runtime, view, setup
<1>4. Elsewhere(v)
  BY <1>1 DEF Elsewhere, Same, LiveEdge, TypeOK, view
<1>5. Folding(v)'
  BY <1>1, <1>2 DEF ViewInv, Folding, FoldsTo, Touched, Tracked, Is
<1>6. Agrees(index[v], high[v])'
  BY <1>1, <1>2 DEF ViewInv, Agrees, Tracked, Current, DeletedAfter, Is
<1>7. Placed(v)'
  BY <1>1, <1>2 DEF ViewInv, Placed
<1>8. Reading(v)'
  BY <1>2 DEF Reading, Got
<1>9. ViewInv(v)'
  BY <1>5, <1>6, <1>7, <1>8 DEF ViewInv
<1> QED BY <1>3, <1>4, <1>9, OneView

LEMMA EmptyStep == ASSUME Inv, NEW v \in View, EmptyEdge(v) PROVE Inv'
<1>1. TypeOK /\ Grown /\ log' = log /\ followed' = followed /\ ViewInv(v)
  BY Quiet DEF Inv, EmptyEdge, setup
<1>2. /\ pos'[v] = pos[v] /\ base'[v] = base[v] /\ pull'[v] = "parked"
      /\ pc'[v] = "parked" /\ high'[v] = high[v] /\ index'[v] = index[v]
      /\ pc[v] = "draining" /\ pull[v] = "parked" /\ pos[v] = base[v]
  BY <1>1 DEF EmptyEdge, AtEdge, Drained, TypeOK, pass
<1>3. TypeOK'
  BY <1>1 DEF EmptyEdge, Signal, TypeOK, runtime, pass, setup
<1>4. Elsewhere(v)
  BY <1>1 DEF Elsewhere, Same, EmptyEdge, TypeOK, pass
<1>5. Agrees(index[v], high[v])'
  BY <1>1, <1>2 DEF ViewInv, Agrees, Tracked, Current, DeletedAfter, Is
<1>6. Placed(v)'
  <2>1. pos[v] \in Nat /\ high[v] \in Nat
    BY <1>1, Numbers
  <2> QED BY <1>1, <1>2, <2>1 DEF ViewInv, Placed
<1>7. ViewInv(v)'
  BY <1>2, <1>5, <1>6 DEF ViewInv
<1> QED BY <1>3, <1>4, <1>7, OneView

LEMMA ReadStep ==
  ASSUME Inv, NEW v \in View, NEW i \in Id, Read(v, i) PROVE Inv'
<1>1. TypeOK /\ Grown /\ log' = log /\ followed' = followed /\ ViewInv(v)
  BY Quiet DEF Inv, Read, setup
<1>2. /\ pos'[v] = pos[v] /\ base'[v] = base[v] /\ live'[v] = live[v]
      /\ pc'[v] = "reading" /\ high'[v] = high[v] /\ index'[v] = index[v]
      /\ todo'[v] = todo[v] \ {i} /\ pull'[v] = pull[v]
      /\ pc[v] = "reading" /\ i \in todo[v] /\ entity[i] \in Nat
  BY <1>1 DEF Read, TypeOK, stream, view
<1>3. found'[v] = [found[v] EXCEPT ![i] = entity[i]]
  BY <1>1 DEF Read, TypeOK
<1>4. TypeOK'
  <2>1. todo' \in [View -> SUBSET Id] /\ found' \in [View -> [Id -> Nat]]
    <3>1. \A u \in View : found[u] \in [Id -> Nat] /\ todo[u] \subseteq Id
      BY <1>1, Numbers
    <3> QED BY <1>1, <1>2, <3>1 DEF Read, TypeOK
  <2> QED BY <1>1, <2>1 DEF Read, TypeOK, runtime, stream, view, setup
<1>5. Elsewhere(v)
  BY <1>1 DEF Elsewhere, Same, Read, TypeOK, stream, view, setup
<1>6. Folding(v)'
  BY <1>1, <1>2 DEF ViewInv, Folding, FoldsTo, Touched, Tracked, Is
<1>7. Agrees(index[v], high[v])'
  BY <1>1, <1>2 DEF ViewInv, Agrees, Tracked, Current, DeletedAfter, Is
<1>8. Placed(v)'
  BY <1>1, <1>2 DEF ViewInv, Placed
<1>9. Reading(v)'
  <2>1. PICK n \in Nat : n = pos[v] /\ n <= Len(log)
    BY <1>1, Numbers DEF ViewInv, Placed
  <2>2. /\ entity[i] # 0 => Current(i, entity[i], n)
        /\ entity[i] = 0 /\ Tracked(i, n) => DeletedAfter(i, n)
    BY <1>1, <2>1, AnswerIsCurrent DEF Inv
  <2>3. i \in live[v] /\ found'[v][i] = entity[i]
    BY <1>1, <1>2, <1>3, Numbers DEF ViewInv, Reading
  <2>4. Got(v, i)'
    BY <1>1, <1>2, <2>1, <2>2, <2>3 DEF Got, Current, Tracked, DeletedAfter, Is
  <2>5. ASSUME NEW j \in Id, j # i PROVE found'[v][j] = found[v][j]
    BY <1>1, <1>3, <2>5, Numbers
  <2>6. ASSUME NEW j \in Id, j # i, j \notin todo[v] PROVE Got(v, j)'
    <3>1. Got(v, j)
      BY <1>1, <1>2, <2>6 DEF ViewInv, Reading
    <3> QED BY <1>1, <1>2, <2>5, <2>6, <3>1 DEF Got, Current, Tracked, DeletedAfter, Is
  <2>7. /\ todo[v] \subseteq live[v]
        /\ \A j \in Id : j \in todo[v] => found[v][j] = 0
    BY <1>1, <1>2 DEF ViewInv, Reading
  <2> QED BY <1>2, <2>4, <2>5, <2>6, <2>7 DEF Reading
<1>10. ViewInv(v)'
  BY <1>6, <1>7, <1>8, <1>9 DEF ViewInv
<1> QED BY <1>4, <1>5, <1>10, OneView

LEMMA SwapStep == ASSUME Inv, NEW v \in View, Swap(v) PROVE Inv'
<1>1. TypeOK /\ Grown /\ log' = log /\ followed' = followed /\ ViewInv(v)
  BY Quiet DEF Inv, Swap, setup
<1>2. /\ pos'[v] = pos[v] /\ base'[v] = base[v] /\ pull'[v] = pull[v]
      /\ high'[v] = pos[v] /\ index'[v] = found[v]
      /\ pc'[v] = IF v \in followed THEN "parked" ELSE "idle"
      /\ pc[v] = "reading" /\ todo[v] = {}
  BY <1>1 DEF Swap, NewIndex, TypeOK, pass
<1>3. TypeOK'
  <2>1. /\ index' \in [View -> [Id -> Nat]] /\ high' \in [View -> Nat]
        /\ pc' \in [View -> {"idle", "draining", "reading", "parked"}]
        /\ caughtUp' \in [View -> BOOLEAN]
    BY <1>1 DEF Swap, NewIndex, Signal, TypeOK
  <2> QED BY <1>1, <2>1 DEF Swap, TypeOK, runtime, pass, setup
<1>4. Elsewhere(v)
  BY <1>1 DEF Elsewhere, Same, Swap, TypeOK, pass, setup
<1>5. Agrees(found[v], pos[v])
  BY <1>1, <1>2, FoundAgrees
<1>6. Agrees(index[v], high[v])'
  BY <1>1, <1>2, <1>5 DEF Agrees, Tracked, Current, DeletedAfter, Is
<1>7. Placed(v)'
  BY <1>1, <1>2, Numbers DEF ViewInv, Placed
<1>8. ViewInv(v)'
  BY <1>2, <1>6, <1>7 DEF ViewInv
<1> QED BY <1>3, <1>4, <1>8, OneView

LEMMA OpenStep == ASSUME Inv, NEW v \in View, Open(v) PROVE Inv'
<1>1. TypeOK /\ Grown /\ log' = log /\ followed' = followed /\ ViewInv(v)
  BY Quiet DEF Inv, Open
<1>2. PICK n \in Nat : /\ n = IF v \in followed THEN 0 ELSE high[v]
                       /\ pos' = [pos EXCEPT ![v] = n] /\ base' = [base EXCEPT ![v] = n]
  BY <1>1, Numbers DEF Open
<1>3. /\ pos'[v] = n /\ base'[v] = n /\ live'[v] = Seed(v) /\ pull'[v] = "started"
      /\ pc'[v] = "draining" /\ high'[v] = high[v] /\ index'[v] = index[v]
  BY <1>1, <1>2 DEF Open, TypeOK, view
<1>4. TypeOK'
  <2>1. Seed(v) \subseteq Id
    BY DEF Seed
  <2>2. live' \in [View -> SUBSET Id] /\ opens' \in [View -> Nat]
    BY <1>1, <2>1 DEF Open, TypeOK
  <2> QED BY <1>1, <1>2, <2>2 DEF Open, TypeOK, runtime, view
<1>5. Elsewhere(v)
  BY <1>1, <1>2 DEF Elsewhere, Same, Open, TypeOK, view
<1>6. Folding(v)'
  <2>1. FoldsTo(Seed(v), index[v], n, n)
    BY FoldNone
  <2> QED BY <1>1, <1>3, <2>1 DEF Folding, FoldsTo, Touched, Tracked, Is
<1>7. Agrees(index[v], high[v])'
  BY <1>1, <1>3 DEF ViewInv, Agrees, Tracked, Current, DeletedAfter, Is
<1>8. Placed(v)'
  <2>1. n <= Len(log) /\ n \in {0, high[v]} /\ high[v] <= Len(log) /\ Len(log) \in Nat
    BY <1>1, <1>2, Numbers DEF ViewInv, Placed
  <2> QED BY <1>1, <1>3, <2>1 DEF Placed
<1>9. ViewInv(v)'
  BY <1>3, <1>6, <1>7, <1>8 DEF ViewInv
<1> QED BY <1>4, <1>5, <1>9, OneView

LEMMA CloseStep == ASSUME Inv, NEW v \in View, Close(v) PROVE Inv'
<1>1. TypeOK /\ Grown /\ log' = log /\ followed' = followed /\ ViewInv(v)
  BY Quiet DEF Inv, Close, setup
<1>2. /\ pos'[v] = pos[v] /\ base'[v] = base[v] /\ pull'[v] = "none"
      /\ pc'[v] = "idle" /\ high'[v] = high[v] /\ index'[v] = index[v]
  BY <1>1 DEF Close, TypeOK, view
<1>3. TypeOK'
  BY <1>1 DEF Close, TypeOK, runtime, view, setup
<1>4. Elsewhere(v)
  BY <1>1 DEF Elsewhere, Same, Close, TypeOK, view, setup
<1>5. Agrees(index[v], high[v])'
  BY <1>1, <1>2 DEF ViewInv, Agrees, Tracked, Current, DeletedAfter, Is
<1>6. Placed(v)'
  BY <1>1, <1>2 DEF ViewInv, Placed
<1>7. ViewInv(v)'
  BY <1>2, <1>5, <1>6 DEF ViewInv
<1> QED BY <1>3, <1>4, <1>7, OneView

----------------------------------------------------------------------------
(* The theorems.                                                           *)

LEMMA InitInv == ASSUME Init PROVE Inv
<1>1. TypeOK
  BY DEF Init, TypeOK
<1>2. /\ Len(log) = 0 /\ \A v \in View : pc[v] = "idle" /\ pull[v] = "none"
      /\ \A v \in View : pos[v] = 0 /\ base[v] = 0 /\ high[v] = 0
      /\ \A v \in View, i \in Id : index[v][i] = 0
      /\ \A i \in Id : entity[i] = 0
  BY DEF Init
<1>3. \A p \in 1 .. 0 : FALSE
  OBVIOUS
<1>4. \A i \in Id : Answer(i)
  BY <1>2, <1>3 DEF Answer
<1>5. ASSUME NEW v \in View PROVE ViewInv(v)
  <2>1. Placed(v)
    BY <1>2 DEF Placed
  <2>2. Agrees(index[v], high[v])
    BY <1>2, <1>3 DEF Agrees, Tracked
  <2> QED BY <1>2, <2>1, <2>2 DEF ViewInv
<1> QED BY <1>1, <1>4, <1>5 DEF Inv

LEMMA StepInv == ASSUME Inv, [Next]_vars PROVE Inv'
<1>1. CASE Write
  BY <1>1, WriteStep
<1>2. ASSUME NEW v \in View, Progress(v) PROVE Inv'
  <2>1. CASE PullRuns(v)
    <3>1. pos[v] \in Nat /\ Len(log) \in Nat
      BY Numbers DEF Inv
    <3>2. CASE pos[v] < Len(log)
      BY <2>1, <3>1, <3>2, PullStep DEF PullRuns
    <3>3. CASE ~(pos[v] < Len(log))
      <4>1. pull' = [pull EXCEPT ![v] = "parked"] /\ pull[v] = "started"
        BY <2>1, <3>3 DEF PullRuns
      <4>2. pos[v] >= Len(log)
        BY <3>1, <3>3
      <4> QED BY <2>1, <4>1, <4>2, PullStep DEF PullRuns
    <3> QED BY <3>2, <3>3
  <2>2. CASE PullWakes(v)
    BY <2>2, PullStep DEF PullWakes, Arrived
  <2> QED BY <1>2, <2>1, <2>2, DrainStep, EdgeStep, EmptyStep, SwapStep, PickUpStep,
             ReadStep DEF Progress
<1>3. ASSUME NEW v \in View, Open(v) \/ Close(v) PROVE Inv'
  BY <1>3, OpenStep, CloseStep
<1>4. CASE UNCHANGED vars
  <2>1. TypeOK /\ Grown /\ followed' = followed /\ UNCHANGED runtime
    BY <1>4, Quiet DEF Inv, vars, setup
  <2>2. TypeOK'
    BY <1>4, <2>1 DEF TypeOK, vars, runtime, stream, pass, view, setup
  <2>3. \A v \in View : Same(v) /\ pull'[v] = pull[v]
    BY <1>4 DEF Same, vars, stream, pass, view
  <2>4. \A v \in View : ViewInv(v)'
    BY <2>1, <2>3, ViewKept DEF Inv
  <2>5. \A i \in Id : Answer(i)'
    BY <2>1 DEF Inv, Answer, Current, DeletedAfter, Is, runtime
  <2> QED BY <2>2, <2>4, <2>5 DEF Inv
<1> QED BY <1>1, <1>2, <1>3, <1>4 DEF Next

LEMMA Invariant == Spec => []Inv
<1>1. Init => Inv
  BY InitInv
<1>2. Inv /\ [Next]_vars => Inv'
  BY StepInv
<1> QED BY <1>1, <1>2, PTL DEF Spec

\* The model's variables keep their types, however large the log.
THEOREM TypeCorrect == Spec => []TypeOK
<1>1. Inv => TypeOK
  BY DEF Inv
<1> QED BY <1>1, Invariant, PTL

\* Whatever writes fall between the gets of a pass, and however often a view is
\* refreshed, followed, cancelled and followed again from the start, its index is
\* that of a fresh fold up to its cursor, entity by entity no older.
THEOREM ViewsAgree == Spec => []ViewAgreesWithLog
<1>1. Inv => ViewAgreesWithLog
  BY DEF Inv, ViewInv, ViewAgreesWithLog
<1> QED BY <1>1, Invariant, PTL

\* Only the swap of a pass writes the cursor, and a pass reaches its live edge at or
\* past the cursor: a second run() of a follower replays up to there before it reads.
THEOREM CursorsOnlyAdvance == Spec => CursorNeverRegresses
<1>1. ASSUME Inv, [Next]_vars, NEW v \in View PROVE high'[v] >= high[v]
  <2>1. high \in [View -> Nat] /\ pos \in [View -> Nat]
    BY <1>1 DEF Inv, TypeOK
  <2>2. ASSUME NEW u \in View, Swap(u) PROVE high'[v] >= high[v]
    <3>1. high' = [high EXCEPT ![u] = pos[u]] /\ high[u] <= pos[u]
      BY <1>1, <2>2 DEF Inv, ViewInv, Placed, Swap
    <3> QED BY <2>1, <3>1
  <2>3. CASE UNCHANGED high
    BY <2>1, <2>3
  <2>4. Write => UNCHANGED high
    BY DEF Write, Put, Delete, Unlink, Other, Logged, view
  <2>5. \A u \in View : Progress(u) => Swap(u) \/ UNCHANGED high
    BY DEF Progress, PullRuns, PullWakes, Drain, LiveEdge, EmptyEdge, PickUp, Read, view
  <2>6. \A u \in View : Open(u) \/ Close(u) => UNCHANGED high
    BY DEF Open, Close, view
  <2>7. UNCHANGED vars => UNCHANGED high
    BY DEF vars, view
  <2> QED BY <1>1, <2>2, <2>3, <2>4, <2>5, <2>6, <2>7 DEF Next
<1>2. Inv /\ [Next]_vars => [\A v \in View : high'[v] >= high[v]]_vars
  BY <1>1
<1> QED BY <1>2, Invariant, PTL DEF Spec, CursorNeverRegresses

\* Until its second run() a follower's Event is set only between batches: where a batch
\* is drained or read it is clear.
Signalled(v) ==
  v \in followed =>
    /\ opens[v] = 0 => pc[v] = "idle" /\ ~caughtUp[v]
    /\ opens[v] = 1 /\ pc[v] \in {"draining", "reading"} => ~caughtUp[v]

LEMMA SignalledStep ==
  ASSUME Inv, [Next]_vars, NEW v \in View, Signalled(v)
  PROVE  Signalled(v)'
<1>1. /\ pc \in [View -> {"idle", "draining", "reading", "parked"}]
      /\ caughtUp \in [View -> BOOLEAN] /\ opens \in [View -> Nat]
  BY DEF Inv, TypeOK
<1>2. ASSUME UNCHANGED <<pc, caughtUp, opens, followed>> PROVE Signalled(v)'
  BY <1>2 DEF Signalled
<1>3. CASE Write
  BY <1>2, <1>3 DEF Write, Put, Delete, Unlink, Other, Logged, stream, view, setup
<1>4. ASSUME NEW u \in View, Progress(u) PROVE Signalled(v)'
  <2>1. CASE PullRuns(u) \/ PullWakes(u) \/ Drain(u) \/ \E i \in Id : Read(u, i)
    BY <1>2, <2>1 DEF PullRuns, PullWakes, Drain, Read, stream, view, setup
  <2>2. CASE LiveEdge(u)
    BY <1>1, <2>2 DEF LiveEdge, AtEdge, Signalled, view, setup
  <2>3. CASE EmptyEdge(u)
    BY <1>1, <2>3 DEF EmptyEdge, AtEdge, Signal, Signalled, setup
  <2>4. CASE Swap(u)
    BY <1>1, <2>4 DEF Swap, Signal, Signalled, setup
  <2>5. CASE PickUp(u)
    BY <1>1, <2>5 DEF PickUp, Clear, Signalled, setup
  <2> QED BY <1>4, <2>1, <2>2, <2>3, <2>4, <2>5 DEF Progress
<1>5. ASSUME NEW u \in View, Open(u) PROVE Signalled(v)'
  BY <1>1, <1>5 DEF Open, Signalled, view
<1>6. ASSUME NEW u \in View, Close(u) PROVE Signalled(v)'
  BY <1>1, <1>6 DEF Close, Signalled, view, setup
<1>7. CASE UNCHANGED vars
  BY <1>2, <1>7 DEF vars, stream, view, setup
<1> QED BY <1>3, <1>4, <1>5, <1>6, <1>7 DEF Next

\* While the Event of a first run() is set, the view has all its stream handed over.
THEOREM QuiescenceIsApplied == Spec => []QuiescentViewIsApplied
<1> DEFINE SignalInv == Inv /\ \A v \in View : Signalled(v)
<1>1. Init => SignalInv
  BY InitInv DEF Init, Signalled
<1>2. SignalInv /\ [Next]_vars => SignalInv'
  BY StepInv, SignalledStep
<1>3. SignalInv => QuiescentViewIsApplied
  <2> SUFFICES ASSUME SignalInv, NEW v \in followed,
                      pc[v] # "idle", opens[v] = 1, caughtUp[v]
               PROVE  high[v] = pos[v]
    BY DEF QuiescentViewIsApplied
  <2>1. v \in View /\ Signalled(v) /\ Placed(v)
    BY DEF Inv, TypeOK, ViewInv
  <2>2. pc[v] \in {"idle", "draining", "reading", "parked"}
    BY <2>1 DEF Inv, TypeOK
  <2> QED BY <2>1, <2>2 DEF Signalled, Placed
<1> QED BY <1>1, <1>2, <1>3, PTL DEF Spec
=============================================================================
