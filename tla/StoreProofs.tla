---------------------------- MODULE StoreProofs ----------------------------
(***************************************************************************)
(* Theorems about Store for every set of tenants, ids, bindings, values    *)
(* and clients, and every bound on the log.                                *)
(***************************************************************************)
EXTENDS Store, TLAPS

----------------------------------------------------------------------------
(* Type correctness, together with what rows hold.                         *)

Typed == TypeOK /\ RowsAreWrites

\* Entries the verbs append: a write carries an entity at the entry's version.
Appendable(e) ==
  /\ e \in Entry
  /\ IsWrite(e) => e.payload # None /\ e.version = e.payload.version

LEMMA LatestType ==
  ASSUME Typed, NEW t \in Tenant, NEW i \in Id, Latest(t, i) # None
  PROVE  /\ Latest(t, i) \in Entry
         /\ Latest(t, i).tenant = t /\ Latest(t, i).id = i
         /\ IsWrite(Latest(t, i))
         /\ Latest(t, i).payload \in Body
         /\ Latest(t, i).version = Latest(t, i).payload.version
<1>1. <<t, "node", i>> \in Key /\ <<t, "edge", i>> \in Key
  BY DEF Key, Kind
<1>2. PICK k \in Key : /\ state[k] # None /\ Latest(t, i) = state[k].entry
                       /\ k[1] = t /\ k[3] = i
  BY <1>1 DEF Latest, LiveEntry
<1>3. state[k] \in Row
  BY <1>2 DEF Typed, TypeOK
<1>4. state[k].entry \in Entry
  BY <1>3 DEF Row
<1>5. KeyOf(state[k].entry) = k
  BY <1>2 DEF Typed, RowsAreWrites
<1>6. state[k].entry.tenant = t /\ state[k].entry.id = i
  BY <1>2, <1>5 DEF KeyOf
<1>7. state[k].entry.payload \in Body
  BY <1>2, <1>4 DEF Typed, RowsAreWrites, Entry
<1> QED BY <1>2, <1>4, <1>6, <1>7 DEF Typed, RowsAreWrites

\* What the store stamps is an entry of the same key.
LEMMA StampTyped ==
  ASSUME Typed, NEW e, Appendable(e)
  PROVE  Stamp(e) \in Entry /\ KeyOf(Stamp(e)) = KeyOf(e) /\ KeyOf(e) \in Key
<1>1. e \in Entry
  BY DEF Appendable
<1>2. Len(log) \in Nat
  BY DEF Typed, TypeOK
<1> QED BY <1>1, <1>2 DEF Stamp, Entry, KeyOf, Key

LEMMA AppendTyped ==
  ASSUME Typed, NEW e, Appendable(e), AppendEntry(e)
  PROVE  /\ log' \in Seq(Entry)
         /\ state' \in [Key -> Row \cup {None}]
         /\ bindings' \in [Tenant \X Binding -> Id \cup {None}]
         /\ RowsAreWrites'
<1>1. e \in Entry
  BY DEF Appendable
<1>2. Stamp(e) \in Entry /\ KeyOf(Stamp(e)) = KeyOf(e) /\ KeyOf(e) \in Key
  BY StampTyped
<1>3. log' \in Seq(Entry)
  BY <1>2 DEF AppendEntry, Typed, TypeOK
<1>4. [entry |-> Stamp(e), deleted |-> e.transition = "delete"] \in Row
  BY <1>2 DEF Row
<1>5. state' \in [Key -> Row \cup {None}]
  BY <1>4 DEF AppendEntry, Fold, Typed, TypeOK
<1>6. bindings' \in [Tenant \X Binding -> Id \cup {None}]
  BY <1>1 DEF AppendEntry, RegisterBindings, Typed, TypeOK, Entry
<1>8. RowsAreWrites'
  <2> SUFFICES ASSUME NEW k \in Key, state'[k] # None
               PROVE  /\ IsWrite(state'[k].entry)
                      /\ KeyOf(state'[k].entry) = k
                      /\ state'[k].entry.payload # None
                      /\ state'[k].entry.version = state'[k].entry.payload.version
    BY DEF RowsAreWrites, IsWrite, KeyOf
  <2>1. CASE IsWrite(e) /\ k = KeyOf(e)
    <3>1. state'[k].entry = Stamp(e)
      BY <2>1 DEF AppendEntry, Fold, Typed, TypeOK
    <3>2. /\ Stamp(e).transition = e.transition
          /\ Stamp(e).payload = e.payload /\ Stamp(e).version = e.version
      BY <1>1 DEF Stamp, Entry
    <3> QED BY <1>2, <2>1, <3>1, <3>2 DEF IsWrite, Appendable
  <2>2. CASE ~(IsWrite(e) /\ k = KeyOf(e))
    <3>1. state'[k] = state[k]
      BY <2>2 DEF AppendEntry, Fold, Typed, TypeOK
    <3> QED BY <3>1 DEF Typed, RowsAreWrites
  <2> QED BY <2>1, <2>2
<1> QED BY <1>3, <1>5, <1>6, <1>8

\* Every verb appends an Appendable entry.
LEMMA MakeEntryAppendable ==
  ASSUME NEW t \in Tenant, NEW k \in Kind, NEW i \in Id, NEW tr \in Transition,
         NEW body \in Body
  PROVE  Appendable(MakeEntry(t, k, i, tr, body.version, body))
<1>1. body.version \in Nat
  BY DEF Body
<1>2. body # None
  BY StoreAssumption
<1> QED BY <1>1, <1>2 DEF Appendable, MakeEntry, Entry

----------------------------------------------------------------------------
(* The four kinds of entry the verbs append.                               *)

\* create, link, and an upsert that finds nothing.
Fresh(e) ==
  /\ Creatable(e.tenant, e.id)
  /\ IsWrite(e) /\ e.transition # "delete" /\ e.version = 1

\* edit, set_desired, and an upsert that finds the entity.
Revision(e) ==
  LET row == Latest(e.tenant, e.id)
  IN  /\ row # None
      /\ IsWrite(e) /\ e.transition # "delete"
      /\ e.kind \in {row.kind, "node"} /\ e.version = row.version + 1

\* delete and unlink.
Copy(e) ==
  LET row == Latest(e.tenant, e.id)
  IN  /\ row # None
      /\ IsWrite(e)
      /\ e.version = row.version /\ e.payload = row.payload
      /\ IF e.transition = "delete" THEN e.kind = row.kind ELSE e.kind = "edge"

Carries(t, i, b) == Latest(t, i) # None /\ b \in Latest(t, i).payload.integrations

\* When only upsert introduces bindings, an entry has those its entity has, or a new one.
Binds(e) ==
  OnlyUpsertBinds /\ IsWrite(e) =>
    \A b \in e.payload.integrations :
      Carries(e.tenant, e.id, b) \/ FindByBinding(e.tenant, b) = None

Appends(e) ==
  /\ Appendable(e) /\ AppendEntry(e)
  /\ Fresh(e) \/ Revision(e) \/ Copy(e) \/ ~IsWrite(e)
  /\ Binds(e)

\* A step may spend reads but, when it appends, makes no new one.
SpendsReads ==
  /\ seen' \in [Client -> Seen \cup {None}]
  /\ \A c \in Client : seen'[c] \in {seen[c], None}

Reads ==
  /\ UNCHANGED <<log, state, bindings>>
  /\ seen' \in [Client -> Seen \cup {None}]
  /\ \A c \in Client :
       \/ seen'[c] \in {seen[c], None}
       \/ \E t \in Tenant, i \in Id :
            /\ Latest(t, i) # None
            /\ seen'[c] = [tenant |-> t, entry |-> Latest(t, i)]

LEMMA KeepsReads == ASSUME Typed, UNCHANGED seen PROVE SpendsReads
BY DEF Typed, TypeOK, SpendsReads

LEMMA UsedSpends ==
  ASSUME Typed, NEW c \in Client, Used(c) PROVE SpendsReads
BY DEF Typed, TypeOK, SpendsReads, Used

LEMMA NewBodyTyped ==
  ASSUME NEW v \in Value \cup {None}, NEW bs \in SUBSET Binding
  PROVE  NewBody(v, bs) \in Body /\ NewBody(v, bs).version = 1
BY DEF NewBody, Body

LEMMA CreatableAppends ==
  ASSUME Typed, NEW t \in Tenant, NEW k \in Kind, NEW i \in Id,
         NEW tr \in {"create", "link", "upsert"},
         NEW v \in Value \cup {None}, NEW bs \in SUBSET Binding,
         OnlyUpsertBinds => \A b \in bs : FindByBinding(t, b) = None,
         Creatable(t, i), AppendEntry(MakeEntry(t, k, i, tr, 1, NewBody(v, bs)))
  PROVE  \E e : Appends(e)
<1> DEFINE e == MakeEntry(t, k, i, tr, 1, NewBody(v, bs))
<1>1. Appendable(e)
  BY NewBodyTyped, MakeEntryAppendable DEF Transition
<1>2. Fresh(e)
  BY DEF Fresh, MakeEntry, IsWrite
<1>3. Binds(e)
  BY DEF Binds, MakeEntry, NewBody
<1>4. AppendEntry(e)
  OBVIOUS
<1> HIDE DEF e
<1> QED BY <1>1, <1>2, <1>3, <1>4 DEF Appends

LEMMA ReviseAppends ==
  ASSUME Typed, NEW c \in Client, seen[c] # None, Current(c),
         NEW tr \in {"edit", "set_desired"}, NEW body \in Body, Revise(c, tr, body),
         OnlyUpsertBinds => body.integrations \subseteq CurrentBody(c).integrations
  PROVE  \E e : Appends(e)
<1> DEFINE t   == seen[c].tenant
           row == Latest(t, seen[c].entry.id)
           new == seen[c].entry.version + 1
           nb  == [body EXCEPT !.version = new]
           e   == MakeEntry(t, row.kind, row.id, tr, new, nb)
<1>1. t \in Tenant /\ seen[c].entry \in Entry
  BY DEF Typed, TypeOK, Seen
<1>2. seen[c].entry.id \in Id /\ seen[c].entry.version \in Nat
  BY <1>1 DEF Entry
<1>3. row # None /\ row.version = seen[c].entry.version
  BY DEF Current
<1>4. row \in Entry /\ row.id = seen[c].entry.id
  BY <1>1, <1>2, <1>3, LatestType
<1>5. row.kind \in Kind
  BY <1>4 DEF Entry
<1>6. nb \in Body /\ nb.version = new
  BY <1>2 DEF Body
<1>7. Appendable(e)
  BY <1>1, <1>2, <1>4, <1>5, <1>6, MakeEntryAppendable DEF Transition
<1>8. /\ e.tenant = t /\ e.id = row.id /\ e.kind = row.kind
      /\ e.transition = tr /\ e.version = new
  BY DEF MakeEntry
<1>9. Revision(e)
  BY <1>3, <1>4, <1>8 DEF Revision, IsWrite
<1>10. AppendEntry(e)
  BY DEF Revise
<1>11. nb.integrations = body.integrations /\ e.payload = nb
  BY DEF MakeEntry, Body
<1>12. Binds(e)
  <2>1. OnlyUpsertBinds => e.payload.integrations \subseteq Latest(e.tenant, e.id).payload.integrations
    BY <1>4, <1>8, <1>11 DEF CurrentBody
  <2>2. Latest(e.tenant, e.id) # None
    BY <1>3, <1>4, <1>8
  <2> HIDE DEF e
  <2> QED BY <2>1, <2>2 DEF Binds, Carries
<1> HIDE DEF e
<1> QED BY <1>7, <1>9, <1>10, <1>12 DEF Appends

LEMMA FindByBindingType ==
  ASSUME Typed, NEW t \in Tenant, NEW b \in Binding, FindByBinding(t, b) # None
  PROVE  \E i \in Id : FindByBinding(t, b) = Latest(t, i)
BY DEF FindByBinding, Typed, TypeOK

LEMMA UpsertExistingAppends ==
  ASSUME Typed, NEW call \in UpsertCalls, NEW v \in Value, UpsertExisting(call, v)
  PROVE  \E e : Appends(e)
<1> DEFINE t   == call.tenant
           row == FindByBinding(t, call.binding)
           new == row.version + 1
           body(bs) == [row.payload EXCEPT !.current = v, !.integrations = bs,
                                           !.version = new]
<1>1. row # None
  BY DEF UpsertExisting
<1>2. PICK bs \in NewBindings \cup {row.payload.integrations} :
        AppendEntry(MakeEntry(t, "node", row.id, "upsert", new, body(bs)))
  BY DEF UpsertExisting
<1> DEFINE e == MakeEntry(t, "node", row.id, "upsert", new, body(bs))
<1>3. t \in Tenant /\ call.binding \in Binding
  BY StoreAssumption DEF UpsertCall
<1>4. PICK i \in Id : row = Latest(t, i)
  BY <1>1, <1>3, FindByBindingType
<1>5. /\ row \in Entry /\ row.id = i /\ row.payload \in Body
  BY <1>1, <1>3, <1>4, LatestType
<1>6. row.version \in Nat
  BY <1>5 DEF Entry
<1>7. bs \in SUBSET Binding
  BY <1>2, <1>5, StoreAssumption DEF Body
<1>8. body(bs) \in Body /\ body(bs).version = new /\ body(bs).integrations = bs
  <2>1. new \in Nat
    BY <1>6
  <2>2. row.payload \in Body
    BY <1>5
  <2> HIDE DEF row, new
  <2> QED BY <1>7, <2>1, <2>2 DEF Body
<1>9. Appendable(e)
  BY <1>3, <1>5, <1>8, MakeEntryAppendable DEF Transition, Kind
<1>10. /\ e.tenant = t /\ e.id = i /\ e.kind = "node" /\ e.payload = body(bs)
       /\ e.transition = "upsert" /\ e.version = new
  BY <1>5 DEF MakeEntry
<1>11. Revision(e)
  BY <1>1, <1>4, <1>10 DEF Revision, IsWrite
<1>12. Binds(e)
  <2>1. OnlyUpsertBinds => e.payload.integrations \subseteq row.payload.integrations
    BY <1>2, <1>8, <1>10 DEF OnlyUpsertBinds
  <2>2. Latest(e.tenant, e.id) = row /\ row # None
    BY <1>1, <1>4, <1>10
  <2> HIDE DEF e, row
  <2> QED BY <2>1, <2>2 DEF Binds, Carries
<1>13. AppendEntry(e)
  BY <1>2
<1> HIDE DEF e
<1> QED BY <1>9, <1>11, <1>12, <1>13 DEF Appends

LEMMA CopyAppends ==
  ASSUME Typed, NEW t \in Tenant, NEW i \in Id, NEW k \in Kind,
         NEW tr \in {"delete", "unlink"}, Latest(t, i) # None,
         IF tr = "delete" THEN k = Latest(t, i).kind ELSE k = "edge",
         AppendEntry(MakeEntry(t, k, i, tr, Latest(t, i).version, Latest(t, i).payload))
  PROVE  \E e : Appends(e)
<1> DEFINE row == Latest(t, i)
           e   == MakeEntry(t, k, i, tr, row.version, row.payload)
<1>1. /\ row \in Entry /\ row.payload \in Body
      /\ row.version = row.payload.version
  BY LatestType
<1>2. Appendable(e)
  BY <1>1, MakeEntryAppendable DEF Transition
<1>3. Copy(e)
  BY DEF Copy, MakeEntry, IsWrite
<1>4. Binds(e)
  BY DEF Binds, Carries, MakeEntry
<1>5. AppendEntry(e)
  OBVIOUS
<1> HIDE DEF e
<1> QED BY <1>2, <1>3, <1>4, <1>5 DEF Appends

LEMMA TelemetryAppends ==
  ASSUME Typed, NEW t \in Tenant, NEW i \in Id, EmitTelemetry(t, i)
  PROVE  \E e : Appends(e)
<1> DEFINE row == Latest(t, i)
           k   == IF row = None THEN "node" ELSE row.kind
           v   == IF row = None THEN 0 ELSE row.version
           e   == MakeEntry(t, k, i, "observe_only", v, None)
<1>1. row # None => row \in Entry
  BY LatestType
<1>2. k \in Kind /\ v \in Nat
  BY <1>1 DEF Entry, Kind
<1>3. Appendable(e) /\ ~IsWrite(e)
  BY <1>2 DEF Appendable, MakeEntry, Entry, IsWrite, Transition
<1>4. AppendEntry(e)
  BY DEF EmitTelemetry
<1> HIDE DEF e
<1> QED BY <1>3, <1>4 DEF Appends, Binds

\* Every step reads, spends a read, or appends one entry of the four kinds.
LEMMA StepCases ==
  ASSUME Typed, Next
  PROVE  Reads \/ (SpendsReads /\ \E e : Appends(e))
<1>1. ASSUME NEW c \in Client, NEW t \in Tenant, NEW i \in Id, Get(c, t, i)
      PROVE  Reads
  <2>1. [tenant |-> t, entry |-> Latest(t, i)] \in Seen
    BY <1>1, LatestType DEF Get, Seen
  <2> QED BY <1>1, <2>1 DEF Get, Reads, Typed, TypeOK
<1>2. ASSUME NEW c \in Client, NEW v \in Value, Edit(c, v)
      PROVE  SpendsReads /\ \E e : Appends(e)
  <2>1. /\ seen[c] # None /\ Current(c) /\ Used(c)
    BY <1>2 DEF Edit
  <2>2. CurrentBody(c) \in Body
    BY <2>1, LatestType DEF CurrentBody, Current, Typed, TypeOK, Seen, Entry
  <2>3. PICK bs \in NewBindings \cup {CurrentBody(c).integrations} :
          Revise(c, "edit", [CurrentBody(c) EXCEPT !.current = v, !.integrations = bs])
    BY <1>2 DEF Edit
  <2>4. bs \in SUBSET Binding
    BY <2>2, <2>3, StoreAssumption DEF Body
  <2>5. /\ [CurrentBody(c) EXCEPT !.current = v, !.integrations = bs] \in Body
        /\ [CurrentBody(c) EXCEPT !.current = v, !.integrations = bs].integrations = bs
    <3> HIDE DEF CurrentBody
    <3> QED BY <2>2, <2>4 DEF Body
  <2>6. OnlyUpsertBinds => bs \subseteq CurrentBody(c).integrations
    BY <2>3 DEF OnlyUpsertBinds
  <2> QED BY <2>1, <2>3, <2>5, <2>6, ReviseAppends, UsedSpends
<1>3. ASSUME NEW c \in Client, NEW v \in Value, SetDesired(c, v)
      PROVE  SpendsReads /\ \E e : Appends(e)
  <2>1. /\ seen[c] # None /\ Current(c) /\ Used(c)
        /\ Revise(c, "set_desired", [CurrentBody(c) EXCEPT !.desired = v])
    BY <1>3 DEF SetDesired
  <2>2. CurrentBody(c) \in Body
    BY <2>1, LatestType DEF CurrentBody, Current, Typed, TypeOK, Seen, Entry
  <2>3. /\ [CurrentBody(c) EXCEPT !.desired = v] \in Body
        /\ [CurrentBody(c) EXCEPT !.desired = v].integrations = CurrentBody(c).integrations
    BY <2>2 DEF Body
  <2> QED BY <2>1, <2>3, ReviseAppends, UsedSpends
<1>4. ASSUME NEW c \in Client, Conflict(c) PROVE Reads
  BY <1>4, UsedSpends DEF Conflict, Reads, SpendsReads
<1>5. ASSUME NEW t \in Tenant, NEW i \in Id, VerbStep(t, i)
      PROVE  SpendsReads /\ \E e : Appends(e)
  <2>1. CASE \E k \in Kind, v \in Value, bs \in NewBindings : Create(t, k, i, v, bs)
    BY <2>1, StoreAssumption, CreatableAppends, KeepsReads DEF Create, OnlyUpsertBinds
  <2>2. CASE Link(t, i)
    BY <2>2, CreatableAppends, KeepsReads DEF Link, Kind
  <2>3. CASE Delete(t, i)
    <3>1. Latest(t, i) # None => Latest(t, i).kind \in Kind
      BY LatestType DEF Entry
    <3> QED BY <2>3, <3>1, CopyAppends, KeepsReads DEF Delete
  <2>4. CASE Unlink(t, i)
    BY <2>4, CopyAppends, KeepsReads DEF Unlink, Kind
  <2>5. CASE EmitTelemetry(t, i)
    <3>1. UNCHANGED seen
      BY <2>5 DEF EmitTelemetry
    <3> QED BY <2>5, <3>1, TelemetryAppends, KeepsReads
  <2> QED BY <1>5, <2>1, <2>2, <2>3, <2>4, <2>5 DEF VerbStep
<1>6. ASSUME NEW call \in UpsertCalls, NEW v \in Value, NEW i \in Id,
             UpsertNew(call, i, v)
      PROVE  SpendsReads /\ \E e : Appends(e)
  <2>1. /\ call.owner \in Tenant /\ call.carries \in SUBSET Binding
        /\ "node" \in Kind
    BY StoreAssumption DEF UpsertCall, Kind
  <2>2. OnlyUpsertBinds => \A b \in call.carries : FindByBinding(call.owner, b) = None
    BY <1>6 DEF UpsertNew, OnlyUpsertBinds
  <2> QED BY <1>6, <2>1, <2>2, CreatableAppends, KeepsReads DEF UpsertNew
<1>7. ASSUME NEW call \in UpsertCalls, NEW v \in Value, UpsertExisting(call, v)
      PROVE  SpendsReads /\ \E e : Appends(e)
  <2>1. UNCHANGED seen
    BY <1>7 DEF UpsertExisting
  <2> QED BY <1>7, <2>1, UpsertExistingAppends, KeepsReads
<1> QED BY <1>1, <1>2, <1>3, <1>4, <1>5, <1>6, <1>7 DEF Next, ClientStep, UpsertStep

----------------------------------------------------------------------------
(* Type correctness.                                                       *)

LEMMA InitTyped == Init => Typed
BY DEF Init, Typed, TypeOK, RowsAreWrites

LEMMA StepTyped == Typed /\ [Next]_vars => Typed'
<1> SUFFICES ASSUME Typed, [Next]_vars PROVE Typed'
  OBVIOUS
<1>1. CASE Reads
  <2>1. RowsAreWrites'
    BY <1>1 DEF Reads, Typed, RowsAreWrites, IsWrite, KeyOf
  <2> QED BY <1>1, <2>1 DEF Reads, Typed, TypeOK
<1>2. CASE SpendsReads /\ \E e : Appends(e)
  BY <1>2, AppendTyped DEF SpendsReads, Appends, Typed, TypeOK
<1>3. CASE UNCHANGED vars
  BY <1>3 DEF vars, Typed, TypeOK, RowsAreWrites, IsWrite, KeyOf
<1> QED BY <1>1, <1>2, <1>3, StepCases

\* Every variable keeps its type, for every instance of the store.
THEOREM TypeCorrect == Spec => []TypeOK
<1>1. Typed => TypeOK
  BY DEF Typed
<1> QED BY <1>1, InitTyped, StepTyped, PTL DEF Spec

THEOREM TypedAlways == Spec => []Typed
BY InitTyped, StepTyped, PTL DEF Spec

----------------------------------------------------------------------------
(* The state table is a fold of the log.                                   *)

LEMMA LogGrows ==
  ASSUME Typed, NEW e, Appendable(e), AppendEntry(e)
  PROVE  /\ DOMAIN log' = DOMAIN log \cup {Len(log) + 1}
         /\ Len(log) + 1 \notin DOMAIN log
         /\ \A n \in DOMAIN log : log'[n] = log[n] /\ n < Len(log) + 1
         /\ log'[Len(log) + 1] = Stamp(e)
BY DEF AppendEntry, Typed, TypeOK

LEMMA StampKeeps ==
  ASSUME NEW e, Appendable(e)
  PROVE  /\ IsWrite(Stamp(e)) <=> IsWrite(e)
         /\ KeyOf(Stamp(e)) = KeyOf(e)
         /\ Stamp(e).transition = e.transition
         /\ Stamp(e).version = e.version /\ Stamp(e).payload = e.payload
         /\ Stamp(e).tenant = e.tenant /\ Stamp(e).id = e.id
         /\ Stamp(e).kind = e.kind
BY DEF Appendable, Entry, Stamp, IsWrite, KeyOf

LEMMA FoldStep ==
  ASSUME Typed, StateIsFold, NEW e, Appendable(e), AppendEntry(e)
  PROVE  StateIsFold'
<1> SUFFICES ASSUME NEW k \in Key
             PROVE  (IF state[k] = None
                     THEN \A n \in DOMAIN log : ~(IsWrite(log[n]) /\ KeyOf(log[n]) = k)
                     ELSE \E n \in DOMAIN log :
                            /\ IsLastWrite(n, k)
                            /\ state[k].entry = log[n]
                            /\ state[k].deleted = (log[n].transition = "delete"))'
  BY DEF StateIsFold
<1>1. CASE IsWrite(e) /\ KeyOf(e) = k
  <2>1. state'[k] = [entry |-> Stamp(e), deleted |-> e.transition = "delete"]
    BY <1>1 DEF AppendEntry, Fold, Typed, TypeOK
  <2>2. state'[k] # None
    <3>1. Stamp(e) \in Entry
      BY StampTyped
    <3>2. [entry |-> Stamp(e), deleted |-> e.transition = "delete"] \in Row
      BY <3>1 DEF Row
    <3> QED BY <2>1, <3>2, StoreAssumption
  <2>3. PICK n \in DOMAIN log' : n = Len(log) + 1
    BY LogGrows
  <2>4. log'[n] = Stamp(e)
    BY <2>3, LogGrows
  <2>5. \A m \in DOMAIN log' : ~(m > n)
    BY <2>3 DEF Typed, TypeOK, AppendEntry
  <2>6. IsLastWrite(n, k)'
    BY <1>1, <2>3, <2>4, <2>5, StampKeeps DEF IsLastWrite, IsWrite, KeyOf
  <2> QED BY <2>1, <2>2, <2>3, <2>4, <2>6, StampKeeps
<1>2. CASE ~(IsWrite(e) /\ KeyOf(e) = k)
  <2>1. state'[k] = state[k]
    BY <1>2 DEF AppendEntry, Fold, Typed, TypeOK
  <2>2. ~(IsWrite(log'[Len(log) + 1]) /\ KeyOf(log'[Len(log) + 1]) = k)
    BY <1>2, LogGrows, StampKeeps
  <2>3. CASE state[k] = None
    <3>1. \A n \in DOMAIN log : ~(IsWrite(log[n]) /\ KeyOf(log[n]) = k)
      BY <2>3 DEF StateIsFold
    <3> QED BY <2>1, <2>2, <2>3, <3>1, LogGrows DEF IsWrite, KeyOf
  <2>4. CASE state[k] # None
    <3>1. PICK n \in DOMAIN log :
            /\ IsLastWrite(n, k)
            /\ state[k].entry = log[n]
            /\ state[k].deleted = (log[n].transition = "delete")
      BY <2>4 DEF StateIsFold
    <3>2. IsLastWrite(n, k)'
      BY <2>2, <3>1, LogGrows DEF IsLastWrite, IsWrite, KeyOf
    <3> QED BY <2>1, <2>4, <3>1, <3>2, LogGrows
  <2> QED BY <2>3, <2>4
<1> QED BY <1>1, <1>2

Sound == Typed /\ StateIsFold /\ VersionConsistent

LEMMA VersionStep ==
  ASSUME Typed, VersionConsistent, NEW e, Appendable(e), AppendEntry(e)
  PROVE  VersionConsistent'
BY LogGrows, StampKeeps DEF VersionConsistent, Appendable, IsWrite

LEMMA InitSound == Init => Sound
<1>1. Init => StateIsFold /\ VersionConsistent
  BY DEF Init, StateIsFold, VersionConsistent
<1> QED BY <1>1, InitTyped DEF Sound

LEMMA StepSound == Sound /\ [Next]_vars => Sound'
<1> SUFFICES ASSUME Sound, [Next]_vars PROVE StateIsFold' /\ VersionConsistent'
  BY StepTyped DEF Sound
<1>1. CASE Reads \/ UNCHANGED vars
  <2>1. UNCHANGED <<log, state>>
    BY <1>1 DEF Reads, vars
  <2> QED BY <2>1 DEF Sound, StateIsFold, VersionConsistent, IsLastWrite, IsWrite, KeyOf
<1>2. CASE SpendsReads /\ \E e : Appends(e)
  BY <1>2, FoldStep, VersionStep DEF Appends, Sound
<1> QED BY <1>1, <1>2, StepCases DEF Sound

\* The state table is a fold of the log: _apply keeps each row equal to its
\* key's last write, tombstoned exactly by a delete, whatever the verbs do.
THEOREM StateTableIsFoldOfLog == Spec => []StateIsFold
<1>1. Sound => StateIsFold
  BY DEF Sound
<1> QED BY <1>1, InitSound, StepSound, PTL DEF Spec

\* The version inside each logged entity is its entry's version token.
THEOREM VersionsConsistent == Spec => []VersionConsistent
<1>1. Sound => VersionConsistent
  BY DEF Sound
<1> QED BY <1>1, InitSound, StepSound, PTL DEF Spec

----------------------------------------------------------------------------
(* What an append does to the answer of get.                               *)

LEMMA LatestAfter ==
  ASSUME Typed, NEW e, Appendable(e), AppendEntry(e),
         NEW t \in Tenant, NEW i \in Id
  PROVE  Latest(t, i)' =
           IF /\ IsWrite(e) /\ t = e.tenant /\ i = e.id
              /\ e.kind = "node" \/ state[<<t, "node", i>>] = None
           THEN IF e.transition = "delete" THEN None ELSE Stamp(e)
           ELSE Latest(t, i)
<1> DEFINE new == [entry |-> Stamp(e), deleted |-> e.transition = "delete"]
<1>1. <<t, "node", i>> \in Key /\ <<t, "edge", i>> \in Key
  BY DEF Key, Kind
<1>2. \A k \in Key : state'[k] = IF IsWrite(e) /\ k = KeyOf(e) THEN new ELSE state[k]
  BY DEF AppendEntry, Fold, Typed, TypeOK
<1>3. new # None
  <2>1. Stamp(e) \in Entry
    BY StampTyped
  <2>2. new \in Row
    BY <2>1 DEF Row
  <2> QED BY <2>2, StoreAssumption
<1>4. LiveEntry(new) = IF e.transition = "delete" THEN None ELSE Stamp(e)
  BY DEF LiveEntry
<1>5. e.kind \in {"node", "edge"}
  BY DEF Appendable, Entry, Kind
<1>6. \A k \in Kind : (<<t, k, i>> = KeyOf(e)) <=> (t = e.tenant /\ k = e.kind /\ i = e.id)
  BY DEF KeyOf
<1>7. Latest(t, i)' =
        IF state'[<<t, "node", i>>] # None THEN LiveEntry(state'[<<t, "node", i>>])
        ELSE IF state'[<<t, "edge", i>>] # None THEN LiveEntry(state'[<<t, "edge", i>>])
        ELSE None
  BY DEF Latest, LiveEntry
<1> HIDE DEF new
<1>8. CASE IsWrite(e) /\ t = e.tenant /\ i = e.id /\ e.kind = "node"
  <2>1. state'[<<t, "node", i>>] = new
    BY <1>1, <1>2, <1>6, <1>8 DEF Kind
  <2> QED BY <1>3, <1>4, <1>7, <1>8, <2>1
<1>9. CASE IsWrite(e) /\ t = e.tenant /\ i = e.id /\ e.kind = "edge"
  <2>1. /\ state'[<<t, "edge", i>>] = new
        /\ state'[<<t, "node", i>>] = state[<<t, "node", i>>]
    BY <1>1, <1>2, <1>6, <1>9 DEF Kind
  <2> QED BY <1>3, <1>4, <1>7, <1>9, <2>1 DEF Latest
<1>10. CASE ~(IsWrite(e) /\ t = e.tenant /\ i = e.id)
  <2>1. /\ state'[<<t, "edge", i>>] = state[<<t, "edge", i>>]
        /\ state'[<<t, "node", i>>] = state[<<t, "node", i>>]
    BY <1>1, <1>2, <1>6, <1>10 DEF Kind
  <2> QED BY <1>7, <1>10, <2>1 DEF Latest
<1> QED BY <1>5, <1>8, <1>9, <1>10

LEMMA EdgeHasNoNodeRow ==
  ASSUME Typed, NEW t \in Tenant, NEW i \in Id,
         Latest(t, i) # None, Latest(t, i).kind # "node"
  PROVE  state[<<t, "node", i>>] = None
<1>1. <<t, "node", i>> \in Key
  BY DEF Key, Kind
<1>2. state[<<t, "node", i>>] # None => state[<<t, "node", i>>].entry.kind = "node"
  BY <1>1 DEF Typed, RowsAreWrites, KeyOf
<1> QED BY <1>2 DEF Latest, LiveEntry

LEMMA LatestIsLogged ==
  ASSUME Typed, StateIsFold, NEW t \in Tenant, NEW i \in Id, Latest(t, i) # None
  PROVE  \E n \in DOMAIN log : log[n] = Latest(t, i) /\ IsWrite(log[n])
<1>1. <<t, "node", i>> \in Key /\ <<t, "edge", i>> \in Key
  BY DEF Key, Kind
<1>2. PICK k \in Key : state[k] # None /\ Latest(t, i) = state[k].entry
  BY <1>1 DEF Latest, LiveEntry
<1> QED BY <1>2 DEF StateIsFold, IsLastWrite

LEMMA CreatableHasNoRow ==
  ASSUME Typed, StateIsFold, ~ReuseIds, NEW t \in Tenant, NEW i \in Id, Creatable(t, i)
  PROVE  \A k \in Kind : state[<<t, k, i>>] = None
<1> SUFFICES ASSUME NEW k \in Kind PROVE state[<<t, k, i>>] = None
  OBVIOUS
<1>1. <<t, k, i>> \in Key
  BY DEF Key
<1>2. \A n \in DOMAIN log : KeyOf(log[n]) # <<t, k, i>>
  BY DEF Creatable, KeyOf
<1>3. state[<<t, k, i>>] # None =>
        \E n \in DOMAIN log : IsLastWrite(n, <<t, k, i>>)
  BY <1>1 DEF StateIsFold
<1> QED BY <1>2, <1>3 DEF IsLastWrite

(***************************************************************************)
(* Optimistic concurrency.  The invariant says what makes a version number *)
(* safe to compare: it names one contents per entity, the live row carries *)
(* the greatest one, and what a client holds is an entry of the log.       *)
(***************************************************************************)

\* What the appended entry means for the entity it names.
LEMMA LatestOfWritten ==
  ASSUME Typed, StateIsFold, ~ReuseIds, NEW e, Appends(e), IsWrite(e)
  PROVE  LET row == Latest(e.tenant, e.id)
             now == Latest(e.tenant, e.id)'
         IN  \/ Fresh(e) /\ row = None /\ now = Stamp(e)
             \/ Revision(e) /\ row # None /\ now = Stamp(e)
             \/ Copy(e) /\ row # None /\ e.transition = "delete" /\ now = None
             \/ Copy(e) /\ row # None /\ e.transition # "delete" /\ now \in {row, Stamp(e)}
<1> DEFINE t == e.tenant
           i == e.id
<1>1. t \in Tenant /\ i \in Id /\ e.kind \in Kind /\ Appendable(e) /\ AppendEntry(e)
  BY DEF Appends, Appendable, Entry
<1>2. Latest(t, i)' =
        IF e.kind = "node" \/ state[<<t, "node", i>>] = None
        THEN IF e.transition = "delete" THEN None ELSE Stamp(e)
        ELSE Latest(t, i)
  BY <1>1, LatestAfter
<1>3. CASE Fresh(e)
  <2>1. \A k \in Kind : state[<<t, k, i>>] = None
    BY <1>1, <1>3, CreatableHasNoRow DEF Fresh
  <2>2. Latest(t, i) = None
    BY <2>1 DEF Latest, Kind
  <2> QED BY <1>2, <1>3, <2>1, <2>2 DEF Fresh, Kind
<1>4. CASE Revision(e)
  <2>1. Latest(t, i) # None /\ e.kind \in {Latest(t, i).kind, "node"}
        /\ e.transition # "delete"
    BY <1>4 DEF Revision
  <2>2. e.kind = "node" \/ state[<<t, "node", i>>] = None
    BY <1>1, <2>1, EdgeHasNoNodeRow
  <2> QED BY <1>2, <1>4, <2>1, <2>2
<1>5. CASE Copy(e)
  <2>1. CASE e.transition = "delete"
    <3>1. Latest(t, i) # None /\ e.kind = Latest(t, i).kind
      BY <1>5, <2>1 DEF Copy
    <3>2. e.kind = "node" \/ state[<<t, "node", i>>] = None
      BY <1>1, <3>1, EdgeHasNoNodeRow
    <3> QED BY <1>2, <1>5, <2>1, <3>1, <3>2
  <2>2. CASE e.transition # "delete"
    BY <1>2, <1>5, <2>2 DEF Copy
  <2> QED BY <2>1, <2>2
<1> QED BY <1>3, <1>4, <1>5 DEF Appends

Guarded ==
  /\ Sound
  /\ ReadsAreLogged /\ LiveVersionIsGreatest /\ VersionNamesContents

LEMMA ReadsStep ==
  ASSUME Sound, ReadsAreLogged, [Next]_vars PROVE ReadsAreLogged'
<1> USE DEF Sound
<1> SUFFICES ASSUME NEW c \in Client, seen'[c] # None
             PROVE  \E n \in DOMAIN log' :
                      /\ log'[n] = seen'[c].entry /\ IsWrite(log'[n])
                      /\ log'[n].tenant = seen'[c].tenant
  BY DEF ReadsAreLogged, IsWrite
<1>1. CASE seen'[c] = seen[c] /\ UNCHANGED log
  BY <1>1 DEF ReadsAreLogged
<1>2. CASE Reads
  <2>1. CASE seen'[c] \in {seen[c], None}
    BY <1>1, <1>2, <2>1 DEF Reads
  <2>2. CASE \E t \in Tenant, i \in Id :
               /\ Latest(t, i) # None
               /\ seen'[c] = [tenant |-> t, entry |-> Latest(t, i)]
    <3>1. PICK t \in Tenant, i \in Id :
               /\ Latest(t, i) # None
               /\ seen'[c] = [tenant |-> t, entry |-> Latest(t, i)]
      BY <2>2
    <3>2. Latest(t, i).tenant = t
      BY <3>1, LatestType
    <3> QED BY <1>2, <3>1, <3>2, LatestIsLogged DEF Reads
  <2> QED BY <1>2, <2>1, <2>2 DEF Reads
<1>3. CASE SpendsReads /\ \E e : Appends(e)
  <2>1. seen'[c] = seen[c]
    BY <1>3 DEF SpendsReads
  <2>2. PICK n \in DOMAIN log : /\ log[n] = seen[c].entry /\ IsWrite(log[n])
                               /\ log[n].tenant = seen[c].tenant
    BY <2>1 DEF ReadsAreLogged
  <2>3. n \in DOMAIN log' /\ log'[n] = log[n]
    BY <1>3, LogGrows DEF Appends
  <2> QED BY <2>1, <2>2, <2>3
<1>4. CASE UNCHANGED vars
  BY <1>1, <1>4 DEF vars
<1> QED BY <1>2, <1>3, <1>4, StepCases

\* The version of a written entry against the writes already logged for it.
LEMMA WrittenVersion ==
  ASSUME Sound, LiveVersionIsGreatest, VersionNamesContents, ~ReuseIds,
         NEW e, Appends(e), IsWrite(e),
         NEW n \in DOMAIN log, IsWrite(log[n]),
         log[n].tenant = e.tenant, log[n].id = e.id
  PROVE  /\ log[n].version <= e.version
         /\ log[n].version = e.version => log[n].payload = e.payload
<1> USE DEF Sound
<1>1. e.tenant \in Tenant /\ e.id \in Id /\ e.version \in Nat
  BY DEF Appends, Appendable, Entry
<1>2. log[n].version \in Nat
  <2>1. log[n] \in Entry
    BY DEF Typed, TypeOK
  <2> QED BY <2>1 DEF Entry
<1>3. ~Fresh(e)
  BY DEF Fresh, Creatable
<1>4. Latest(e.tenant, e.id) # None
  BY <1>3 DEF Appends, Revision, Copy
<1>5. log[n].version <= Latest(e.tenant, e.id).version
  BY <1>1, <1>4 DEF LiveVersionIsGreatest
<1>6. Latest(e.tenant, e.id).version \in Nat
  BY <1>1, <1>4, LatestType DEF Entry
<1>7. CASE Revision(e)
  <2>1. e.version = Latest(e.tenant, e.id).version + 1
    BY <1>7 DEF Revision
  <2> QED BY <1>1, <1>2, <1>5, <1>6, <2>1
<1>8. CASE Copy(e)
  <2>1. e.version = Latest(e.tenant, e.id).version /\ e.payload = Latest(e.tenant, e.id).payload
    BY <1>8 DEF Copy
  <2>2. PICK m \in DOMAIN log : log[m] = Latest(e.tenant, e.id) /\ IsWrite(log[m])
    BY <1>1, <1>4, LatestIsLogged
  <2>3. log[m].tenant = e.tenant /\ log[m].id = e.id
    BY <1>1, <1>4, <2>2, LatestType
  <2>4. log[n].version = log[m].version => log[n].payload = log[m].payload
    BY <2>2, <2>3 DEF VersionNamesContents
  <2> QED BY <1>5, <2>1, <2>2, <2>4
<1> QED BY <1>3, <1>7, <1>8 DEF Appends

LEMMA GreatestStep ==
  ASSUME Sound, LiveVersionIsGreatest, VersionNamesContents, ~ReuseIds,
         NEW e, Appends(e)
  PROVE  LiveVersionIsGreatest'
<1> USE DEF Sound
<1> SUFFICES ASSUME NEW t \in Tenant, NEW i \in Id, NEW n \in DOMAIN log',
                    Latest(t, i)' # None, IsWrite(log'[n]),
                    log'[n].tenant = t, log'[n].id = i
             PROVE  log'[n].version <= Latest(t, i)'.version
  BY DEF LiveVersionIsGreatest, IsWrite
<1>1. Appendable(e) /\ AppendEntry(e)
  BY DEF Appends
<1>2. e.version \in Nat
  BY <1>1 DEF Appendable, Entry
<1>3. n \in DOMAIN log \/ log'[n] = Stamp(e)
  BY <1>1, LogGrows
<1>4. CASE IsWrite(e) /\ t = e.tenant /\ i = e.id
  <2>1. \/ Latest(t, i)' = Stamp(e)
        \/ Copy(e) /\ Latest(t, i)' = Latest(t, i)
    BY <1>4, LatestOfWritten
  <2>2. Latest(t, i)'.version = e.version
    BY <1>1, <1>4, <2>1, StampKeeps DEF Copy
  <2>3. CASE n \in DOMAIN log
    <3>1. log'[n] = log[n]
      BY <1>1, <2>3, LogGrows
    <3> QED BY <1>4, <2>2, <2>3, <3>1, WrittenVersion
  <2>4. CASE log'[n] = Stamp(e)
    BY <1>1, <1>2, <2>2, <2>4, StampKeeps
  <2> QED BY <1>3, <2>3, <2>4
<1>5. CASE ~(IsWrite(e) /\ t = e.tenant /\ i = e.id)
  <2>1. Latest(t, i)' = Latest(t, i)
    BY <1>1, <1>5, LatestAfter
  <2>2. n \in DOMAIN log /\ log'[n] = log[n]
    BY <1>1, <1>3, <1>5, LogGrows, StampKeeps
  <2> QED BY <2>1, <2>2 DEF LiveVersionIsGreatest
<1> QED BY <1>4, <1>5

LEMMA ContentsStep ==
  ASSUME Sound, LiveVersionIsGreatest, VersionNamesContents, ~ReuseIds,
         NEW e, Appends(e)
  PROVE  VersionNamesContents'
<1> USE DEF Sound
<1> SUFFICES ASSUME NEW m \in DOMAIN log', NEW n \in DOMAIN log',
                    IsWrite(log'[m]), IsWrite(log'[n]),
                    log'[m].tenant = log'[n].tenant, log'[m].id = log'[n].id,
                    log'[m].version = log'[n].version
             PROVE  log'[m].payload = log'[n].payload
  BY DEF VersionNamesContents, IsWrite
<1>1. Appendable(e) /\ AppendEntry(e)
  BY DEF Appends
<1>2. /\ (m \in DOMAIN log /\ log'[m] = log[m]) \/ log'[m] = Stamp(e)
      /\ (n \in DOMAIN log /\ log'[n] = log[n]) \/ log'[n] = Stamp(e)
  BY <1>1, LogGrows
<1>3. CASE /\ m \in DOMAIN log /\ log'[m] = log[m]
           /\ n \in DOMAIN log /\ log'[n] = log[n]
  BY <1>3 DEF VersionNamesContents
<1>4. CASE m \in DOMAIN log /\ log'[m] = log[m] /\ log'[n] = Stamp(e)
  BY <1>1, <1>4, StampKeeps, WrittenVersion
<1>5. CASE n \in DOMAIN log /\ log'[n] = log[n] /\ log'[m] = Stamp(e)
  BY <1>1, <1>5, StampKeeps, WrittenVersion
<1> QED BY <1>2, <1>3, <1>4, <1>5

LEMMA StepGuarded ==
  ASSUME ~ReuseIds PROVE Guarded /\ [Next]_vars => Guarded'
<1> SUFFICES ASSUME Guarded, [Next]_vars
             PROVE  LiveVersionIsGreatest' /\ VersionNamesContents'
  BY StepSound, ReadsStep DEF Guarded
<1>1. CASE Reads \/ UNCHANGED vars
  <2>1. UNCHANGED <<log, state>>
    BY <1>1 DEF Reads, vars
  <2> QED BY <2>1 DEF Guarded, LiveVersionIsGreatest, VersionNamesContents,
                      Latest, LiveEntry, IsWrite
<1>2. CASE SpendsReads /\ \E e : Appends(e)
  BY <1>2, GreatestStep, ContentsStep DEF Guarded
<1> QED BY <1>1, <1>2, StepCases DEF Guarded, Sound

LEMMA InitGuarded == Init => Guarded
BY InitSound DEF Init, Guarded, ReadsAreLogged, LiveVersionIsGreatest, VersionNamesContents

LEMMA GuardedNoLostUpdate == Guarded => NoLostUpdate
<1> SUFFICES ASSUME Guarded, NEW c \in Client, seen[c] # None, Current(c)
             PROVE  CurrentBody(c) = seen[c].entry.payload
  BY DEF NoLostUpdate
<1> DEFINE t   == seen[c].tenant
           i   == seen[c].entry.id
<1>1. t \in Tenant /\ i \in Id
  BY DEF Guarded, Sound, Typed, TypeOK, Seen, Entry
<1>2. Latest(t, i) # None /\ Latest(t, i).version = seen[c].entry.version
  BY DEF Current
<1>3. PICK m \in DOMAIN log : log[m] = seen[c].entry /\ IsWrite(log[m]) /\ log[m].tenant = t
  BY DEF Guarded, ReadsAreLogged
<1>4. PICK n \in DOMAIN log : log[n] = Latest(t, i) /\ IsWrite(log[n])
  BY <1>1, <1>2, LatestIsLogged DEF Guarded, Sound
<1>5. log[n].tenant = t /\ log[n].id = i
  BY <1>1, <1>2, <1>4, LatestType DEF Guarded, Sound
<1>6. log[m].payload = log[n].payload
  BY <1>2, <1>3, <1>4, <1>5 DEF Guarded, VersionNamesContents
<1> QED BY <1>3, <1>4, <1>6 DEF CurrentBody

\* Two writes of an entity under one version carry the same contents, as long
\* as callers mint fresh ids.
THEOREM VersionsNameContents == ASSUME ~ReuseIds PROVE Spec => []VersionNamesContents
<1>1. Guarded => VersionNamesContents
  BY DEF Guarded
<1>2. Guarded /\ [Next]_vars => Guarded'
  BY StepGuarded
<1> QED BY <1>1, <1>2, InitGuarded, PTL DEF Spec

\* An edit that passes the version check overwrites only what its client read,
\* as long as callers mint fresh ids.
THEOREM EditsLoseNothing == ASSUME ~ReuseIds PROVE Spec => []NoLostUpdate
<1>1. Guarded /\ [Next]_vars => Guarded'
  BY StepGuarded
<1> QED BY <1>1, InitGuarded, GuardedNoLostUpdate, PTL DEF Spec

----------------------------------------------------------------------------
(* The verbs implement EntityMap.                                          *)

LEMMA VisibleAt ==
  ASSUME NEW t \in Tenant, NEW i \in Id
  PROVE  /\ <<t, i>> \in Promised!Name
         /\ VisibleEntity[<<t, i>>] =
              IF Latest(t, i) = None THEN None ELSE Latest(t, i).payload
BY DEF VisibleEntity, Promised!Name

LEMMA SameAnswers ==
  ASSUME \A t \in Tenant, i \in Id : Latest(t, i)' = Latest(t, i),
         UNCHANGED state
  PROVE  UNCHANGED Promised!vars
<1>1. VisibleEntity' = VisibleEntity
  BY DEF VisibleEntity
<1>2. RemovedEntities' = RemovedEntities
  BY DEF RemovedEntities
<1> QED BY <1>1, <1>2 DEF Promised!vars

LEMMA WriteImplements ==
  ASSUME Sound, ~ReuseIds, NEW e, Appends(e), IsWrite(e)
  PROVE  Promised!Next \/ UNCHANGED Promised!vars
<1> DEFINE t   == e.tenant
           i   == e.id
           n   == <<t, i>>
           row == Latest(t, i)
           now == Latest(t, i)'
<1> USE DEF Sound
<1>1. /\ t \in Tenant /\ i \in Id /\ e.kind \in Kind
      /\ Appendable(e) /\ AppendEntry(e)
  BY DEF Appends, Appendable, Entry
<1>2. n \in Promised!Name
  BY <1>1, VisibleAt
<1>3. \A u \in Tenant, j \in Id : <<u, j>> # n => Latest(u, j)' = Latest(u, j)
  BY <1>1, LatestAfter
<1>4. \A u \in Tenant, j \in Id, k \in Kind :
        <<u, j>> # n => state'[<<u, k, j>>] = state[<<u, k, j>>]
  BY <1>1 DEF AppendEntry, Fold, Typed, TypeOK, Key, KeyOf
<1>5. Promised!Only(n)
  BY <1>3 DEF Promised!Only, Promised!Name, VisibleEntity
<1>6. \A m \in Promised!Name \ {n} : m \in RemovedEntities' <=> m \in RemovedEntities
  BY <1>3, <1>4 DEF RemovedEntities, Promised!Name
<1>7. /\ VisibleEntity[n] = IF row = None THEN None ELSE row.payload
      /\ VisibleEntity'[n] = IF now = None THEN None ELSE now.payload
  BY <1>1 DEF VisibleEntity
<1>8. row # None => n \notin RemovedEntities
  BY <1>1 DEF RemovedEntities
<1>9. now # None => n \notin RemovedEntities'
  BY <1>1 DEF RemovedEntities
<1>10. RemovedEntities \subseteq Promised!Name /\ RemovedEntities' \subseteq Promised!Name
  BY DEF RemovedEntities, Promised!Name
<1>11. row # None => row.payload \in Body /\ row.payload.version = row.version
  BY <1>1, LatestType
<1>12. Stamp(e) # None /\ Stamp(e).payload = e.payload /\ e.payload # None
       /\ e.payload.version = e.version
  <2>1. Stamp(e) \in Entry
    BY <1>1, StampTyped
  <2> QED BY <1>1, <2>1, StampKeeps, StoreAssumption DEF Appendable
<1>13. None \notin Body
  BY StoreAssumption
<1>14. CASE Fresh(e) /\ row = None /\ now = Stamp(e)
  <2>1. \A k \in Kind : state[<<t, k, i>>] = None
    BY <1>1, <1>14, CreatableHasNoRow DEF Fresh
  <2>2. n \notin RemovedEntities
    BY <2>1 DEF RemovedEntities
  <2>3. RemovedEntities' = RemovedEntities
    BY <1>6, <1>9, <1>10, <1>12, <1>14, <2>2
  <2>4. Promised!Appear(n)
    BY <1>5, <1>7, <1>12, <1>14, <2>2, <2>3 DEF Promised!Appear, Fresh
  <2> QED BY <1>2, <2>4 DEF Promised!Next
<1>15. CASE Revision(e) /\ row # None /\ now = Stamp(e)
  <2>1. RemovedEntities' = RemovedEntities
    BY <1>6, <1>8, <1>9, <1>10, <1>12, <1>15
  <2>2. e.version = row.version + 1
    BY <1>15 DEF Revision
  <2>3. Promised!Revise(n)
    BY <1>5, <1>7, <1>11, <1>12, <1>13, <1>15, <2>1, <2>2 DEF Promised!Revise
  <2> QED BY <1>2, <2>3 DEF Promised!Next
<1>16. CASE row # None /\ e.transition = "delete" /\ now = None
  <2>1. \E k \in Kind : state'[<<t, k, i>>] # None
    <3>1. KeyOf(e) = <<t, e.kind, i>> /\ KeyOf(e) \in Key
      BY <1>1 DEF KeyOf, Key
    <3>2. state'[KeyOf(e)] = [entry |-> Stamp(e), deleted |-> e.transition = "delete"]
      BY <1>1, <3>1 DEF AppendEntry, Fold, Typed, TypeOK
    <3>3. [entry |-> Stamp(e), deleted |-> e.transition = "delete"] \in Row
      <4>1. Stamp(e) \in Entry
        BY <1>1 DEF Stamp, Appendable, Entry, Typed, TypeOK
      <4> QED BY <4>1 DEF Row
    <3> QED BY <1>1, <3>1, <3>2, <3>3, StoreAssumption
  <2>2. n \in RemovedEntities'
    BY <1>1, <1>16, <2>1 DEF RemovedEntities
  <2>3. RemovedEntities' = RemovedEntities \cup {n}
    BY <1>6, <1>10, <2>2
  <2>4. Promised!Remove(n)
    BY <1>5, <1>7, <1>11, <1>13, <1>16, <2>3 DEF Promised!Remove
  <2> QED BY <1>2, <2>4 DEF Promised!Next
<1>17. CASE Copy(e) /\ row # None /\ now \in {row, Stamp(e)}
  <2>1. RemovedEntities' = RemovedEntities
    BY <1>6, <1>8, <1>9, <1>10, <1>12, <1>17
  <2>2. now # None /\ now.payload = row.payload
    BY <1>12, <1>17 DEF Copy
  <2>3. VisibleEntity'[n] = VisibleEntity[n]
    BY <1>7, <1>17, <2>2
  <2>4. VisibleEntity' = VisibleEntity
    BY <1>3, <2>3 DEF VisibleEntity
  <2> QED BY <2>1, <2>4 DEF Promised!vars
<1> QED BY <1>14, <1>15, <1>16, <1>17, LatestOfWritten

\* Through every interleaving of the verbs get answers as EntityMap promises:
\* an entity appears at version 1, is revised one version at a time, and never
\* returns once deleted, as long as callers mint fresh ids.
THEOREM StoreImplementsEntityMap == ASSUME ~ReuseIds PROVE Spec => ImplementsEntityMap
<1>1. Init => Promised!Init
  <2> SUFFICES ASSUME Init PROVE Promised!Init
    OBVIOUS
  <2>1. \A t \in Tenant, i \in Id, k \in Kind : state[<<t, k, i>>] = None
    BY DEF Init, Key
  <2>2. \A t \in Tenant, i \in Id : Latest(t, i) = None
    BY <2>1 DEF Latest, Kind
  <2> QED BY <2>1, <2>2 DEF Promised!Init, Promised!Name, VisibleEntity, RemovedEntities
<1>2. Guarded /\ [Next]_vars => [Promised!Next]_(Promised!vars)
  <2> SUFFICES ASSUME Guarded, [Next]_vars
               PROVE  Promised!Next \/ UNCHANGED Promised!vars
    OBVIOUS
  <2>1. CASE Reads \/ UNCHANGED vars
    <3>1. UNCHANGED state
      BY <2>1 DEF Reads, vars
    <3> QED BY <3>1, SameAnswers DEF Latest, LiveEntry
  <2>2. CASE \E e : Appends(e)
    <3>1. PICK e : Appends(e)
      BY <2>2
    <3>2. CASE IsWrite(e)
      BY <3>1, <3>2, WriteImplements DEF Guarded
    <3>3. CASE ~IsWrite(e)
      <4>1. UNCHANGED state
        BY <3>1, <3>3 DEF Appends, AppendEntry, Fold
      <4> QED BY <4>1, SameAnswers DEF Latest, LiveEntry
    <3> QED BY <3>2, <3>3
  <2> QED BY <2>1, <2>2, StepCases DEF Guarded, Sound
<1>3. Guarded /\ [Next]_vars => Guarded'
  BY StepGuarded
<1> QED BY <1>1, <1>2, <1>3, InitGuarded, PTL DEF Spec, ImplementsEntityMap, Promised!Spec

(***************************************************************************)
(* The binding index.  It is never cleaned, but it is written with every   *)
(* entry that carries the binding: it names the holder, if there is one.   *)
(***************************************************************************)
Indexed(t, b) == \A i \in Id : Carries(t, i, b) => bindings[<<t, b>>] = i

BindInv == Typed /\ \A t \in Tenant, b \in Binding : Indexed(t, b)

\* Nobody carries what an appended entry carries but its own entity.
LEMMA NoOtherCarrier ==
  ASSUME BindInv, OnlyUpsertBinds, NEW e, Appends(e), IsWrite(e),
         NEW b \in Binding, b \in e.payload.integrations,
         NEW i \in Id, Carries(e.tenant, i, b)
  PROVE  i = e.id
<1>1. e.tenant \in Tenant /\ e.id \in Id
  BY DEF Appends, Appendable, Entry
<1>2. bindings[<<e.tenant, b>>] = i
  BY <1>1 DEF BindInv, Indexed
<1>3. CASE Carries(e.tenant, e.id, b)
  BY <1>1, <1>2, <1>3 DEF BindInv, Indexed
<1>4. CASE FindByBinding(e.tenant, b) = None
  BY <1>2, <1>4, StoreAssumption DEF FindByBinding, Carries
<1> QED BY <1>3, <1>4 DEF Appends, Binds

LEMMA IndexedStep ==
  ASSUME BindInv, OnlyUpsertBinds, NEW e, Appends(e),
         NEW t \in Tenant, NEW b \in Binding
  PROVE  Indexed(t, b)'
<1> SUFFICES ASSUME NEW i \in Id, Carries(t, i, b)' PROVE bindings'[<<t, b>>] = i
  BY DEF Indexed
<1>1. Typed /\ Appendable(e) /\ AppendEntry(e) /\ e \in Entry
  BY DEF BindInv, Appends, Appendable
<1>2. bindings'[<<t, b>>] =
        IF IsWrite(e) /\ t = e.tenant /\ b \in e.payload.integrations
        THEN e.id ELSE bindings[<<t, b>>]
  BY <1>1 DEF AppendEntry, RegisterBindings
<1>3. Latest(t, i)' # None /\ b \in Latest(t, i)'.payload.integrations
  BY DEF Carries
<1>4. CASE Latest(t, i)' = Latest(t, i)
  <2>1. Carries(t, i, b)
    BY <1>3, <1>4 DEF Carries
  <2>2. bindings[<<t, b>>] = i
    BY <2>1 DEF BindInv, Indexed
  <2> QED BY <1>2, <2>1, <2>2, NoOtherCarrier
<1>5. CASE Latest(t, i)' # Latest(t, i)
  <2>1. IsWrite(e) /\ t = e.tenant /\ i = e.id /\ Latest(t, i)' = Stamp(e)
    BY <1>1, <1>3, <1>5, LatestAfter
  <2>2. Stamp(e).payload = e.payload
    BY <1>1 DEF Stamp, Entry
  <2> QED BY <1>2, <1>3, <2>1, <2>2
<1> QED BY <1>4, <1>5

LEMMA BindStep == BindInv /\ OnlyUpsertBinds /\ [Next]_vars => BindInv'
<1> SUFFICES ASSUME BindInv, OnlyUpsertBinds, [Next]_vars PROVE BindInv'
  OBVIOUS
<1>1. Typed'
  BY StepTyped DEF BindInv
<1>2. CASE UNCHANGED <<state, bindings>>
  BY <1>1, <1>2 DEF BindInv, Indexed, Carries, Latest, LiveEntry
<1>3. CASE \E e : Appends(e)
  BY <1>1, <1>3, IndexedStep DEF BindInv
<1> QED BY <1>2, <1>3, StepCases DEF BindInv, Reads, vars

\* As long as an entity gets a binding only by being upserted under it, in its own
\* tenant (OnlyUpsertBinds; the runtime checks neither), no two live entities share
\* one and the index leads to its holder, so the next upsert revises that entity:
\* whatever else is upserted without bindings, edited, deleted, unlinked or created,
\* under new ids or used ones.
THEOREM BindingsIdentify == ASSUME OnlyUpsertBinds PROVE Spec => []BindingIdentifiesOne
<1>1. Init => BindInv
  BY InitTyped DEF Init, BindInv, Indexed, Carries, Latest, Key, Kind
<1>2. BindInv /\ [Next]_vars => BindInv'
  BY BindStep
<1>3. BindInv => BindingIdentifiesOne
  BY DEF BindInv, Indexed, Carries, BindingIdentifiesOne, Holders
<1> QED BY <1>1, <1>2, <1>3, PTL DEF Spec
=============================================================================
