------------------------------- MODULE Store -------------------------------
(***************************************************************************)
(* The write verbs of vella-runtime's Runtime over its in-memory Store: an *)
(* append-only log of LogEntry records, the state table the adapter folds  *)
(* from it, and the binding index behind upsert.                           *)
(*                                                                         *)
(* Every verb runs inside Store.transaction(), which holds one lock from   *)
(* the read to the append, so a verb is one atomic action here.  What      *)
(* interleaves is the clients: each reads a row with get, keeps it, and    *)
(* later edits with the version it saw as expected_version.                *)
(***************************************************************************)
EXTENDS Naturals, Sequences, FiniteSets

CONSTANTS
  Tenant,        \* tenant_id values
  Id,            \* entity ids (UUIDs) callers use
  Binding,       \* (plugin, external_id) pairs
  Value,         \* the contents an Actuator's current or desired can have
  Client,        \* concurrent callers of the Runtime
  NewBindings,   \* sets of bindings that create, edit and upsert's updates may put on one
  UpsertCalls,   \* what callers hand to upsert, see UpsertCall
  ReuseIds,      \* may a caller create an entity under an id already logged?
  MaxLog,        \* bound: entries the log may hold
  Pending,       \* the cursor of an entry the store has not stamped
  None           \* absent row, entry, payload, value, id or read

Kind == {"node", "edge"}
Transition == {"create", "edit", "set_desired", "upsert", "delete", "link",
               "unlink", "observe_only"}

\* A node or edge.  current = None is an entity without an Actuator state.
Body == [version : Nat, current : Value \cup {None},
         desired : Value \cup {None}, integrations : SUBSET Binding]

Entry == [cursor : Nat \cup {Pending}, tenant : Tenant, kind : Kind, id : Id,
          version : Nat, transition : Transition, payload : Body \cup {None}]

Row == [entry : Entry, deleted : BOOLEAN]

Key == Tenant \X Kind \X Id

Seen == [tenant : Tenant, entry : Entry]

\* upsert looks a binding of a tenant up and, when nothing has it, appends the
\* entity the caller supplies: of a tenant and with bindings of its own.
UpsertCall == [tenant : Tenant, binding : Binding,
               owner : Tenant, carries : SUBSET Binding]

ASSUME StoreAssumption ==
  /\ MaxLog \in Nat
  /\ UpsertCalls \subseteq UpsertCall
  /\ ReuseIds \in BOOLEAN
  /\ NewBindings \subseteq SUBSET Binding
  /\ None \notin Id \cup Value
  /\ None \notin Body /\ None \notin Entry
  /\ None \notin Row /\ None \notin Seen
  /\ Pending \notin Nat

VARIABLES
  log,       \* _Index.log
  state,     \* _Index.state: the latest row of each (tenant, kind, id)
  bindings,  \* _Index.bindings: the entity last written with a binding
  seen       \* what each client last read and has not used yet

vars == <<log, state, bindings, seen>>

----------------------------------------------------------------------------
(* Reads.                                                                  *)

KeyOf(e) == <<e.tenant, e.kind, e.id>>

IsWrite(e) == e.transition # "observe_only"

LiveEntry(r) == IF r.deleted THEN None ELSE r.entry

\* get: the node row decides when there is one, even when it is deleted.
Latest(t, i) ==
  IF state[<<t, "node", i>>] # None THEN LiveEntry(state[<<t, "node", i>>])
  ELSE IF state[<<t, "edge", i>>] # None THEN LiveEntry(state[<<t, "edge", i>>])
  ELSE None

\* Bugs for the mutation runs: a lookup that forgets the tombstone, ...
FindTombstoned(t, b) ==
  IF bindings[<<t, b>>] = None THEN None
  ELSE state[<<t, "node", bindings[<<t, b>>]>>].entry

FindByBinding(t, b) ==
  IF bindings[<<t, b>>] = None THEN None ELSE Latest(t, bindings[<<t, b>>])

\* Ids are minted by core (uuid7), so callers do not meet a used one unless
\* they construct an entity under a chosen id: create does not look.
Creatable(t, i) ==
  ReuseIds \/ \A n \in DOMAIN log : ~(log[n].tenant = t /\ log[n].id = i)

----------------------------------------------------------------------------
(* The append every verb ends with.                                        *)

MakeEntry(t, k, i, tr, v, body) ==
  [cursor |-> Pending, tenant |-> t, kind |-> k, id |-> i, version |-> v,
   transition |-> tr, payload |-> body]

Stamp(e) == [e EXCEPT !.cursor = Len(log)]

\* ... telemetry folded into the state table, ...
FoldTelemetry(e) ==
  [state EXCEPT ![KeyOf(e)] = [entry |-> Stamp(e), deleted |-> FALSE]]

Fold(e) ==
  IF IsWrite(e)
  THEN [state EXCEPT ![KeyOf(e)] =
          [entry |-> Stamp(e), deleted |-> e.transition = "delete"]]
  ELSE state

\* ... bindings indexed only on create, ...
RegisterOnCreate(e) ==
  [tb \in Tenant \X Binding |->
     IF e.transition = "create" /\ tb[1] = e.tenant /\ tb[2] \in e.payload.integrations
     THEN e.id ELSE bindings[tb]]

RegisterBindings(e) ==
  [tb \in Tenant \X Binding |->
     IF IsWrite(e) /\ tb[1] = e.tenant /\ tb[2] \in e.payload.integrations
     THEN e.id ELSE bindings[tb]]

AppendEntry(e) ==
  /\ Len(log) < MaxLog
  /\ log' = Append(log, Stamp(e))
  /\ state' = Fold(e)
  /\ bindings' = RegisterBindings(e)

----------------------------------------------------------------------------
(* The verbs.                                                              *)

\* An entity as a caller constructs it: at version 1, core's default.
NewBody(v, bs) ==
  [version |-> 1, current |-> v, desired |-> None, integrations |-> bs]

Create(t, k, i, v, bs) ==
  /\ Creatable(t, i)
  /\ AppendEntry(MakeEntry(t, k, i, "create", 1, NewBody(v, bs)))
  /\ UNCHANGED seen

Link(t, i) ==
  /\ Creatable(t, i)
  /\ AppendEntry(MakeEntry(t, "edge", i, "link", 1, NewBody(None, {})))
  /\ UNCHANGED seen

Get(c, t, i) ==
  /\ seen[c] = None
  /\ Latest(t, i) # None
  /\ seen' = [seen EXCEPT ![c] = [tenant |-> t, entry |-> Latest(t, i)]]
  /\ UNCHANGED <<log, state, bindings>>

Used(c) == seen' = [seen EXCEPT ![c] = None]

\* ... and an expected_version that is never compared.
CurrentUnchecked(c) ==
  Latest(seen[c].tenant, seen[c].entry.id) # None

\* The check _append makes against expected_version, and edit's absent row.
Current(c) ==
  LET row == Latest(seen[c].tenant, seen[c].entry.id)
  IN  row # None /\ row.version = seen[c].entry.version

\* edit and set_desired: revise the current row and stamp expected + 1.
Revise(c, tr, body) ==
  LET t   == seen[c].tenant
      row == Latest(t, seen[c].entry.id)
      new == seen[c].entry.version + 1
  IN  AppendEntry(MakeEntry(t, row.kind, row.id, tr, new,
                            [body EXCEPT !.version = new]))

CurrentBody(c) == Latest(seen[c].tenant, seen[c].entry.id).payload

\* An edit replaces the current value and may replace the integrations.
Edit(c, v) ==
  /\ seen[c] # None
  /\ Current(c)
  /\ \E bs \in NewBindings \cup {CurrentBody(c).integrations} :
       Revise(c, "edit", [CurrentBody(c) EXCEPT !.current = v, !.integrations = bs])
  /\ Used(c)

SetDesired(c, v) ==
  /\ seen[c] # None
  /\ Current(c)
  /\ CurrentBody(c).current # None
  /\ Revise(c, "set_desired", [CurrentBody(c) EXCEPT !.desired = v])
  /\ Used(c)

\* ConcurrencyConflict: nothing is written and the read is spent.
Conflict(c) ==
  /\ seen[c] # None
  /\ ~Current(c)
  /\ Used(c)
  /\ UNCHANGED <<log, state, bindings>>

\* The supplied entity is appended as it is: nothing checks that it belongs to the
\* tenant, or carries the binding, it was looked up under.
UpsertNew(call, i, v) ==
  /\ FindByBinding(call.tenant, call.binding) = None
  /\ Creatable(call.owner, i)
  /\ AppendEntry(MakeEntry(call.owner, "node", i, "upsert", 1, NewBody(v, call.carries)))
  /\ UNCHANGED seen

\* The entity found is revised by the updates, which may replace the integrations.
UpsertExisting(call, v) ==
  LET row == FindByBinding(call.tenant, call.binding)
      new == row.version + 1
  IN  /\ row # None
      /\ \E bs \in NewBindings \cup {row.payload.integrations} :
           AppendEntry(MakeEntry(call.tenant, "node", row.id, "upsert", new,
             [row.payload EXCEPT !.current = v, !.integrations = bs, !.version = new]))
      /\ UNCHANGED seen

\* delete and unlink copy the last row's version and payload.
Delete(t, i) ==
  LET row == Latest(t, i)
  IN  /\ row # None
      /\ AppendEntry(MakeEntry(t, row.kind, i, "delete", row.version, row.payload))
      /\ UNCHANGED seen

Unlink(t, i) ==
  LET row == Latest(t, i)
  IN  /\ row # None
      /\ AppendEntry(MakeEntry(t, "edge", i, "unlink", row.version, row.payload))
      /\ UNCHANGED seen

EmitTelemetry(t, i) ==
  LET row == Latest(t, i)
      k   == IF row = None THEN "node" ELSE row.kind
      v   == IF row = None THEN 0 ELSE row.version
  IN  /\ AppendEntry(MakeEntry(t, k, i, "observe_only", v, None))
      /\ UNCHANGED seen

----------------------------------------------------------------------------
Init ==
  /\ log = << >>
  /\ state = [k \in Key |-> None]
  /\ bindings = [tb \in Tenant \X Binding |-> None]
  /\ seen = [c \in Client |-> None]

ClientStep(c) ==
  \/ \E t \in Tenant, i \in Id : Get(c, t, i)
  \/ \E v \in Value : Edit(c, v)
  \/ \E v \in Value : SetDesired(c, v)
  \/ Conflict(c)

VerbStep(t, i) ==
  \/ \E k \in Kind, v \in Value, bs \in NewBindings : Create(t, k, i, v, bs)
  \/ Link(t, i)
  \/ Delete(t, i)
  \/ Unlink(t, i)
  \/ EmitTelemetry(t, i)

UpsertStep(call, v) ==
  \/ \E i \in Id : UpsertNew(call, i, v)
  \/ UpsertExisting(call, v)

Next ==
  \/ \E c \in Client : ClientStep(c)
  \/ \E t \in Tenant, i \in Id : VerbStep(t, i)
  \/ \E call \in UpsertCalls, v \in Value : UpsertStep(call, v)

Spec == Init /\ [][Next]_vars

----------------------------------------------------------------------------
(* Properties.                                                             *)

\* Every variable has its type; rows carry the key they are stored under.
TypeOK ==
  /\ log \in Seq(Entry)
  /\ state \in [Key -> Row \cup {None}]
  /\ bindings \in [Tenant \X Binding -> Id \cup {None}]
  /\ seen \in [Client -> Seen \cup {None}]

\* A row is a write stored under its own key, carrying the entity at the
\* entry's version; a client's read is such an entry of the log.
RowsAreWrites ==
  \A k \in Key : state[k] # None =>
    /\ IsWrite(state[k].entry)
    /\ KeyOf(state[k].entry) = k
    /\ state[k].entry.payload # None
    /\ state[k].entry.version = state[k].entry.payload.version

ReadsAreLogged ==
  \A c \in Client : seen[c] # None =>
    \E n \in DOMAIN log :
      /\ log[n] = seen[c].entry /\ IsWrite(log[n])
      /\ log[n].tenant = seen[c].tenant

\* n is the position of the last write of key k in the log.
IsLastWrite(n, k) ==
  /\ n \in DOMAIN log /\ IsWrite(log[n]) /\ KeyOf(log[n]) = k
  /\ \A m \in DOMAIN log : m > n => ~(IsWrite(log[m]) /\ KeyOf(log[m]) = k)

\* "The log is the source of truth, the state table a fold of it": each row is
\* the last write of its key, deleted exactly when that write is a delete, and
\* a key without a row was never written.  Telemetry never shows.
StateIsFold ==
  \A k \in Key :
    IF state[k] = None
    THEN \A n \in DOMAIN log : ~(IsWrite(log[n]) /\ KeyOf(log[n]) = k)
    ELSE \E n \in DOMAIN log :
           /\ IsLastWrite(n, k)
           /\ state[k].entry = log[n]
           /\ state[k].deleted = (log[n].transition = "delete")

\* Version consistency: an entry's token and the version inside the entity it
\* carries agree after every write, so a replay rebuilds the stored versions.
VersionConsistent ==
  \A n \in DOMAIN log : IsWrite(log[n]) =>
    /\ log[n].payload # None
    /\ log[n].version = log[n].payload.version

\* Optimistic concurrency is sound: when a client's read still has the current
\* version, the row it read is still the current contents, so an edit that
\* passes the version check overwrites nothing its author has not seen.
NoLostUpdate ==
  \A c \in Client : seen[c] # None /\ Current(c) =>
    CurrentBody(c) = seen[c].entry.payload

\* A version number names one contents: two writes of one entity that carry the
\* same version carry the same payload.
VersionNamesContents ==
  \A m, n \in DOMAIN log :
    /\ IsWrite(log[m]) /\ IsWrite(log[n])
    /\ log[m].tenant = log[n].tenant /\ log[m].id = log[n].id
    /\ log[m].version = log[n].version
    => log[m].payload = log[n].payload

\* A live entity carries the greatest version its log ever gave it.
LiveVersionIsGreatest ==
  \A t \in Tenant, i \in Id, n \in DOMAIN log :
    /\ Latest(t, i) # None
    /\ IsWrite(log[n]) /\ log[n].tenant = t /\ log[n].id = i
    => log[n].version <= Latest(t, i).version

Holders(t, b) ==
  {i \in Id : Latest(t, i) # None /\ b \in Latest(t, i).payload.integrations}

\* What callers must do for upsert to be idempotent: an entity gets a binding only
\* by being upserted under it, in its own tenant.
OnlyUpsertBinds ==
  /\ NewBindings \subseteq {{}}
  /\ \A call \in UpsertCalls : call.carries # {} =>
       call.carries = {call.binding} /\ call.owner = call.tenant

\* Under OnlyUpsertBinds, however upserts, edits and deletes interleave, at most one
\* live entity of a tenant carries a binding, and the index leads to it: an upsert
\* finds it and revises it.  Without that assumption a second carrier is appended.
BindingIdentifiesOne ==
  \A t \in Tenant, b \in Binding :
    Holders(t, b) # {} => Holders(t, b) = {bindings[<<t, b>>]}

\* The verbs implement EntityMap: what get answers, as a map from entity to
\* version and contents, with the entities whose last write was a delete.
VisibleEntity ==
  [n \in Tenant \X Id |->
     IF Latest(n[1], n[2]) = None THEN None ELSE Latest(n[1], n[2]).payload]

RemovedEntities ==
  {n \in Tenant \X Id : /\ Latest(n[1], n[2]) = None
                        /\ \E k \in Kind : state[<<n[1], k, n[2]>>] # None}

Promised == INSTANCE EntityMap WITH entity <- VisibleEntity, gone <- RemovedEntities

ImplementsEntityMap == Promised!Spec

\* What unlink's documentation and the fold-invariant test say: an unlinked edge
\* is tombstoned, so a later get returns None.
UnlinkTombstones ==
  \A t \in Tenant, i \in Id : Latest(t, i) # None =>
    Latest(t, i).transition # "unlink"
=============================================================================
