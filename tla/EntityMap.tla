----------------------------- MODULE EntityMap -----------------------------
(***************************************************************************)
(* What Runtime.get promises across all the verbs, with no log, rows or    *)
(* kinds: an entity appears at version 1, each revision raises its version *)
(* by one, and once removed it never comes back.                           *)
(***************************************************************************)
EXTENDS Naturals

CONSTANTS Tenant, Id, None

VARIABLES
  entity,   \* what get answers: None, or a record with a version
  gone      \* the entities that have been removed

vars == <<entity, gone>>

Name == Tenant \X Id

\* Only the entity n changes.
Only(n) == \A m \in Name \ {n} : entity'[m] = entity[m]

Init ==
  /\ entity = [n \in Name |-> None]
  /\ gone = {}

Appear(n) ==
  /\ entity[n] = None /\ n \notin gone
  /\ Only(n)
  /\ entity'[n] # None /\ entity'[n].version = 1
  /\ UNCHANGED gone

Revise(n) ==
  /\ entity[n] # None
  /\ Only(n)
  /\ entity'[n] # None /\ entity'[n].version = entity[n].version + 1
  /\ UNCHANGED gone

Remove(n) ==
  /\ entity[n] # None
  /\ Only(n)
  /\ entity'[n] = None
  /\ gone' = gone \cup {n}

Next == \E n \in Name : Appear(n) \/ Revise(n) \/ Remove(n)

Spec == Init /\ [][Next]_vars
=============================================================================
