------------------------------ MODULE MCStore ------------------------------
(* Small instances of Store for TLC. *)
EXTENDS Store, TLC

CONSTANTS a, b, b1, b2, v1, v2, c1, c2, i1, i2

Perms == Permutations({a, b}) \cup Permutations({v1, v2}) \cup Permutations({c1, c2})
           \cup Permutations({i1, i2}) \cup Permutations({b1, b2})
NoBindings == {{}}
\* Every call OnlyUpsertBinds allows: an entity without bindings may be anybody's.
OwnCalls == {call \in UpsertCall :
  call.carries # {} => call.carries = {call.binding} /\ call.owner = call.tenant}
=============================================================================
