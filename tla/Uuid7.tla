------------------------------- MODULE Uuid7 -------------------------------
(***************************************************************************)
(* uuid7 (_uuid7.py): the ids of every entity, ordered by a millisecond    *)
(* and a counter.  Threads share two module globals under a lock; the      *)
(* clock is read under it, the value is built and returned outside it.     *)
(*                                                                         *)
(* An id is the pair of its timestamp and its counter: the random bits     *)
(* below them decide nothing here.  The wall clock may stand still, jump   *)
(* ahead or be set back, but is never before 1970 and stays below 2^48 ms, *)
(* where the mask on the timestamp is the identity.                        *)
(***************************************************************************)
EXTENDS Integers

CONSTANTS
  Thread,
  MaxCounter,  \* _MAX_COUNTER
  Millis,      \* the readings of the wall clock
  LastMillis   \* a bound for TLC: no call begins once last_ms is there

ASSUME UuidAssumption ==
  /\ MaxCounter \in Nat
  /\ Millis \subseteq Nat
  /\ LastMillis \in Nat

VARIABLES
  last_ms, counter,  \* the module globals
  call,      \* where each thread is in uuid7
  value,     \* the timestamp and counter a thread took under the lock
  returned,  \* the ids returned so far
  earlier    \* of a thread in a call: the ids that had been returned when it began

globals == <<last_ms, counter>>
uuidVars == <<globals, call, value, returned, earlier>>

Id == [ms : Int, count : Nat]

\* Ids compare by their timestamp, then by their counter.
Less(x, y) == x.ms < y.ms \/ (x.ms = y.ms /\ x.count < y.count)

UuidInit ==
  /\ last_ms = -1 /\ counter = 0
  /\ call = [t \in Thread |-> "idle"]
  /\ value = [t \in Thread |-> [ms |-> -1, count |-> 0]]
  /\ returned = {}
  /\ earlier = [t \in Thread |-> {}]

\* A thread enters uuid7 and waits for the lock.
EnterCall(t) ==
  /\ call[t] = "idle" /\ last_ms < LastMillis
  /\ call' = [call EXCEPT ![t] = "waiting"]
  /\ earlier' = [earlier EXCEPT ![t] = returned]
  /\ UNCHANGED <<globals, value, returned>>

----------------------------------------------------------------------------
(* Bugs for the mutation runs.                                             *)

\* The counter starts again whenever the clock is not behind.
NotBehind(ms) == ms >= last_ms

----------------------------------------------------------------------------

Ahead(ms) == ms > last_ms

\* The critical section, for the clock reading ms.  At its limit the counter borrows
\* the next millisecond.
TakeId(t, ms) ==
  /\ call[t] = "waiting"
  /\ \/ Ahead(ms) /\ last_ms' = ms /\ counter' = 0
     \/ ~Ahead(ms) /\ counter < MaxCounter /\ counter' = counter + 1 /\ UNCHANGED last_ms
     \/ ~Ahead(ms) /\ counter >= MaxCounter /\ last_ms' = last_ms + 1 /\ counter' = 0
  /\ value' = [value EXCEPT ![t] = [ms |-> last_ms', count |-> counter']]
  /\ call' = [call EXCEPT ![t] = "building"]
  /\ UNCHANGED <<returned, earlier>>

ReturnId(t) ==
  /\ call[t] = "building"
  /\ returned' = returned \cup {value[t]}
  /\ call' = [call EXCEPT ![t] = "idle"]
  /\ earlier' = [earlier EXCEPT ![t] = {}]
  /\ UNCHANGED <<globals, value>>

UuidNext == \E t \in Thread : EnterCall(t) \/ ReturnId(t) \/ \E ms \in Millis : TakeId(t, ms)

UuidSpec == UuidInit /\ [][UuidNext]_uuidVars

----------------------------------------------------------------------------
(* Properties.                                                             *)

UuidTypeOK ==
  /\ last_ms \in Nat \cup {-1} /\ counter \in Nat
  /\ call \in [Thread -> {"idle", "waiting", "building"}]
  /\ value \in [Thread -> Id]
  /\ returned \subseteq Id
  /\ earlier \in [Thread -> SUBSET Id]

\* The ids order the calls as time does (_uuid7.py:7-12): an id is greater than every
\* id that was returned before its call began, and no id is given twice, whatever the
\* clock does, however the threads overlap and also when the counter overflows.
RealTimeOrder ==
  \A t \in Thread : call[t] = "building" =>
    /\ \A x \in earlier[t] : Less(x, value[t])
    /\ value[t] \notin returned
    /\ \A u \in Thread \ {t} : call[u] = "building" => value[u] # value[t]
=============================================================================
