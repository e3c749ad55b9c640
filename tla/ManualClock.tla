---------------------------- MODULE ManualClock ----------------------------
(***************************************************************************)
(* ManualClock (clock.py): the time source backoff waits go through.  A    *)
(* sleeper parks on a future until advance() reaches its deadline; advance *)
(* resolves the futures that are due in the order of their deadlines and   *)
(* of their insertion, then yields once, so that each task it woke runs to *)
(* its next await before advance returns.                                  *)
(*                                                                         *)
(* One harness calls advance.  The operations constrain the variables of   *)
(* the clock only: a module that extends this one says who sleeps.         *)
(***************************************************************************)
EXTENDS Integers

VARIABLES
  now,      \* _now
  seq,      \* _seq
  waiters,  \* _waiters: deadline, insertion number, the task and whether its future
            \* is done, as a cancelled sleeper's is
  ready,    \* the waiters advance() has woken and whose tasks have not run yet
  woken     \* the last of these whose task ran

clockVars == <<now, seq, waiters, ready, woken>>

Waiter(Task) == [at : Nat, seq : Nat, task : Task, done : BOOLEAN]

----------------------------------------------------------------------------
(* Bugs for the mutation runs.                                             *)

\* Woken in the order they went to sleep.
ByInsertion(w, x) == w.seq < x.seq

\* A deadline that is reached exactly is dropped: neither due nor kept.
PastDue(w, t) == w.at < t

----------------------------------------------------------------------------

\* The sort key of advance(): wake time, then insertion.
WakesBefore(w, x) == w.at < x.at \/ (w.at = x.at /\ w.seq < x.seq)

IsDue(w, t) == w.at <= t

ClockInit ==
  /\ now = 0 /\ seq = 0
  /\ waiters = {} /\ ready = {}
  /\ woken = [at |-> 0, seq |-> -1]

Sleep(task, delay) ==
  /\ waiters' = waiters \cup {[at |-> now + delay, seq |-> seq, task |-> task, done |-> FALSE]}
  /\ seq' = seq + 1
  /\ UNCHANGED <<now, ready, woken>>

\* advance(dt) up to its yield, which ends when ready is empty.
Advance(dt) ==
  LET t == now + dt
  IN  /\ ready = {}
      /\ now' = t
      /\ ready' = {w \in waiters : IsDue(w, t) /\ ~w.done}
      /\ waiters' = {w \in waiters : w.at > t}
      /\ UNCHANGED <<seq, woken>>

\* The next woken task, w, gets to run: the event loop takes them as they were resolved.
Runs(w) ==
  /\ w \in ready
  /\ \A x \in ready \ {w} : WakesBefore(w, x)
  /\ ready' = ready \ {w}
  /\ woken' = [at |-> w.at, seq |-> w.seq]

\* The task is cancelled in sleep, or after it was woken and before it runs.
CancelSleep(task) ==
  /\ waiters' = {IF w.task = task THEN [w EXCEPT !.done = TRUE] ELSE w : w \in waiters}
  /\ ready' = {w \in ready : w.task # task}
  /\ UNCHANGED <<now, seq, woken>>

----------------------------------------------------------------------------
(* Properties.                                                             *)

\* Tasks wake by their deadlines, and for one deadline in the order they went to
\* sleep (clock.py:23-26, 88-93), over all the calls of advance() and also when a
\* woken task sleeps again; none before its deadline.
WakesInOrder ==
  [][woken' # woken => WakesBefore(woken, woken') /\ woken'.at <= now]_clockVars
=============================================================================
