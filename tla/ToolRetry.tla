----------------------------- MODULE ToolRetry -----------------------------
(***************************************************************************)
(* ToolInvoker.invoke: InMemoryToolInvoker (invoker.py) and MCPToolInvoker *)
(* (adapters/mcp_invoker.py) run an attempt, sleep a capped backoff on the *)
(* injected clock after a failure and try again, up to max_attempts.       *)
(* Invocations run concurrently on one ManualClock; each may be cancelled  *)
(* at any await.                                                           *)
(*                                                                         *)
(* An attempt of the MCP invoker opens a session, calls the tool and       *)
(* closes the session; any of the three may raise, and an exception of the *)
(* closing hides the answer of the call, or its cancellation.              *)
(***************************************************************************)
EXTENDS ManualClock, Sequences

CONSTANTS
  Invocation,
  Tool,  \* the tools considered: the kind of binding, as far as the invoker in hand
         \* dispatches it, and the retry policy, one attempt for a tool without one
  Tick   \* the steps the harness advances the clock by

IsRetryPolicy(p) ==
  /\ p.max_attempts \in Nat \ {0}
  /\ p.backoff_base \in Nat /\ p.backoff_factor \in Nat \ {0} /\ p.backoff_cap \in Nat

ASSUME RetryAssumption ==
  /\ \A t \in Tool : t.binding \in {"builtin", "mcp", "other"} /\ IsRetryPolicy(t.retry)
  /\ Tick \subseteq Nat

VARIABLES
  tool,      \* the tool of each invocation
  stage,     \* where the invocation is
  attempts,  \* the outcomes of the attempts made
  answered,  \* what the call of the attempt in hand came to, a result or a cancellation
  result     \* what invoke returned or raised, "None" before

invokeVars == <<stage, attempts, answered, result>>
retryVars == <<clockVars, tool, invokeVars>>

\* A ToolResult; an error that is returned and an exception differ in their kind only.
ToolResult == {"ok", "error"}

Smaller(m, n) == IF m <= n THEN m ELSE n

\* The wait after the attempt of index k.
Backoff(p, k) == Smaller(p.backoff_base * p.backoff_factor ^ k, p.backoff_cap)

\* A product of naturals; tlapm does not know exponents.
ASSUME BackoffAssumption ==
  \A t \in Tool : \A k \in 0 .. t.retry.max_attempts : Backoff(t.retry, k) \in Nat

Ended(i) == stage[i] \in {"returned", "refused", "cancelled"}

RetryInit ==
  /\ ClockInit
  /\ tool \in [Invocation -> Tool]
  /\ stage = [i \in Invocation |-> "idle"]
  /\ attempts = [i \in Invocation |-> << >>]
  /\ answered = [i \in Invocation |-> "None"]
  /\ result = [i \in Invocation |-> "None"]

----------------------------------------------------------------------------
(* Bugs for the mutation runs.                                             *)

\* One attempt more than the policy allows.
OneMoreAttempt(i) == Len(attempts[i]) < tool[i].retry.max_attempts

----------------------------------------------------------------------------

\* Where an attempt starts: with the session of the MCP server, or with the call.
First(i) == IF tool[i].binding = "mcp" THEN "opening" ELSE "calling"

\* Dispatch by binding.kind.
Invoke(i) ==
  /\ stage[i] = "idle"
  /\ IF tool[i].binding = "other"
     THEN stage' = [stage EXCEPT ![i] = "refused"] /\ result' = [result EXCEPT ![i] = "ToolDispatchError"]
     ELSE stage' = [stage EXCEPT ![i] = First(i)] /\ UNCHANGED result
  /\ UNCHANGED <<clockVars, tool, attempts, answered>>

\* attempt < policy.max_attempts - 1, of the attempt that just ended.
AttemptsRemain(i) == Len(attempts[i]) + 1 < tool[i].retry.max_attempts

\* The rest of the loop's body, once _attempt has its result.
AttemptEnds(i, outcome) ==
  /\ attempts' = [attempts EXCEPT ![i] = Append(@, outcome)]
  /\ answered' = [answered EXCEPT ![i] = "None"]
  /\ IF outcome = "error" /\ AttemptsRemain(i)
     THEN /\ Sleep(i, Backoff(tool[i].retry, Len(attempts[i])))
          /\ stage' = [stage EXCEPT ![i] = "asleep"]
          /\ UNCHANGED result
     ELSE /\ stage' = [stage EXCEPT ![i] = "returned"]
          /\ result' = [result EXCEPT ![i] = outcome]
          /\ UNCHANGED clockVars
  /\ UNCHANGED tool

\* The builtin returns, an error or not, or raises.
BuiltinEnds(i, outcome) ==
  /\ stage[i] = "calling" /\ tool[i].binding = "builtin"
  /\ AttemptEnds(i, outcome)

\* The server node is resolved and the session opened.
OpenSession(i) ==
  /\ stage[i] = "opening"
  /\ \/ /\ stage' = [stage EXCEPT ![i] = "calling"]
        /\ UNCHANGED <<clockVars, tool, attempts, answered, result>>
     \/ AttemptEnds(i, "error")

\* call_tool answers or raises; either way the session is closed next.
CallTool(i, outcome) ==
  /\ stage[i] = "calling" /\ tool[i].binding = "mcp"
  /\ stage' = [stage EXCEPT ![i] = "closing"]
  /\ answered' = [answered EXCEPT ![i] = outcome]
  /\ UNCHANGED <<clockVars, tool, attempts, result>>

\* An exception of the closing counts as the attempt's failure, and also takes the place
\* of a cancellation: the invocation then goes on.
CloseSession(i) ==
  /\ stage[i] = "closing"
  /\ \/ AttemptEnds(i, "error")
     \/ answered[i] # "cancelled" /\ AttemptEnds(i, answered[i])
     \/ /\ answered[i] = "cancelled"
        /\ stage' = [stage EXCEPT ![i] = "cancelled"]
        /\ answered' = [answered EXCEPT ![i] = "None"]
        /\ UNCHANGED <<clockVars, tool, attempts, result>>

\* The backoff is over: the next attempt starts.
WakeUp(i) ==
  /\ \E w \in ready : w.task = i /\ Runs(w)
  /\ stage' = [stage EXCEPT ![i] = First(i)]
  /\ UNCHANGED <<now, seq, waiters, tool, attempts, answered, result>>

\* CancelledError is no Exception: it ends the invocation wherever it is, but a session
\* that is open is closed first.
Cancel(i) ==
  /\ stage[i] \in {"opening", "calling", "closing", "asleep"}
  /\ CancelSleep(i)
  /\ IF stage[i] = "calling" /\ tool[i].binding = "mcp"
     THEN /\ stage' = [stage EXCEPT ![i] = "closing"]
          /\ answered' = [answered EXCEPT ![i] = "cancelled"]
     ELSE /\ stage' = [stage EXCEPT ![i] = "cancelled"]
          /\ answered' = [answered EXCEPT ![i] = "None"]
  /\ UNCHANGED <<tool, attempts, result>>

\* Only differences of times count, so the clock may rest while nobody sleeps: a bound
\* for TLC.
TimePasses(dt) ==
  /\ waiters # {}
  /\ Advance(dt)
  /\ UNCHANGED <<tool, invokeVars>>

Works(i) ==
  \/ OpenSession(i) \/ CloseSession(i)
  \/ \E o \in ToolResult : BuiltinEnds(i, o) \/ CallTool(i, o)

RetryNext ==
  \/ \E i \in Invocation : Invoke(i) \/ Works(i) \/ WakeUp(i) \/ Cancel(i)
  \/ \E dt \in Tick : TimePasses(dt)

\* A tool answers or fails in the end, the event loop runs what is ready, and the
\* clock goes on.
RetryFairness ==
  /\ \A i \in Invocation : WF_retryVars(Works(i)) /\ WF_retryVars(WakeUp(i))
  /\ WF_retryVars(\E dt \in Tick \ {0} : TimePasses(dt))

RetrySpec == RetryInit /\ [][RetryNext]_retryVars /\ RetryFairness

----------------------------------------------------------------------------
(* Properties.                                                             *)

RetryTypeOK ==
  /\ now \in Nat /\ seq \in Nat
  /\ waiters \subseteq Waiter(Invocation) /\ ready \subseteq Waiter(Invocation)
  /\ woken \in [at : Nat, seq : Nat \cup {-1}]
  /\ tool \in [Invocation -> Tool]
  /\ stage \in [Invocation -> {"idle", "opening", "calling", "closing", "asleep",
                               "returned", "refused", "cancelled"}]
  /\ attempts \in [Invocation -> Seq(ToolResult)]
  /\ answered \in [Invocation -> ToolResult \cup {"cancelled", "None"}]
  /\ result \in [Invocation -> ToolResult \cup {"ToolDispatchError", "None"}]

\* The loop sees one result, of the last attempt: the first success, or the failure
\* of the last attempt the policy allows (invoker.py:196-197); what was refused was
\* never attempted.
OneHonestResult ==
  \A i \in Invocation :
    LET made == attempts[i]
    IN  /\ Len(made) <= tool[i].retry.max_attempts
        /\ \A k \in DOMAIN made : made[k] = "ok" => k = Len(made) /\ stage[i] = "returned"
        /\ stage[i] = "returned" =>
             /\ made # << >> /\ result[i] = made[Len(made)]
             /\ result[i] = "ok" \/ Len(made) = tool[i].retry.max_attempts
        /\ result[i] = "ToolDispatchError" => made = << >>

\* Every invocation that is not cancelled returns, whatever the policies: no sleeper
\* is left behind by the calls of advance() that wake others.
InvocationEnds ==
  \A i \in Invocation : stage[i] \notin {"idle", "refused"} ~> Ended(i)
=============================================================================
