---------------------------- MODULE Interpreter ----------------------------
(***************************************************************************)
(* vella-agent's loop: run() drives an agent.run node turn by turn, spawns *)
(* and drives sub-agent runs from within a turn, and keeps its progress in *)
(* the runtime, so that a later run() of the same node resumes it.         *)
(*                                                                         *)
(* A frame is one activation of run().  A raised exception, a cancelled    *)
(* task and a crash all end a frame and those that await it, and leave     *)
(* behind what was written.  Any run may be driven again at any time, but  *)
(* never by two frames at once.                                            *)
(*                                                                         *)
(* A node is created before it is linked, and only linked nodes are read   *)
(* again, so the link is the write that counts.                            *)
(***************************************************************************)
EXTENDS Naturals, Sequences, FiniteSets

CONSTANTS
  Run,          \* ids of agent.run nodes
  Root,         \* the run a user created
  None,         \* not a run
  Policy,       \* loop policies the root may have
  Turn,         \* what the provider may answer: tool uses, stop reason, tokens
  Budget,       \* budgets a spawn request may ask for; 0 is no budget
  Backstop,     \* run()'s max_steps
  MaxStarts,    \* bound: times a user calls run()
  MaxCancels    \* bound: times another client cancels a run

Planning == {"off", "single", "replan_on_failure"}
StopCondition == {"explicit_stop_node", "no_tool_calls", "refusal"}

\* LoopPolicy.  A budget of 0 is None; max_depth 0 is SubAgentDeny.
LoopPolicy ==
  [step_budget : Nat, token_budget : Nat, stop_conditions : SUBSET StopCondition,
   planning : Planning, forced : BOOLEAN, max_depth : Nat, max_fanout : Nat]

\* "bad" is a use the policy refuses: its tool is unknown or not offered, or it has
\* no valid intent.
ToolUse == {"tool", "stop", "spawn", "bad"}

AssistantTurn ==
  [uses : Seq(ToolUse), stop_reason : {"end_turn", "tool_use", "refusal"}, usage : Nat]

ASSUME InterpreterAssumption ==
  /\ Root \in Run /\ None \notin Run /\ IsFiniteSet(Run)
  /\ Policy \subseteq LoopPolicy /\ Turn \subseteq AssistantTurn
  /\ Budget \subseteq Nat /\ Backstop \in Nat

VARIABLES
  policy,    \* the policy node of each run
  parent,    \* PART_OF between runs
  status,    \* RunData.status
  steps,     \* the steps linked to a run: kind, and whether a tool call failed in it
  tokens,    \* the total over the run's reasoning traces
  frame,     \* the activation of run() on each run
  starts,    \* calls of run() by a user, for the bound
  cancels    \* cancellations, for the bound

durable == <<policy, parent, status, steps, tokens>>
bounds == <<starts, cancels>>
vars == <<durable, frame, bounds>>

Idle ==
  [pc |-> "idle", caller |-> None, stale |-> FALSE, step_count |-> 0, spent |-> 0,
   ran |-> 0, plan_next |-> FALSE, uses |-> << >>, usage |-> 0, stops |-> {},
   saw_stop |-> FALSE, saw_failure |-> FALSE, outcome |-> "succeeded"]

Init ==
  /\ policy \in [Run -> Policy] /\ \A r, q \in Run : policy[r] = policy[q]
  /\ parent = [r \in Run |-> None] /\ status = [r \in Run |-> "pending"]
  /\ steps = [r \in Run |-> << >>] /\ tokens = [r \in Run |-> 0]
  /\ frame = [r \in Run |-> Idle] /\ starts = 0 /\ cancels = 0

At(r, pc) == frame[r].pc = pc
Goto(r, pc) == frame' = [frame EXCEPT ![r].pc = pc]

Exists(r) == r = Root \/ parent[r] # None
Children(r) == {c \in Run : parent[c] = r}

----------------------------------------------------------------------------
(* Bugs for the mutation runs.                                             *)

BudgetAfterTurn(r) == policy[r].step_budget # 0 /\ frame[r].step_count > policy[r].step_budget

BudgetStopLate(r, n) == policy[r].token_budget # 0 /\ n > policy[r].token_budget

TokensForgotten(r) == 0

PlanAgain(r) == policy[r].planning = "single"

ReturnedOnly(r) == [frame EXCEPT ![r] = Idle]

FanoutBeforeSpawn(r) == Cardinality(Children(r)) <= policy[r].max_fanout

FinalizeBlind(r) == At(r, "final")

----------------------------------------------------------------------------
(* Entering run().                                                         *)

\* The run node is read here: its version is what the edits below expect.
Entered(r, by) ==
  [Idle EXCEPT !.pc = IF status[r] = "running" THEN "resuming" ELSE "marking",
               !.caller = by]

Start(r) ==
  /\ Exists(r) /\ At(r, "idle") /\ starts < MaxStarts
  /\ frame' = [frame EXCEPT ![r] = Entered(r, None)]
  /\ starts' = starts + 1
  /\ UNCHANGED <<durable, cancels>>

\* _resumed_progress, and whether a leading planning turn is due.
ResumedTokens(r) == tokens[r]
LeadingPlan(r) == policy[r].planning = "single" /\ steps[r] = << >>

Loaded(r) ==
  [frame[r] EXCEPT !.pc = "boundary", !.step_count = Len(steps[r]),
                   !.spent = ResumedTokens(r), !.plan_next = LeadingPlan(r)]

Mark(r) ==
  /\ At(r, "marking") /\ ~frame[r].stale
  /\ status' = [status EXCEPT ![r] = "running"]
  /\ frame' = [frame EXCEPT ![r] = Loaded(r)]
  /\ UNCHANGED <<policy, parent, steps, tokens, bounds>>

Resume(r) ==
  /\ At(r, "resuming")
  /\ frame' = [frame EXCEPT ![r] = Loaded(r)]
  /\ UNCHANGED <<durable, bounds>>

----------------------------------------------------------------------------
(* One turn.                                                               *)

AtBackstop(r) == frame[r].ran >= Backstop

AtStepBudget(r) ==
  policy[r].step_budget # 0 /\ frame[r].step_count >= policy[r].step_budget

Halt(r) ==
  /\ At(r, "boundary") /\ (AtBackstop(r) \/ AtStepBudget(r))
  /\ Goto(r, "final")
  /\ UNCHANGED <<durable, bounds>>

\* Bound on the steps of a run, which its segments do not reach.
MaxSteps == Backstop * (MaxStarts + 1)

OpenStep(r) ==
  LET f == frame[r]
      kind == IF f.plan_next THEN "planning" ELSE "turn"
  IN  /\ At(r, "boundary") /\ ~AtBackstop(r) /\ ~AtStepBudget(r)
      /\ Len(steps[r]) < MaxSteps
      /\ steps' = [steps EXCEPT ![r] = Append(@, [kind |-> kind, failed |-> FALSE])]
      /\ frame' = [frame EXCEPT
           ![r] = [f EXCEPT !.pc = IF f.plan_next THEN "planning" ELSE "asking",
                            !.step_count = f.step_count + 1, !.ran = f.ran + 1,
                            !.plan_next = FALSE,
                            !.saw_stop = FALSE, !.saw_failure = FALSE]]
      /\ UNCHANGED <<policy, parent, status, tokens, bounds>>

\* _budget_stop
BudgetStop(r, n) == policy[r].token_budget # 0 /\ n >= policy[r].token_budget

\* provider.turn and the assistant message, then the trace that makes its usage
\* durable.  Stop conditions on the turn itself are known here.
Fired(r, t) ==
  policy[r].stop_conditions \cap
    (IF t.stop_reason = "refusal" THEN {"refusal"}
     ELSE IF t.stop_reason = "end_turn" /\ t.uses = << >> THEN {"no_tool_calls"} ELSE {})

Answer(r) ==
  /\ At(r, "asking")
  /\ \E t \in Turn :
       frame' = [frame EXCEPT
         ![r] = [@ EXCEPT !.pc = "tracing", !.uses = t.uses, !.usage = t.usage,
                          !.stops = Fired(r, t)]]
  /\ UNCHANGED <<durable, bounds>>

Traced(r, n) == tokens' = [tokens EXCEPT ![r] = @ + n]

Trace(r) ==
  /\ At(r, "tracing")
  /\ Traced(r, frame[r].usage)
  /\ IF policy[r].forced /\ frame[r].uses = << >>
       THEN frame' = [frame EXCEPT ![r] = [@ EXCEPT !.pc = "final", !.outcome = "failed"]]
       ELSE Goto(r, "tools")
  /\ UNCHANGED <<policy, parent, status, steps, bounds>>

\* A planning turn is offered no tools and invokes none.
AnswerPlan(r) ==
  /\ At(r, "planning")
  /\ \E t \in Turn :
       /\ Traced(r, t.usage)
       /\ frame' = [frame EXCEPT
            ![r] = [@ EXCEPT !.spent = frame[r].spent + t.usage,
                             !.pc = IF BudgetStop(r, frame[r].spent + t.usage)
                                    THEN "final" ELSE "boundary"]]
  /\ UNCHANGED <<policy, parent, status, steps, bounds>>

----------------------------------------------------------------------------
(* The uses of a turn, in order.                                           *)

Next1(r) == Head(frame[r].uses)
Using(r) == At(r, "tools") /\ frame[r].uses # << >>

Refuse(r) ==
  /\ Using(r)
  /\ Next1(r) = "bad" \/ (Next1(r) = "spawn" /\ policy[r].max_depth = 0)
  /\ frame' = [frame EXCEPT ![r] = [@ EXCEPT !.pc = "final", !.outcome = "failed"]]
  /\ UNCHANGED <<durable, bounds>>

\* invoke, then the tool_call on the step and the tool message.  A step keeps only
\* whether a call failed in it.
Failing(s, is_error) ==
  [s EXCEPT ![Len(s)] = [@ EXCEPT !.failed = s[Len(s)].failed \/ is_error]]

CallTool(r) ==
  /\ Using(r) /\ Next1(r) \in {"tool", "stop"}
  /\ \E is_error \in BOOLEAN :
       LET f == frame[r]
       IN  /\ steps' = [steps EXCEPT ![r] = Failing(@, is_error)]
           /\ frame' = [frame EXCEPT
                ![r] = [f EXCEPT !.uses = Tail(f.uses),
                                 !.saw_failure = f.saw_failure \/ is_error,
                                 !.saw_stop = f.saw_stop \/ Next1(r) = "stop"]]
  /\ UNCHANGED <<policy, parent, status, tokens, bounds>>

\* _parent_depth: hops to the root.
Depth(r) ==
  LET hops[q \in Run] == IF parent[q] = None THEN 0 ELSE 1 + hops[parent[q]]
  IN  hops[r]

\* gate_allows_spawn
FanoutAllows(r) == Cardinality(Children(r)) + 1 <= policy[r].max_fanout
DepthAllows(r) == Depth(r) + 1 <= policy[r].max_depth

\* A request out of bounds is answered with an error and the turn goes on.
Gate(r) ==
  /\ Using(r) /\ Next1(r) = "spawn" /\ policy[r].max_depth # 0
  /\ IF DepthAllows(r) /\ FanoutAllows(r)
       THEN Goto(r, "spawning")
       ELSE frame' = [frame EXCEPT ![r].uses = Tail(frame[r].uses)]
  /\ UNCHANGED <<durable, bounds>>

ChildPolicy(r, step_budget, token_budget) ==
  [step_budget |-> step_budget, token_budget |-> token_budget, stop_conditions |-> {},
   planning |-> "off", forced |-> FALSE, max_depth |-> policy[r].max_depth,
   max_fanout |-> policy[r].max_fanout]

Unused == {c \in Run : ~Exists(c)}

\* The child's policy and run, its link, and run() on it.
Spawn(r) ==
  /\ At(r, "spawning") /\ Unused # {}
  /\ LET c == CHOOSE c \in Unused : TRUE
     IN  /\ parent' = [parent EXCEPT ![c] = r]
         /\ \E s, t \in Budget : policy' = [policy EXCEPT ![c] = ChildPolicy(r, s, t)]
         /\ frame' = [frame EXCEPT ![r].pc = "waiting", ![c] = Entered(c, r)]
  /\ UNCHANGED <<status, steps, tokens, bounds>>

\* Accounting, budget, stop conditions and planning, with no await between them.
ReplanNext(r, f) == policy[r].planning = "replan_on_failure" /\ f.saw_failure

EndTurn(r) ==
  LET f == frame[r]
      spent == f.spent + f.usage
      halted == \/ BudgetStop(r, spent) \/ f.stops # {}
                \/ f.saw_stop /\ "explicit_stop_node" \in policy[r].stop_conditions
  IN  /\ At(r, "tools") /\ f.uses = << >>
      /\ frame' = [frame EXCEPT
           ![r] = [f EXCEPT !.spent = spent, !.usage = 0, !.stops = {},
                            !.pc = IF halted THEN "final" ELSE "boundary",
                            !.plan_next = ReplanNext(r, f)]]
      /\ UNCHANGED <<durable, bounds>>

----------------------------------------------------------------------------
(* Leaving run().                                                          *)

\* The edit of the final status, at the version run() knows.
MayFinalize(r) == At(r, "final") /\ ~frame[r].stale

\* The caller's frame goes on with the rest of its turn.
Returned(r) ==
  LET p == frame[r].caller
  IN  IF p = None THEN [frame EXCEPT ![r] = Idle]
      ELSE [frame EXCEPT ![r] = Idle,
                         ![p] = [@ EXCEPT !.pc = "tools", !.uses = Tail(frame[p].uses)]]

Finalize(r) ==
  /\ MayFinalize(r)
  /\ status' = [status EXCEPT ![r] = frame[r].outcome]
  /\ frame' = Returned(r)
  /\ UNCHANGED <<policy, parent, steps, tokens, bounds>>

\* VersionConflict
Conflict(r) ==
  /\ frame[r].pc \in {"marking", "final"} /\ frame[r].stale
  /\ Goto(r, "raised")
  /\ UNCHANGED <<durable, bounds>>

\* A provider or dispatch error, a cancelled task, a crash: at any await.
Raise(r) ==
  /\ frame[r].pc \notin {"idle", "waiting", "raised"}
  /\ Goto(r, "raised")
  /\ UNCHANGED <<durable, bounds>>

\* The exception goes through every frame that awaits this one.
Unwind(r) ==
  /\ At(r, "raised")
  /\ LET p == frame[r].caller
     IN  frame' = IF p = None THEN [frame EXCEPT ![r] = Idle]
                  ELSE [frame EXCEPT ![r] = Idle, ![p].pc = "raised"]
  /\ UNCHANGED <<durable, bounds>>

\* Another client cancels the run by editing its node.
Cancel(r) ==
  /\ Exists(r) /\ status[r] # "cancelled" /\ cancels < MaxCancels
  /\ cancels' = cancels + 1
  /\ status' = [status EXCEPT ![r] = "cancelled"]
  /\ frame' = [frame EXCEPT ![r].stale = ~At(r, "idle")]
  /\ UNCHANGED <<policy, parent, steps, tokens, starts>>

----------------------------------------------------------------------------

Drive(r) ==
  \/ Mark(r) \/ Resume(r) \/ Halt(r) \/ OpenStep(r) \/ Answer(r) \/ Trace(r)
  \/ AnswerPlan(r) \/ Refuse(r) \/ CallTool(r) \/ Gate(r) \/ Spawn(r) \/ EndTurn(r)
  \/ Finalize(r) \/ Conflict(r) \/ Unwind(r)

Next == \E r \in Run : Drive(r) \/ Start(r) \/ Raise(r) \/ Cancel(r)

\* The event loop runs every frame, and the provider and the tools return.
Spec == Init /\ [][Next]_vars
FairSpec == Spec /\ \A r \in Run : WF_vars(Drive(r))

----------------------------------------------------------------------------
(* Properties.                                                             *)

Frame ==
  [pc : {"idle", "marking", "resuming", "boundary", "asking", "planning", "tracing",
         "tools", "spawning", "waiting", "final", "raised"},
   caller : Run \cup {None}, stale : BOOLEAN, step_count : Nat, spent : Nat, ran : Nat,
   plan_next : BOOLEAN, uses : Seq(ToolUse), usage : Nat, stops : SUBSET StopCondition,
   saw_stop : BOOLEAN, saw_failure : BOOLEAN, outcome : {"succeeded", "failed"}]

TypeOK ==
  /\ policy \in [Run -> LoopPolicy]
  /\ parent \in [Run -> Run \cup {None}]
  /\ status \in [Run -> {"pending", "running", "succeeded", "failed", "cancelled"}]
  /\ steps \in [Run -> Seq([kind : {"turn", "planning"}, failed : BOOLEAN])]
  /\ tokens \in [Run -> Nat]
  /\ frame \in [Run -> Frame]
  /\ starts \in Nat /\ cancels \in Nat

\* Over all segments of a run together, whatever ended them, no more steps are
\* recorded than its policy allows (interpreter.py:23-25).
StepBudgetHolds ==
  \A r \in Run : policy[r].step_budget # 0 => Len(steps[r]) <= policy[r].step_budget

\* What a segment counts between two turns is what the runtime holds, so a segment
\* that ends here and one that goes on have the same budgets left.
ProgressIsDurable ==
  \A r \in Run : At(r, "boundary") =>
    frame[r].spent = tokens[r] /\ frame[r].step_count = Len(steps[r])

\* No segment takes another turn once the run's recorded tokens reach the budget.
\* The first turn of a segment is not checked by the code, and not here.
TokenBudgetEndsSegment ==
  \A r \in Run :
    (frame[r].pc \in {"asking", "planning"} /\ frame[r].ran > 1 /\ policy[r].token_budget # 0)
      => tokens[r] < policy[r].token_budget

\* max_run_tree_size: the sum of the powers of the fanout.
TreeSize(depth, fanout) ==
  LET power[i \in Nat] == IF i = 0 THEN 1 ELSE fanout * power[i - 1]
      upto[d \in Nat] == IF d = 0 THEN 1 ELSE upto[d - 1] + power[d]
  IN  upto[depth]

\* The tree of runs stays within the bounds its root was given, over segments of
\* any of its runs that end between the gate and the link (_subagent.py:163-197).
TreeBounded ==
  LET p == policy[Root]
  IN  /\ \A r \in Run : Depth(r) <= p.max_depth /\ Cardinality(Children(r)) <= p.max_fanout
      /\ Cardinality({r \in Run : Exists(r)}) <= TreeSize(p.max_depth, p.max_fanout)

\* A planning step is a run's first under "single", and under "replan_on_failure"
\* comes right after a step in which a tool call failed; resuming adds none.
PlansAreEarned ==
  \A r \in Run : \A n \in DOMAIN steps[r] :
    steps[r][n].kind = "planning" =>
      \/ policy[r].planning = "single" /\ n = 1
      \/ policy[r].planning = "replan_on_failure" /\ n > 1 /\ steps[r][n - 1].failed

\* A step in which a tool call failed is followed by a planning step
\* (policy.py:201-202), also when the run is resumed in between
\* (interpreter.py:52-53).
ReplanFollowsFailure ==
  \A r \in Run : \A n \in DOMAIN steps[r] :
    (policy[r].planning = "replan_on_failure" /\ n > 1 /\ steps[r][n - 1].failed)
      => steps[r][n].kind = "planning"

\* A run that another client cancelled is not ended over it by a segment that began
\* before; only a run() called afterwards takes it up again.
CancelIsKept ==
  [][\A r \in Run : (status[r] = "cancelled" /\ status'[r] # "cancelled") =>
       At(r, "marking") /\ status'[r] = "running"]_vars

\* Every run() returns or raises, whatever the policy and the model's answers, down
\* the whole tree of sub-agents it drives (interpreter.py:40-42).
RunsReturn == \A r \in Run : ~At(r, "idle") ~> At(r, "idle")
=============================================================================
