------------------------- MODULE InterpreterProofs -------------------------
(***************************************************************************)
(* What the agent loop guarantees for every policy, every model and any    *)
(* number of runs, segments and cancellations: types, the step budget, the *)
(* token budget within a segment, earned planning steps, durable progress, *)
(* a cancellation that is kept, and the bound on the tree of runs.         *)
(*                                                                         *)
(* None is inductive.  The strengthening ties what a segment holds in      *)
(* memory to what the runtime holds, at every point of a turn (RunInv),    *)
(* and says that a frame that awaits a sub-agent is awaited by nothing     *)
(* else and stays where it is until that sub-agent ends (Awaited): it is   *)
(* why a sub-agent that returns or raises finds its caller in a turn.      *)
(***************************************************************************)
EXTENDS Interpreter, Induction, FiniteSetTheorems, TLAPS

InTurn(r) == frame[r].pc \in {"asking", "planning", "tracing", "tools", "spawning", "waiting"}
Driven(r) == InTurn(r) \/ frame[r].pc \in {"boundary", "final"}

\* The steps counted are the steps recorded.
Counted(r) ==
  /\ Driven(r) => frame[r].step_count = Len(steps[r])
  /\ InTurn(r) => Len(steps[r]) > 0
  /\ policy[r].step_budget # 0 => Len(steps[r]) <= policy[r].step_budget

\* The tokens counted are the tokens recorded, but for the turn in hand.
Ledger(r) ==
  /\ frame[r].pc \in {"boundary", "asking", "planning", "tracing"} =>
       frame[r].spent = tokens[r]
  /\ frame[r].pc \in {"tools", "spawning", "waiting"} =>
       frame[r].spent + frame[r].usage = tokens[r]

Taken(r) ==
  IF At(r, "boundary") THEN frame[r].ran
  ELSE IF frame[r].pc \in {"asking", "planning"} THEN frame[r].ran - 1 ELSE 0

Within(r) ==
  /\ frame[r].pc \in {"marking", "resuming"} => frame[r].ran = 0
  /\ Taken(r) > 0 /\ policy[r].token_budget # 0 => tokens[r] < policy[r].token_budget

LastFailed(r) == Len(steps[r]) > 0 /\ steps[r][Len(steps[r])].failed

Earned(r) ==
  /\ At(r, "boundary") /\ frame[r].plan_next =>
       \/ policy[r].planning = "single" /\ Len(steps[r]) = 0
       \/ policy[r].planning = "replan_on_failure" /\ LastFailed(r)
  /\ frame[r].pc \in {"tools", "spawning", "waiting"} /\ frame[r].saw_failure => LastFailed(r)
  /\ frame[r].pc \in {"asking", "tracing"} => ~frame[r].saw_failure
  /\ InTurn(r) => ~frame[r].plan_next
  /\ \A n \in DOMAIN steps[r] : steps[r][n].kind = "planning" =>
       \/ policy[r].planning = "single" /\ n = 1
       \/ policy[r].planning = "replan_on_failure" /\ n > 1 /\ steps[r][n - 1].failed

\* A segment that began before a cancellation knows a version that is gone.
Cancelled(r) ==
  status[r] = "cancelled" /\ (Driven(r) \/ At(r, "resuming")) => frame[r].stale

Fresh(r) == ~Exists(r) => At(r, "idle") /\ steps[r] = << >> /\ tokens[r] = 0

\* The spawn that a frame is busy with is the first of the uses it has left.
Holding(r) == frame[r].pc \in {"spawning", "waiting"} => frame[r].uses # << >>

Awaited(r) ==
  LET p == frame[r].caller
  IN  p # None => /\ At(p, "waiting") /\ ~At(r, "idle")
                  /\ \A q \in Run : frame[q].caller = p => q = r

RunInv(r) ==
  /\ Counted(r) /\ Ledger(r) /\ Within(r) /\ Earned(r) /\ Cancelled(r) /\ Fresh(r)
  /\ Holding(r)

Inv == TypeOK /\ \A r \in Run : RunInv(r) /\ Awaited(r)

----------------------------------------------------------------------------
(* Types.                                                                  *)

PC == {"idle", "marking", "resuming", "boundary", "asking", "planning", "tracing",
       "tools", "spawning", "waiting", "final", "raised"}

\* The assignments that steps make to the fields of a frame.
LEMMA FrameUpdates ==
  ASSUME NEW f \in Frame
  PROVE  /\ \A x \in PC : [f EXCEPT !.pc = x] \in Frame
         /\ \A a \in BOOLEAN : [f EXCEPT !.stale = a] \in Frame
         /\ \A x \in PC, n, m \in Nat, a \in BOOLEAN :
              [f EXCEPT !.pc = x, !.step_count = n, !.spent = m, !.plan_next = a] \in Frame
         /\ \A x \in PC, n, m \in Nat :
              [f EXCEPT !.pc = x, !.step_count = n, !.ran = m, !.plan_next = FALSE,
                        !.saw_stop = FALSE, !.saw_failure = FALSE] \in Frame
         /\ \A x \in PC, u \in Seq(ToolUse), n \in Nat, s \in SUBSET StopCondition :
              [f EXCEPT !.pc = x, !.uses = u, !.usage = n, !.stops = s] \in Frame
         /\ \A x \in PC, o \in {"succeeded", "failed"} :
              [f EXCEPT !.pc = x, !.outcome = o] \in Frame
         /\ \A x \in PC, n \in Nat : [f EXCEPT !.spent = n, !.pc = x] \in Frame
         /\ \A u \in Seq(ToolUse) : [f EXCEPT !.uses = u] \in Frame
         /\ \A u \in Seq(ToolUse), a, b \in BOOLEAN :
              [f EXCEPT !.uses = u, !.saw_failure = a, !.saw_stop = b] \in Frame
         /\ \A x \in PC, n \in Nat, a \in BOOLEAN :
              [f EXCEPT !.spent = n, !.usage = 0, !.stops = {}, !.pc = x,
                        !.plan_next = a] \in Frame
         /\ \A x \in PC, u \in Seq(ToolUse) : [f EXCEPT !.pc = x, !.uses = u] \in Frame
<1>1. 0 \in Nat /\ {} \in SUBSET StopCondition
  OBVIOUS
<1>2. \A x \in PC : [f EXCEPT !.pc = x] \in Frame
  BY ZenonT(60) DEF Frame, PC
<1>3. \A a \in BOOLEAN : [f EXCEPT !.stale = a] \in Frame
  BY ZenonT(60) DEF Frame, PC
<1>4. \A x \in PC, n, m \in Nat, a \in BOOLEAN :
         [f EXCEPT !.pc = x, !.step_count = n, !.spent = m, !.plan_next = a] \in Frame
  BY ZenonT(60) DEF Frame, PC
<1>5. \A x \in PC, n, m \in Nat :
         [f EXCEPT !.pc = x, !.step_count = n, !.ran = m, !.plan_next = FALSE,
                   !.saw_stop = FALSE, !.saw_failure = FALSE] \in Frame
  BY ZenonT(60) DEF Frame, PC
<1>6. \A x \in PC, u \in Seq(ToolUse), n \in Nat, s \in SUBSET StopCondition :
         [f EXCEPT !.pc = x, !.uses = u, !.usage = n, !.stops = s] \in Frame
  BY ZenonT(60) DEF Frame, PC
<1>7. \A x \in PC, o \in {"succeeded", "failed"} : [f EXCEPT !.pc = x, !.outcome = o] \in Frame
  BY ZenonT(60) DEF Frame, PC
<1>8. \A x \in PC, n \in Nat : [f EXCEPT !.spent = n, !.pc = x] \in Frame
  BY ZenonT(60) DEF Frame, PC
<1>9. \A u \in Seq(ToolUse) : [f EXCEPT !.uses = u] \in Frame
  BY ZenonT(60) DEF Frame, PC
<1>10. \A u \in Seq(ToolUse), a, b \in BOOLEAN :
         [f EXCEPT !.uses = u, !.saw_failure = a, !.saw_stop = b] \in Frame
  BY ZenonT(60) DEF Frame, PC
<1>11. \A x \in PC, n \in Nat, a \in BOOLEAN :
         [f EXCEPT !.spent = n, !.usage = 0, !.stops = {}, !.pc = x, !.plan_next = a] \in Frame
  BY <1>1, ZenonT(60) DEF Frame, PC
<1>12. \A x \in PC, u \in Seq(ToolUse) : [f EXCEPT !.pc = x, !.uses = u] \in Frame
  BY ZenonT(60) DEF Frame, PC
<1> QED
  BY <1>2, <1>3, <1>4, <1>5, <1>6, <1>7, <1>8, <1>9, <1>10, <1>11, <1>12

LEMMA FrameTypes ==
  /\ Idle \in Frame
  /\ \A r \in Run, by \in Run \cup {None} : Entered(r, by) \in Frame
<1>1. Idle \in Frame
  BY DEF Idle, Frame, StopCondition, ToolUse
<1>2. ASSUME NEW r \in Run, NEW by \in Run \cup {None} PROVE Entered(r, by) \in Frame
  BY <1>1 DEF Entered, Frame
<1> QED
  BY <1>1, <1>2

LEMMA TypeInit == Init => TypeOK
<1> SUFFICES ASSUME Init PROVE TypeOK
  OBVIOUS
<1>1. policy \in [Run -> LoopPolicy]
  BY InterpreterAssumption DEF Init
<1> QED
  BY <1>1, FrameTypes DEF Init, TypeOK

\* A step that leaves what is durable alone is typed if its frames are.
LEMMA TypeFrame ==
  ASSUME TypeOK, UNCHANGED durable, frame' \in [Run -> Frame], starts' \in Nat, cancels' \in Nat
  PROVE  TypeOK'
BY DEF TypeOK, durable

Step == [kind : {"turn", "planning"}, failed : BOOLEAN]

LEMMA FailingTypes ==
  ASSUME NEW s \in Seq(Step), NEW e \in BOOLEAN, Len(s) > 0
  PROVE  Failing(s, e) \in Seq(Step)
<1>1. s[Len(s)] \in Step
  OBVIOUS
<1>2. [s[Len(s)] EXCEPT !.failed = s[Len(s)].failed \/ e] \in Step
  BY <1>1 DEF Step
<1> QED
  BY <1>2 DEF Failing

LEMMA TypeStep == Inv /\ [Next]_vars => TypeOK'
<1> SUFFICES ASSUME Inv, [Next]_vars PROVE TypeOK'
  OBVIOUS
<1>0. TypeOK
  BY DEF Inv
<1> USE <1>0 DEF At
<1>f. frame \in [Run -> Frame] /\ starts \in Nat /\ cancels \in Nat
  BY DEF TypeOK
<1>n. \A r \in Run : /\ frame[r].step_count \in Nat /\ frame[r].spent \in Nat
                     /\ frame[r].ran \in Nat /\ frame[r].usage \in Nat
                     /\ frame[r].uses \in Seq(ToolUse) /\ frame[r].stops \in SUBSET StopCondition
  BY <1>f DEF Frame
<1>1. ASSUME NEW r \in Run, Start(r) PROVE TypeOK'
  BY <1>1, <1>f, FrameTypes, TypeFrame DEF Start
<1>l. ASSUME NEW r \in Run PROVE Loaded(r) \in Frame
  <2>1. Len(steps[r]) \in Nat /\ ResumedTokens(r) \in Nat /\ LeadingPlan(r) \in BOOLEAN
    BY DEF ResumedTokens, LeadingPlan, TypeOK
  <2> QED
    BY ZenonT(30), <1>f, <2>1, FrameUpdates DEF Loaded, PC
<1>2. ASSUME NEW r \in Run, Mark(r) PROVE TypeOK'
  <2>1. frame' \in [Run -> Frame]
    BY <1>2, <1>f, <1>l DEF Mark
  <2>2. status' \in [Run -> {"pending", "running", "succeeded", "failed", "cancelled"}]
    BY <1>2 DEF Mark, TypeOK
  <2> QED
    BY <1>2, <2>1, <2>2 DEF Mark, TypeOK, bounds
<1>3. ASSUME NEW r \in Run, Resume(r) PROVE TypeOK'
  BY <1>3, <1>f, <1>l, TypeFrame DEF Resume, bounds
<1>4. ASSUME NEW r \in Run, Halt(r) PROVE TypeOK'
  <2>1. frame' \in [Run -> Frame]
    BY ZenonT(30), <1>4, <1>f, FrameUpdates DEF Halt, Goto, PC
  <2> QED
    BY <1>4, <1>f, <2>1, TypeFrame DEF Halt, bounds
<1>5. ASSUME NEW r \in Run, OpenStep(r) PROVE TypeOK'
  <2>1. frame' \in [Run -> Frame]
    <3> DEFINE x == IF frame[r].plan_next THEN "planning" ELSE "asking"
    <3>1. frame[r].step_count + 1 \in Nat /\ frame[r].ran + 1 \in Nat /\ x \in PC
      BY <1>n DEF PC
    <3>2. [frame[r] EXCEPT !.pc = x, !.step_count = frame[r].step_count + 1,
             !.ran = frame[r].ran + 1, !.plan_next = FALSE, !.saw_stop = FALSE,
             !.saw_failure = FALSE] \in Frame
      BY ZenonT(30), <1>f, <3>1, FrameUpdates
    <3>3. frame' = [frame EXCEPT ![r] = [frame[r] EXCEPT !.pc = x,
             !.step_count = frame[r].step_count + 1, !.ran = frame[r].ran + 1,
             !.plan_next = FALSE, !.saw_stop = FALSE, !.saw_failure = FALSE]]
      BY <1>5 DEF OpenStep
    <3> HIDE DEF x
    <3> QED
      BY <1>f, <3>2, <3>3
  <2>2. steps' \in [Run -> Seq(Step)]
    BY <1>5 DEF OpenStep, TypeOK, Step
  <2> QED
    BY <1>5, <2>1, <2>2 DEF OpenStep, TypeOK, bounds, Step
<1>6. ASSUME NEW r \in Run, Answer(r) PROVE TypeOK'
  <2>1. PICK t \in Turn : frame' = [frame EXCEPT
         ![r] = [@ EXCEPT !.pc = "tracing", !.uses = t.uses, !.usage = t.usage,
                          !.stops = Fired(r, t)]]
    BY <1>6 DEF Answer
  <2>2. t.uses \in Seq(ToolUse) /\ t.usage \in Nat
    BY InterpreterAssumption DEF AssistantTurn
  <2>3. Fired(r, t) \in SUBSET StopCondition
    BY DEF Fired, TypeOK, LoopPolicy
  <2>4. frame' \in [Run -> Frame]
    BY ZenonT(30), <2>1, <2>2, <2>3, <1>f, FrameUpdates DEF PC
  <2> QED
    BY <1>6, <1>f, <2>4, TypeFrame DEF Answer, bounds
<1>7. ASSUME NEW r \in Run, Trace(r) PROVE TypeOK'
  <2>1. frame' \in [Run -> Frame]
    <3>1. /\ [frame[r] EXCEPT !.pc = "final", !.outcome = "failed"] \in Frame
          /\ [frame[r] EXCEPT !.pc = "tools"] \in Frame
      BY ZenonT(30), <1>f, FrameUpdates DEF PC
    <3> QED
      BY <1>7, <1>f, <3>1 DEF Trace, Goto
  <2>2. tokens' \in [Run -> Nat]
    BY <1>7, <1>f DEF Trace, Traced, TypeOK, Frame
  <2> QED
    BY <1>7, <2>1, <2>2 DEF Trace, TypeOK, bounds
<1>8. ASSUME NEW r \in Run, AnswerPlan(r) PROVE TypeOK'
  <2>1. PICK t \in Turn :
          /\ Traced(r, t.usage)
          /\ frame' = [frame EXCEPT
            ![r] = [@ EXCEPT !.spent = frame[r].spent + t.usage,
                             !.pc = IF BudgetStop(r, frame[r].spent + t.usage)
                                    THEN "final" ELSE "boundary"]]
    BY <1>8 DEF AnswerPlan
  <2>2. t.usage \in Nat
    BY InterpreterAssumption DEF AssistantTurn
  <2>3. frame' \in [Run -> Frame]
    <3> DEFINE x == IF BudgetStop(r, frame[r].spent + t.usage) THEN "final" ELSE "boundary"
    <3>1. frame[r].spent + t.usage \in Nat /\ x \in PC
      BY SMTT(40), <1>n, <2>2 DEF PC
    <3>2. [frame[r] EXCEPT !.spent = frame[r].spent + t.usage, !.pc = x] \in Frame
      BY ZenonT(30), <1>f, <3>1, FrameUpdates
    <3>3. frame' = [frame EXCEPT ![r] =
                      [frame[r] EXCEPT !.spent = frame[r].spent + t.usage, !.pc = x]]
      BY <2>1
    <3> HIDE DEF x
    <3> QED
      BY <1>f, <3>2, <3>3
  <2>4. tokens' \in [Run -> Nat]
    BY <2>1, <2>2 DEF Traced, TypeOK
  <2> QED
    BY <1>8, <2>3, <2>4 DEF AnswerPlan, TypeOK, bounds
<1>9. ASSUME NEW r \in Run, Refuse(r) PROVE TypeOK'
  <2>1. frame' \in [Run -> Frame]
    BY ZenonT(30), <1>9, <1>f, FrameUpdates DEF Refuse, PC
  <2> QED
    BY ZenonT(30), <1>9, <1>f, <2>1, TypeFrame DEF Refuse, bounds
<1>t. ASSUME NEW r \in Run, Using(r) PROVE Tail(frame[r].uses) \in Seq(ToolUse)
  <2>1. frame[r].uses \in Seq(ToolUse) /\ frame[r].uses # << >>
    BY <1>t, <1>f DEF Using, Frame
  <2> QED
    BY <2>1
<1>10. ASSUME NEW r \in Run, CallTool(r) PROVE TypeOK'
  <2>1. PICK e \in BOOLEAN :
          /\ steps' = [steps EXCEPT ![r] = Failing(@, e)]
          /\ frame' = [frame EXCEPT
               ![r] = [frame[r] EXCEPT !.uses = Tail(frame[r].uses),
                                       !.saw_failure = frame[r].saw_failure \/ e,
                                       !.saw_stop = frame[r].saw_stop \/ Next1(r) = "stop"]]
    BY <1>10 DEF CallTool
  <2>2. Tail(frame[r].uses) \in Seq(ToolUse)
    BY <1>10, <1>t DEF CallTool
  <2>3. frame' \in [Run -> Frame]
    <3> DEFINE a == frame[r].saw_failure \/ e
               b == frame[r].saw_stop \/ Next1(r) = "stop"
    <3>1. a \in BOOLEAN /\ b \in BOOLEAN
      BY ZenonT(30)
    <3>2. [frame[r] EXCEPT !.uses = Tail(frame[r].uses), !.saw_failure = a, !.saw_stop = b]
            \in Frame
      BY ZenonT(60), <1>f, <2>2, <3>1, FrameUpdates
    <3>3. frame' = [frame EXCEPT ![r] = [frame[r] EXCEPT
             !.uses = Tail(frame[r].uses), !.saw_failure = a, !.saw_stop = b]]
      BY <2>1
    <3> HIDE DEF a, b
    <3> QED
      BY <1>f, <3>2, <3>3
  <2>4. steps' \in [Run -> Seq(Step)]
    <3>1. Len(steps[r]) > 0
      BY <1>10 DEF CallTool, Using, Inv, RunInv, Counted, InTurn
    <3> QED
      BY <2>1, <3>1, FailingTypes DEF TypeOK, Step
  <2> QED
    BY <1>10, <2>3, <2>4 DEF CallTool, TypeOK, bounds, Step
<1>11. ASSUME NEW r \in Run, Gate(r) PROVE TypeOK'
  <2>1. frame' \in [Run -> Frame]
    <3>1. Tail(frame[r].uses) \in Seq(ToolUse)
      BY <1>11, <1>t DEF Gate
    <3>2. CASE frame' = [frame EXCEPT ![r].pc = "spawning"]
      BY ZenonT(30), <1>f, <3>2, FrameUpdates DEF PC
    <3>3. CASE frame' = [frame EXCEPT ![r].uses = Tail(frame[r].uses)]
      BY ZenonT(30), <1>f, <3>1, <3>3, FrameUpdates
    <3> QED
      BY <1>11, <3>2, <3>3 DEF Gate, Goto
  <2> QED
    BY <1>11, <1>f, <2>1, TypeFrame DEF Gate, bounds
<1>12. ASSUME NEW r \in Run, Spawn(r) PROVE TypeOK'
  <2>1. PICK c \in Run :
          /\ parent' = [parent EXCEPT ![c] = r]
          /\ \E b, t \in Budget : policy' = [policy EXCEPT ![c] = ChildPolicy(r, b, t)]
          /\ frame' = [frame EXCEPT ![r].pc = "waiting", ![c] = Entered(c, r)]
    BY <1>12 DEF Spawn, Unused
  <2>2. Entered(c, r) \in Frame
    BY FrameTypes
  <2>3. frame' \in [Run -> Frame]
    BY ZenonT(30), <2>1, <2>2, <1>f, FrameUpdates DEF PC
  <2>4. policy' \in [Run -> LoopPolicy]
    <3>1. \A b, t \in Budget : ChildPolicy(r, b, t) \in LoopPolicy
      <4>1. policy[r].max_depth \in Nat /\ policy[r].max_fanout \in Nat
        BY DEF TypeOK, LoopPolicy
      <4> QED
        BY <4>1, InterpreterAssumption DEF ChildPolicy, LoopPolicy, StopCondition, Planning
    <3> QED
      BY <2>1, <3>1 DEF TypeOK
  <2>5. parent' \in [Run -> Run \cup {None}]
    BY <2>1 DEF TypeOK
  <2> QED
    BY <1>12, <2>3, <2>4, <2>5 DEF Spawn, TypeOK, bounds
<1>13. ASSUME NEW r \in Run, EndTurn(r) PROVE TypeOK'
  <2>1. frame' \in [Run -> Frame]
    <3>1. frame[r].spent + frame[r].usage \in Nat /\ 0 \in Nat
      BY <1>n
    <3>2. ReplanNext(r, frame[r]) \in BOOLEAN /\ {} \in SUBSET StopCondition
      BY DEF ReplanNext
    <3>3. PICK x \in {"final", "boundary"} : frame' = [frame EXCEPT ![r] =
            [frame[r] EXCEPT !.spent = frame[r].spent + frame[r].usage, !.usage = 0,
                             !.stops = {}, !.pc = x, !.plan_next = ReplanNext(r, frame[r])]]
      BY <1>13 DEF EndTurn
    <3>4. [frame[r] EXCEPT !.spent = frame[r].spent + frame[r].usage, !.usage = 0,
                           !.stops = {}, !.pc = x, !.plan_next = ReplanNext(r, frame[r])] \in Frame
      <4>1. x \in PC
        BY DEF PC
      <4> HIDE DEF PC
      <4> QED
        BY ZenonT(60), <1>f, <3>1, <3>2, <4>1, FrameUpdates
    <3> QED
      BY <1>f, <3>3, <3>4
  <2> QED
    BY <1>13, <1>f, <2>1, TypeFrame DEF EndTurn, bounds
<1>14. ASSUME NEW r \in Run, Finalize(r) PROVE TypeOK'
  <2>1. Idle \in Frame
    BY FrameTypes
  <2>2. frame' \in [Run -> Frame]
    <3>1. CASE frame[r].caller = None
      BY <1>14, <1>f, <2>1, <3>1 DEF Finalize, Returned
    <3>2. CASE frame[r].caller # None
      <4> DEFINE p == frame[r].caller
      <4>1. p \in Run /\ At(p, "waiting")
        BY <3>2, <1>f DEF Frame, Inv, Awaited
      <4>2. frame[p].uses \in Seq(ToolUse) /\ frame[p].uses # << >>
        BY <4>1, <1>f DEF Frame, Inv, RunInv, Holding
      <4>3. Tail(frame[p].uses) \in Seq(ToolUse)
        BY <4>2
      <4> QED
        BY ZenonT(60), <1>14, <1>f, <2>1, <3>2, <4>1, <4>3, FrameUpdates DEF Finalize, Returned, PC
    <3> QED
      BY <3>1, <3>2
  <2>3. frame[r].outcome \in {"succeeded", "failed"}
    BY <1>f DEF Frame
  <2>4. status' \in [Run -> {"pending", "running", "succeeded", "failed", "cancelled"}]
    BY <1>14, <2>3 DEF Finalize, TypeOK
  <2> QED
    BY <1>14, <2>2, <2>4 DEF Finalize, TypeOK, bounds
<1>15. ASSUME NEW r \in Run, Conflict(r) \/ Raise(r) PROVE TypeOK'
  <2>1. frame' \in [Run -> Frame]
    <3>1. frame' = [frame EXCEPT ![r].pc = "raised"]
      BY <1>15 DEF Conflict, Raise, Goto
    <3> QED
      BY ZenonT(30), <1>f, <3>1, FrameUpdates DEF PC
  <2> QED
    BY <1>15, <1>f, <2>1, TypeFrame DEF Conflict, Raise, bounds
<1>16. ASSUME NEW r \in Run, Unwind(r) PROVE TypeOK'
  <2>1. Idle \in Frame
    BY FrameTypes
  <2>2. frame[r].caller \in Run \cup {None}
    BY ZenonT(30), <1>f DEF Frame
  <2>3. frame' \in [Run -> Frame]
    BY ZenonT(60), <1>16, <1>f, <2>1, <2>2, FrameUpdates DEF Unwind, PC
  <2> QED
    BY <1>16, <1>f, <2>3, TypeFrame DEF Unwind, bounds
<1>17. ASSUME NEW r \in Run, Cancel(r) PROVE TypeOK'
  <2>1. frame' \in [Run -> Frame]
    BY ZenonT(30), <1>17, <1>f, FrameUpdates DEF Cancel
  <2>2. status' \in [Run -> {"pending", "running", "succeeded", "failed", "cancelled"}]
    BY <1>17 DEF Cancel, TypeOK
  <2> QED
    BY <1>17, <1>f, <2>1, <2>2 DEF Cancel, TypeOK
<1>18. CASE UNCHANGED vars
  BY <1>18 DEF vars, durable, bounds, TypeOK
<1> QED
  BY <1>1, <1>2, <1>3, <1>4, <1>5, <1>6, <1>7, <1>8, <1>9, <1>10, <1>11, <1>12, <1>13,
     <1>14, <1>15, <1>16, <1>17, <1>18 DEF Next, Drive

----------------------------------------------------------------------------
(* Runs one by one.                                                        *)

\* A run that a step does not touch.
Same(q) ==
  /\ frame'[q] = frame[q] /\ steps'[q] = steps[q] /\ tokens'[q] = tokens[q]
  /\ status'[q] = status[q] /\ policy'[q] = policy[q] /\ parent'[q] = parent[q]

LEMMA SameInv == ASSUME NEW q \in Run, RunInv(q), Same(q) PROVE RunInv(q)'
<1> USE DEF Same, At, InTurn, Driven
<1>1. Counted(q)'
  BY DEF RunInv, Counted
<1>2. Ledger(q)' /\ Cancelled(q)' /\ Holding(q)'
  BY DEF RunInv, Ledger, Cancelled, Holding
<1>3. Within(q)'
  BY DEF RunInv, Within, Taken
<1>4. Earned(q)'
  BY DEF RunInv, Earned, LastFailed
<1>5. Fresh(q)'
  BY DEF RunInv, Fresh, Exists
<1> QED
  BY <1>1, <1>2, <1>3, <1>4, <1>5 DEF RunInv

\* A step of one frame that neither begins nor ends it or a wait.
Steady(r) ==
  /\ \A q \in Run \ {r} : Same(q)
  /\ frame'[r].caller = frame[r].caller
  /\ frame[r].pc \notin {"idle", "waiting"} /\ frame'[r].pc \notin {"idle", "waiting"}

LEMMA SteadyInv ==
  ASSUME Inv, NEW r \in Run, Steady(r), TypeOK', RunInv(r)'
  PROVE  Inv'
<1>1. \A q \in Run \ {r} : RunInv(q)'
  BY SameInv DEF Inv, Steady
<1>2. \A q \in Run : frame'[q].caller = frame[q].caller /\ (At(q, "idle")' <=> At(q, "idle"))
                      /\ (At(q, "waiting")' <=> At(q, "waiting"))
  BY DEF Steady, Same, At
<1>3. \A q \in Run : frame[q].caller \in Run \cup {None}
  BY DEF Inv, TypeOK, Frame
<1>4. ASSUME NEW q \in Run PROVE Awaited(q)'
  BY <1>2, <1>3 DEF Inv, Awaited
<1> QED
  BY <1>1, <1>4 DEF Inv

LEMMA HaltInv == ASSUME Inv, NEW r \in Run, Halt(r), TypeOK' PROVE Inv'
<1>1. frame[r] \in Frame
  BY DEF Inv, TypeOK
<1>2. frame'[r] = [frame[r] EXCEPT !.pc = "final"]
  BY DEF Inv, TypeOK, Halt, Goto
<1>3. /\ frame'[r].pc = "final" /\ frame'[r].caller = frame[r].caller
      /\ frame'[r].step_count = frame[r].step_count /\ frame'[r].stale = frame[r].stale
  BY <1>1, <1>2 DEF Frame
<1>4. Steady(r)
  BY <1>3 DEF Halt, Goto, Steady, Same, Inv, TypeOK, durable, At
<1>5. RunInv(r)'
  BY <1>3 DEF Halt, Inv, RunInv, At, InTurn, Driven, Counted, Ledger, Within, Taken, Earned, LastFailed, Cancelled, Fresh, Exists, Holding, durable
<1> QED
  BY <1>4, <1>5, SteadyInv

LEMMA ResumeInv == ASSUME Inv, NEW r \in Run, Resume(r), TypeOK' PROVE Inv'
<1> USE DEF At, InTurn, Driven
<1>1. frame[r] \in Frame
  BY DEF Inv, TypeOK
<1>n. frame[r].ran \in Nat /\ (Len(steps[r]) = 0 <=> steps[r] = << >>)
  BY <1>1 DEF Frame, Inv, TypeOK
<1>2. frame'[r] = Loaded(r)
  BY DEF Resume, LeadingPlan, Goto, Inv, TypeOK
<1>3. /\ frame'[r].pc = "boundary" /\ frame'[r].step_count = Len(steps[r])
      /\ frame'[r].spent = tokens[r] /\ frame'[r].plan_next = LeadingPlan(r)
      /\ frame'[r].caller = frame[r].caller
      /\ frame'[r].stale = frame[r].stale
      /\ frame'[r].ran = frame[r].ran
  BY <1>1, <1>2, <1>n DEF Frame, Loaded, ResumedTokens
<1>4. Steady(r)
  BY <1>2, <1>3, <1>n DEF Resume, LeadingPlan, Goto, Steady, Same, Inv, TypeOK, durable
<1>5. RunInv(r)'
  <2>1. Counted(r)'
    BY <1>2, <1>3, <1>n DEF Resume, LeadingPlan, Counted, Inv, RunInv, durable
  <2>2. Ledger(r)'
    BY <1>2, <1>3, <1>n DEF Resume, LeadingPlan, Ledger, Inv, RunInv, durable
  <2>3. Within(r)'
    BY <1>2, <1>3, <1>n DEF Resume, LeadingPlan, Within, Taken, Inv, RunInv, durable
  <2>4. Earned(r)'
    BY <1>2, <1>3, <1>n DEF Resume, LeadingPlan, Earned, LastFailed, Inv, RunInv, durable
  <2>5. Cancelled(r)'
    BY <1>2, <1>3, <1>n DEF Resume, LeadingPlan, Cancelled, Inv, RunInv, durable
  <2>6. Fresh(r)'
    BY <1>2, <1>3, <1>n DEF Resume, LeadingPlan, Fresh, Exists, Inv, RunInv, durable
  <2>7. Holding(r)'
    BY <1>2, <1>3, <1>n DEF Resume, LeadingPlan, Holding, Inv, RunInv, durable
  <2> QED
    BY <2>1, <2>2, <2>3, <2>4, <2>5, <2>6, <2>7 DEF RunInv
<1> QED
  BY <1>4, <1>5, SteadyInv

LEMMA MarkInv == ASSUME Inv, NEW r \in Run, Mark(r), TypeOK' PROVE Inv'
<1> USE DEF At, InTurn, Driven
<1>1. frame[r] \in Frame
  BY DEF Inv, TypeOK
<1>n. frame[r].ran \in Nat /\ (Len(steps[r]) = 0 <=> steps[r] = << >>)
  BY <1>1 DEF Frame, Inv, TypeOK
<1>2. frame'[r] = Loaded(r)
  BY DEF Mark, LeadingPlan, Goto, Inv, TypeOK
<1>3. /\ frame'[r].pc = "boundary" /\ frame'[r].step_count = Len(steps[r])
      /\ frame'[r].spent = tokens[r] /\ frame'[r].plan_next = LeadingPlan(r)
      /\ frame'[r].caller = frame[r].caller
      /\ frame'[r].stale = frame[r].stale
      /\ frame'[r].ran = frame[r].ran
  BY <1>1, <1>2, <1>n DEF Frame, Loaded, ResumedTokens
<1>4. Steady(r)
  BY <1>2, <1>3, <1>n DEF Mark, LeadingPlan, Goto, Steady, Same, Inv, TypeOK, durable
<1>5. RunInv(r)'
  <2>1. Counted(r)'
    BY <1>2, <1>3, <1>n DEF Mark, LeadingPlan, Counted, Inv, RunInv, durable
  <2>2. Ledger(r)'
    BY <1>2, <1>3, <1>n DEF Mark, LeadingPlan, Ledger, Inv, RunInv, durable
  <2>3. Within(r)'
    BY <1>2, <1>3, <1>n DEF Mark, LeadingPlan, Within, Taken, Inv, RunInv, durable
  <2>4. Earned(r)'
    BY <1>2, <1>3, <1>n DEF Mark, LeadingPlan, Earned, LastFailed, Inv, RunInv, durable
  <2>5. Cancelled(r)'
    BY DEF Mark, Cancelled, Inv, TypeOK
  <2>6. Fresh(r)'
    BY <1>2, <1>3, <1>n DEF Mark, LeadingPlan, Fresh, Exists, Inv, RunInv, durable
  <2>7. Holding(r)'
    BY <1>2, <1>3, <1>n DEF Mark, LeadingPlan, Holding, Inv, RunInv, durable
  <2> QED
    BY <2>1, <2>2, <2>3, <2>4, <2>5, <2>6, <2>7 DEF RunInv
<1> QED
  BY <1>4, <1>5, SteadyInv

LEMMA RefuseInv == ASSUME Inv, NEW r \in Run, Refuse(r), TypeOK' PROVE Inv'
<1> USE DEF At, InTurn, Driven
<1>1. frame[r] \in Frame
  BY DEF Inv, TypeOK
<1>2. frame'[r] = [frame[r] EXCEPT !.pc = "final", !.outcome = "failed"]
  BY DEF Refuse, Using, Goto, Inv, TypeOK
<1>3. /\ frame'[r].pc = "final"
      /\ frame'[r].caller = frame[r].caller
      /\ frame'[r].step_count = frame[r].step_count
      /\ frame'[r].stale = frame[r].stale
  BY <1>1, <1>2 DEF Frame
<1>4. Steady(r)
  BY <1>2, <1>3 DEF Refuse, Using, Goto, Steady, Same, Inv, TypeOK, durable
<1>5. RunInv(r)'
  <2>1. Counted(r)'
    BY <1>2, <1>3 DEF Refuse, Using, Counted, Inv, RunInv, durable
  <2>2. Ledger(r)'
    BY <1>2, <1>3 DEF Refuse, Using, Ledger, Inv, RunInv, durable
  <2>3. Within(r)'
    BY <1>2, <1>3 DEF Refuse, Using, Within, Taken, Inv, RunInv, durable
  <2>4. Earned(r)'
    BY <1>2, <1>3 DEF Refuse, Using, Earned, LastFailed, Inv, RunInv, durable
  <2>5. Cancelled(r)'
    BY <1>2, <1>3 DEF Refuse, Using, Cancelled, Inv, RunInv, durable
  <2>6. Fresh(r)'
    BY <1>2, <1>3 DEF Refuse, Using, Fresh, Exists, Inv, RunInv, durable
  <2>7. Holding(r)'
    BY <1>2, <1>3 DEF Refuse, Using, Holding, Inv, RunInv, durable
  <2> QED
    BY <2>1, <2>2, <2>3, <2>4, <2>5, <2>6, <2>7 DEF RunInv
<1> QED
  BY <1>4, <1>5, SteadyInv

Raising(r) == Conflict(r) \/ Raise(r)

LEMMA RaisingInv == ASSUME Inv, NEW r \in Run, Raising(r), TypeOK' PROVE Inv'
<1> USE DEF At, InTurn, Driven
<1>1. frame[r] \in Frame
  BY DEF Inv, TypeOK
<1>2. frame'[r] = [frame[r] EXCEPT !.pc = "raised"]
  BY DEF Raising, Conflict, Raise, Goto, Inv, TypeOK
<1>3. /\ frame'[r].pc = "raised"
      /\ frame'[r].caller = frame[r].caller
  BY <1>1, <1>2 DEF Frame
<1>4. Steady(r)
  BY <1>2, <1>3 DEF Raising, Conflict, Raise, Goto, Steady, Same, Inv, TypeOK, durable
<1>5. RunInv(r)'
  <2>1. Counted(r)'
    BY <1>2, <1>3 DEF Raising, Conflict, Raise, Counted, Inv, RunInv, durable
  <2>2. Ledger(r)'
    BY <1>2, <1>3 DEF Raising, Conflict, Raise, Ledger, Inv, RunInv, durable
  <2>3. Within(r)'
    BY <1>2, <1>3 DEF Raising, Conflict, Raise, Within, Taken, Inv, RunInv, durable
  <2>4. Earned(r)'
    BY <1>2, <1>3 DEF Raising, Conflict, Raise, Earned, LastFailed, Inv, RunInv, durable
  <2>5. Cancelled(r)'
    BY <1>2, <1>3 DEF Raising, Conflict, Raise, Cancelled, Inv, RunInv, durable
  <2>6. Fresh(r)'
    BY <1>2, <1>3 DEF Raising, Conflict, Raise, Fresh, Exists, Inv, RunInv, durable
  <2>7. Holding(r)'
    BY <1>2, <1>3 DEF Raising, Conflict, Raise, Holding, Inv, RunInv, durable
  <2> QED
    BY <2>1, <2>2, <2>3, <2>4, <2>5, <2>6, <2>7 DEF RunInv
<1> QED
  BY <1>4, <1>5, SteadyInv

LEMMA OpenStepInv == ASSUME Inv, NEW r \in Run, OpenStep(r), TypeOK' PROVE Inv'
<1> USE DEF At, InTurn, Driven
<1>1. frame[r] \in Frame
  BY DEF Inv, TypeOK
<1> DEFINE f == frame[r]
           s == steps[r]
           x == IF f.plan_next THEN "planning" ELSE "asking"
           new == [kind |-> IF f.plan_next THEN "planning" ELSE "turn", failed |-> FALSE]
<1>n. /\ f.step_count \in Nat /\ f.ran \in Nat /\ f.step_count = Len(s) /\ s \in Seq(Step)
      /\ policy[r].step_budget \in Nat
      /\ policy[r].step_budget # 0 => Len(s) < policy[r].step_budget
  <2>1. f.step_count = Len(s)
    BY DEF OpenStep, Inv, RunInv, Counted
  <2>2. f.step_count \in Nat /\ f.ran \in Nat
    BY <1>1 DEF Frame
  <2>3. s \in Seq(Step)
    BY DEF Inv, TypeOK, Step
  <2>4. policy[r].step_budget \in Nat
    BY DEF Inv, TypeOK, LoopPolicy
  <2>5. policy[r].step_budget # 0 => ~(f.step_count >= policy[r].step_budget)
    BY DEF OpenStep, AtStepBudget
  <2> QED
    BY <2>1, <2>2, <2>3, <2>4, <2>5
<1>s. /\ steps'[r] = Append(s, new) /\ Len(steps'[r]) = Len(s) + 1
      /\ \A n \in 1 .. Len(s) : steps'[r][n] = s[n]
      /\ steps'[r][Len(s) + 1] = new
  <2>1. steps'[r] = Append(s, new)
    BY DEF OpenStep, Inv, TypeOK
  <2> QED
    BY <2>1, <1>n
<1>2. frame'[r] = [f EXCEPT !.pc = x, !.step_count = f.step_count + 1, !.ran = f.ran + 1,
                            !.plan_next = FALSE, !.saw_stop = FALSE, !.saw_failure = FALSE]
  BY DEF OpenStep, Goto, Inv, TypeOK
<1>3. /\ frame'[r].pc = x /\ frame'[r].step_count = f.step_count + 1 /\ frame'[r].ran = f.ran + 1
      /\ ~frame'[r].plan_next /\ ~frame'[r].saw_failure
      /\ frame'[r].caller = frame[r].caller
      /\ frame'[r].stale = frame[r].stale
      /\ frame'[r].spent = frame[r].spent
  BY <1>1, <1>2, <1>n DEF Frame
<1>4. Steady(r)
  BY <1>2, <1>3, <1>n DEF OpenStep, Goto, Steady, Same, Inv, TypeOK, durable
<1>5. RunInv(r)'
  <2>1. Counted(r)'
    <3>1. policy'[r] = policy[r]
      BY DEF OpenStep
    <3>2. Len(steps'[r]) = Len(s) + 1 /\ Len(s) \in Nat /\ policy[r].step_budget \in Nat
      BY <1>n, <1>s
    <3>3. frame'[r].step_count = Len(s) + 1
      BY <1>3, <1>n
    <3> QED
      BY <1>n, <3>1, <3>2, <3>3 DEF Counted
  <2>2. Ledger(r)'
    BY <1>2, <1>3, <1>n DEF OpenStep, Ledger, Inv, RunInv, durable
  <2>3. Within(r)'
    BY <1>2, <1>3, <1>n DEF OpenStep, Within, Taken, Inv, RunInv, durable
  <2>4. Earned(r)'
    <3>1. DOMAIN steps'[r] = 1 .. Len(s) + 1 /\ DOMAIN s = 1 .. Len(s)
      BY <1>n, <1>s
    <3>2. ASSUME NEW n \in 1 .. Len(s), steps'[r][n].kind = "planning"
          PROVE  \/ policy[r].planning = "single" /\ n = 1
                 \/ policy[r].planning = "replan_on_failure" /\ n > 1 /\ steps'[r][n - 1].failed
      <4>1. n > 1 => n - 1 \in 1 .. Len(s)
        BY <1>n
      <4> QED
        BY <3>1, <3>2, <4>1, <1>s DEF Earned, Inv, RunInv
    <3>3. f.plan_next =>
            \/ policy[r].planning = "single" /\ Len(s) = 0
            \/ policy[r].planning = "replan_on_failure" /\ LastFailed(r)
      BY DEF OpenStep, Earned, Inv, RunInv
    <3>4. new.kind = "planning" =>
            \/ policy[r].planning = "single" /\ Len(s) + 1 = 1
            \/ policy[r].planning = "replan_on_failure" /\ Len(s) + 1 > 1 /\ steps'[r][Len(s)].failed
      BY <3>3, <1>n, <1>s DEF LastFailed
    <3>5. \A n \in DOMAIN steps'[r] : steps'[r][n].kind = "planning" =>
            \/ policy[r].planning = "single" /\ n = 1
            \/ policy[r].planning = "replan_on_failure" /\ n > 1 /\ steps'[r][n - 1].failed
      <4> HIDE DEF new
      <4> TAKE n \in DOMAIN steps'[r]
      <4>1. CASE n \in 1 .. Len(s)
        BY <3>2, <4>1
      <4>2. CASE n = Len(s) + 1
        BY <3>4, <4>2, <1>s, <1>n
      <4> QED
        BY <3>1, <4>1, <4>2, <1>n
    <3> QED
      BY <3>5, <1>2, <1>3 DEF OpenStep, Earned, durable
  <2>5. Cancelled(r)'
    BY <1>2, <1>3, <1>n DEF OpenStep, Cancelled, Inv, RunInv, durable
  <2>6. Fresh(r)'
    BY <1>2, <1>3, <1>n DEF OpenStep, Fresh, Exists, Inv, RunInv, durable
  <2>7. Holding(r)'
    BY <1>2, <1>3, <1>n DEF OpenStep, Holding, Inv, RunInv, durable
  <2> QED
    BY <2>1, <2>2, <2>3, <2>4, <2>5, <2>6, <2>7 DEF RunInv
<1> QED
  BY <1>4, <1>5, SteadyInv
LEMMA AnswerInv == ASSUME Inv, NEW r \in Run, Answer(r), TypeOK' PROVE Inv'
<1> USE DEF At, InTurn, Driven
<1>1. frame[r] \in Frame
  BY DEF Inv, TypeOK
<1>f. frame \in [Run -> Frame]
  BY DEF Inv, TypeOK
<1>2. PICK t \in Turn : frame' = [frame EXCEPT ![r] =
         [frame[r] EXCEPT !.pc = "tracing", !.uses = t.uses, !.usage = t.usage,
                          !.stops = Fired(r, t)]]
  BY DEF Answer
<1>3. /\ frame'[r].pc = "tracing"
      /\ frame'[r].caller = frame[r].caller
      /\ frame'[r].step_count = frame[r].step_count
      /\ frame'[r].stale = frame[r].stale
      /\ frame'[r].spent = frame[r].spent
      /\ frame'[r].saw_failure = frame[r].saw_failure
      /\ frame'[r].plan_next = frame[r].plan_next
  BY ZenonT(30), <1>1, <1>2, <1>f DEF Frame
<1>4. Steady(r)
  BY <1>2, <1>3, <1>f DEF Answer, Goto, Steady, Same, Inv, TypeOK, durable
<1>5. RunInv(r)'
  <2>1. Counted(r)'
    BY <1>2, <1>3, <1>f DEF Answer, Counted, Inv, RunInv, durable
  <2>2. Ledger(r)'
    BY <1>2, <1>3, <1>f DEF Answer, Ledger, Inv, RunInv, durable
  <2>3. Within(r)'
    BY <1>2, <1>3, <1>f DEF Answer, Within, Taken, Inv, RunInv, durable
  <2>4. Earned(r)'
    BY <1>2, <1>3, <1>f DEF Answer, Earned, LastFailed, Inv, RunInv, durable
  <2>5. Cancelled(r)'
    BY <1>2, <1>3, <1>f DEF Answer, Cancelled, Inv, RunInv, durable
  <2>6. Fresh(r)'
    BY <1>2, <1>3, <1>f DEF Answer, Fresh, Exists, Inv, RunInv, durable
  <2>7. Holding(r)'
    BY <1>2, <1>3, <1>f DEF Answer, Holding, Inv, RunInv, durable
  <2> QED
    BY <2>1, <2>2, <2>3, <2>4, <2>5, <2>6, <2>7 DEF RunInv
<1> QED
  BY <1>4, <1>5, SteadyInv

LEMMA TraceInv == ASSUME Inv, NEW r \in Run, Trace(r), TypeOK' PROVE Inv'
<1> USE DEF At, InTurn, Driven
<1>1. frame[r] \in Frame
  BY DEF Inv, TypeOK
<1>f. frame \in [Run -> Frame] /\ frame[r].usage \in Nat /\ tokens'[r] = tokens[r] + frame[r].usage
  BY <1>1 DEF Trace, Traced, Frame, Inv, TypeOK
<1>2. \/ frame'[r] = [frame[r] EXCEPT !.pc = "final", !.outcome = "failed"]
      \/ frame'[r] = [frame[r] EXCEPT !.pc = "tools"]
  BY <1>f DEF Trace, Goto
<1>3. /\ frame'[r].pc \in {"final", "tools"}
      /\ frame'[r].caller = frame[r].caller
      /\ frame'[r].step_count = frame[r].step_count
      /\ frame'[r].stale = frame[r].stale
      /\ frame'[r].spent = frame[r].spent
      /\ frame'[r].usage = frame[r].usage
      /\ frame'[r].saw_failure = frame[r].saw_failure
      /\ frame'[r].plan_next = frame[r].plan_next
  BY ZenonT(30), <1>1, <1>2, <1>f DEF Frame
<1>4. Steady(r)
  BY <1>2, <1>3, <1>f DEF Trace, Traced, Goto, Steady, Same, Inv, TypeOK, durable
<1>5. RunInv(r)'
  <2>1. Counted(r)'
    BY <1>2, <1>3, <1>f DEF Trace, Traced, Counted, Inv, RunInv, durable
  <2>2. Ledger(r)'
    BY <1>2, <1>3, <1>f DEF Trace, Traced, Ledger, Inv, RunInv, durable
  <2>3. Within(r)'
    BY <1>2, <1>3, <1>f DEF Trace, Traced, Within, Taken, Inv, RunInv, durable
  <2>4. Earned(r)'
    BY <1>2, <1>3, <1>f DEF Trace, Traced, Earned, LastFailed, Inv, RunInv, durable
  <2>5. Cancelled(r)'
    BY <1>2, <1>3, <1>f DEF Trace, Traced, Cancelled, Inv, RunInv, durable
  <2>6. Fresh(r)'
    BY <1>2, <1>3, <1>f DEF Trace, Traced, Fresh, Exists, Inv, RunInv, durable
  <2>7. Holding(r)'
    BY <1>2, <1>3, <1>f DEF Trace, Traced, Holding, Inv, RunInv, durable
  <2> QED
    BY <2>1, <2>2, <2>3, <2>4, <2>5, <2>6, <2>7 DEF RunInv
<1> QED
  BY <1>4, <1>5, SteadyInv

LEMMA AnswerPlanInv == ASSUME Inv, NEW r \in Run, AnswerPlan(r), TypeOK' PROVE Inv'
<1> USE DEF At, InTurn, Driven
<1>1. frame[r] \in Frame
  BY DEF Inv, TypeOK
<1>f. frame \in [Run -> Frame] /\ frame[r].spent \in Nat /\ tokens[r] \in Nat
  BY <1>1 DEF Frame, Inv, TypeOK
<1>2. PICK t \in Turn :
       /\ Traced(r, t.usage)
       /\ frame' = [frame EXCEPT
            ![r] = [frame[r] EXCEPT !.spent = frame[r].spent + t.usage,
                             !.pc = IF BudgetStop(r, frame[r].spent + t.usage)
                                    THEN "final" ELSE "boundary"]]
  BY DEF AnswerPlan
<1>t. tokens'[r] = tokens[r] + t.usage /\ t.usage \in Nat
  BY <1>2, InterpreterAssumption DEF Traced, Inv, TypeOK, AssistantTurn
<1>3. /\ frame'[r].pc = IF BudgetStop(r, frame[r].spent + t.usage) THEN "final" ELSE "boundary"
      /\ frame'[r].spent = frame[r].spent + t.usage
      /\ frame'[r].caller = frame[r].caller
      /\ frame'[r].step_count = frame[r].step_count
      /\ frame'[r].stale = frame[r].stale
      /\ frame'[r].plan_next = frame[r].plan_next
      /\ frame'[r].saw_failure = frame[r].saw_failure
  BY ZenonT(30), <1>1, <1>2, <1>f DEF Frame
<1>4. Steady(r)
  BY <1>2, <1>3, <1>f DEF AnswerPlan, Traced, Goto, Steady, Same, Inv, TypeOK, durable
<1>5. RunInv(r)'
  <2>1. Counted(r)'
    BY <1>2, <1>3, <1>f DEF AnswerPlan, Traced, Counted, Inv, RunInv, durable
  <2>2. Ledger(r)'
    BY <1>3, <1>t DEF AnswerPlan, Ledger, Inv, RunInv
  <2>3. Within(r)'
    <3>1. frame[r].spent = tokens[r]
      BY DEF AnswerPlan, Ledger, Inv, RunInv
    <3>2. policy[r].token_budget \in Nat
      BY DEF Inv, TypeOK, LoopPolicy
    <3>3. At(r, "boundary")' /\ policy[r].token_budget # 0 => tokens'[r] < policy[r].token_budget
      BY <1>3, <1>t, <1>f, <3>1, <3>2 DEF BudgetStop
    <3> QED
      BY <1>3, <3>3 DEF AnswerPlan, Within, Taken
  <2>4. Earned(r)'
    BY <1>2, <1>3, <1>f DEF AnswerPlan, Traced, Earned, LastFailed, Inv, RunInv, durable
  <2>5. Cancelled(r)'
    BY <1>2, <1>3, <1>f DEF AnswerPlan, Traced, Cancelled, Inv, RunInv, durable
  <2>6. Fresh(r)'
    BY <1>2, <1>3, <1>f DEF AnswerPlan, Traced, Fresh, Exists, Inv, RunInv, durable
  <2>7. Holding(r)'
    BY <1>2, <1>3, <1>f DEF AnswerPlan, Traced, Holding, Inv, RunInv, durable
  <2> QED
    BY <2>1, <2>2, <2>3, <2>4, <2>5, <2>6, <2>7 DEF RunInv
<1> QED
  BY <1>4, <1>5, SteadyInv
\* Marking the last step leaves the kinds and the failures recorded before.
LEMMA FailingKeeps ==
  ASSUME NEW s \in Seq(Step), NEW e \in BOOLEAN, Len(s) > 0
  PROVE  /\ DOMAIN Failing(s, e) = DOMAIN s /\ Len(Failing(s, e)) = Len(s)
         /\ \A n \in DOMAIN s :
              Failing(s, e)[n].kind = s[n].kind /\ (s[n].failed => Failing(s, e)[n].failed)
         /\ Failing(s, e)[Len(s)].failed = (s[Len(s)].failed \/ e)
<1> DEFINE g == [s[Len(s)] EXCEPT !.failed = s[Len(s)].failed \/ e]
<1>1. s[Len(s)] \in Step /\ Len(s) \in DOMAIN s
  OBVIOUS
<1>2. g.kind = s[Len(s)].kind /\ g.failed = (s[Len(s)].failed \/ e) /\ g \in Step
  BY <1>1 DEF Step
<1>3. Failing(s, e) = [s EXCEPT ![Len(s)] = g]
  BY DEF Failing
<1> HIDE DEF g
<1>4. DOMAIN Failing(s, e) = DOMAIN s /\ Len(Failing(s, e)) = Len(s)
  BY <1>1, <1>2, <1>3
<1>5. \A n \in DOMAIN s : Failing(s, e)[n] = IF n = Len(s) THEN g ELSE s[n]
  BY <1>1, <1>3
<1> QED
  BY <1>1, <1>2, <1>4, <1>5

LEMMA CallToolInv == ASSUME Inv, NEW r \in Run, CallTool(r), TypeOK' PROVE Inv'
<1> USE DEF At, InTurn, Driven
<1>1. frame[r] \in Frame
  BY DEF Inv, TypeOK
<1>s. steps[r] \in Seq(Step) /\ Len(steps[r]) > 0
  BY DEF CallTool, Using, Counted, Inv, RunInv, TypeOK, Step
<1>2. PICK e \in BOOLEAN :
       /\ steps'[r] = Failing(steps[r], e)
       /\ frame'[r] = [frame[r] EXCEPT !.uses = Tail(frame[r].uses),
                             !.saw_failure = frame[r].saw_failure \/ e,
                             !.saw_stop = frame[r].saw_stop \/ Next1(r) = "stop"]
  BY DEF CallTool, Inv, TypeOK
<1>k. /\ DOMAIN steps'[r] = DOMAIN steps[r] /\ Len(steps'[r]) = Len(steps[r])
      /\ \A n \in DOMAIN steps[r] :
           steps'[r][n].kind = steps[r][n].kind /\ (steps[r][n].failed => steps'[r][n].failed)
      /\ steps'[r][Len(steps[r])].failed = (steps[r][Len(steps[r])].failed \/ e)
  BY <1>2, <1>s, FailingKeeps
<1>3. /\ frame'[r].pc = "tools" /\ frame'[r].saw_failure = (frame[r].saw_failure \/ e)
      /\ frame'[r].caller = frame[r].caller
      /\ frame'[r].step_count = frame[r].step_count
      /\ frame'[r].stale = frame[r].stale
      /\ frame'[r].spent = frame[r].spent
      /\ frame'[r].usage = frame[r].usage
      /\ frame'[r].plan_next = frame[r].plan_next
  BY <1>1, <1>2 DEF CallTool, Using, Frame
<1>4. Steady(r)
  BY <1>2, <1>3, <1>k DEF CallTool, Using, Goto, Steady, Same, Inv, TypeOK, durable
<1>5. RunInv(r)'
  <2>1. Counted(r)'
    BY <1>3, <1>k DEF CallTool, Using, Counted, Inv, RunInv
  <2>2. Ledger(r)'
    BY <1>2, <1>3, <1>k DEF CallTool, Using, Ledger, Inv, RunInv, durable
  <2>3. Within(r)'
    BY <1>2, <1>3, <1>k DEF CallTool, Using, Within, Taken, Inv, RunInv, durable
  <2>4. Earned(r)'
    <3>1. LastFailed(r) \/ e => LastFailed(r)'
      BY <1>k, <1>s DEF LastFailed
    <3>2. \A n \in DOMAIN steps'[r] : n > 1 => n - 1 \in DOMAIN steps[r]
      BY <1>k, <1>s
    <3>3. frame[r].saw_failure => LastFailed(r)
      BY DEF CallTool, Using, Earned, Inv, RunInv
    <3>4. ASSUME NEW n \in DOMAIN steps'[r], steps'[r][n].kind = "planning"
          PROVE  \/ policy[r].planning = "single" /\ n = 1
                 \/ policy[r].planning = "replan_on_failure" /\ n > 1 /\ steps'[r][n - 1].failed
      <4>1. \/ policy[r].planning = "single" /\ n = 1
            \/ policy[r].planning = "replan_on_failure" /\ n > 1 /\ steps[r][n - 1].failed
        <5>1. n \in DOMAIN steps[r] /\ steps[r][n].kind = "planning"
          BY <1>k, <3>4, Zenon
        <5> QED
          BY <5>1 DEF Earned, Inv, RunInv
      <4>2. n > 1 => n - 1 \in DOMAIN steps[r]
        BY <3>2
      <4>3. n > 1 /\ steps[r][n - 1].failed => steps'[r][n - 1].failed
        BY <1>k, <4>2, Zenon
      <4> QED
        BY <4>1, <4>3
    <3> QED
      BY <1>3, <3>1, <3>3, <3>4 DEF CallTool, Using, Earned, Inv, RunInv
  <2>5. Cancelled(r)'
    BY <1>2, <1>3, <1>k DEF CallTool, Using, Cancelled, Inv, RunInv, durable
  <2>6. Fresh(r)'
    BY <1>2, <1>3, <1>k DEF CallTool, Using, Fresh, Exists, Inv, RunInv, durable
  <2>7. Holding(r)'
    BY <1>2, <1>3, <1>k DEF CallTool, Using, Holding, Inv, RunInv, durable
  <2> QED
    BY <2>1, <2>2, <2>3, <2>4, <2>5, <2>6, <2>7 DEF RunInv
<1> QED
  BY <1>4, <1>5, SteadyInv

LEMMA GateInv == ASSUME Inv, NEW r \in Run, Gate(r), TypeOK' PROVE Inv'
<1> USE DEF At, InTurn, Driven
<1>1. frame[r] \in Frame
  BY DEF Inv, TypeOK
<1>2. \/ frame'[r] = [frame[r] EXCEPT !.pc = "spawning"]
      \/ frame'[r] = [frame[r] EXCEPT !.uses = Tail(frame[r].uses)]
  BY DEF Gate, Using, Goto, Inv, TypeOK
<1>3. /\ frame'[r].pc \in {"spawning", "tools"}
      /\ frame'[r].pc = "spawning" => frame'[r].uses = frame[r].uses
      /\ frame'[r].caller = frame[r].caller
      /\ frame'[r].step_count = frame[r].step_count
      /\ frame'[r].stale = frame[r].stale
      /\ frame'[r].spent = frame[r].spent
      /\ frame'[r].usage = frame[r].usage
      /\ frame'[r].saw_failure = frame[r].saw_failure
      /\ frame'[r].plan_next = frame[r].plan_next
  BY <1>1, <1>2 DEF Gate, Using, Frame
<1>4. Steady(r)
  BY <1>2, <1>3 DEF Gate, Using, Goto, Steady, Same, Inv, TypeOK, durable
<1>5. RunInv(r)'
  <2>1. Counted(r)'
    BY <1>2, <1>3 DEF Gate, Using, Counted, Inv, RunInv, durable
  <2>2. Ledger(r)'
    BY <1>2, <1>3 DEF Gate, Using, Ledger, Inv, RunInv, durable
  <2>3. Within(r)'
    BY <1>2, <1>3 DEF Gate, Using, Within, Taken, Inv, RunInv, durable
  <2>4. Earned(r)'
    BY <1>2, <1>3 DEF Gate, Using, Earned, LastFailed, Inv, RunInv, durable
  <2>5. Cancelled(r)'
    BY <1>2, <1>3 DEF Gate, Using, Cancelled, Inv, RunInv, durable
  <2>6. Fresh(r)'
    BY <1>2, <1>3 DEF Gate, Using, Fresh, Exists, Inv, RunInv, durable
  <2>7. Holding(r)'
    BY <1>2, <1>3 DEF Gate, Using, Holding, Inv, RunInv, durable
  <2> QED
    BY <2>1, <2>2, <2>3, <2>4, <2>5, <2>6, <2>7 DEF RunInv
<1> QED
  BY <1>4, <1>5, SteadyInv

LEMMA EndTurnInv == ASSUME Inv, NEW r \in Run, EndTurn(r), TypeOK' PROVE Inv'
<1> USE DEF At, InTurn, Driven
<1>1. frame[r] \in Frame
  BY DEF Inv, TypeOK
<1>2. PICK x \in {"final", "boundary"} :
       /\ frame'[r] = [frame[r] EXCEPT !.spent = frame[r].spent + frame[r].usage, !.usage = 0,
                             !.stops = {}, !.pc = x, !.plan_next = ReplanNext(r, frame[r])]
       /\ x = "boundary" => ~BudgetStop(r, frame[r].spent + frame[r].usage)
  BY DEF EndTurn, Inv, TypeOK
<1>3. /\ frame'[r].pc = x /\ frame'[r].spent = frame[r].spent + frame[r].usage
      /\ frame'[r].plan_next = ReplanNext(r, frame[r])
      /\ frame'[r].caller = frame[r].caller
      /\ frame'[r].step_count = frame[r].step_count
      /\ frame'[r].stale = frame[r].stale
  BY <1>1, <1>2 DEF Frame
<1>4. Steady(r)
  BY <1>2, <1>3 DEF EndTurn, Goto, Steady, Same, Inv, TypeOK, durable
<1>5. RunInv(r)'
  <2>1. Counted(r)'
    BY <1>2, <1>3 DEF EndTurn, Counted, Inv, RunInv, durable
  <2>2. Ledger(r)'
    BY <1>2, <1>3 DEF EndTurn, Ledger, Inv, RunInv, durable
  <2>3. Within(r)'
    <3>1. /\ frame[r].spent + frame[r].usage = tokens[r] /\ tokens[r] \in Nat
          /\ policy[r].token_budget \in Nat
      BY DEF EndTurn, Ledger, Inv, RunInv, TypeOK, LoopPolicy
    <3>2. x = "boundary" /\ policy[r].token_budget # 0 => tokens[r] < policy[r].token_budget
      BY <1>2, <3>1 DEF BudgetStop
    <3> QED
      BY <1>3, <3>2 DEF EndTurn, Within, Taken, durable
  <2>4. Earned(r)'
    BY <1>3 DEF EndTurn, ReplanNext, Earned, LastFailed, Inv, RunInv, durable
  <2>5. Cancelled(r)'
    BY <1>2, <1>3 DEF EndTurn, Cancelled, Inv, RunInv, durable
  <2>6. Fresh(r)'
    BY <1>2, <1>3 DEF EndTurn, Fresh, Exists, Inv, RunInv, durable
  <2>7. Holding(r)'
    BY <1>2, <1>3 DEF EndTurn, Holding, Inv, RunInv, durable
  <2> QED
    BY <2>1, <2>2, <2>3, <2>4, <2>5, <2>6, <2>7 DEF RunInv
<1> QED
  BY <1>4, <1>5, SteadyInv
\* Cancelling a run changes nothing else that the invariant reads.
LEMMA CancelInv == ASSUME Inv, NEW r \in Run, Cancel(r), TypeOK' PROVE Inv'
<1> USE DEF At, InTurn, Driven
<1>1. frame \in [Run -> Frame]
  BY DEF Inv, TypeOK
<1>2. frame'[r] = [frame[r] EXCEPT !.stale = frame[r].pc # "idle"]
  BY <1>1 DEF Cancel
<1>3. /\ frame'[r].stale = (frame[r].pc # "idle")
      /\ frame'[r].pc = frame[r].pc
      /\ frame'[r].caller = frame[r].caller
      /\ frame'[r].step_count = frame[r].step_count
      /\ frame'[r].spent = frame[r].spent
      /\ frame'[r].usage = frame[r].usage
      /\ frame'[r].ran = frame[r].ran
      /\ frame'[r].uses = frame[r].uses
      /\ frame'[r].plan_next = frame[r].plan_next
      /\ frame'[r].saw_failure = frame[r].saw_failure
  BY <1>1, <1>2 DEF Frame
<1>4. ASSUME NEW q \in Run \ {r} PROVE Same(q)
  BY <1>1, <1>4 DEF Cancel, Same, Inv, TypeOK
<1>5. ASSUME NEW q \in Run PROVE RunInv(q)'
  <2>1. CASE q # r
    BY <2>1, <1>4, SameInv DEF Inv
  <2>2. CASE q = r
    <3>1. Counted(r)' /\ Ledger(r)' /\ Within(r)' /\ Fresh(r)' /\ Holding(r)'
      BY <1>3 DEF Cancel, Counted, Ledger, Within, Taken, Fresh, Exists, Holding, Inv, RunInv
    <3>2. Earned(r)'
      BY <1>3 DEF Cancel, Earned, LastFailed, Inv, RunInv
    <3>3. Cancelled(r)'
      BY <1>3 DEF Cancelled
    <3> QED
      BY <2>2, <3>1, <3>2, <3>3 DEF RunInv
  <2> QED
    BY <2>1, <2>2
<1>6. \A q \in Run : frame'[q].pc = frame[q].pc /\ frame'[q].caller = frame[q].caller
  BY <1>3, <1>4 DEF Same
<1>7. \A q \in Run : Awaited(q)'
  BY SMTT(30), <1>1, <1>6 DEF Inv, Awaited, Frame
<1> QED
  BY <1>5, <1>7 DEF Inv

LEMMA StartInv == ASSUME Inv, NEW r \in Run, Start(r), TypeOK' PROVE Inv'
<1> USE DEF At, InTurn, Driven
<1>1. frame \in [Run -> Frame]
  BY DEF Inv, TypeOK
<1>2. frame'[r] = Entered(r, None)
  BY <1>1 DEF Start
<1>3. /\ frame'[r].pc = (IF status[r] = "running" THEN "resuming" ELSE "marking")
      /\ frame'[r].caller = None /\ frame'[r].ran = 0
  BY <1>2 DEF Entered, Idle
<1>4. ASSUME NEW q \in Run \ {r} PROVE Same(q)
  BY <1>1, <1>4 DEF Start, Same, durable
<1>5. ASSUME NEW q \in Run PROVE RunInv(q)'
  <2>1. CASE q # r
    BY <2>1, <1>4, SameInv DEF Inv
  <2>2. CASE q = r
    <3>1. Counted(r)' /\ Ledger(r)' /\ Within(r)' /\ Fresh(r)' /\ Holding(r)'
      BY <1>3 DEF Start, durable, Counted, Ledger, Within, Taken, Fresh, Exists, Holding,
                  Inv, RunInv
    <3>2. Earned(r)'
      BY <1>3 DEF Start, durable, Earned, LastFailed, Inv, RunInv
    <3>3. Cancelled(r)'
      BY <1>3 DEF Start, durable, Cancelled
    <3> QED
      BY <2>2, <3>1, <3>2, <3>3 DEF RunInv
  <2> QED
    BY <2>1, <2>2
<1>6. \A q \in Run : q # r => frame'[q] = frame[q]
  BY <1>4 DEF Same
<1>7. frame[r].pc = "idle" /\ frame[r].caller = None
  BY DEF Start, Inv, Awaited
<1>8. ASSUME NEW q \in Run PROVE Awaited(q)'
  <2>1. CASE q = r
    BY <2>1, <1>3 DEF Awaited
  <2>2. CASE q # r
    <3>1. frame[q].caller \in Run \cup {None}
      BY <1>1 DEF Frame
    <3> QED
      BY <2>2, <3>1, <1>3, <1>6, <1>7 DEF Awaited, Inv
  <2> QED
    BY <2>1, <2>2
<1> QED
  BY <1>5, <1>8 DEF Inv

\* When a frame ends, the one that awaited it goes on and nothing else is concerned.
LEMMA EndedAwaited ==
  ASSUME Inv, NEW r \in Run, ~At(r, "idle"), ~At(r, "waiting"), frame'[r].caller = None,
         \A q \in Run \ {r, frame[r].caller} : frame'[q] = frame[q],
         frame[r].caller # None =>
           /\ frame'[frame[r].caller].caller = frame[frame[r].caller].caller
           /\ frame'[frame[r].caller].pc # "idle"
  PROVE  \A q \in Run : Awaited(q)'
<1> USE DEF At
<1> DEFINE p == frame[r].caller
<1>1. \A q \in Run : frame[q].caller \in Run \cup {None}
  BY DEF Inv, TypeOK, Frame
<1>n. None \notin Run
  BY InterpreterAssumption
<1>2. p # None => p \in Run /\ At(p, "waiting") /\ p # r
  BY <1>1 DEF Inv, Awaited
<1>s. \A q \in Run : q # r /\ q # p => frame'[q] = frame[q]
  OBVIOUS
<1>w. p # None => frame'[p].caller = frame[p].caller /\ frame'[p].pc # "idle"
  OBVIOUS
<1> HIDE DEF p
<1> TAKE q \in Run
<1>3. CASE q = r
  BY <1>3 DEF Awaited
<1>4. CASE q # r
  <2> DEFINE w == frame[q].caller
  <2>1. frame'[q].caller = w /\ (~At(q, "idle") => ~At(q, "idle")')
    <3>1. CASE q = p
      BY <1>1, <1>w, <1>n, <3>1
    <3>2. CASE q # p
      BY <1>s, <1>4, <3>2
    <3> QED
      BY <3>1, <3>2
  <2>2. CASE w = None
    BY <2>1, <2>2 DEF Awaited
  <2>3. CASE w # None
    <3>1. At(w, "waiting") /\ ~At(q, "idle") /\ \A z \in Run : frame[z].caller = w => z = q
      BY <2>3 DEF Inv, Awaited
    <3>2. w \in Run /\ w # r /\ w # p
      BY <1>1, <1>4, <2>3, <3>1 DEF p
    <3>3. frame'[w].pc = "waiting"
      BY <1>s, <3>1, <3>2
    <3>4. ASSUME NEW z \in Run, frame'[z].caller = w PROVE z = q
      <4>1. z # r
        BY <2>3, <3>4
      <4>2. frame[z].caller = w
        BY <1>s, <1>w, <1>n, <3>4, <4>1
      <4> QED
        BY <3>1, <4>2
    <3> QED
      BY <2>1, <3>1, <3>3, <3>4 DEF Awaited
  <2> QED
    BY <2>2, <2>3
<1> QED
  BY <1>3, <1>4
LEMMA IdleInv ==
  ASSUME Inv, NEW r \in Run, frame'[r] = Idle, Exists(r)', steps'[r] = steps[r],
         tokens'[r] = tokens[r], policy'[r] = policy[r]
  PROVE  RunInv(r)'
<1> USE DEF At, InTurn, Driven
<1>1. frame'[r].pc = "idle"
  BY DEF Idle
<1>2. Counted(r)' /\ Ledger(r)' /\ Within(r)' /\ Holding(r)' /\ Cancelled(r)'
  BY <1>1 DEF Counted, Ledger, Within, Taken, Holding, Cancelled, Inv, RunInv
<1>3. Earned(r)'
  BY <1>1 DEF Earned, LastFailed, Inv, RunInv
<1> QED
  BY <1>2, <1>3 DEF Fresh, RunInv

LEMMA FinalizeInv == ASSUME Inv, NEW r \in Run, Finalize(r), TypeOK' PROVE Inv'
<1> USE DEF At, InTurn, Driven
<1>p. PICK p \in Run \cup {None} : p = frame[r].caller
  BY DEF Inv, TypeOK, Frame
<1>1. frame \in [Run -> Frame] /\ None \notin Run
  BY InterpreterAssumption DEF Inv, TypeOK
<1>2. p # None => p \in Run /\ p # r /\ frame[p].pc = "waiting"
  BY <1>1, <1>p DEF Finalize, MayFinalize, Inv, Awaited
<1>3. frame'[r] = Idle
  BY <1>1, <1>2, <1>p DEF Finalize, Returned
<1>4. \A q \in Run \ {r, p} : Same(q)
  BY <1>1, <1>2, <1>p DEF Finalize, Returned, Same, Inv, TypeOK
<1>5. p # None => frame'[p] = [frame[p] EXCEPT !.pc = "tools", !.uses = Tail(frame[p].uses)]
  BY <1>1, <1>2, <1>p DEF Finalize, Returned
<1>6. p # None => /\ frame'[p].pc = "tools"
                  /\ frame'[p].caller = frame[p].caller
                  /\ frame'[p].step_count = frame[p].step_count
                  /\ frame'[p].stale = frame[p].stale
                  /\ frame'[p].spent = frame[p].spent
                  /\ frame'[p].usage = frame[p].usage
                  /\ frame'[p].saw_failure = frame[p].saw_failure
                  /\ frame'[p].plan_next = frame[p].plan_next
  BY <1>1, <1>2, <1>5 DEF Frame
<1>7. RunInv(r)'
  <2>1. Exists(r)
    BY DEF Finalize, MayFinalize, Inv, RunInv, Fresh
  <2> QED
    BY <1>3, <2>1, IdleInv DEF Finalize, Exists
<1>8. ASSUME p # None PROVE RunInv(p)'
  <2>1. status'[p] = status[p]
    BY <1>1, <1>2, <1>8, <1>p DEF Finalize, Inv, TypeOK
  <2>2. Counted(p)' /\ Ledger(p)' /\ Within(p)' /\ Fresh(p)' /\ Holding(p)' /\ Cancelled(p)'
    BY <1>2, <1>6, <1>8, <2>1 DEF Finalize, Counted, Ledger, Within, Taken, Fresh, Exists,
       Holding, Cancelled, Inv, RunInv
  <2>3. Earned(p)'
    BY <1>2, <1>6, <1>8 DEF Finalize, Earned, LastFailed, Inv, RunInv
  <2> QED
    BY <2>2, <2>3 DEF RunInv
<1>9. \A q \in Run : RunInv(q)'
  <2> TAKE q \in Run
  <2>1. CASE q \in Run \ {r, p}
    BY SMTT(30), <1>4, <2>1, SameInv DEF Inv
  <2> QED
    BY <1>1, <1>7, <1>8, <2>1
<1>10. \A q \in Run : Awaited(q)'
  <2>1. frame'[r].caller = None
    BY <1>3 DEF Idle
  <2> QED
    BY <1>p, <1>4, <1>6, <2>1, EndedAwaited DEF Finalize, MayFinalize, Same
<1> QED
  BY <1>9, <1>10 DEF Inv

LEMMA UnwindInv == ASSUME Inv, NEW r \in Run, Unwind(r), TypeOK' PROVE Inv'
<1> USE DEF At, InTurn, Driven
<1>p. PICK p \in Run \cup {None} : p = frame[r].caller
  BY DEF Inv, TypeOK, Frame
<1>1. frame \in [Run -> Frame] /\ None \notin Run
  BY InterpreterAssumption DEF Inv, TypeOK
<1>2. p # None => p \in Run /\ p # r /\ frame[p].pc = "waiting"
  BY <1>1, <1>p DEF Unwind, Inv, Awaited
<1>3. frame'[r] = Idle
  BY <1>1, <1>2, <1>p DEF Unwind
<1>4. \A q \in Run \ {r, p} : Same(q)
  BY <1>1, <1>2, <1>p DEF Unwind, durable, Same
<1>5. p # None => frame'[p] = [frame[p] EXCEPT !.pc = "raised"]
  BY <1>1, <1>2, <1>p DEF Unwind
<1>6. p # None => /\ frame'[p].pc = "raised"
                  /\ frame'[p].caller = frame[p].caller
                  /\ frame'[p].step_count = frame[p].step_count
                  /\ frame'[p].stale = frame[p].stale
                  /\ frame'[p].spent = frame[p].spent
                  /\ frame'[p].usage = frame[p].usage
                  /\ frame'[p].saw_failure = frame[p].saw_failure
                  /\ frame'[p].plan_next = frame[p].plan_next
  BY <1>1, <1>2, <1>5 DEF Frame
<1>7. RunInv(r)'
  <2>1. Exists(r)
    BY DEF Unwind, Inv, RunInv, Fresh
  <2> QED
    BY <1>3, <2>1, IdleInv DEF Unwind, durable, Exists
<1>8. ASSUME p # None PROVE RunInv(p)'
  <2>1. status'[p] = status[p]
    BY <1>1, <1>2, <1>8, <1>p DEF Unwind, durable
  <2>2. Counted(p)' /\ Ledger(p)' /\ Within(p)' /\ Fresh(p)' /\ Holding(p)' /\ Cancelled(p)'
    BY <1>2, <1>6, <1>8, <2>1 DEF Unwind, durable, Counted, Ledger, Within, Taken, Fresh, Exists,
       Holding, Cancelled, Inv, RunInv
  <2>3. Earned(p)'
    BY <1>2, <1>6, <1>8 DEF Unwind, durable, Earned, LastFailed, Inv, RunInv
  <2> QED
    BY <2>2, <2>3 DEF RunInv
<1>9. \A q \in Run : RunInv(q)'
  <2> TAKE q \in Run
  <2>1. CASE q \in Run \ {r, p}
    BY SMTT(30), <1>4, <2>1, SameInv DEF Inv
  <2> QED
    BY <1>1, <1>7, <1>8, <2>1
<1>10. \A q \in Run : Awaited(q)'
  <2>1. frame'[r].caller = None
    BY <1>3 DEF Idle
  <2> QED
    BY ZenonT(40), <1>p, <1>4, <1>6, <2>1, EndedAwaited DEF Unwind, Same
<1> QED
  BY <1>9, <1>10 DEF Inv
LEMMA SpawnInv == ASSUME Inv, NEW r \in Run, Spawn(r), TypeOK' PROVE Inv'
<1> USE DEF At, InTurn, Driven
<1>1. frame \in [Run -> Frame] /\ parent \in [Run -> Run \cup {None}] /\ None \notin Run
  BY InterpreterAssumption DEF Inv, TypeOK
<1>2. PICK c \in Run :
        /\ ~Exists(c) /\ parent' = [parent EXCEPT ![c] = r]
        /\ \E s, t \in Budget : policy' = [policy EXCEPT ![c] = ChildPolicy(r, s, t)]
        /\ frame' = [frame EXCEPT ![r].pc = "waiting", ![c] = Entered(c, r)]
  BY DEF Spawn, Unused
<1>3. c # r /\ frame[c].pc = "idle" /\ steps[c] = << >> /\ frame[c].caller = None
  BY <1>2 DEF Spawn, Inv, RunInv, Fresh, Awaited
<1>4. frame'[c] = Entered(c, r) /\ frame'[r] = [frame[r] EXCEPT !.pc = "waiting"]
  BY <1>1, <1>2, <1>3
<1>5. /\ frame'[c].pc = (IF status[c] = "running" THEN "resuming" ELSE "marking")
      /\ frame'[c].caller = r /\ frame'[c].ran = 0
  BY <1>4 DEF Entered, Idle
<1>6. /\ frame'[r].pc = "waiting"
      /\ frame'[r].caller = frame[r].caller
      /\ frame'[r].step_count = frame[r].step_count
      /\ frame'[r].stale = frame[r].stale
      /\ frame'[r].spent = frame[r].spent
      /\ frame'[r].usage = frame[r].usage
      /\ frame'[r].uses = frame[r].uses
      /\ frame'[r].saw_failure = frame[r].saw_failure
      /\ frame'[r].plan_next = frame[r].plan_next
  BY <1>1, <1>4 DEF Frame
<1>7. \A q \in Run \ {r, c} : Same(q)
  BY <1>1, <1>2 DEF Spawn, Same, Inv, TypeOK
<1>8. policy'[r] = policy[r] /\ parent'[r] = parent[r] /\ parent'[c] = r
  BY <1>1, <1>2, <1>3 DEF Inv, TypeOK
<1>9. RunInv(r)'
  <2>1. Counted(r)' /\ Ledger(r)' /\ Within(r)' /\ Fresh(r)' /\ Holding(r)' /\ Cancelled(r)'
    BY <1>6, <1>8 DEF Spawn, Counted, Ledger, Within, Taken, Fresh, Exists, Holding,
       Cancelled, Inv, RunInv
  <2>2. Earned(r)'
    BY <1>6, <1>8 DEF Spawn, Earned, LastFailed, Inv, RunInv
  <2> QED
    BY <2>1, <2>2 DEF RunInv
<1>10. RunInv(c)'
  <2>1. steps'[c] = << >> /\ policy'[c].step_budget \in Nat
    BY <1>3 DEF Spawn, TypeOK, LoopPolicy
  <2>2. Counted(c)' /\ Ledger(c)' /\ Within(c)' /\ Fresh(c)' /\ Holding(c)' /\ Cancelled(c)'
    BY <1>1, <1>5, <1>8, <2>1 DEF Spawn, Counted, Ledger, Within, Taken, Fresh, Exists,
       Holding, Cancelled
  <2>3. Earned(c)'
    BY <1>5, <2>1 DEF Earned, LastFailed
  <2> QED
    BY <2>2, <2>3 DEF RunInv
<1>11. \A q \in Run : RunInv(q)'
  <2> TAKE q \in Run
  <2>1. CASE q \in Run \ {r, c}
    BY <1>7, <2>1, SameInv DEF Inv
  <2> QED
    BY <1>9, <1>10, <2>1
<1>12. ASSUME NEW q \in Run PROVE Awaited(q)'
  <2>1. frame[r].pc = "spawning" /\ \A z \in Run : frame[z].caller # r
    BY <1>1 DEF Spawn, Inv, Awaited
  <2>2. CASE q = c
    <3>1. \A z \in Run : z # c => frame'[z].caller # r
      BY <1>6, <1>7, <2>1 DEF Same
    <3> QED
      BY <1>5, <1>6, <2>2, <3>1 DEF Awaited
  <2>3. CASE q # c
    <3>1. PICK w \in Run \cup {None} : w = frame[q].caller
      BY <1>1 DEF Frame
    <3>2. frame'[q].caller = w
      BY <1>6, <1>7, <2>3, <3>1 DEF Same
    <3>3. CASE w = None
      BY <3>2, <3>3 DEF Awaited
    <3>4. CASE w # None
      <4>1. /\ w \in Run /\ frame[w].pc = "waiting" /\ frame[q].pc # "idle"
            /\ \A z \in Run : frame[z].caller = w => z = q
        BY <3>1, <3>4 DEF Inv, Awaited
      <4>2. w # r /\ w # c
        BY <1>3, <2>1, <4>1
      <4>3. frame'[w].pc = "waiting" /\ frame'[q].pc # "idle"
        BY <1>6, <1>7, <2>3, <4>1, <4>2 DEF Same
      <4>4. \A z \in Run : frame'[z].caller = w => z = q
        BY <1>5, <1>6, <1>7, <4>1, <4>2 DEF Same
      <4> QED
        BY <3>2, <4>3, <4>4 DEF Awaited
    <3> QED
      BY <3>3, <3>4
  <2> QED
    BY <2>2, <2>3
<1> QED
  BY <1>11, <1>12 DEF Inv

----------------------------------------------------------------------------
(* The invariant, and what follows from it.                                *)

LEMMA InvInit == Init => Inv
<1> SUFFICES ASSUME Init PROVE Inv
  OBVIOUS
<1>1. TypeOK
  BY TypeInit
<1>2. ASSUME NEW r \in Run PROVE RunInv(r) /\ Awaited(r)
  <2>1. frame[r] = Idle /\ steps[r] = << >> /\ tokens[r] = 0
    BY DEF Init
  <2>2. frame[r].pc = "idle" /\ frame[r].caller = None
    BY <2>1 DEF Idle
  <2>3. policy[r].step_budget \in Nat
    BY <1>1 DEF TypeOK, LoopPolicy
  <2>4. Counted(r) /\ Ledger(r) /\ Within(r) /\ Fresh(r) /\ Holding(r) /\ Cancelled(r)
    BY <2>1, <2>2, <2>3 DEF Counted, Ledger, Within, Taken, Fresh, Holding, Cancelled, At,
       InTurn, Driven
  <2>5. Earned(r) /\ Awaited(r)
    BY <2>1, <2>2 DEF Earned, LastFailed, Awaited, At, InTurn
  <2> QED
    BY <2>4, <2>5 DEF RunInv
<1> QED
  BY <1>1, <1>2 DEF Inv

LEMMA InvStep == Inv /\ [Next]_vars => Inv'
<1> SUFFICES ASSUME Inv, [Next]_vars PROVE Inv'
  OBVIOUS
<1>1. TypeOK'
  BY TypeStep
<1>2. CASE UNCHANGED vars
  <2>1. \A q \in Run : Same(q)
    BY <1>2 DEF Same, vars, durable
  <2>2. \A q \in Run : RunInv(q)'
    BY <2>1, SameInv DEF Inv
  <2>3. \A q \in Run : Awaited(q)'
    BY <1>2 DEF Inv, Awaited, At, vars
  <2> QED
    BY <1>1, <2>2, <2>3 DEF Inv
<1>3. ASSUME NEW r \in Run, Drive(r) PROVE Inv'
  BY <1>1, <1>3, MarkInv, ResumeInv, HaltInv, OpenStepInv, AnswerInv, TraceInv, AnswerPlanInv,
     RefuseInv, CallToolInv, GateInv, SpawnInv, EndTurnInv, FinalizeInv, RaisingInv, UnwindInv
     DEF Drive, Raising
<1>4. ASSUME NEW r \in Run, Start(r) \/ Raise(r) \/ Cancel(r) PROVE Inv'
  BY <1>1, <1>4, StartInv, RaisingInv, CancelInv DEF Raising
<1> QED
  BY <1>2, <1>3, <1>4 DEF Next

\* What a segment holds agrees with the runtime wherever it may be interrupted, and
\* frames await one another soundly.
THEOREM Invariance == Spec => []Inv
<1> QED
  BY InvInit, InvStep, PTL DEF Spec

\* The variables of the agent loop keep their types.
THEOREM TypeCorrect == Spec => []TypeOK
<1>1. Inv => TypeOK
  BY DEF Inv
<1> QED
  BY <1>1, Invariance, PTL

\* Over any number of segments a run records no more steps than its policy allows:
\* the count is read back from the recorded steps and compared before a step is opened.
THEOREM StepBudgets == Spec => []StepBudgetHolds
<1>1. Inv => StepBudgetHolds
  BY DEF Inv, RunInv, Counted, StepBudgetHolds
<1> QED
  BY <1>1, Invariance, PTL

\* Between two turns the counts of a segment are what the runtime holds, however the
\* segments before it ended.
THEOREM DurableProgress == Spec => []ProgressIsDurable
<1>1. Inv => ProgressIsDurable
  BY DEF Inv, RunInv, Counted, Ledger, Driven, At, ProgressIsDurable
<1> QED
  BY <1>1, Invariance, PTL

\* No segment asks again once the recorded tokens of its run have reached the budget.
THEOREM TokenBudgets == Spec => []TokenBudgetEndsSegment
<1>1. ASSUME Inv PROVE TokenBudgetEndsSegment
  <2>1. \A r \in Run : frame[r].ran \in Nat
    BY <1>1 DEF Inv, TypeOK, Frame
  <2> QED
    BY <1>1, <2>1 DEF Inv, RunInv, Within, Taken, At, TokenBudgetEndsSegment
<1> QED
  BY <1>1, Invariance, PTL

\* Planning steps come first, or right after a failed call, and resuming adds none.
THEOREM EarnedPlans == Spec => []PlansAreEarned
<1>1. Inv => PlansAreEarned
  BY DEF Inv, RunInv, Earned, PlansAreEarned
<1> QED
  BY <1>1, Invariance, PTL

\* A cancelled run is taken up again only by a run() that began after the cancellation.
THEOREM CancelKept == Spec => CancelIsKept
<1> DEFINE Kept(r) == (status[r] = "cancelled" /\ status'[r] # "cancelled") =>
                        At(r, "marking") /\ status'[r] = "running"
<1>1. ASSUME Inv, [Next]_vars PROVE \A r \in Run : Kept(r)
  <2>1. status \in [Run -> {"pending", "running", "succeeded", "failed", "cancelled"}]
    BY <1>1 DEF Inv, TypeOK
  <2>2. ASSUME NEW r \in Run, Mark(r) PROVE \A q \in Run : Kept(q)
    BY <2>1, <2>2 DEF Mark
  <2>3. ASSUME NEW r \in Run, Finalize(r) PROVE \A q \in Run : Kept(q)
    <3>1. status[r] # "cancelled"
      BY <1>1, <2>3 DEF Finalize, MayFinalize, At, Inv, RunInv, Cancelled, Driven
    <3> QED
      BY <2>1, <2>3, <3>1 DEF Finalize
  <2>4. ASSUME NEW r \in Run, Cancel(r) PROVE \A q \in Run : Kept(q)
    BY <2>1, <2>4 DEF Cancel
  <2>5. CASE status' = status
    BY SMTT(40), <2>5
  <2>6. ASSUME NEW r \in Run, Drive(r), ~Mark(r), ~Finalize(r) PROVE status' = status
    BY <2>6 DEF Drive, Resume, Halt, OpenStep, Answer, Trace, AnswerPlan, Refuse, CallTool,
       Gate, Spawn, EndTurn, Conflict, Unwind, durable
  <2>7. ASSUME NEW r \in Run, Start(r) \/ Raise(r) PROVE status' = status
    BY <2>7 DEF Start, Raise, durable
  <2>8. UNCHANGED vars => status' = status
    BY DEF vars, durable
  <2> QED
    BY <1>1, <2>2, <2>3, <2>4, <2>5, <2>6, <2>7, <2>8 DEF Next
<1>2. Inv /\ [Next]_vars => [\A r \in Run : Kept(r)]_vars
  BY <1>1
<1> QED
  BY <1>2, Invariance, PTL DEF Spec, CancelIsKept

----------------------------------------------------------------------------
(* The tree of runs.                                                       *)

\* Each run is one hop further from the root than its parent.
IsDepth(d) ==
  /\ d \in [Run -> Nat]
  /\ \A q \in Run : d[q] = IF parent[q] = None THEN 0 ELSE 1 + d[parent[q]]

Parents == parent \in [Run -> Run \cup {None}] /\ None \notin Run /\ Root \in Run /\ IsFiniteSet(Run)

Hops(par) == CHOOSE h : h = [q \in Run |-> IF par[q] = None THEN 0 ELSE 1 + h[par[q]]]

\* Where the hops are finite, they are what is counted.
LEMMA HopsAre ==
  ASSUME NEW par \in [Run -> Run \cup {None}], None \notin Run, NEW d \in [Run -> Nat],
         \A q \in Run : d[q] = IF par[q] = None THEN 0 ELSE 1 + d[par[q]]
  PROVE  \A r \in Run : Hops(par)[r] = d[r]
<1> DEFINE body(h) == [q \in Run |-> IF par[q] = None THEN 0 ELSE 1 + h[par[q]]]
           hops == CHOOSE h : h = body(h)
<1>1. d = body(d)
  OBVIOUS
<1>2. hops = body(hops)
  BY <1>1
<1>3. Hops(par) = hops
  BY DEF Hops
<1> HIDE DEF hops
<1>4. \A q \in Run : hops[q] = IF par[q] = None THEN 0 ELSE 1 + hops[par[q]]
  BY <1>2
<1> HIDE DEF body
<1> DEFINE T == {n \in Nat : \A q \in Run : d[q] = n => hops[q] = n}
<1>5. 0 \in T
  <2> SUFFICES ASSUME NEW q \in Run, d[q] = 0 PROVE hops[q] = 0
    OBVIOUS
  <2>1. par[q] = None
    OBVIOUS
  <2> QED BY <1>4, <2>1
<1>6. ASSUME NEW n \in Nat, n \in T PROVE n + 1 \in T
  <2> SUFFICES ASSUME NEW q \in Run, d[q] = n + 1 PROVE hops[q] = n + 1
    OBVIOUS
  <2>1. par[q] # None /\ par[q] \in Run
    OBVIOUS
  <2>2. d[par[q]] \in Nat /\ d[q] = 1 + d[par[q]]
    BY <2>1
  <2>3. d[par[q]] = n
    BY <2>2
  <2>4. hops[par[q]] = n
    BY <1>6, <2>1, <2>3
  <2> QED BY <1>4, <2>1, <2>4
<1>7. Nat \subseteq T
  <2> HIDE DEF T
  <2> QED BY <1>5, <1>6, Inductive
<1>8. \A q \in Run : d[q] \in Nat
  OBVIOUS
<1> QED BY <1>3, <1>7, <1>8

LEMMA DepthIs ==
  ASSUME Parents, NEW d, IsDepth(d) PROVE \A r \in Run : Depth(r) = d[r]
<1>1. \A r \in Run : Hops(parent)[r] = d[r]
  BY HopsAre DEF Parents, IsDepth
<1> QED BY <1>1 DEF Depth, Hops

\* The tree is one: every run but the root hangs from a run that exists.  It keeps the
\* root's bounds, which its children have inherited, and a spawn that has passed the gate
\* still fits: nobody else adds a child to the run that is about to.
TreeInv ==
  /\ parent[Root] = None
  /\ \A q \in Run : parent[q] # None => Exists(parent[q])
  /\ \A q \in Run : policy[q].max_depth = policy[Root].max_depth
                    /\ policy[q].max_fanout = policy[Root].max_fanout
  /\ \E d : IsDepth(d) /\ \A q \in Run : d[q] <= policy[Root].max_depth
  /\ \A q \in Run : Cardinality(Children(q)) <= policy[Root].max_fanout
  /\ \A q \in Run : At(q, "spawning") => DepthAllows(q) /\ FanoutAllows(q)

LEMMA TreeInit == Init => TreeInv
<1> SUFFICES ASSUME Init PROVE TreeInv
  OBVIOUS
<1>1. Root \in Run /\ policy \in [Run -> LoopPolicy]
  BY InterpreterAssumption DEF Init
<1>2. policy[Root].max_depth \in Nat /\ policy[Root].max_fanout \in Nat
  BY <1>1 DEF LoopPolicy
<1> DEFINE d == [q \in Run |-> 0]
<1>3. IsDepth(d) /\ \A q \in Run : d[q] <= policy[Root].max_depth
  BY <1>2 DEF Init, IsDepth
<1>4. \A q \in Run : Children(q) = {}
  BY InterpreterAssumption DEF Init, Children
<1>5. \A q \in Run : Cardinality(Children(q)) <= policy[Root].max_fanout
  BY <1>2, <1>4, FS_EmptySet
<1>6. \A q \in Run : ~At(q, "spawning")
  BY DEF Init, At, Idle
<1>7. \A q \in Run : policy[q] = policy[Root]
  BY <1>1 DEF Init
<1>8. parent[Root] = None /\ \A q \in Run : parent[q] = None
  BY <1>1 DEF Init
<1> QED BY <1>3, <1>5, <1>6, <1>7, <1>8 DEF TreeInv

\* A run comes to spawn through the gate only.
LEMMA SpawningGated ==
  ASSUME Inv, NEW r \in Run, NEW q \in Run, frame'[q].pc = "spawning", frame[q].pc # "spawning",
         Drive(r) \/ Start(r) \/ Raise(r) \/ Cancel(r)
  PROVE  Gate(q) /\ DepthAllows(q) /\ FanoutAllows(q)
<1> USE DEF At, Goto
<1>1. frame \in [Run -> Frame] /\ frame[r] \in Frame /\ frame[q] \in Frame
  BY DEF Inv, TypeOK
<1>2. ASSUME Mark(r) \/ Resume(r) \/ Halt(r) PROVE FALSE
  <2>1. Loaded(r).pc = "boundary"
    BY <1>1 DEF Loaded, Frame
  <2>2. frame'[r].pc \in {"boundary", "final"} /\ \A z \in Run \ {r} : frame'[z] = frame[z]
    <3>1. CASE Mark(r) \/ Resume(r)
      <4>1. frame' = [frame EXCEPT ![r] = Loaded(r)]
        BY <3>1 DEF Mark, Resume
      <4> QED BY <1>1, <2>1, <4>1
    <3>2. CASE Halt(r)
      BY <1>1, <3>2 DEF Halt, Frame
    <3> QED BY <1>2, <3>1, <3>2
  <2> QED BY <2>2
<1>3. ASSUME OpenStep(r) PROVE FALSE
  <2>1. frame'[r].pc \in {"planning", "asking"} /\ \A z \in Run \ {r} : frame'[z] = frame[z]
    BY <1>1, <1>3 DEF OpenStep, Frame
  <2> QED BY <2>1
<1>4. ASSUME Answer(r) \/ Trace(r) \/ AnswerPlan(r) PROVE FALSE
  <2>1. frame'[r].pc \in {"tracing", "final", "tools", "boundary"} /\ \A z \in Run \ {r} : frame'[z] = frame[z]
    <3>1. CASE Answer(r)
      BY <1>1, <3>1 DEF Answer, Frame
    <3>2. CASE Trace(r)
      <4>1. \/ frame' = [frame EXCEPT ![r] = [@ EXCEPT !.pc = "final", !.outcome = "failed"]]
            \/ frame' = [frame EXCEPT ![r].pc = "tools"]
        BY <3>2 DEF Trace
      <4>2. CASE frame' = [frame EXCEPT ![r] = [@ EXCEPT !.pc = "final", !.outcome = "failed"]]
        BY <1>1, <4>2 DEF Frame
      <4>3. CASE frame' = [frame EXCEPT ![r].pc = "tools"]
        BY <1>1, <4>3 DEF Frame
      <4> QED BY <4>1, <4>2, <4>3
    <3>3. CASE AnswerPlan(r)
      BY <1>1, <3>3 DEF AnswerPlan, Frame
    <3> QED BY <1>4, <3>1, <3>2, <3>3
  <2> QED BY <2>1
<1>0. ASSUME Refuse(r) \/ CallTool(r) \/ EndTurn(r) PROVE FALSE
  <2>1. frame'[r].pc \in {"final", "tools", "boundary"} /\ \A z \in Run \ {r} : frame'[z] = frame[z]
    <3>1. CASE Refuse(r)
      BY <1>1, <3>1 DEF Refuse, Frame
    <3>2. CASE CallTool(r)
      BY <1>1, <3>2 DEF CallTool, Using, Frame
    <3>3. CASE EndTurn(r)
      BY <1>1, <3>3 DEF EndTurn, Frame
    <3> QED BY <1>0, <3>1, <3>2, <3>3
  <2> QED BY <2>1
<1>5. ASSUME Spawn(r) PROVE FALSE
  <2>1. PICK c \in Run : frame' = [frame EXCEPT ![r].pc = "waiting", ![c] = Entered(c, r)]
    BY <1>5 DEF Spawn, Unused
  <2>2. Entered(c, r).pc \in {"resuming", "marking"}
    BY DEF Entered, Idle
  <2> QED BY <1>1, <2>1, <2>2 DEF Frame
<1>6. ASSUME Finalize(r) \/ Conflict(r) \/ Unwind(r) PROVE FALSE
  <2>1. PICK p \in Run \cup {None} : p = frame[r].caller
    BY <1>1 DEF Frame
  <2>2. Idle.pc = "idle" /\ Idle.pc # "spawning"
    BY DEF Idle
  <2>3. p \in Run => frame[p] \in Frame
    BY <1>1
  <2>4. CASE Finalize(r)
    <3>1. frame' = IF p = None THEN [frame EXCEPT ![r] = Idle]
                   ELSE [frame EXCEPT ![r] = Idle, ![p] = [@ EXCEPT !.pc = "tools", !.uses = Tail(frame[p].uses)]]
      BY <2>1, <2>4 DEF Finalize, Returned
    <3>2. CASE p = None
      BY <1>1, <2>2, <3>1, <3>2
    <3>3. CASE p \in Run /\ p # r
      BY <1>1, <2>2, <2>3, <3>1, <3>3, InterpreterAssumption DEF Frame
    <3>4. p # r
      BY <2>1, <2>4, InterpreterAssumption DEF Finalize, MayFinalize, Inv, Awaited
    <3> QED BY <2>1, <3>2, <3>3, <3>4
  <2>5. CASE Unwind(r)
    <3>1. frame' = IF p = None THEN [frame EXCEPT ![r] = Idle]
                   ELSE [frame EXCEPT ![r] = Idle, ![p].pc = "raised"]
      BY <2>1, <2>5 DEF Unwind
    <3>2. CASE p = None
      BY <1>1, <2>2, <3>1, <3>2
    <3>3. CASE p \in Run /\ p # r
      BY <1>1, <2>2, <2>3, <3>1, <3>3, InterpreterAssumption DEF Frame
    <3>4. p # r
      BY <2>1, <2>5, InterpreterAssumption DEF Unwind, Inv, Awaited
    <3> QED BY <2>1, <3>2, <3>3, <3>4
  <2>6. CASE Conflict(r)
    BY <1>1, <2>6 DEF Conflict, Frame
  <2> QED BY <1>6, <2>4, <2>5, <2>6
<1>7. ASSUME Start(r) \/ Raise(r) \/ Cancel(r) PROVE FALSE
  <2>1. Entered(r, None).pc \in {"resuming", "marking"}
    BY DEF Entered, Idle
  <2> QED BY <1>1, <1>7, <2>1 DEF Start, Raise, Cancel, Frame
<1>8. ASSUME Gate(r) PROVE q = r /\ DepthAllows(r) /\ FanoutAllows(r)
  BY <1>1, <1>8 DEF Gate, Frame
<1> QED BY <1>0, <1>2, <1>3, <1>4, <1>5, <1>6, <1>7, <1>8 DEF Drive

LEMMA TreeStays ==
  ASSUME Inv, TreeInv, UNCHANGED <<policy, parent>>,
         \A q \in Run : At(q, "spawning")' => At(q, "spawning") \/ (DepthAllows(q) /\ FanoutAllows(q))
  PROVE  TreeInv'
<1>1. \A q \in Run : (DepthAllows(q) <=> DepthAllows(q)') /\ (FanoutAllows(q) <=> FanoutAllows(q)')
  BY DEF DepthAllows, Depth, FanoutAllows, Children
<1>2. \A d : IsDepth(d) => IsDepth(d)'
  BY DEF IsDepth
<1>3. \A q \in Run : Children(q)' = Children(q) /\ (Exists(q)' <=> Exists(q))
  BY DEF Children, Exists
<1>4. (\E d : IsDepth(d) /\ \A q \in Run : d[q] <= policy[Root].max_depth)'
  BY <1>2 DEF TreeInv
<1>5. \A q \in Run : parent[q] # None => Exists(parent[q])'
  BY DEF TreeInv, Exists
<1>6. \A q \in Run : At(q, "spawning")' => DepthAllows(q)' /\ FanoutAllows(q)'
  BY <1>1 DEF TreeInv
<1> QED BY <1>3, <1>4, <1>5, <1>6 DEF TreeInv

\* The new child is a leaf, one hop below its parent.
LEMMA SpawnTree ==
  ASSUME Inv, TreeInv, NEW r \in Run, Spawn(r) PROVE TreeInv'
<1>1. Parents /\ policy \in [Run -> LoopPolicy] /\ frame \in [Run -> Frame]
  BY InterpreterAssumption DEF Inv, TypeOK, Parents
<1>2. PICK c \in Run :
        /\ ~Exists(c) /\ parent' = [parent EXCEPT ![c] = r]
        /\ \E s, t \in Budget : policy' = [policy EXCEPT ![c] = ChildPolicy(r, s, t)]
        /\ frame' = [frame EXCEPT ![r].pc = "waiting", ![c] = Entered(c, r)]
  BY DEF Spawn, Unused
<1>3. At(r, "spawning") /\ DepthAllows(r) /\ FanoutAllows(r)
  BY DEF Spawn, TreeInv
<1>4. Exists(r) /\ c # r /\ c # Root /\ parent[c] = None
  BY <1>2, <1>3 DEF Inv, RunInv, Fresh, At, Exists
<1>5. /\ parent' \in [Run -> Run \cup {None}] /\ parent'[c] = r
      /\ \A q \in Run \ {c} : parent'[q] = parent[q]
  BY <1>1, <1>2 DEF Parents
<1>6. \A q \in Run : parent[q] # c
  BY <1>1, <1>2 DEF TreeInv, Parents
<1>7. parent'[Root] = None
  BY <1>1, <1>4, <1>5 DEF TreeInv, Parents
<1>8. \A q \in Run : parent'[q] # None => Exists(parent[q])' \/ q = c
  BY <1>1, <1>4, <1>5, <1>6 DEF TreeInv, Exists, Parents
<1>9. ASSUME NEW q \in Run, parent'[q] # None PROVE parent'[q] = Root \/ parent'[parent'[q]] # None
  <2>1. CASE q = c
    BY <1>4, <1>5, <2>1 DEF Exists
  <2>2. CASE q # c
    <3>1. parent'[q] = parent[q] /\ parent[q] \in Run /\ parent[q] # c
      BY <1>1, <1>5, <1>6, <1>9, <2>2 DEF Parents
    <3>2. parent[q] = Root \/ parent[parent[q]] # None
      BY <1>1, <1>9, <3>1 DEF TreeInv, Exists
    <3> QED BY <1>5, <3>1, <3>2
  <2> QED BY <2>1, <2>2
<1>10. \A q \in Run : policy'[q].max_depth = policy[Root].max_depth /\ policy'[q].max_fanout = policy[Root].max_fanout
  <2>1. PICK s \in Budget, t \in Budget : policy' = [policy EXCEPT ![c] = ChildPolicy(r, s, t)]
    BY <1>2
  <2>2. /\ ChildPolicy(r, s, t).max_depth = policy[r].max_depth
        /\ ChildPolicy(r, s, t).max_fanout = policy[r].max_fanout
    BY DEF ChildPolicy
  <2> QED BY <1>1, <2>1, <2>2 DEF TreeInv
<1>11. PICK d : IsDepth(d) /\ \A q \in Run : d[q] <= policy[Root].max_depth
  BY DEF TreeInv
<1> DEFINE e == [d EXCEPT ![c] = d[r] + 1]
<1>12. d \in [Run -> Nat] /\ Depth(r) = d[r] /\ d[r] + 1 <= policy[Root].max_depth
  <2>1. Depth(r) = d[r]
    BY <1>1, <1>11, DepthIs
  <2> QED BY <1>3, <1>11, <2>1 DEF IsDepth, DepthAllows, TreeInv
<1>13. e \in [Run -> Nat] /\ \A q \in Run : e[q] <= policy[Root].max_depth
  BY <1>11, <1>12
<1>14. \A q \in Run : e[q] = IF parent'[q] = None THEN 0 ELSE 1 + e[parent'[q]]
  <2> TAKE q \in Run
  <2>1. CASE q = c
    BY <1>1, <1>4, <1>5, <1>12, <2>1 DEF Parents
  <2>2. CASE q # c
    <3>1. e[q] = d[q] /\ parent'[q] = parent[q] /\ parent[q] # c /\ parent[q] \in Run \cup {None}
      BY <1>1, <1>5, <1>6, <1>12, <2>2 DEF Parents
    <3>2. parent[q] # None => e[parent[q]] = d[parent[q]]
      BY <1>12, <3>1
    <3> QED BY <1>11, <3>1, <3>2 DEF IsDepth
  <2> QED BY <2>1, <2>2
<1>15. policy'[Root].max_depth = policy[Root].max_depth /\ policy'[Root].max_fanout = policy[Root].max_fanout
  BY <1>1, <1>10 DEF Parents
<1>16. (\E f : IsDepth(f) /\ \A q \in Run : f[q] <= policy[Root].max_depth)'
  <2> HIDE DEF e
  <2>1. IsDepth(e)'
    BY <1>13, <1>14 DEF IsDepth
  <2> QED BY <1>13, <1>15, <2>1
<1>17. /\ \A q \in Run \ {r} : Children(q)' = Children(q)
       /\ Children(r)' = Children(r) \cup {c}
  BY <1>1, <1>4, <1>5 DEF Children, Parents
<1>18. \A q \in Run : Cardinality(Children(q)') <= policy[Root].max_fanout
  <2>1. IsFiniteSet(Children(r))
    BY <1>1, FS_Subset DEF Children, Parents
  <2>2. c \notin Children(r)
    BY <1>1, <1>4 DEF Children, Parents
  <2>3. Cardinality(Children(r) \cup {c}) = Cardinality(Children(r)) + 1
    BY <2>1, <2>2, FS_AddElement
  <2>4. Cardinality(Children(r)) + 1 <= policy[Root].max_fanout
    BY <1>3 DEF FanoutAllows, TreeInv
  <2> QED BY <1>17, <2>3, <2>4 DEF TreeInv
<1>19. ASSUME NEW q \in Run, At(q, "spawning")' PROVE DepthAllows(q)' /\ FanoutAllows(q)'
  <2>1. q # r /\ q # c /\ At(q, "spawning")
    <3>1. Entered(c, r).pc \in {"resuming", "marking"}
      BY DEF Entered, Idle
    <3> QED BY <1>1, <1>2, <1>4, <1>19, <3>1 DEF At, Frame
  <2>2. DepthAllows(q) /\ FanoutAllows(q)
    BY <2>1 DEF TreeInv
  <2>3. policy'[q].max_depth = policy[q].max_depth /\ policy'[q].max_fanout = policy[q].max_fanout
    BY <1>10 DEF TreeInv
  <2>4. Depth(q)' = Depth(q)
    <3>1. Depth(q) = d[q]
      BY <1>1, <1>11, DepthIs
    <3>2. Depth(q)' = e[q]
      <4> HIDE DEF e
      <4>1. \A x \in Run : Hops(parent')[x] = e[x]
        BY <1>1, <1>5, <1>13, <1>14, HopsAre DEF Parents
      <4> QED BY <4>1 DEF Depth, Hops
    <3> QED BY <1>12, <2>1, <3>1, <3>2
  <2>5. Children(q)' = Children(q)
    BY <1>17, <2>1
  <2> QED BY <2>2, <2>3, <2>4, <2>5 DEF DepthAllows, FanoutAllows
<1>20. \A q \in Run : parent'[q] # None => Exists(parent[q])'
  BY <1>9 DEF Exists
<1> QED BY <1>7, <1>10, <1>15, <1>16, <1>18, <1>19, <1>20 DEF TreeInv

LEMMA TreeStep == Inv /\ TreeInv /\ [Next]_vars => TreeInv'
<1> SUFFICES ASSUME Inv, TreeInv, [Next]_vars PROVE TreeInv'
  OBVIOUS
<1>1. CASE UNCHANGED vars
  BY <1>1, TreeStays DEF vars, durable, At
<1>2. ASSUME NEW r \in Run, Spawn(r) PROVE TreeInv'
  BY <1>2, SpawnTree
<1>3. ASSUME NEW r \in Run, Drive(r) \/ Start(r) \/ Raise(r) \/ Cancel(r), ~Spawn(r) PROVE TreeInv'
  <2>1. UNCHANGED <<policy, parent>>
    BY <1>3 DEF Drive, Mark, Resume, Halt, OpenStep, Answer, Trace, AnswerPlan, Refuse, CallTool,
       Gate, EndTurn, Finalize, Conflict, Unwind, Start, Raise, Cancel, durable
  <2>2. \A q \in Run : At(q, "spawning")' => At(q, "spawning") \/ (DepthAllows(q) /\ FanoutAllows(q))
    BY <1>3, SpawningGated DEF At
  <2> QED BY <2>1, <2>2, TreeStays
<1> QED BY <1>1, <1>2, <1>3 DEF Next, Drive

\* The levels of the tree: each run below the root is one of at most f children of a run
\* one level up.
LEMMA TreeSizeIs ==
  ASSUME NEW f \in Nat
  PROVE  /\ TreeSize(0, f) = 1
         /\ \A n \in Nat : TreeSize(n, f) \in Nat /\ TreeSize(n + 1, f) = 1 + TreeSize(n, f) * f
<1> DEFINE times == [i \in Nat |-> [x \in Nat |-> f * x]]
           powers(g) == [i \in Nat |-> IF i = 0 THEN 1 ELSE f * g[i - 1]]
           power == CHOOSE g : g = powers(g)
<1>1. power = powers(power) /\ power \in [Nat -> Nat]
  <2>1. times \in [Nat -> [Nat -> Nat]]
    OBVIOUS
  <2>2. PICK g \in [Nat -> Nat] : Recurses(g, 1, times)
    <3> HIDE DEF times
    <3> QED BY <2>1, Recursion
  <2>3. g = [i \in Nat |-> IF i = 0 THEN 1 ELSE times[i][g[i - 1]]]
    BY <2>2 DEF Recurses
  <2>4. \A i \in Nat : i # 0 => times[i][g[i - 1]] = f * g[i - 1]
    OBVIOUS
  <2>5. g = powers(g)
    <3> HIDE DEF times
    <3> QED BY <2>3, <2>4
  <2>6. power = powers(power)
    BY <2>5
  <2> HIDE DEF power
  <2>7. power[0] = 1 /\ \A n \in Nat : power[n + 1] = f * power[n]
    <3>1. \A n \in Nat : power[n] = IF n = 0 THEN 1 ELSE f * power[n - 1]
      BY <2>6
    <3>2. \A n \in Nat : n + 1 \in Nat /\ n + 1 # 0 /\ (n + 1) - 1 = n
      OBVIOUS
    <3> QED BY <3>1, <3>2
  <2> DEFINE T == {n \in Nat : power[n] \in Nat}
  <2>8. 0 \in T /\ \A n \in Nat : n \in T => n + 1 \in T
    BY <2>7
  <2>9. Nat \subseteq T
    <3> HIDE DEF T
    <3> QED BY <2>8, Inductive
  <2> QED BY <2>6, <2>9
<1>2. power[0] = 1 /\ \A n \in Nat : power[n] \in Nat /\ power[n + 1] = f * power[n]
  <2> HIDE DEF power
  <2>1. \A n \in Nat : power[n] = IF n = 0 THEN 1 ELSE f * power[n - 1]
    BY <1>1
  <2>2. \A n \in Nat : n + 1 \in Nat /\ n + 1 # 0 /\ (n + 1) - 1 = n
    OBVIOUS
  <2> QED BY <1>1, <2>1, <2>2
<1> DEFINE adds == [i \in Nat |-> [x \in Nat |-> x + power[i]]]
           sums(g) == [d \in Nat |-> IF d = 0 THEN 1 ELSE g[d - 1] + power[d]]
           upto == CHOOSE g : g = sums(g)
<1>3. \A n : TreeSize(n, f) = upto[n]
  BY DEF TreeSize
<1> HIDE DEF power
<1>4. upto = sums(upto)
  <2>1. adds \in [Nat -> [Nat -> Nat]]
    BY <1>2
  <2>2. PICK g \in [Nat -> Nat] : Recurses(g, 1, adds)
    <3> HIDE DEF adds
    <3> QED BY <2>1, Recursion
  <2>3. g = [i \in Nat |-> IF i = 0 THEN 1 ELSE adds[i][g[i - 1]]]
    BY <2>2 DEF Recurses
  <2>4. \A i \in Nat : i # 0 => adds[i][g[i - 1]] = g[i - 1] + power[i]
    OBVIOUS
  <2>5. g = sums(g)
    <3> HIDE DEF adds
    <3> QED BY <2>3, <2>4
  <2> QED BY <2>5
<1> HIDE DEF upto
<1>5. upto[0] = 1 /\ \A n \in Nat : upto[n + 1] = upto[n] + power[n + 1]
  <2>1. \A n \in Nat : upto[n] = IF n = 0 THEN 1 ELSE upto[n - 1] + power[n]
    BY <1>4
  <2>2. \A n \in Nat : n + 1 \in Nat /\ n + 1 # 0 /\ (n + 1) - 1 = n
    OBVIOUS
  <2> QED BY <2>1, <2>2
<1> DEFINE T == {n \in Nat : upto[n] \in Nat /\ upto[n + 1] = 1 + upto[n] * f}
<1>6. 0 \in T
  <2>1. power[0 + 1] = f * 1 /\ upto[0 + 1] = upto[0] + power[0 + 1]
    <3>1. power[0 + 1] = f * power[0]
      BY <1>2
    <3>2. upto[0 + 1] = upto[0] + power[0 + 1]
      BY <1>5
    <3> QED BY <1>2, <3>1, <3>2
  <2> QED BY <1>5, <2>1
<1>7. ASSUME NEW n \in Nat, n \in T PROVE n + 1 \in T
  <2>1. upto[n] \in Nat /\ upto[n + 1] = 1 + upto[n] * f /\ power[n + 1] \in Nat
    BY <1>2, <1>7
  <2>2. upto[n + 1] = upto[n] + power[n + 1] /\ upto[(n + 1) + 1] = upto[n + 1] + power[(n + 1) + 1]
    BY <1>5
  <2>3. power[(n + 1) + 1] = f * power[n + 1]
    BY <1>2
  <2>4. \A x, y \in Nat : (x + y) * f = x * f + f * y
    OBVIOUS
  <2>5. upto[n + 1] * f = upto[n] * f + f * power[n + 1]
    BY <2>1, <2>2, <2>4
  <2>6. upto[n + 1] \in Nat
    BY <2>1, <2>2
  <2> QED BY <2>1, <2>2, <2>3, <2>5, <2>6
<1>8. Nat \subseteq T
  <2> HIDE DEF T
  <2> QED BY <1>6, <1>7, Inductive
<1> QED BY <1>3, <1>5, <1>8

\* An edge of the tree is told by its parent and the child's place among the children.
LEMMA LevelGrows ==
  ASSUME Parents, NEW f \in Nat, NEW P \in SUBSET Run, NEW C \in SUBSET Run,
         \A r \in C : parent[r] \in P, \A q \in Run : Cardinality(Children(q)) <= f
  PROVE  Cardinality(C) <= Cardinality(P) * f
<1>1. \A q \in Run : IsFiniteSet(Children(q))
  <2>1. IsFiniteSet(Run) /\ \A q \in Run : Children(q) \in SUBSET Run
    BY DEF Children, Parents
  <2> QED BY <2>1, FS_Subset
<1>2. ASSUME NEW q \in Run
      PROVE  \E g \in [1 .. f -> Children(q) \cup {None}] : \A r \in Children(q) : \E i \in 1 .. f : g[i] = r
  <2> DEFINE n == Cardinality(Children(q))
  <2>1. n \in Nat /\ n <= f /\ ExistsBijection(1 .. n, Children(q))
    BY <1>1, FS_CardinalityType
  <2>2. PICK b \in Bijection(1 .. n, Children(q)) : TRUE
    BY <2>1 DEF ExistsBijection
  <2>3. b \in [1 .. n -> Children(q)] /\ \A r \in Children(q) : \E i \in 1 .. n : b[i] = r
    BY <2>2 DEF Bijection, Surjection
  <2> DEFINE g == [i \in 1 .. f |-> IF i <= n THEN b[i] ELSE None]
  <2> HIDE DEF n
  <2>4. g \in [1 .. f -> Children(q) \cup {None}]
    BY <2>1, <2>3
  <2>5. ASSUME NEW r \in Children(q) PROVE \E i \in 1 .. f : g[i] = r
    <3>1. PICK i \in 1 .. n : b[i] = r
      BY <2>3
    <3>2. i \in 1 .. f /\ i <= n
      BY <2>1
    <3> QED BY <3>1, <3>2
  <2> QED BY <2>4, <2>5
<1> DEFINE Ranks(q) == {g \in [1 .. f -> Children(q) \cup {None}] : \A r \in Children(q) : \E i \in 1 .. f : g[i] = r}
           rank == [q \in Run |-> CHOOSE g : g \in Ranks(q)]
<1>3. \A q \in Run : rank[q] \in Ranks(q)
  <2>1. \A q \in Run : \E g : g \in Ranks(q)
    BY <1>2
  <2> HIDE DEF Ranks
  <2> QED BY <2>1
<1>4. \A q \in Run : \A r \in Children(q) : \E i \in 1 .. f : rank[q][i] = r
  BY <1>3
<1> HIDE DEF rank
<1> DEFINE place == [r \in C |-> <<parent[r], CHOOSE i \in 1 .. f : rank[parent[r]][i] = r>>]
<1>5. ASSUME NEW r \in C
      PROVE  /\ parent[r] \in P /\ place[r] \in P \X (1 .. f)
             /\ place[r][1] = parent[r] /\ rank[parent[r]][place[r][2]] = r
  <2>1. parent[r] \in P /\ parent[r] \in Run /\ r \in Children(parent[r])
    BY DEF Children
  <2>2. \E i \in 1 .. f : rank[parent[r]][i] = r
    BY <1>4, <2>1
  <2> QED BY <2>1, <2>2
<1>6. place \in [C -> P \X (1 .. f)]
  BY <1>5
<1>7. ASSUME NEW r \in C, NEW q \in C, place[r] = place[q] PROVE r = q
  <2> HIDE DEF place
  <2> QED BY <1>5, <1>7
<1> HIDE DEF place
<1>8. place \in Injection(C, P \X (1 .. f))
  BY <1>6, <1>7 DEF Injection, IsInjective
<1>9. IsFiniteSet(P) /\ IsFiniteSet(1 .. f) /\ Cardinality(1 .. f) = f
  <2>1. IsFiniteSet(P)
    BY FS_Subset DEF Parents
  <2>2. IsFiniteSet(1 .. f) /\ Cardinality(1 .. f) = IF 1 > f THEN 0 ELSE f - 1 + 1
    BY FS_Interval
  <2> QED BY <2>1, <2>2
<1>10. IsFiniteSet(P \X (1 .. f)) /\ Cardinality(P \X (1 .. f)) = Cardinality(P) * f
  BY <1>9, FS_Product
<1> QED BY <1>8, <1>10, FS_Injection

LEMMA TreeCount ==
  ASSUME Parents, TreeInv, policy \in [Run -> LoopPolicy]
  PROVE  Cardinality({r \in Run : Exists(r)}) <= TreeSize(policy[Root].max_depth, policy[Root].max_fanout)
<1> DEFINE f == policy[Root].max_fanout
           m == policy[Root].max_depth
<1>1. f \in Nat /\ m \in Nat
  BY DEF Parents, LoopPolicy
<1>2. PICK d : IsDepth(d) /\ \A q \in Run : d[q] <= m
  BY DEF TreeInv
<1>3. \A q \in Run : d[q] \in Nat
  BY <1>2 DEF IsDepth
<1>4. \A q \in Run : Cardinality(Children(q)) <= f
  BY DEF TreeInv
<1> HIDE DEF f, m
<1> DEFINE Upto(n) == {r \in Run : Exists(r) /\ d[r] <= n}
           T == {n \in Nat : Cardinality(Upto(n)) <= TreeSize(n, f)}
<1>5. \A n \in Nat : Upto(n) \in SUBSET Run /\ IsFiniteSet(Upto(n)) /\ Cardinality(Upto(n)) \in Nat
  <2> TAKE n \in Nat
  <2>1. Upto(n) \in SUBSET Run
    OBVIOUS
  <2>2. IsFiniteSet(Upto(n))
    BY <2>1, FS_Subset DEF Parents
  <2> QED BY <2>1, <2>2, FS_CardinalityType
<1>6. 0 \in T
  <2>1. Upto(0) \subseteq {Root}
    <3> SUFFICES ASSUME NEW r \in Run, Exists(r), d[r] <= 0 PROVE r = Root
      OBVIOUS
    <3>1. d[r] = 0
      BY <1>3
    <3>2. parent[r] = None
      <4>1. parent[r] # None => parent[r] \in Run /\ d[r] = 1 + d[parent[r]]
        BY <1>2 DEF IsDepth, Parents
      <4> QED BY <1>3, <3>1, <4>1
    <3> QED BY <3>2 DEF Exists
  <2>2. IsFiniteSet({Root}) /\ Cardinality({Root}) = 1
    BY FS_Singleton
  <2>3. Cardinality(Upto(0)) <= 1
    <3> HIDE DEF Upto
    <3> QED BY <2>1, <2>2, FS_Subset
  <2> QED BY <1>1, <2>3, TreeSizeIs
<1>7. ASSUME NEW n \in Nat, n \in T PROVE n + 1 \in T
  <2> DEFINE C == Upto(n + 1) \ {Root}
  <2>1. \A r \in C : parent[r] \in Upto(n)
    <3> SUFFICES ASSUME NEW r \in Run, Exists(r), d[r] <= n + 1, r # Root PROVE parent[r] \in Upto(n)
      OBVIOUS
    <3>1. parent[r] # None /\ parent[r] \in Run /\ Exists(parent[r])
      BY DEF Exists, TreeInv, Parents
    <3>2. d[r] = 1 + d[parent[r]]
      BY <1>2, <3>1 DEF IsDepth
    <3>3. d[parent[r]] <= n
      BY <1>3, <3>1, <3>2
    <3> QED BY <3>1, <3>3
  <2>2. C \in SUBSET Run /\ Upto(n) \in SUBSET Run
    OBVIOUS
  <2>3. Cardinality(C) <= Cardinality(Upto(n)) * f
    <3> HIDE DEF C, Upto
    <3> QED BY <1>1, <1>4, <2>1, <2>2, LevelGrows
  <2>4. IsFiniteSet(C) /\ Cardinality(C) \in Nat
    <3> HIDE DEF C
    <3>1. IsFiniteSet(C)
      BY <2>2, FS_Subset DEF Parents
    <3> QED BY <3>1, FS_CardinalityType
  <2>5. Cardinality(Upto(n + 1)) <= 1 + Cardinality(C)
    <3>1. Cardinality(C) = IF Root \in Upto(n + 1) THEN Cardinality(Upto(n + 1)) - 1 ELSE Cardinality(Upto(n + 1))
      <4>1. IsFiniteSet(Upto(n + 1))
        BY <1>5
      <4> HIDE DEF Upto
      <4> QED BY <4>1, FS_RemoveElement
    <3>2. Cardinality(Upto(n + 1)) \in Nat
      <4>1. n + 1 \in Nat
        OBVIOUS
      <4> HIDE DEF Upto
      <4> QED BY <1>5, <4>1
    <3> HIDE DEF C, Upto
    <3> QED BY <2>4, <3>1, <3>2
  <2>6. Cardinality(Upto(n)) \in Nat /\ Cardinality(Upto(n)) <= TreeSize(n, f)
    BY <1>5, <1>7
  <2>7. TreeSize(n, f) \in Nat /\ TreeSize(n + 1, f) = 1 + TreeSize(n, f) * f
    BY <1>1, TreeSizeIs
  <2>8. Cardinality(Upto(n)) * f <= TreeSize(n, f) * f
    <3>1. \A x, y \in Nat : x <= y => x * f <= y * f
      BY <1>1
    <3> HIDE DEF Upto
    <3> QED BY <2>6, <2>7, <3>1
  <2>9. Cardinality(Upto(n + 1)) <= TreeSize(n + 1, f)
    <3>1. Cardinality(Upto(n)) * f \in Nat /\ TreeSize(n, f) * f \in Nat /\ Cardinality(Upto(n + 1)) \in Nat
      BY <1>1, <1>5, <2>6, <2>7
    <3> HIDE DEF C, Upto
    <3> QED BY <2>3, <2>4, <2>5, <2>7, <2>8, <3>1
  <2> QED BY <2>9
<1>8. Nat \subseteq T
  <2> HIDE DEF T
  <2> QED BY <1>6, <1>7, Inductive
<1>9. Upto(m) = {r \in Run : Exists(r)}
  BY <1>2
<1>10. Cardinality(Upto(m)) <= TreeSize(m, f)
  BY <1>1, <1>8
<1> QED BY <1>9, <1>10 DEF f, m

\* Whatever a run's segments and its sub-agents' do, and wherever they are interrupted, no
\* run gets further from the root, or has more children, than the root's policy allows,
\* and the tree is no larger than max_run_tree_size says.
THEOREM TreeStaysBounded == Spec => []TreeBounded
<1>1. Init => Inv /\ TreeInv
  BY InvInit, TreeInit
<1>2. Inv /\ TreeInv /\ [Next]_vars => (Inv /\ TreeInv)'
  BY InvStep, TreeStep
<1>3. ASSUME Inv, TreeInv PROVE TreeBounded
  <2>1. Parents /\ policy \in [Run -> LoopPolicy]
    BY <1>3, InterpreterAssumption DEF Inv, TypeOK, Parents
  <2>2. PICK d : IsDepth(d) /\ \A q \in Run : d[q] <= policy[Root].max_depth
    BY <1>3 DEF TreeInv
  <2>3. \A r \in Run : Depth(r) = d[r]
    BY <2>1, <2>2, DepthIs
  <2>4. \A r \in Run : Depth(r) <= policy[Root].max_depth /\ Cardinality(Children(r)) <= policy[Root].max_fanout
    BY <1>3, <2>2, <2>3 DEF TreeInv
  <2> QED BY <1>3, <2>1, <2>4, TreeCount DEF TreeBounded
<1> QED BY <1>1, <1>2, <1>3, PTL DEF Spec
=============================================================================
