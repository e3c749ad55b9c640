--------------------------- MODULE MCInterpreter ---------------------------
(* Small instances of Interpreter for TLC. *)
EXTENDS Interpreter

CONSTANTS root, a, b

\* Two sub-agents under one run within a step budget; a chain of two within a token
\* budget; no sub-agents and a forced tool.
MCPolicy ==
  {[step_budget |-> 3, token_budget |-> 0, stop_conditions |-> {"no_tool_calls"},
    planning |-> "single", forced |-> FALSE, max_depth |-> 1, max_fanout |-> 2],
   [step_budget |-> 0, token_budget |-> 2, stop_conditions |-> {"explicit_stop_node", "refusal"},
    planning |-> "replan_on_failure", forced |-> FALSE, max_depth |-> 2, max_fanout |-> 1],
   [step_budget |-> 3, token_budget |-> 2, stop_conditions |-> {},
    planning |-> "off", forced |-> TRUE, max_depth |-> 0, max_fanout |-> 0]}

Says(uses, usage) == [uses |-> uses, stop_reason |-> "tool_use", usage |-> usage]

MCTurn ==
  {[uses |-> << >>, stop_reason |-> "end_turn", usage |-> 1],
   [uses |-> << >>, stop_reason |-> "refusal", usage |-> 0],
   Says(<<"tool">>, 1), Says(<<"stop">>, 0), Says(<<"spawn", "spawn">>, 1),
   Says(<<"tool", "bad">>, 1)}
=============================================================================
