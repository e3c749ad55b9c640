----------------------------- MODULE MCContext -----------------------------
(* Small instances, for TLC, of the seams of an agent's turn: its context, its model *)
(* provider, its tools, and the ids of what it writes.  They share no state: a        *)
(* behaviour explores one part, and the others keep their initial states.            *)
EXTENDS ContextAssembly, Uuid7, ToolRetry, ProviderStream

VARIABLE part

\* The assembly: compaction from the first texts on (one earlier when the prefix is not
\* cached), up to a hard budget or without one, with and without a pinned role; and none.
Watermarks(soft, hard, pin) == [threshold |-> soft, token_budget |-> hard, pin |-> pin]

MCPolicy ==
  {Watermarks(1, 3, {}), Watermarks(2, None, {"tool"}), Watermarks(None, None, {})}

\* The tools: a builtin that backs off, one whose backoff meets its cap, an MCP tool that
\* retries at once, and one the invoker in hand does not dispatch.
Retries(binding, most, base, cap) ==
  [binding |-> binding, retry |-> [max_attempts |-> most, backoff_base |-> base,
                                   backoff_factor |-> 2, backoff_cap |-> cap]]

MCTool ==
  {Retries("builtin", 3, 1, 60), Retries("builtin", 3, 2, 3), Retries("mcp", 2, 0, 60),
   Retries("other", 1, 0, 60)}

\* The scripts: up to three of four blocks, one after the other and interleaved, and one
\* of two turns.
Scripted(kind, id, text, fragments) ==
  [kind |-> kind, id |-> id, text |-> text, fragments |-> fragments]
AsTurn(blocks, interleave, reason) ==
  [blocks |-> blocks, interleave |-> interleave, stop_reason |-> reason, usage |-> 7]

MCBlock ==
  {Scripted("text", "", <<1, 2, 3>>, 2), Scripted("thinking", "", << >>, 3),
   Scripted("tool_use", "x", <<4, 5, 0>>, 3), Scripted("tool_use", "y", <<0>>, 0)}

MCScript ==
  {<< >>} \cup
  {<<AsTurn(blocks, interleave, "tool_use")>> :
      blocks \in UNION {[1 .. n -> MCBlock] : n \in 0 .. 3}, interleave \in BOOLEAN}
    \cup {<<AsTurn(<<Scripted("text", "", <<1>>, 1)>>, FALSE, "end_turn"),
            AsTurn(<<Scripted("tool_use", "x", <<1, 0>>, 1)>>, FALSE, "tool_use")>>}

\* The responses: two texts with empty pieces among theirs and two calls, in any
\* chunks; a call without arguments; a single text that is cut by its length; and nothing.
Piece(id, text) == [id |-> id, part |-> text]

MCResponse ==
  {[pieces |-> <<"content", 0>> :> <<Piece("", <<1>>), Piece("", << >>), Piece("", <<2>>)>>
                 @@ <<"reasoning", 0>> :> <<Piece("", << >>), Piece("", <<3>>)>>
                 @@ <<"tool_calls", 0>> :> <<Piece("x", << >>), Piece("", <<4>>), Piece("", <<5, 0>>)>>
                 @@ <<"tool_calls", 1>> :> <<Piece("y", <<0>>)>>,
    finish |-> "tool_calls", usage |-> 5],
   [pieces |-> <<"tool_calls", 0>> :> <<Piece("x", << >>), Piece("", << >>)>>,
    finish |-> "function_call", usage |-> 1],
   [pieces |-> <<"content", 0>> :> <<Piece("", <<1>>)>>, finish |-> "length", usage |-> 2],
   [pieces |-> << >>, finish |-> "other", usage |-> 2]}

SeamsInit ==
  /\ part \in {"assembly", "provider", "tools", "ids"}
  /\ Init /\ (part # "assembly" => policy = Watermarks(1, 3, {}) /\ capable)
  /\ StreamInit /\ (part # "provider" => provider = "mock" /\ script = << >>)
  /\ RetryInit /\ (part # "tools" => \A i \in Invocation : tool[i].binding = "other")
  /\ UuidInit

SeamsNext ==
  \/ part = "assembly" /\ Next /\ UNCHANGED <<part, streamVars, retryVars, uuidVars>>
  \/ part = "provider" /\ StreamNext /\ UNCHANGED <<part, vars, retryVars, uuidVars>>
  \/ part = "tools" /\ RetryNext /\ UNCHANGED <<part, vars, streamVars, uuidVars>>
  \/ part = "ids" /\ UuidNext /\ UNCHANGED <<part, vars, streamVars, retryVars>>

Seams ==
  SeamsInit /\ [][SeamsNext]_<<part, vars, streamVars, retryVars, uuidVars>> /\ RetryFairness
=============================================================================
