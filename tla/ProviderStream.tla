--------------------------- MODULE ProviderStream ---------------------------
(***************************************************************************)
(* The inference seam: a ModelProvider yields the lifecycle events of a    *)
(* turn (provider.py), and drain() folds them into one AssistantTurn       *)
(* (TurnAssembler, _assembler.py).  Two providers: MockProvider lowers a   *)
(* script, block by block or round-robin (mock_provider.py), and           *)
(* OpenRouterProvider translates the chunks of a server-sent event stream  *)
(* (adapters/openrouter.py).                                               *)
(*                                                                         *)
(* Text is a sequence of tokens, a fragment a piece of it.  The JSON of a  *)
(* tool call ends with the token 0 and has it nowhere else, so what there  *)
(* is of it is complete when it ends with 0.  An identity stands for the   *)
(* id, the name and the intent of a call.  The server is external: it cuts *)
(* its message into chunks as it likes and may go away after any of them.  *)
(***************************************************************************)
EXTENDS Naturals, SequencesExt

CONSTANTS
  Script,   \* the scripts a MockProvider may hold
  Response,  \* the messages a server may send
  Absent

Texts == Seq(Nat)

\* The JSON of the arguments of a call.
IsArguments(text) == text # << >> /\ \A i \in DOMAIN text : text[i] = 0 <=> i = Len(text)

\* ScriptedText, ScriptedThinking, ScriptedToolUse; the text of the last is its input.
ScriptedBlock ==
  {b \in [kind : {"text", "thinking", "tool_use"}, id : STRING, text : Texts, fragments : Nat] :
     b.kind = "tool_use" => IsArguments(b.text)}

ScriptedTurn ==
  [blocks : Seq(ScriptedBlock), interleave : BOOLEAN, stop_reason : STRING, usage : Nat]

\* A channel is a key of the dialect's delta and, of a call, its index there.
Channel == ({"content", "reasoning"} \X {0}) \cup ({"tool_calls"} \X Nat)

IsCall(c) == c[1] = "tool_calls"

\* The pieces of each channel in order; the first piece of a call carries its identity.
\* A call may have no arguments.
WireMessage(m) ==
  /\ m.finish \in STRING /\ m.usage \in Nat
  /\ IsFiniteSet(DOMAIN m.pieces) /\ DOMAIN m.pieces \subseteq Channel
  /\ \A c \in DOMAIN m.pieces :
       LET whole == FlattenSeq([k \in DOMAIN m.pieces[c] |-> m.pieces[c][k].part])
       IN  /\ m.pieces[c] \in Seq([id : STRING, part : Texts])
           /\ IsCall(c) => m.pieces[c] # << >> /\ (whole = << >> \/ IsArguments(whole))

ASSUME ProviderAssumption ==
  /\ Script \subseteq Seq(ScriptedTurn)
  /\ \A m \in Response : WireMessage(m)

VARIABLES
  provider,   \* "mock" or "openrouter"
  script,     \* the mock's _script
  cursor,     \* its _cursor
  message,    \* what the server sends
  sent,       \* how many pieces of each channel it has sent
  finish,     \* finish_reason
  usage,      \* usage_payload
  opened,     \* the indexes of the blocks opened
  events,     \* the events still to be yielded before the provider awaits more
  assembler,  \* the TurnAssembler
  status,     \* of turn(): idle, streaming, draining what is left, returned, or the exception
              \* it raised
  turn        \* what it returned, Absent before

scripted == <<script, cursor>>
wire == <<message, sent, finish, usage, opened>>
drained == <<events, assembler, status, turn>>
streamVars == <<provider, scripted, wire, drained>>

----------------------------------------------------------------------------
(* Events and their fold.                                                  *)

Stub(kind, id) == [kind |-> kind, id |-> id]

MessageStart == [type |-> "message_start", usage |-> 0]
ContentBlockStart(i, stub) == [type |-> "content_block_start", index |-> i, stub |-> stub]
ContentBlockDelta(i, part) == [type |-> "content_block_delta", index |-> i, part |-> part]
ContentBlockStop(i) == [type |-> "content_block_stop", index |-> i]
MessageDelta(reason, n) == [type |-> "message_delta", stop_reason |-> reason, usage |-> n]
MessageStop == [type |-> "message_stop"]

EmptyAssembler == [blocks |-> << >>, stop_reason |-> "end_turn", usage |-> 0]

\* A bug for the mutation runs: a fragment goes to the block that was opened last.
LastBlock(a, e) == Max(DOMAIN a.blocks)

\* The block a fragment is for.  One that was not opened is a KeyError.
BlockOf(a, e) == e.index

\* TurnAssembler.feed.
Feed(a, e) ==
  CASE e.type = "message_start" -> [a EXCEPT !.usage = e.usage]
    [] e.type = "content_block_start" ->
         [a EXCEPT !.blocks = [i \in DOMAIN @ \cup {e.index} |->
                                 IF i = e.index THEN [stub |-> e.stub, parts |-> << >>] ELSE @[i]]]
    [] e.type = "content_block_delta" -> [a EXCEPT !.blocks[BlockOf(a, e)].parts = Append(@, e.part)]
    [] e.type = "message_delta" -> [a EXCEPT !.stop_reason = e.stop_reason, !.usage = e.usage]
    [] OTHER -> a

\* The naturals of a set, and the events of a set of stamped ones, in order.
Sorted(S) == [k \in 1 .. Cardinality(S) |-> CHOOSE i \in S : Cardinality({j \in S : j < i}) = k - 1]

Stamped(at, e) == [at |-> at, event |-> e]

Earlier(x, y) ==
  \/ x.at[1] < y.at[1]
  \/ x.at[1] = y.at[1] /\ (x.at[2] < y.at[2] \/ (x.at[2] = y.at[2] /\ x.at[3] < y.at[3]))

Listing(S) ==
  LET nth(k) == CHOOSE x \in S : Cardinality({y \in S : Earlier(y, x)}) = k - 1
  IN  [k \in 1 .. Cardinality(S) |-> nth(k).event]

\* A bug for the mutation runs: what is there of the JSON is taken.
AnyJson(raw) == TRUE

\* What json.loads accepts, an empty buffer aside.
IsJson(raw) == raw # << >> /\ Last(raw) = 0

\* _BlockBuf.finish: the JSON is parsed here, of an empty buffer {}.
Joined(buf) == FlattenSeq(buf.parts)
Parses(buf) == buf.stub.kind = "tool_use" => Joined(buf) = << >> \/ IsJson(Joined(buf))
Block(kind, id, text) == [kind |-> kind, id |-> id, text |-> text]

\* TurnAssembler.finish.
AssistantTurn(content, reason, n) == [content |-> content, stop_reason |-> reason, usage |-> n]

Finish(a) ==
  LET index == Sorted(DOMAIN a.blocks)
      block(i) == Block(a.blocks[i].stub.kind, a.blocks[i].stub.id, Joined(a.blocks[i]))
  IN  IF \A i \in DOMAIN a.blocks : Parses(a.blocks[i])
      THEN /\ status' = "returned"
           /\ turn' = AssistantTurn([k \in DOMAIN index |-> block(index[k])], a.stop_reason, a.usage)
      ELSE status' = "JSONDecodeError" /\ UNCHANGED turn

StreamInit ==
  /\ \/ provider = "mock" /\ script \in Script /\ message = Absent /\ sent = << >>
     \/ /\ provider = "openrouter" /\ script = << >> /\ message \in Response
        /\ sent = [c \in DOMAIN message.pieces |-> 0]
  /\ cursor = 0 /\ finish = Absent /\ usage = Absent /\ opened = {}
  /\ events = IF provider = "mock" THEN << >> ELSE <<MessageStart>>
  /\ status = IF provider = "mock" THEN "idle" ELSE "streaming"
  /\ assembler = EmptyAssembler
  /\ turn = Absent

\* drain: the next event is fed; with the last the turn is finished.
Yield ==
  /\ events # << >>
  /\ assembler' = Feed(assembler, Head(events))
  /\ events' = Tail(events)
  /\ IF Tail(events) = << >> /\ status = "draining" THEN Finish(assembler') ELSE UNCHANGED <<status, turn>>
  /\ UNCHANGED <<provider, scripted, wire>>

----------------------------------------------------------------------------
(* MockProvider.                                                           *)

Smallest(m, n) == IF m <= n THEN m ELSE n

\* _fragment: near-even pieces, at least one and, of a text, none empty.
Fragments(text, n) ==
  LET count == IF n = 0 \/ text = << >> THEN 1 ELSE Smallest(n, Len(text))
      start(k) == k * (Len(text) \div count) + Smallest(k, Len(text) % count)
  IN  [k \in 1 .. count |-> SubSeq(text, start(k - 1) + 1, start(k))]

\* _turn_events: the blocks one after the other, or first their starts, then round after
\* round the next delta of each block that has one left, and then their stops.
TurnEvents(t) ==
  LET n == Len(t.blocks)
      together == t.interleave /\ n > 1
      parts(i) == Fragments(t.blocks[i].text, t.blocks[i].fragments)
      at(i, phase, round) == IF together THEN <<phase, round, i>> ELSE <<i, phase, round>>
      block(i) ==
        {Stamped(at(i, 1, 0), ContentBlockStart(i - 1, Stub(t.blocks[i].kind, t.blocks[i].id)))}
          \cup {Stamped(at(i, 2, k), ContentBlockDelta(i - 1, parts(i)[k])) : k \in DOMAIN parts(i)}
          \cup {Stamped(at(i, 3, 0), ContentBlockStop(i - 1))}
  IN  (UNION {block(i) : i \in 1 .. n})
        \cup {Stamped(<<0, 0, 0>>, MessageStart), Stamped(<<n + 4, 0, 0>>, MessageDelta(t.stop_reason, t.usage)),
              Stamped(<<n + 4, 1, 0>>, MessageStop)}

HasToolUse(t) == \E i \in DOMAIN t.blocks : t.blocks[i].kind = "tool_use"

\* turn(request): the script moves on before the tool choice is looked at.
Ask(choice) ==
  /\ provider = "mock" /\ status # "draining"
  /\ turn' = Absent
  /\ IF cursor = Len(script)
     THEN status' = "IndexError" /\ UNCHANGED <<cursor, events, assembler>>
     ELSE /\ cursor' = cursor + 1
          /\ IF choice = "forced" /\ ~HasToolUse(script[cursor + 1])
             THEN status' = "ValueError" /\ UNCHANGED <<events, assembler>>
             ELSE /\ events' = Listing(TurnEvents(script[cursor + 1]))
                  /\ assembler' = EmptyAssembler /\ status' = "draining"
  /\ UNCHANGED <<provider, script, wire>>

----------------------------------------------------------------------------
(* OpenRouterProvider.                                                     *)

\* _TEXT_INDEX, _THINKING_INDEX and _TOOL_INDEX_BASE.
BlockIndex(c) == [content |-> 0, reasoning |-> 1, tool_calls |-> 2 + c[2]][c[1]]
Kind(c) == [content |-> "text", reasoning |-> "thinking", tool_calls |-> "tool_use"][c[1]]

FinishReason ==
  [stop |-> "end_turn", tool_calls |-> "tool_use", function_call |-> "tool_use",
   length |-> "max_tokens", content_filter |-> "refusal"]

StopReason(raw) == IF raw \in DOMAIN FinishReason THEN FinishReason[raw] ELSE "end_turn"

\* What a block's first event says of it: texts have no identity.
Opening(c, p) == Stub(Kind(c), IF IsCall(c) THEN p.id ELSE "")

\* The events of one piece: an empty text opens nothing, the first piece of a call
\* opens its block.
PieceEvents(c, p) ==
  LET i == BlockIndex(c)
      opens == i \notin opened /\ (IsCall(c) \/ p.part # << >>)
  IN  (IF opens THEN {Stamped(<<i, 0, 0>>, ContentBlockStart(i, Opening(c, p)))} ELSE {})
        \cup IF p.part = << >> THEN {} ELSE {Stamped(<<i, 1, 0>>, ContentBlockDelta(i, p.part))}

Unsent == {c \in DOMAIN sent : sent[c] < Len(message.pieces[c])}

\* The server sends a chunk with the next piece of each channel in C, the
\* finish_reason with or after the last pieces, and the usage after that.
Chunk(C, finishes, counts) ==
  LET es == UNION {PieceEvents(c, message.pieces[c][sent[c] + 1]) : c \in C}
  IN  /\ provider = "openrouter" /\ status = "streaming" /\ events = << >>
      /\ C # {} \/ finishes \/ counts
      /\ finishes => finish = Absent /\ C = Unsent /\ \A c \in C : sent[c] + 1 = Len(message.pieces[c])
      /\ counts => C = {} /\ ~finishes /\ finish # Absent /\ usage = Absent
      /\ sent' = [c \in DOMAIN sent |-> IF c \in C THEN sent[c] + 1 ELSE sent[c]]
      /\ finish' = IF finishes THEN message.finish ELSE finish
      /\ usage' = IF counts THEN message.usage ELSE usage
      /\ opened' = opened \cup {x.event.index : x \in es}
      /\ events' = Listing(es)
      /\ UNCHANGED <<provider, scripted, message, assembler, status, turn>>

\* [DONE], or the end of the response without it.
StreamEnds ==
  LET reason == IF finish = Absent THEN "end_turn" ELSE StopReason(finish)
      count == IF usage = Absent THEN 0 ELSE usage
  IN  /\ provider = "openrouter" /\ status = "streaming" /\ events = << >>
      /\ status' = "draining"
      /\ events' = Listing({Stamped(<<0, i, 0>>, ContentBlockStop(i)) : i \in opened}
                             \cup {Stamped(<<1, 0, 0>>, MessageDelta(reason, count)), Stamped(<<1, 1, 0>>, MessageStop)})
      /\ UNCHANGED <<provider, scripted, wire, assembler, turn>>

\* An error status, a broken connection, a chunk that is no JSON.
StreamBreaks ==
  /\ provider = "openrouter" /\ status = "streaming" /\ events = << >>
  /\ status' = "HTTPError"
  /\ UNCHANGED <<provider, scripted, wire, events, assembler, turn>>

StreamNext ==
  \/ \E choice \in {"model", "forced"} : Ask(choice)
  \/ Yield \/ StreamEnds \/ StreamBreaks
  \/ \E C \in SUBSET Unsent, finishes, counts \in BOOLEAN : Chunk(C, finishes, counts)

StreamSpec == StreamInit /\ [][StreamNext]_streamVars

----------------------------------------------------------------------------
(* Properties.                                                             *)

\* What the pieces of a channel carry, up to the one of index n.
Carried(c, n) == FlattenSeq([k \in 1 .. n |-> message.pieces[c][k].part])

\* The blocks of the message, in the order of the dialect.
Said ==
  LET whole(c) == Carried(c, Len(message.pieces[c]))
      spoken == {c \in DOMAIN message.pieces : IsCall(c) \/ whole(c) # << >>}
      index == Sorted({BlockIndex(c) : c \in spoken})
      said(c) == LET stub == Opening(c, message.pieces[c][1]) IN Block(stub.kind, stub.id, whole(c))
  IN  [k \in DOMAIN index |-> said(CHOOSE c \in spoken : BlockIndex(c) = index[k])]

\* One turn whatever the framing (_assembler.py:8-13, mock_provider.py:10-14): blocks
\* streamed round-robin or one after the other, in fragments of any size, and a
\* message cut into chunks of any channels in any order, assemble to the blocks that
\* were scripted or said, in their order, with their stop reason and usage.
AssembledIsSent ==
  /\ provider = "mock" /\ turn # Absent =>
       LET t == script[cursor]
       IN  turn = AssistantTurn([i \in DOMAIN t.blocks |->
                       Block(t.blocks[i].kind, t.blocks[i].id, t.blocks[i].text)],
                       t.stop_reason, t.usage)
  /\ provider = "openrouter" /\ finish # Absent =>
       /\ status # "JSONDecodeError"
       /\ turn # Absent => turn = AssistantTurn(Said, StopReason(message.finish), IF usage = Absent THEN 0 ELSE usage)

\* A stream that ends early gives a turn of what it brought: texts may be cut, but the
\* arguments of a call are the ones the model sent or none at all, and the turn says
\* "end_turn".
PartialTurnIsPrefix ==
  provider = "openrouter" /\ turn # Absent =>
    /\ finish = Absent => turn.stop_reason = "end_turn"
    /\ \A k \in DOMAIN turn.content :
         LET b == turn.content[k]
         IN  \E j \in DOMAIN Said :
               /\ Said[j].kind = b.kind /\ Said[j].id = b.id
               /\ IF b.kind = "tool_use" THEN b.text \in {<< >>, Said[j].text} ELSE IsPrefix(b.text, Said[j].text)
=============================================================================
