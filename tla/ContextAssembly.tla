-------------------------- MODULE ContextAssembly --------------------------
(***************************************************************************)
(* GraphContextAssembler.assemble (graph_assembler.py): a driver of an     *)
(* agent run folds a view of the graph, splits the run's messages into     *)
(* pinned ones, a tail and the older rest, and past the soft watermark     *)
(* replaces the older ones by an agent.summary node, which it looks for in *)
(* its view and otherwise writes with two verbs, create and link.          *)
(*                                                                         *)
(* Nothing locks a run: other drivers assemble and append between any two  *)
(* awaits, and any of them may die at one.  Messages are not edited or     *)
(* deleted by this code, so what assemble reads after the fold is what the *)
(* fold saw.  Recall and the cache breakpoint are left out: they read the  *)
(* graph and change nothing.                                               *)
(***************************************************************************)
EXTENDS Naturals, FiniteSets

CONSTANTS
  Driver,     \* the processes that run() the run
  MessageId,  \* ids of agent.message nodes, in the order of their strings
  SummaryId,  \* ids of agent.summary nodes, likewise
  Role,
  Spoken,     \* the roles whose messages carry text, one unit each
  TailKeep,   \* _TAIL_KEEP
  Policy,     \* the AssemblyPolicy values considered
  None

\* CompactionPolicy and AssemblyPolicy; LoopPolicy demands the soft watermark
\* below the hard one.
IsPolicy(p) ==
  /\ p.threshold \in Nat \cup {None} /\ p.token_budget \in Nat \cup {None}
  /\ p.pin \subseteq Role
  /\ None \notin {p.threshold, p.token_budget} => p.threshold < p.token_budget

ASSUME AssemblyAssumption ==
  /\ MessageId \subseteq Nat
  /\ SummaryId \subseteq Nat
  /\ Spoken \subseteq Role
  /\ TailKeep \in Nat \ {0}
  /\ \A p \in Policy : IsPolicy(p)
  /\ None \notin Nat

VARIABLES
  policy,     \* of the run
  capable,    \* the provider node's cache_capable
  messages,   \* agent.message nodes linked PART_OF the run: id and role
  summaries,  \* agent.summary nodes linked PART_OF the run: id, text, what they
              \* stand for and the driver that wrote them
  created,    \* ids of all agent.summary nodes, linked or not
  pc,         \* where the assembly of a driver is
  view,       \* the view it folded, None between assemblies
  node,       \* the agent.summary it created and has not linked
  context     \* the last AssembledContext it got, and the messages that was made of

setting == <<policy, capable>>
vars == <<setting, messages, summaries, created, pc, view, node, context>>

Message == [id : MessageId, role : Role]

----------------------------------------------------------------------------
(* The split of a run's messages.                                          *)

Later(m, M) == {x \in M : x.id > m.id}

Pinned(M) == {m \in M : m.role \in policy.pin}
Unpinned(M) == {m \in M : m.role \notin policy.pin}

----------------------------------------------------------------------------
(* Bugs for the mutation runs.                                             *)

\* Compaction never looks for a summary it wrote before.
NeverReused(v, text) == {}

\* Any summary of the run is reused.
AnyReused(v, text) == v.summaries

\* The newest of the matching summaries is reused.
NewestOf(S) == CHOOSE s \in S : \A t \in S : s.id >= t.id

----------------------------------------------------------------------------

\* unpinned[-_TAIL_KEEP:], whether the rest is compacted or not.
Recent(U) == {m \in U : Cardinality(Later(m, U)) < TailKeep}
TailOf(M) == Recent(Unpinned(M))
Older(M) == Unpinned(M) \ TailOf(M)

\* _cumulative_tokens: the length of the text, not the usage of the turns.
Cumulative(M) == Cardinality({m \in M : m.role \in Spoken})

Threshold ==
  IF policy.threshold = None \/ capable THEN policy.threshold ELSE policy.threshold \div 2

AtHardHalt(M) == policy.token_budget # None /\ Cumulative(M) >= policy.token_budget

MustCompact(M) ==
  /\ ~AtHardHalt(M)
  /\ Threshold # None /\ Cumulative(M) >= Threshold
  /\ Cardinality(Unpinned(M)) > TailKeep

\* _summary_data: the number of the messages and their roles in order.
Text(S) ==
  [k \in 1 .. Cardinality(S) |->
     (CHOOSE m \in S : Cardinality(Later(m, S)) = Cardinality(S) - k).role]

\* _existing_summary: the summaries of a view that carry the text; the first is taken.
Existing(v, text) == {s \in v.summaries : s.text = text}
FirstOf(S) == CHOOSE s \in S : \A t \in S : s.id <= t.id

Assembled(M, summary) ==
  [seen |-> M, pinned |-> Pinned(M), tail |-> TailOf(M), summary |-> summary]

----------------------------------------------------------------------------

Init ==
  /\ policy \in Policy /\ capable \in BOOLEAN
  /\ messages = {} /\ summaries = {} /\ created = {}
  /\ pc = [d \in Driver |-> "idle"]
  /\ view = [d \in Driver |-> None]
  /\ node = [d \in Driver |-> None]
  /\ context = [d \in Driver |-> None]

\* append_message.  The node's id is taken before its link is logged, so among
\* several writers the links come in any order of the ids.
AppendMessage(i, role) ==
  /\ \A m \in messages : m.id # i
  /\ messages' = messages \cup {[id |-> i, role |-> role]}
  /\ UNCHANGED <<setting, summaries, created, pc, view, node, context>>

Folded == [messages |-> messages, summaries |-> summaries]

\* Nothing to compact, or a summary to reuse: the assembly writes nothing.
Assemble(d) ==
  LET found == Existing(Folded, Text(Older(messages)))
  IN  /\ pc[d] = "idle"
      /\ \/ ~MustCompact(messages)
            /\ context' = [context EXCEPT ![d] = Assembled(messages, None)]
         \/ MustCompact(messages) /\ found # {}
            /\ context' = [context EXCEPT ![d] = Assembled(messages, FirstOf(found).id)]
      /\ UNCHANGED <<setting, messages, summaries, created, pc, view, node>>

\* The view has no summary of the older messages.
Perceive(d) ==
  /\ pc[d] = "idle" /\ MustCompact(messages)
  /\ Existing(Folded, Text(Older(messages))) = {}
  /\ pc' = [pc EXCEPT ![d] = "create"]
  /\ view' = [view EXCEPT ![d] = Folded]
  /\ UNCHANGED <<setting, messages, summaries, created, node, context>>

CreateSummary(d, i) ==
  /\ pc[d] = "create" /\ i \notin created
  /\ created' = created \cup {i}
  /\ node' = [node EXCEPT ![d] = i]
  /\ pc' = [pc EXCEPT ![d] = "link"]
  /\ UNCHANGED <<setting, messages, summaries, view, context>>

LinkSummary(d) ==
  LET seen == view[d].messages
  IN  /\ pc[d] = "link"
      /\ summaries' = summaries \cup
           {[id |-> node[d], text |-> Text(Older(seen)), covers |-> Older(seen), by |-> d]}
      /\ context' = [context EXCEPT ![d] = Assembled(seen, node[d])]
      /\ pc' = [pc EXCEPT ![d] = "idle"]
      /\ view' = [view EXCEPT ![d] = None]
      /\ node' = [node EXCEPT ![d] = None]
      /\ UNCHANGED <<setting, messages, created>>

\* The process dies, or the task is cancelled, at one of the two awaits: a
\* summary that was created and not linked stays where no view leads to it.
Crash(d) ==
  /\ pc[d] # "idle"
  /\ pc' = [pc EXCEPT ![d] = "idle"]
  /\ view' = [view EXCEPT ![d] = None]
  /\ node' = [node EXCEPT ![d] = None]
  /\ UNCHANGED <<setting, messages, summaries, created, context>>

Next ==
  \/ \E i \in MessageId, role \in Role : AppendMessage(i, role)
  \/ \E d \in Driver :
       \/ Assemble(d) \/ Perceive(d) \/ LinkSummary(d) \/ Crash(d)
       \/ \E i \in SummaryId : CreateSummary(d, i)

Spec == Init /\ [][Next]_vars

----------------------------------------------------------------------------
(* Properties.                                                             *)

View == [messages : SUBSET Message, summaries : SUBSET summaries]
Context ==
  [seen : SUBSET Message, pinned : SUBSET Message,
   tail : {S \in SUBSET Message : Cardinality(S) <= TailKeep},
   summary : created \cup {None}]

TypeOK ==
  /\ policy \in Policy /\ capable \in BOOLEAN
  /\ messages \subseteq Message
  /\ \A s \in summaries : s.id \in created /\ s.covers \subseteq messages /\ s.by \in Driver
  /\ created \subseteq SummaryId
  /\ pc \in [Driver -> {"idle", "create", "link"}]
  /\ view \in [Driver -> View \cup {None}]
  /\ node \in [Driver -> created \cup {None}]
  /\ context \in [Driver -> Context \cup {None}]

\* Compaction is idempotent per driver (_write_summary: "one summary per compacted
\* range, never a duplicate"): however drivers overlap, crash and start again, none
\* links two summaries of one text to the run.
OneSummaryEach ==
  \A s, t \in summaries : s.by = t.by /\ s.text = t.text => s = t

\* A compacted context accounts for every message its assembly saw: what is
\* neither pinned nor in the tail is what its summary stands for, also when the
\* summary was written by another driver from another view.
SummaryCoversRest ==
  \A d \in Driver : context[d] # None /\ context[d].summary # None =>
    \E s \in summaries :
      /\ s.id = context[d].summary
      /\ s.covers = context[d].seen \ (context[d].pinned \cup context[d].tail)

\* summary_ref settles: as long as a driver compacts the same messages, the summary
\* it gets never moves to a later one.
SummaryRefSettles ==
  [][\A d \in Driver :
       LET old == context[d] new == context'[d]
       IN  (old # None /\ new # None /\ old.summary # None /\ new.summary # None
              /\ Older(old.seen) = Older(new.seen))
           => new.summary <= old.summary]_vars
=============================================================================
