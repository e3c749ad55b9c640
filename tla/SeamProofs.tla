----------------------------- MODULE SeamProofs -----------------------------
(***************************************************************************)
(* Theorems about the seams of an agent's turn: ContextAssembly, for any   *)
(* number of drivers, messages and summaries and every policy; Uuid7, for  *)
(* any number of threads, any limit of the counter and any clock;          *)
(* ManualClock and ToolRetry, for any number of invocations, any retry     *)
(* policies and any steps of the clock; and ProviderStream, for every      *)
(* script, every message of a server and every way to cut it into chunks.  *)
(***************************************************************************)
EXTENDS ContextAssembly, Uuid7, ToolRetry, ProviderStream, Induction, FiniteSetTheorems, SequenceTheorems

----------------------------------------------------------------------------
(* The operators.                                                          *)

\* Messages of one run: finitely many, each with its own id.
Messages(M) ==
  /\ M \subseteq Message /\ IsFiniteSet(M)
  /\ \A m, n \in M : m.id = n.id => m = n

LEMMA MessagesSubset ==
  ASSUME NEW N, Messages(N), NEW M \in SUBSET N PROVE Messages(M)
BY FS_Subset DEF Messages

LEMMA LaterGrows ==
  ASSUME NEW V, IsFiniteSet(V), NEW U \in SUBSET V, NEW m
  PROVE  /\ Cardinality(Later(m, U)) \in Nat /\ Cardinality(Later(m, V)) \in Nat
         /\ Cardinality(Later(m, U)) <= Cardinality(Later(m, V))
<1>1. Later(m, U) \in SUBSET Later(m, V) /\ Later(m, V) \in SUBSET V
  BY DEF Later
<1>2. IsFiniteSet(Later(m, V))
  BY <1>1, FS_Subset
<1>3. IsFiniteSet(Later(m, U)) /\ Cardinality(Later(m, U)) <= Cardinality(Later(m, V))
  BY <1>1, <1>2, FS_Subset
<1> QED BY <1>2, <1>3, FS_CardinalityType

\* A message that has left the tail never comes back.
LEMMA OlderGrows ==
  ASSUME NEW N, IsFiniteSet(N), NEW M \in SUBSET N
  PROVE  Older(M) \subseteq Older(N)
<1> DEFINE U == Unpinned(M)
           V == Unpinned(N)
<1>1. U \in SUBSET V /\ V \in SUBSET N
  BY DEF Unpinned
<1>2. IsFiniteSet(V)
  BY <1>1, FS_Subset
<1> SUFFICES ASSUME NEW m \in Older(M) PROVE m \in Older(N)
  OBVIOUS
<1>3. m \in U /\ ~(Cardinality(Later(m, U)) < TailKeep)
  BY DEF Older, TailOf, Recent
<1>4. /\ Cardinality(Later(m, U)) \in Nat /\ Cardinality(Later(m, V)) \in Nat
      /\ Cardinality(Later(m, U)) <= Cardinality(Later(m, V))
  BY <1>1, <1>2, LaterGrows
<1>5. m \in V /\ ~(Cardinality(Later(m, V)) < TailKeep)
  <2> HIDE DEF U, V
  <2> QED BY <1>1, <1>3, <1>4, AssemblyAssumption
<1> QED BY <1>5 DEF Older, TailOf, Recent

\* The tail is at most TailKeep messages: two of them have different numbers of
\* later ones, and each number is below TailKeep.
LEMMA TailIsShort ==
  ASSUME NEW M, Messages(M) PROVE IsFiniteSet(TailOf(M)) /\ Cardinality(TailOf(M)) <= TailKeep
<1> DEFINE U == Unpinned(M)
           S == TailOf(M)
           rank == [m \in S |-> Cardinality(Later(m, U))]
<1>1. U \in SUBSET M /\ S \in SUBSET U
  BY DEF Unpinned, TailOf, Recent
<1>2. Messages(U) /\ IsFiniteSet(U) /\ IsFiniteSet(S)
  BY <1>1, MessagesSubset, FS_Subset DEF Messages
<1>3. rank \in [S -> 0 .. TailKeep - 1]
  <2> SUFFICES ASSUME NEW m \in S PROVE Cardinality(Later(m, U)) \in 0 .. TailKeep - 1
    OBVIOUS
  <2>1. Cardinality(Later(m, U)) \in Nat
    BY <1>2, LaterGrows
  <2>2. Cardinality(Later(m, U)) < TailKeep
    BY DEF TailOf, Recent
  <2> QED BY <2>1, <2>2, AssemblyAssumption
<1>4. ASSUME NEW m \in S, NEW n \in S, m.id < n.id PROVE rank[m] # rank[n]
  <2>1. n \in Later(m, U) /\ n \notin Later(n, U) /\ Later(n, U) \in SUBSET Later(m, U)
    <3>1. m \in Message /\ n \in Message /\ n \in U /\ U \subseteq Message
      BY <1>1, <1>2 DEF Messages
    <3>2. \A x \in Message : x.id \in Nat
      BY AssemblyAssumption DEF Message
    <3> QED BY <1>4, <3>1, <3>2 DEF Later
  <2>2. IsFiniteSet(Later(m, U))
    <3>1. Later(m, U) \in SUBSET U
      BY DEF Later
    <3> QED BY <1>2, <3>1, FS_Subset
  <2>3. Cardinality(Later(m, U)) # Cardinality(Later(n, U))
    BY <2>1, <2>2, FS_Subset
  <2> QED BY <2>3
<1>5. ASSUME NEW m \in S, NEW n \in S, m # n PROVE rank[m] # rank[n]
  <2>1. m.id # n.id /\ m.id \in Nat /\ n.id \in Nat
    BY <1>1, <1>2, <1>5, AssemblyAssumption DEF Messages, Message
  <2>2. m.id < n.id \/ n.id < m.id
    BY <2>1
  <2> HIDE DEF rank, S
  <2> QED BY <2>2, <1>4
<1>6. IsFiniteSet(0 .. TailKeep - 1) /\ Cardinality(0 .. TailKeep - 1) = TailKeep
  BY FS_Interval, AssemblyAssumption
<1>7. ~(Cardinality(0 .. TailKeep - 1) < Cardinality(S))
  <2> HIDE DEF rank, S
  <2> QED BY <1>2, <1>3, <1>5, <1>6, FS_PigeonHole
<1> HIDE DEF S
<1>8. Cardinality(S) \in Nat
  BY <1>2, FS_CardinalityType
<1> QED BY <1>2, <1>6, <1>7, <1>8, AssemblyAssumption DEF S

\* The text of a summary tells how many messages it stands for.
LEMMA TextLength ==
  ASSUME NEW S, IsFiniteSet(S), NEW T, IsFiniteSet(T), Text(S) = Text(T)
  PROVE  Cardinality(S) = Cardinality(T)
<1>1. Cardinality(S) \in Nat /\ Cardinality(T) \in Nat
  BY FS_CardinalityType
<1>2. 1 .. Cardinality(S) = 1 .. Cardinality(T)
  <2>1. DOMAIN Text(S) = 1 .. Cardinality(S) /\ DOMAIN Text(T) = 1 .. Cardinality(T)
    BY DEF Text
  <2> QED BY <2>1
<1> QED BY <1>1, <1>2

\* A summary that stands for some of the older messages and has their text stands for all.
LEMMA TextIdentifies ==
  ASSUME NEW T, IsFiniteSet(T), NEW S \in SUBSET T, Text(S) = Text(T) PROVE S = T
<1>1. IsFiniteSet(S)
  BY FS_Subset
<1> QED BY <1>1, TextLength, FS_Subset

LEMMA FirstIsFirst ==
  ASSUME NEW S, S # {}, \A s \in S : s.id \in Nat
  PROVE  FirstOf(S) \in S /\ \A t \in S : FirstOf(S).id <= t.id
<1> DEFINE I == {s.id : s \in S}
<1>1. PICK i \in I : \A j \in I : i <= j
  BY LeastNatural
<1>2. \E s \in S : \A t \in S : s.id <= t.id
  BY <1>1
<1> QED BY <1>2 DEF FirstOf

----------------------------------------------------------------------------
(* The invariant: a summary has the text of what it stands for, which is   *)
(* part of the older messages; a driver about to write one saw none in its *)
(* view, and its view has all it has linked and been given; and a context  *)
(* is what Assembled made of the messages its assembly saw.                *)

Sound(s) == s.text = Text(s.covers) /\ s.covers \subseteq Older(messages)

Backed(d, S) ==
  context[d] # None /\ context[d].summary # None =>
    \E s \in S : s.id = context[d].summary /\ s.covers = Older(context[d].seen)

Given(d) ==
  context[d] # None =>
    /\ context[d].pinned = Pinned(context[d].seen)
    /\ context[d].tail = TailOf(context[d].seen)

Pending(d) ==
  /\ view[d] \in View
  /\ view[d].messages \subseteq messages
  /\ Existing(view[d], Text(Older(view[d].messages))) = {}
  /\ \A s \in summaries : s.by = d => s \in view[d].summaries
  /\ Backed(d, view[d].summaries)

AssemblyInv ==
  /\ TypeOK /\ Messages(messages) /\ OneSummaryEach
  /\ \A s \in summaries : Sound(s)
  /\ \A d \in Driver :
       /\ Given(d) /\ Backed(d, summaries)
       /\ pc[d] # "idle" => Pending(d)
       /\ pc[d] = "link" => node[d] \in created

LEMMA InitInv == ASSUME Init PROVE AssemblyInv
<1>1. TypeOK
  BY DEF Init, TypeOK
<1>2. Messages(messages) /\ OneSummaryEach /\ \A s \in summaries : Sound(s)
  BY FS_EmptySet DEF Init, Messages, OneSummaryEach
<1>3. \A d \in Driver : Given(d) /\ Backed(d, summaries) /\ pc[d] = "idle"
  BY DEF Init, Given, Backed
<1> QED BY <1>1, <1>2, <1>3 DEF AssemblyInv

\* The setting of a run does not change.
LEMMA OlderPrimed ==
  ASSUME UNCHANGED setting, NEW M PROVE Older(M)' = Older(M) /\ Pinned(M)' = Pinned(M) /\ TailOf(M)' = TailOf(M)
BY DEF setting, Older, TailOf, Unpinned, Pinned

LEMMA OlderMessagesPrimed ==
  ASSUME UNCHANGED setting, Messages(messages'), messages \subseteq messages'
  PROVE  Older(messages) \subseteq Older(messages)'
<1>1. Older(messages) \subseteq Older(messages')
  BY OlderGrows DEF Messages
<1>2. Older(messages)' = Older(messages')
  BY DEF setting, Older, TailOf, Unpinned
<1> QED BY <1>1, <1>2

\* What a step that does not touch a driver keeps of it.
LEMMA OthersKeep ==
  ASSUME AssemblyInv, NEW d \in Driver, UNCHANGED setting, context'[d] = context[d],
         messages \subseteq messages', summaries \subseteq summaries',
         \A s \in summaries' : s.by = d => s \in summaries
  PROVE  /\ Given(d)' /\ Backed(d, summaries)'
         /\ view'[d] = view[d] /\ pc[d] # "idle" => Pending(d)'
<1>1. Given(d) /\ Backed(d, summaries)
  BY DEF AssemblyInv
<1>2. Given(d)'
  <2>1. /\ Pinned(context[d].seen)' = Pinned(context[d].seen)
        /\ TailOf(context[d].seen)' = TailOf(context[d].seen)
    BY DEF setting, Pinned, TailOf, Unpinned
  <2> QED BY <1>1, <2>1 DEF Given
<1>3. Older(context[d].seen)' = Older(context[d].seen)
  BY DEF setting, TailOf, Older, Unpinned
<1>4. Backed(d, summaries)'
  BY <1>1, <1>3 DEF Backed
<1>5. ASSUME view'[d] = view[d], pc[d] # "idle" PROVE Pending(d)'
  <2>1. Pending(d)
    BY <1>5 DEF AssemblyInv
  <2>2. /\ view'[d] \in View' /\ view'[d].messages \subseteq messages'
        /\ \A s \in summaries' : s.by = d => s \in view'[d].summaries
    BY <1>5, <2>1 DEF Pending, View
  <2>3. Existing(view[d], Text(Older(view[d].messages)))' = {}
    <3>1. Older(view[d].messages)' = Older(view[d].messages)
      BY <1>5 DEF setting, TailOf, Older, Unpinned
    <3> QED BY <1>5, <2>1, <3>1 DEF Pending, Existing
  <2>4. Backed(d, view[d].summaries)'
    BY <1>3, <1>5, <2>1 DEF Pending, Backed
  <2> QED BY <2>2, <2>3, <2>4 DEF Pending
<1> QED BY <1>2, <1>4, <1>5

LEMMA AppendMessageInv ==
  ASSUME AssemblyInv, NEW i \in MessageId, NEW role \in Role, AppendMessage(i, role)
  PROVE  AssemblyInv'
<1> DEFINE m == [id |-> i, role |-> role]
<1>1. messages' = messages \cup {m} /\ \A n \in messages : n.id # i
  BY DEF AppendMessage
<1>2. UNCHANGED <<setting, policy, capable, summaries, created, pc, view, node, context>>
  BY DEF AppendMessage, setting
<1>3. m \in Message /\ m.id = i
  BY DEF Message
<1>4. Messages(messages')
  <2> HIDE DEF m
  <2> QED BY <1>1, <1>3, FS_AddElement DEF AssemblyInv, Messages
<1>5. messages \subseteq messages'
  BY <1>1
<1>6. TypeOK'
  <2>1. messages' \subseteq Message
    BY <1>4 DEF Messages
  <2>2. \A s \in summaries' : s.id \in created' /\ s.covers \subseteq messages' /\ s.by \in Driver
    BY <1>2, <1>5 DEF AssemblyInv, TypeOK
  <2>3. View' = View /\ Context' = Context
    BY <1>2 DEF View, Context
  <2> QED BY <1>2, <2>1, <2>2, <2>3 DEF AssemblyInv, TypeOK
<1>7. OneSummaryEach'
  BY <1>2 DEF AssemblyInv, OneSummaryEach
<1>8. \A s \in summaries' : Sound(s)'
  <2>1. Older(messages) \subseteq Older(messages)'
    BY <1>2, <1>4, <1>5, OlderMessagesPrimed
  <2> QED BY <1>2, <2>1 DEF AssemblyInv, Sound
<1>9. ASSUME NEW d \in Driver
      PROVE  /\ Given(d)' /\ Backed(d, summaries)'
             /\ pc'[d] # "idle" => Pending(d)'
             /\ pc'[d] = "link" => node'[d] \in created'
  <2>1. Given(d)' /\ Backed(d, summaries)' /\ (pc[d] # "idle" => Pending(d)')
    BY <1>2, <1>5, OthersKeep
  <2> QED BY <1>2, <2>1 DEF AssemblyInv
<1> QED BY <1>4, <1>6, <1>7, <1>8, <1>9 DEF AssemblyInv

LEMMA AssembledType ==
  ASSUME NEW M, Messages(M), NEW x \in created \cup {None}
  PROVE  Assembled(M, x) \in Context
<1>1. Pinned(M) \subseteq M /\ TailOf(M) \subseteq M /\ M \subseteq Message
  BY DEF Pinned, TailOf, Recent, Unpinned, Messages
<1>2. Cardinality(TailOf(M)) <= TailKeep
  BY TailIsShort
<1> QED BY <1>1, <1>2 DEF Assembled, Context

LEMMA OlderFinite ==
  ASSUME NEW M, Messages(M) PROVE IsFiniteSet(Older(M))
<1>1. Older(M) \in SUBSET M
  BY DEF Older, Unpinned
<1> QED BY <1>1, FS_Subset DEF Messages

\* A summary that is found for the messages of the run stands for their older part.
LEMMA FoundCovers ==
  ASSUME AssemblyInv, NEW s \in Existing(Folded, Text(Older(messages)))
  PROVE  s \in summaries /\ s.covers = Older(messages)
<1>1. s \in summaries /\ s.text = Text(Older(messages))
  BY DEF Existing, Folded
<1>2. s.covers \in SUBSET Older(messages) /\ s.text = Text(s.covers)
  BY <1>1 DEF AssemblyInv, Sound
<1>3. IsFiniteSet(Older(messages))
  BY OlderFinite DEF AssemblyInv
<1>4. Text(s.covers) = Text(Older(messages))
  BY <1>1, <1>2
<1>5. s.covers = Older(messages)
  <2> DEFINE T == Older(messages)
             S == s.covers
  <2>1. IsFiniteSet(T) /\ S \in SUBSET T /\ Text(S) = Text(T)
    BY <1>2, <1>3, <1>4
  <2> HIDE DEF T, S
  <2>2. S = T
    BY <2>1, TextIdentifies
  <2> QED BY <2>2 DEF S, T
<1> QED BY <1>1, <1>5

\* The summary an assembly reuses.
LEMMA ReusedIsFirst ==
  ASSUME AssemblyInv,
         NEW found, found = Existing(Folded, Text(Older(messages))), found # {}
  PROVE  /\ FirstOf(found) \in summaries /\ FirstOf(found).id \in created
         /\ FirstOf(found).covers = Older(messages)
         /\ \A s \in found : FirstOf(found).id <= s.id
<1>1. \A s \in found : s \in summaries /\ s.covers = Older(messages)
  BY FoundCovers
<1>2. \A s \in found : s.id \in created /\ s.id \in Nat
  BY <1>1, AssemblyAssumption DEF AssemblyInv, TypeOK
<1>3. FirstOf(found) \in found /\ \A s \in found : FirstOf(found).id <= s.id
  BY <1>2, FirstIsFirst
<1> QED BY <1>1, <1>2, <1>3

LEMMA AssembleInv ==
  ASSUME AssemblyInv, NEW e \in Driver, Assemble(e) PROVE AssemblyInv'
<1> DEFINE found == Existing(Folded, Text(Older(messages)))
<1>1. /\ pc[e] = "idle"
      /\ UNCHANGED <<setting, policy, capable, messages, summaries, created, pc, view, node>>
  BY DEF Assemble, setting
<1>2. PICK x \in created \cup {None} :
        /\ context' = [context EXCEPT ![e] = Assembled(messages, x)]
        /\ x # None => \E s \in summaries : s.id = x /\ s.covers = Older(messages)
  <2>1. CASE context' = [context EXCEPT ![e] = Assembled(messages, None)]
    BY <2>1
  <2>2. CASE found # {} /\ context' = [context EXCEPT ![e] = Assembled(messages, FirstOf(found).id)]
    <3>1. /\ FirstOf(found) \in summaries /\ FirstOf(found).id \in created
          /\ FirstOf(found).covers = Older(messages)
      <4> HIDE DEF found
      <4> QED BY <2>2, ReusedIsFirst DEF found
    <3> HIDE DEF found
    <3> QED BY <2>2, <3>1
  <2> QED BY <2>1, <2>2 DEF Assemble
<1>3. Assembled(messages, x) \in Context
  BY AssembledType DEF AssemblyInv
<1>4. context' \in [Driver -> Context \cup {None}] /\ context'[e] = Assembled(messages, x)
      /\ \A d \in Driver \ {e} : context'[d] = context[d]
  BY <1>2, <1>3 DEF AssemblyInv, TypeOK
<1>5. TypeOK'
  <2>1. View' = View /\ Context' = Context
    BY <1>1 DEF View, Context
  <2> QED BY <1>1, <1>4, <2>1 DEF AssemblyInv, TypeOK
<1>6. Messages(messages') /\ OneSummaryEach'
  BY <1>1 DEF AssemblyInv, OneSummaryEach
<1>7. \A s \in summaries' : Sound(s)'
  BY <1>1 DEF AssemblyInv, Sound, setting, Older, TailOf, Unpinned
<1>8. Given(e)' /\ Backed(e, summaries)'
  <2>1. /\ context'[e].seen = messages /\ context'[e].summary = x
        /\ context'[e].pinned = Pinned(messages) /\ context'[e].tail = TailOf(messages)
    BY <1>4 DEF Assembled
  <2>2. Given(e)'
    BY <1>1, <2>1 DEF Given, setting, Pinned, TailOf, Unpinned
  <2>3. Older(context[e].seen)' = Older(messages)
    BY <1>1, <2>1 DEF setting, Older, TailOf, Unpinned
  <2> QED BY <1>1, <1>2, <2>1, <2>2, <2>3 DEF Backed
<1>9. ASSUME NEW d \in Driver
      PROVE  /\ Given(d)' /\ Backed(d, summaries)'
             /\ pc'[d] # "idle" => Pending(d)'
             /\ pc'[d] = "link" => node'[d] \in created'
  <2>1. CASE d = e
    BY <1>1, <1>8, <2>1
  <2>2. CASE d # e
    <3>1. context'[d] = context[d]
      BY <1>4, <2>2
    <3>2. Given(d)' /\ Backed(d, summaries)' /\ (pc[d] # "idle" => Pending(d)')
      BY <1>1, <3>1, OthersKeep
    <3> QED BY <1>1, <3>2 DEF AssemblyInv
  <2> QED BY <2>1, <2>2
<1> QED BY <1>5, <1>6, <1>7, <1>9 DEF AssemblyInv

LEMMA PerceiveInv ==
  ASSUME AssemblyInv, NEW e \in Driver, Perceive(e) PROVE AssemblyInv'
<1>1. /\ pc[e] = "idle" /\ pc' = [pc EXCEPT ![e] = "create"]
      /\ view' = [view EXCEPT ![e] = Folded]
      /\ Existing(Folded, Text(Older(messages))) = {}
      /\ UNCHANGED <<setting, policy, capable, messages, summaries, created, node, context>>
  BY DEF Perceive, setting
<1>2. Folded \in View /\ Folded.messages = messages /\ Folded.summaries = summaries
  BY DEF Folded, View, AssemblyInv, Messages
<1>3. /\ view' \in [Driver -> View \cup {None}] /\ view'[e] = Folded
      /\ pc' \in [Driver -> {"idle", "create", "link"}] /\ pc'[e] = "create"
      /\ \A d \in Driver \ {e} : view'[d] = view[d] /\ pc'[d] = pc[d]
  BY <1>1, <1>2 DEF AssemblyInv, TypeOK
<1>4. View' = View /\ Context' = Context
  BY <1>1 DEF View, Context
<1>5. TypeOK'
  BY <1>1, <1>3, <1>4 DEF AssemblyInv, TypeOK
<1>6. Messages(messages') /\ OneSummaryEach'
  BY <1>1 DEF AssemblyInv, OneSummaryEach
<1>7. \A s \in summaries' : Sound(s)'
  BY <1>1 DEF AssemblyInv, Sound, setting, Older, TailOf, Unpinned
<1>8. ASSUME NEW d \in Driver PROVE Given(d)' /\ Backed(d, summaries)'
  BY <1>1, OthersKeep
<1>9. ASSUME NEW d \in Driver
      PROVE  (pc'[d] # "idle" => Pending(d)') /\ (pc'[d] = "link" => node'[d] \in created')
  <2>1. CASE d = e
    <3>1. Existing(Folded, Text(Older(messages)))' = {}
      BY <1>1 DEF Existing, Folded, setting, Older, TailOf, Unpinned
    <3>2. view'[d] = Folded /\ Folded' = Folded
      BY <1>1, <1>3, <2>1 DEF Folded
    <3>3. Existing(view[d], Text(Older(view[d].messages)))' = {}
      BY <1>1, <1>2, <3>1, <3>2 DEF Existing, setting, Older, TailOf, Unpinned
    <3>4. Backed(d, view[d].summaries)'
      BY <1>1, <1>2, <1>8, <3>2 DEF Backed
    <3> QED BY <1>1, <1>2, <1>3, <1>4, <2>1, <3>2, <3>3, <3>4 DEF Pending
  <2>2. CASE d # e
    <3>1. view'[d] = view[d] /\ pc'[d] = pc[d]
      BY <1>3, <2>2
    <3>2. pc[d] # "idle" => Pending(d)'
      BY <1>1, <3>1, OthersKeep
    <3> QED BY <1>1, <3>1, <3>2 DEF AssemblyInv
  <2> QED BY <2>1, <2>2
<1> QED BY <1>5, <1>6, <1>7, <1>8, <1>9 DEF AssemblyInv

LEMMA CreateSummaryInv ==
  ASSUME AssemblyInv, NEW e \in Driver, NEW i \in SummaryId, CreateSummary(e, i)
  PROVE  AssemblyInv'
<1>1. /\ pc[e] = "create" /\ pc' = [pc EXCEPT ![e] = "link"]
      /\ created' = created \cup {i} /\ node' = [node EXCEPT ![e] = i]
      /\ UNCHANGED <<setting, policy, capable, messages, summaries, view, context>>
  BY DEF CreateSummary, setting
<1>2. /\ node' \in [Driver -> created' \cup {None}] /\ node'[e] = i
      /\ pc' \in [Driver -> {"idle", "create", "link"}] /\ pc'[e] = "link"
      /\ \A d \in Driver \ {e} : node'[d] = node[d] /\ pc'[d] = pc[d]
  BY <1>1 DEF AssemblyInv, TypeOK
<1>3. View' = View /\ Context \subseteq Context'
  BY <1>1 DEF View, Context
<1>4. TypeOK'
  <2>1. context' \in [Driver -> Context' \cup {None}]
    BY <1>1, <1>3 DEF AssemblyInv, TypeOK
  <2> QED BY <1>1, <1>2, <1>3, <2>1 DEF AssemblyInv, TypeOK
<1>5. Messages(messages') /\ OneSummaryEach'
  BY <1>1 DEF AssemblyInv, OneSummaryEach
<1>6. \A s \in summaries' : Sound(s)'
  BY <1>1 DEF AssemblyInv, Sound, setting, Older, TailOf, Unpinned
<1>7. ASSUME NEW d \in Driver
      PROVE  Given(d)' /\ Backed(d, summaries)' /\ (pc[d] # "idle" => Pending(d)')
  BY <1>1, OthersKeep
<1>8. ASSUME NEW d \in Driver
      PROVE  (pc'[d] # "idle" => Pending(d)') /\ (pc'[d] = "link" => node'[d] \in created')
  <2>1. pc'[d] # "idle" => pc[d] # "idle"
    BY <1>1, <1>2
  <2>2. pc[d] # "idle" => Pending(d)'
    BY <1>7
  <2>3. pc'[d] = "link" => node'[d] \in created'
    BY <1>1, <1>2 DEF AssemblyInv
  <2> QED BY <2>1, <2>2, <2>3
<1> QED BY <1>4, <1>5, <1>6, <1>7, <1>8 DEF AssemblyInv

LEMMA LinkSummaryInv ==
  ASSUME AssemblyInv, NEW e \in Driver, LinkSummary(e) PROVE AssemblyInv'
<1> DEFINE seen == view[e].messages
           new == [id |-> node[e], text |-> Text(Older(seen)), covers |-> Older(seen), by |-> e]
<1>1. /\ pc[e] = "link" /\ pc' = [pc EXCEPT ![e] = "idle"]
      /\ summaries' = summaries \cup {new}
      /\ context' = [context EXCEPT ![e] = Assembled(seen, node[e])]
      /\ view' = [view EXCEPT ![e] = None] /\ node' = [node EXCEPT ![e] = None]
      /\ UNCHANGED <<setting, policy, capable, messages, created>>
  BY DEF LinkSummary, setting
<1>2. /\ Pending(e) /\ node[e] \in created /\ seen \subseteq messages
      /\ seen \in SUBSET Message /\ Messages(seen)
  <2>1. Pending(e) /\ node[e] \in created
    BY <1>1 DEF AssemblyInv
  <2>2. seen \subseteq messages
    BY <2>1 DEF Pending
  <2> QED BY <2>1, <2>2, MessagesSubset DEF AssemblyInv, Messages
<1>3. Assembled(seen, node[e]) \in Context
  BY <1>2, AssembledType
<1>4. new.id = node[e] /\ new.text = Text(new.covers) /\ new.covers = Older(seen) /\ new.by = e
  OBVIOUS
<1>5. Older(seen) \subseteq Older(messages) /\ Older(seen) \subseteq messages
  <2>1. Older(seen) \subseteq Older(messages)
    BY <1>2, OlderGrows DEF AssemblyInv, Messages
  <2> QED BY <2>1 DEF Older, Unpinned
<1> HIDE DEF new
<1>6. /\ pc' \in [Driver -> {"idle", "create", "link"}] /\ pc'[e] = "idle"
      /\ node' \in [Driver -> created \cup {None}]
      /\ context' \in [Driver -> Context \cup {None}]
      /\ context'[e] = Assembled(seen, node[e])
      /\ \A d \in Driver \ {e} :
           pc'[d] = pc[d] /\ view'[d] = view[d] /\ node'[d] = node[d] /\ context'[d] = context[d]
  <2> HIDE DEF seen
  <2> QED BY <1>1, <1>3 DEF AssemblyInv, TypeOK
<1>7. View \subseteq View' /\ Context' = Context
  BY <1>1 DEF View, Context
<1>8. TypeOK'
  <2>1. view' \in [Driver -> View' \cup {None}]
    BY <1>1, <1>7 DEF AssemblyInv, TypeOK
  <2>2. \A s \in summaries' : s.id \in created' /\ s.covers \subseteq messages' /\ s.by \in Driver
    BY <1>1, <1>2, <1>4, <1>5 DEF AssemblyInv, TypeOK
  <2> QED BY <1>1, <1>6, <1>7, <2>1, <2>2 DEF AssemblyInv, TypeOK
<1>9. Messages(messages')
  BY <1>1 DEF AssemblyInv
<1>10. OneSummaryEach'
  <2>1. \A s \in summaries : ~(s.by = e /\ s.text = new.text)
    <3> SUFFICES ASSUME NEW s \in summaries, s.by = e, s.text = new.text PROVE FALSE
      OBVIOUS
    <3>1. s \in view[e].summaries
      BY <1>2 DEF Pending
    <3>2. s.text = Text(Older(view[e].messages))
      BY <1>4
    <3>3. s \in Existing(view[e], Text(Older(view[e].messages)))
      BY <3>1, <3>2 DEF Existing
    <3> QED BY <1>2, <3>3 DEF Pending
  <2> QED BY <1>1, <1>4, <2>1 DEF AssemblyInv, OneSummaryEach
<1>11. \A s \in summaries' : Sound(s)'
  <2>1. Older(messages)' = Older(messages)
    BY <1>1 DEF setting, Older, TailOf, Unpinned
  <2> QED BY <1>1, <1>4, <1>5, <2>1 DEF AssemblyInv, Sound
<1>12. Given(e)' /\ Backed(e, summaries)'
  <2>1. /\ context'[e].seen = seen /\ context'[e].summary = node[e]
        /\ context'[e].pinned = Pinned(seen) /\ context'[e].tail = TailOf(seen)
    BY <1>6 DEF Assembled
  <2> HIDE DEF seen
  <2>2. Given(e)'
    BY <1>1, <2>1 DEF Given, setting, Pinned, TailOf, Unpinned
  <2>3. Older(context[e].seen)' = Older(seen)
    BY <1>1, <2>1 DEF setting, Older, TailOf, Unpinned
  <2> QED BY <1>1, <1>4, <2>1, <2>2, <2>3 DEF Backed
<1>13. ASSUME NEW d \in Driver
       PROVE  /\ Given(d)' /\ Backed(d, summaries)'
              /\ pc'[d] # "idle" => Pending(d)'
              /\ pc'[d] = "link" => node'[d] \in created'
  <2>1. CASE d = e
    BY <1>6, <1>12, <2>1
  <2>2. CASE d # e
    <3> HIDE DEF seen
    <3>1. pc'[d] = pc[d] /\ view'[d] = view[d] /\ node'[d] = node[d] /\ context'[d] = context[d]
      BY <1>6, <2>2
    <3>2. \A s \in summaries' : s.by = d => s \in summaries
      BY <1>1, <1>4, <2>2
    <3>3. Given(d)' /\ Backed(d, summaries)' /\ (pc[d] # "idle" => Pending(d)')
      BY <1>1, <3>1, <3>2, OthersKeep
    <3> QED BY <1>1, <3>1, <3>3 DEF AssemblyInv
  <2> QED BY <2>1, <2>2
<1> QED BY <1>8, <1>9, <1>10, <1>11, <1>13 DEF AssemblyInv

LEMMA CrashInv ==
  ASSUME AssemblyInv, NEW e \in Driver, Crash(e) PROVE AssemblyInv'
<1>1. /\ pc' = [pc EXCEPT ![e] = "idle"]
      /\ view' = [view EXCEPT ![e] = None] /\ node' = [node EXCEPT ![e] = None]
      /\ UNCHANGED <<setting, policy, capable, messages, summaries, created, context>>
  BY DEF Crash, setting
<1>2. /\ pc' \in [Driver -> {"idle", "create", "link"}] /\ pc'[e] = "idle"
      /\ view' \in [Driver -> View \cup {None}]
      /\ node' \in [Driver -> created \cup {None}]
      /\ \A d \in Driver \ {e} : pc'[d] = pc[d] /\ view'[d] = view[d] /\ node'[d] = node[d]
  BY <1>1 DEF AssemblyInv, TypeOK
<1>3. View' = View /\ Context' = Context
  BY <1>1 DEF View, Context
<1>4. TypeOK'
  BY <1>1, <1>2, <1>3 DEF AssemblyInv, TypeOK
<1>5. Messages(messages') /\ OneSummaryEach'
  BY <1>1 DEF AssemblyInv, OneSummaryEach
<1>6. \A s \in summaries' : Sound(s)'
  BY <1>1 DEF AssemblyInv, Sound, setting, Older, TailOf, Unpinned
<1>7. ASSUME NEW d \in Driver PROVE Given(d)' /\ Backed(d, summaries)'
  BY <1>1, OthersKeep
<1>8. ASSUME NEW d \in Driver
      PROVE  (pc'[d] # "idle" => Pending(d)') /\ (pc'[d] = "link" => node'[d] \in created')
  <2>1. CASE d = e
    BY <1>2, <2>1
  <2>2. CASE d # e
    <3>1. pc'[d] = pc[d] /\ view'[d] = view[d] /\ node'[d] = node[d]
      BY <1>2, <2>2
    <3>2. pc[d] # "idle" => Pending(d)'
      BY <1>1, <3>1, OthersKeep
    <3> QED BY <1>1, <3>1, <3>2 DEF AssemblyInv
  <2> QED BY <2>1, <2>2
<1> QED BY <1>4, <1>5, <1>6, <1>7, <1>8 DEF AssemblyInv

LEMMA StutterInv == ASSUME AssemblyInv, UNCHANGED vars PROVE AssemblyInv'
<1>1. UNCHANGED <<setting, policy, capable, messages, summaries, created, pc, view, node, context>>
  BY DEF vars, setting
<1>2. View' = View /\ Context' = Context
  BY <1>1 DEF View, Context
<1>3. TypeOK' /\ Messages(messages') /\ OneSummaryEach'
  BY <1>1, <1>2 DEF AssemblyInv, TypeOK, OneSummaryEach
<1>4. \A s \in summaries' : Sound(s)'
  BY <1>1 DEF AssemblyInv, Sound, setting, Older, TailOf, Unpinned
<1>5. ASSUME NEW d \in Driver
      PROVE  Given(d)' /\ Backed(d, summaries)' /\ (pc[d] # "idle" => Pending(d)')
  BY <1>1, OthersKeep
<1>6. \A d \in Driver : pc'[d] = "link" => node'[d] \in created'
  BY <1>1 DEF AssemblyInv
<1> QED BY <1>1, <1>3, <1>4, <1>5, <1>6 DEF AssemblyInv

LEMMA StepInv == ASSUME AssemblyInv, [Next]_vars PROVE AssemblyInv'
BY AppendMessageInv, AssembleInv, PerceiveInv, CreateSummaryInv, LinkSummaryInv, CrashInv,
   StutterInv DEF Next

LEMMA Invariance == Spec => []AssemblyInv
<1>1. Init => AssemblyInv
  BY InitInv
<1>2. AssemblyInv /\ [Next]_vars => AssemblyInv'
  BY StepInv
<1> QED BY <1>1, <1>2, PTL DEF Spec

----------------------------------------------------------------------------
(* The theorems.                                                           *)

\* The variables keep their types; in particular no tail is longer than _TAIL_KEEP.
THEOREM TypeCorrect == Spec => []TypeOK
<1>1. AssemblyInv => TypeOK
  BY DEF AssemblyInv
<1> QED BY <1>1, Invariance, PTL

\* However many drivers overlap, crash and start again, none links two summaries
\* with one text to the run (_write_summary).
THEOREM CompactionIsIdempotent == Spec => []OneSummaryEach
<1>1. AssemblyInv => OneSummaryEach
  BY DEF AssemblyInv
<1> QED BY <1>1, Invariance, PTL

\* A compacted context accounts for every message its assembly saw, whoever wrote the
\* summary it carries (_existing_summary's reuse by text is exact).
THEOREM CompactionLosesNothing == Spec => []SummaryCoversRest
<1>1. AssemblyInv => SummaryCoversRest
  <2> SUFFICES ASSUME AssemblyInv, NEW d \in Driver, context[d] # None, context[d].summary # None
               PROVE  \E s \in summaries :
                        /\ s.id = context[d].summary
                        /\ s.covers = context[d].seen \ (context[d].pinned \cup context[d].tail)
    BY DEF SummaryCoversRest
  <2>1. Given(d) /\ Backed(d, summaries)
    BY DEF AssemblyInv
  <2>2. Older(context[d].seen) = context[d].seen \ (context[d].pinned \cup context[d].tail)
    BY <2>1 DEF Given, Older, Unpinned, Pinned
  <2> QED BY <2>1, <2>2 DEF Backed
<1> QED BY <1>1, Invariance, PTL

\* A driver that compacts the same messages again is never given a later summary.
THEOREM ReuseSettles == Spec => SummaryRefSettles
<1> DEFINE Settles(d) ==
      LET old == context[d] new == context'[d]
      IN  (old # None /\ new # None /\ old.summary # None /\ new.summary # None
             /\ Older(old.seen) = Older(new.seen))
          => new.summary <= old.summary
<1>1. ASSUME AssemblyInv, [Next]_vars, NEW d \in Driver PROVE Settles(d)
  <2> SUFFICES ASSUME context[d] # None, context'[d] # None,
                      context[d].summary # None, context'[d].summary # None,
                      Older(context[d].seen) = Older(context'[d].seen)
               PROVE  context'[d].summary <= context[d].summary
    OBVIOUS
  <2>1. CASE context'[d] = context[d]
    <3>1. context[d] \in Context
      BY <1>1 DEF AssemblyInv, TypeOK
    <3>2. context[d].summary \in Nat
      BY <1>1, <2>1, <3>1, AssemblyAssumption DEF Context, AssemblyInv, TypeOK
    <3> QED BY <2>1, <3>2
  <2>2. ASSUME Assemble(d) PROVE context'[d].summary <= context[d].summary
    <3> DEFINE found == Existing(Folded, Text(Older(messages)))
    <3>1. CASE context' = [context EXCEPT ![d] = Assembled(messages, None)]
      BY <1>1, <3>1 DEF Assembled, AssemblyInv, TypeOK
    <3>2. CASE found # {} /\ context' = [context EXCEPT ![d] = Assembled(messages, FirstOf(found).id)]
      <4>1. context'[d].seen = messages /\ context'[d].summary = FirstOf(found).id
        BY <1>1, <3>2 DEF Assembled, AssemblyInv, TypeOK
      <4>2. PICK s \in summaries : s.id = context[d].summary /\ s.covers = Older(context[d].seen)
        BY <1>1 DEF AssemblyInv, Backed
      <4>3. s.covers = Older(messages) /\ s.text = Text(s.covers)
        BY <1>1, <4>1, <4>2 DEF AssemblyInv, Sound
      <4>4. s \in found
        BY <4>3 DEF Existing, Folded
      <4>5. \A t \in found : FirstOf(found).id <= t.id
        <5> HIDE DEF found
        <5> QED BY <1>1, <3>2, ReusedIsFirst DEF found
      <4> HIDE DEF found
      <4> QED BY <4>1, <4>2, <4>4, <4>5
    <3> QED BY <2>2, <3>1, <3>2 DEF Assemble
  <2>3. ASSUME LinkSummary(d) PROVE FALSE
    <3>1. Pending(d)
      BY <1>1, <2>3 DEF LinkSummary, AssemblyInv
    <3>2. context'[d].seen = view[d].messages
      BY <1>1, <2>3 DEF LinkSummary, Assembled, AssemblyInv, TypeOK
    <3>3. PICK s \in view[d].summaries :
            s.id = context[d].summary /\ s.covers = Older(context[d].seen)
      BY <3>1 DEF Pending, Backed
    <3>4. s.text = Text(s.covers)
      BY <1>1, <3>1, <3>3 DEF Pending, View, AssemblyInv, Sound
    <3>5. s \in Existing(view[d], Text(Older(view[d].messages)))
      BY <3>2, <3>3, <3>4 DEF Existing
    <3> QED BY <3>1, <3>5 DEF Pending
  <2>4. context'[d] # context[d] => Assemble(d) \/ LinkSummary(d)
    <3>1. ASSUME NEW e \in Driver, e # d, Assemble(e) \/ LinkSummary(e)
          PROVE  context'[d] = context[d]
      BY <1>1, <3>1 DEF Assemble, LinkSummary, AssemblyInv, TypeOK
    <3> QED BY <1>1, <3>1 DEF Next, AppendMessage, Perceive, CreateSummary, Crash, vars
  <2> QED BY <2>1, <2>2, <2>3, <2>4
<1>2. ASSUME AssemblyInv, [Next]_vars PROVE [\A d \in Driver : Settles(d)]_vars
  BY <1>1, <1>2
<1> QED BY <1>2, Invariance, PTL DEF Spec, SummaryRefSettles

----------------------------------------------------------------------------
(* Uuid7.                                                                  *)

(***************************************************************************)
(* The invariant: the globals are at least every id that was returned or   *)
(* is being built, ids in hand differ from each other and from those       *)
(* returned, and what a thread knew when it began has been returned.       *)
(***************************************************************************)
Latest == [ms |-> last_ms, count |-> counter]

AtMost(x, y) == Less(x, y) \/ x = y

UuidInv ==
  /\ UuidTypeOK
  /\ \A x \in returned : AtMost(x, Latest)
  /\ \A t \in Thread : call[t] = "building" => AtMost(value[t], Latest)
  /\ \A t \in Thread : earlier[t] \subseteq returned
  /\ RealTimeOrder

LEMMA LessIsOrder ==
  ASSUME NEW x \in Id, NEW y \in Id, NEW z \in Id, AtMost(x, y), Less(y, z)
  PROVE  Less(x, z) /\ x # z
BY DEF AtMost, Less, Id

LEMMA LatestType == ASSUME UuidTypeOK PROVE Latest \in Id
BY DEF UuidTypeOK, Latest, Id

\* The critical section moves the globals strictly ahead.
LEMMA TakeAdvances ==
  ASSUME UuidTypeOK, NEW t \in Thread, NEW ms \in Millis, TakeId(t, ms)
  PROVE  /\ last_ms' \in Nat \cup {-1} /\ counter' \in Nat
         /\ Latest' \in Id /\ Less(Latest, Latest')
         /\ value' = [value EXCEPT ![t] = Latest']
<1>1. last_ms \in Int /\ counter \in Nat /\ last_ms >= -1 /\ ms \in Nat
  BY UuidAssumption DEF UuidTypeOK
<1>2. /\ last_ms' \in Nat \cup {-1} /\ counter' \in Nat
      /\ last_ms < last_ms' \/ (last_ms = last_ms' /\ counter < counter')
  BY <1>1 DEF TakeId, Ahead
<1> QED BY <1>1, <1>2 DEF TakeId, Latest, Less, Id

LEMMA EnterKeeps ==
  ASSUME UuidInv, NEW t \in Thread, EnterCall(t)
  PROVE  UuidInv'
<1>1. UuidTypeOK'
  BY DEF UuidInv, UuidTypeOK, EnterCall, globals
<1>2. \A u \in Thread : call'[u] = "building" => u # t /\ call[u] = "building" /\ earlier'[u] = earlier[u]
  BY DEF UuidInv, UuidTypeOK, EnterCall
<1>3. returned' = returned /\ value' = value /\ Latest' = Latest
  BY DEF EnterCall, globals, Latest
<1>4. \A u \in Thread : earlier'[u] \subseteq returned
  BY DEF UuidInv, UuidTypeOK, EnterCall
<1>5. RealTimeOrder'
  BY <1>2, <1>3 DEF UuidInv, RealTimeOrder
<1> QED BY <1>1, <1>2, <1>3, <1>4, <1>5 DEF UuidInv

LEMMA TakeKeeps ==
  ASSUME UuidInv, NEW t \in Thread, NEW ms \in Millis, TakeId(t, ms)
  PROVE  UuidInv'
<1>1. /\ last_ms' \in Nat \cup {-1} /\ counter' \in Nat
      /\ Latest \in Id /\ Latest' \in Id /\ Less(Latest, Latest')
      /\ value' = [value EXCEPT ![t] = Latest']
  BY TakeAdvances, LatestType DEF UuidInv
<1>2. returned' = returned /\ earlier' = earlier /\ call' = [call EXCEPT ![t] = "building"]
  BY DEF TakeId
<1>3. UuidTypeOK'
  BY <1>1, <1>2 DEF UuidInv, UuidTypeOK
<1>4. /\ value'[t] = Latest'
      /\ \A u \in Thread \ {t} : value'[u] = value[u] /\ call'[u] = call[u]
  BY <1>1, <1>2 DEF UuidInv, UuidTypeOK
<1>5. \A x \in returned : x \in Id /\ Less(x, Latest') /\ x # Latest'
  BY <1>1, LessIsOrder DEF UuidInv, UuidTypeOK
<1>6. \A u \in Thread \ {t} : call[u] = "building" => Less(value[u], Latest') /\ value[u] # Latest'
  BY <1>1, LessIsOrder DEF UuidInv, UuidTypeOK
<1>7. /\ \A x \in returned' : AtMost(x, Latest')
      /\ \A u \in Thread : call'[u] = "building" => AtMost(value'[u], Latest')
  BY <1>2, <1>4, <1>5, <1>6 DEF AtMost
<1>8. ASSUME NEW u \in Thread, call'[u] = "building"
      PROVE  /\ \A x \in earlier'[u] : Less(x, value'[u])
             /\ value'[u] \notin returned'
             /\ \A w \in Thread \ {u} : call'[w] = "building" => value'[w] # value'[u]
  <2>1. CASE u = t
    BY <1>2, <1>4, <1>5, <1>6, <2>1 DEF UuidInv
  <2>2. CASE u # t
    <3>1. call[u] = "building" /\ value'[u] = value[u] /\ earlier'[u] = earlier[u]
      BY <1>2, <1>4, <1>8, <2>2
    <3>2. (\A x \in earlier[u] : Less(x, value[u])) /\ value[u] \notin returned
      BY <3>1 DEF UuidInv, RealTimeOrder
    <3>3. \A w \in Thread \ {u} : call'[w] = "building" => value'[w] # value[u]
      BY <1>4, <1>6, <3>1 DEF UuidInv, RealTimeOrder
    <3> QED BY <1>2, <3>1, <3>2, <3>3
  <2> QED BY <2>1, <2>2
<1>9. RealTimeOrder'
  BY <1>8 DEF RealTimeOrder
<1> QED BY <1>2, <1>3, <1>7, <1>9 DEF UuidInv

LEMMA ReturnKeeps ==
  ASSUME UuidInv, NEW t \in Thread, ReturnId(t)
  PROVE  UuidInv'
<1>1. /\ returned' = returned \cup {value[t]} /\ value' = value /\ Latest' = Latest
      /\ call' = [call EXCEPT ![t] = "idle"] /\ earlier' = [earlier EXCEPT ![t] = {}]
      /\ call[t] = "building"
  BY DEF ReturnId, globals, Latest
<1>2. UuidTypeOK'
  BY DEF UuidInv, UuidTypeOK, ReturnId, globals
<1>3. \A u \in Thread : call'[u] = "building" => u # t /\ call[u] = "building" /\ earlier'[u] = earlier[u]
  BY <1>1 DEF UuidInv, UuidTypeOK
<1>4. \A x \in returned' : AtMost(x, Latest')
  BY <1>1 DEF UuidInv
<1>5. \A u \in Thread : earlier'[u] \subseteq returned'
  BY <1>1 DEF UuidInv, UuidTypeOK
<1>6. RealTimeOrder'
  BY <1>1, <1>3 DEF UuidInv, RealTimeOrder
<1> QED BY <1>1, <1>2, <1>3, <1>4, <1>5, <1>6 DEF UuidInv

THEOREM IdInvariance == UuidSpec => []UuidInv
<1>1. UuidInit => UuidInv
  BY DEF UuidInit, UuidInv, UuidTypeOK, RealTimeOrder, Id
<1>2. ASSUME UuidInv, [UuidNext]_uuidVars PROVE UuidInv'
  <2>1. CASE UNCHANGED uuidVars
    BY <1>2, <2>1 DEF uuidVars, globals, UuidInv, UuidTypeOK, RealTimeOrder, Latest
  <2>2. CASE UuidNext
    BY <1>2, <2>2, EnterKeeps, TakeKeeps, ReturnKeeps DEF UuidNext
  <2> QED BY <1>2, <2>1, <2>2
<1> QED BY <1>1, <1>2, PTL DEF UuidSpec

\* The ids of uuid7 order its calls as time does, for every number of threads, every
\* limit of the counter and every clock (_uuid7.py:7-12).
THEOREM IdsOrderTheCalls == UuidSpec => []RealTimeOrder
<1>1. UuidInv => RealTimeOrder
  BY DEF UuidInv
<1> QED BY <1>1, IdInvariance, PTL

----------------------------------------------------------------------------
(* ManualClock and ToolRetry.                                              *)

(***************************************************************************)
(* The clock: the last task woken comes before all that wait, and what is  *)
(* due before what is not.                                                 *)
(***************************************************************************)
ClockType ==
  /\ now \in Nat /\ seq \in Nat
  /\ waiters \subseteq Waiter(Invocation) /\ ready \subseteq Waiter(Invocation)
  /\ woken \in [at : Nat, seq : Nat \cup {-1}]

ClockInv ==
  /\ ClockType
  /\ woken.at <= now /\ woken.seq < seq
  /\ \A x \in waiters \cup ready : x.seq < seq /\ WakesBefore(woken, x)
  /\ \A x \in ready : x.at <= now /\ ~x.done
  /\ \A x \in ready, w \in waiters : WakesBefore(x, w)

LEMMA SleepKeepsClock ==
  ASSUME ClockInv, NEW i \in Invocation, NEW d \in Nat, Sleep(i, d)
  PROVE  ClockInv'
<1> DEFINE new == [at |-> now + d, seq |-> seq, task |-> i, done |-> FALSE]
<1>1. new \in Waiter(Invocation) /\ new.at = now + d /\ new.seq = seq
  BY DEF ClockInv, ClockType, Waiter
<1>2. waiters' = waiters \cup {new} /\ seq' = seq + 1 /\ now' = now /\ ready' = ready /\ woken' = woken
  BY DEF Sleep
<1>3. WakesBefore(woken, new) /\ \A x \in ready : WakesBefore(x, new)
  BY <1>1 DEF ClockInv, ClockType, Waiter, WakesBefore
<1> HIDE DEF new
<1>4. ClockType'
  BY <1>1, <1>2 DEF ClockInv, ClockType
<1>5. woken'.at <= now' /\ woken'.seq < seq'
  BY <1>2 DEF ClockInv, ClockType
<1>6. ASSUME NEW x \in waiters' \cup ready' PROVE x.seq < seq' /\ WakesBefore(woken', x)
  <2>1. CASE x = new
    BY <1>1, <1>2, <1>3, <2>1 DEF ClockInv, ClockType
  <2>2. CASE x \in waiters \cup ready
    BY <1>2, <2>2 DEF ClockInv, ClockType, Waiter
  <2> QED BY <1>2, <2>1, <2>2
<1>7. /\ \A x \in ready' : x.at <= now' /\ ~x.done
      /\ \A x \in ready', w \in waiters' : WakesBefore(x, w)
  BY <1>2, <1>3 DEF ClockInv
<1> QED BY <1>4, <1>5, <1>6, <1>7 DEF ClockInv, WakesBefore

LEMMA AdvanceKeepsClock ==
  ASSUME ClockInv, NEW dt \in Nat, Advance(dt)
  PROVE  ClockInv' /\ \A x \in ready' : x \in waiters /\ ~x.done
<1>1. /\ now' = now + dt /\ seq' = seq /\ woken' = woken
      /\ ready' = {w \in waiters : w.at <= now + dt /\ ~w.done}
      /\ waiters' = {w \in waiters : w.at > now + dt}
  BY DEF Advance, IsDue
<1>2. now \in Nat /\ seq \in Nat /\ \A w \in waiters : w \in Waiter(Invocation) /\ w.at \in Nat /\ w.seq \in Nat
  BY DEF ClockInv, ClockType, Waiter
<1>3. ClockType'
  BY <1>1, <1>2 DEF ClockInv, ClockType
<1>4. \A x \in ready', w \in waiters' : WakesBefore(x, w)
  BY <1>1, <1>2 DEF WakesBefore
<1>5. woken'.at <= now'
  BY <1>1, <1>2 DEF ClockInv, ClockType
<1>6. \A x \in waiters' \cup ready' : x.seq < seq' /\ WakesBefore(woken', x)
  BY <1>1 DEF ClockInv, WakesBefore
<1> QED BY <1>1, <1>3, <1>4, <1>5, <1>6 DEF ClockInv

LEMMA RunsKeepsClock ==
  ASSUME ClockInv, NEW w \in ready, Runs(w), UNCHANGED <<now, seq, waiters>>
  PROVE  ClockInv' /\ WakesBefore(woken, woken') /\ woken'.at <= now
<1>1. /\ ready' = ready \ {w} /\ woken' = [at |-> w.at, seq |-> w.seq]
      /\ \A x \in ready' : WakesBefore(w, x)
      /\ now' = now /\ seq' = seq /\ waiters' = waiters
  BY DEF Runs
<1>2. w.at \in Nat /\ w.seq \in Nat /\ w.at <= now /\ w.seq < seq /\ WakesBefore(woken, w)
  BY DEF ClockInv, ClockType, Waiter
<1>3. ClockType'
  BY <1>1, <1>2 DEF ClockInv, ClockType
<1>4. woken'.at = w.at /\ woken'.seq = w.seq
  BY <1>1
<1>5. \A x \in waiters' \cup ready' : x.seq < seq' /\ WakesBefore(woken', x)
  BY <1>1, <1>4 DEF ClockInv, WakesBefore
<1>6. WakesBefore(woken, woken')
  BY <1>2, <1>4 DEF WakesBefore
<1> QED BY <1>1, <1>2, <1>3, <1>4, <1>5, <1>6 DEF ClockInv

\* A cancelled sleeper's waiter stays, and is done.
LEMMA CancelledWaiters ==
  ASSUME ClockInv, NEW i \in Invocation, CancelSleep(i), NEW v \in waiters'
  PROVE  \E w \in waiters : /\ v.at = w.at /\ v.seq = w.seq /\ v.task = w.task
                            /\ v \in Waiter(Invocation)
                            /\ IF w.task = i THEN v.done ELSE v = w
<1>1. PICK w \in waiters : v = IF w.task = i THEN [w EXCEPT !.done = TRUE] ELSE w
  BY DEF CancelSleep
<1>2. w \in Waiter(Invocation)
  BY DEF ClockInv, ClockType
<1> QED BY <1>1, <1>2 DEF Waiter

LEMMA CancelKeepsClock ==
  ASSUME ClockInv, NEW i \in Invocation, CancelSleep(i)
  PROVE  ClockInv'
<1>1. /\ ready' = {w \in ready : w.task # i}
      /\ now' = now /\ seq' = seq /\ woken' = woken
  BY DEF CancelSleep
<1>2. ClockType'
  BY <1>1, CancelledWaiters DEF ClockInv, ClockType
<1>3. \A v \in waiters' : /\ v.seq < seq /\ WakesBefore(woken, v)
                          /\ \A x \in ready : WakesBefore(x, v)
  BY CancelledWaiters DEF ClockInv, WakesBefore
<1> QED BY <1>1, <1>2, <1>3 DEF ClockInv, WakesBefore

(***************************************************************************)
(* The invocations.                                                        *)
(***************************************************************************)
ToolType ==
  /\ tool \in [Invocation -> Tool]
  /\ stage \in [Invocation -> {"idle", "opening", "calling", "closing", "asleep",
                               "returned", "refused", "cancelled"}]
  /\ attempts \in [Invocation -> Seq(ToolResult)]
  /\ answered \in [Invocation -> ToolResult \cup {"cancelled", "None"}]
  /\ result \in [Invocation -> ToolResult \cup {"ToolDispatchError", "None"}]

Asleep == {w \in waiters \cup ready : ~w.done}

\* The clock will wake whoever is asleep and nobody else, and each once.
SleepersInv ==
  /\ \A w \in Asleep : stage[w.task] = "asleep"
  /\ \A w, x \in Asleep : w.task = x.task => w = x

Most(i) == tool[i].retry.max_attempts

Undecided == {"idle", "opening", "calling", "closing", "asleep", "cancelled"}

\* What the attempts made so far are, by the stage.
Honest(i) ==
  LET made == attempts[i]
  IN  /\ stage[i] \in {"idle", "refused"} => made = << >>
      /\ stage[i] \in Undecided =>
           Len(made) < Most(i) /\ result[i] = "None" /\ \A k \in DOMAIN made : made[k] = "error"
      /\ stage[i] = "refused" => result[i] = "ToolDispatchError"
      /\ stage[i] = "closing" => answered[i] # "None"
      /\ stage[i] = "returned" =>
           /\ made # << >> /\ Len(made) <= Most(i)
           /\ result[i] = made[Len(made)] /\ (result[i] = "ok" \/ Len(made) = Most(i))
           /\ \A k \in 1 .. Len(made) - 1 : made[k] = "error"

RetryInv == ClockInv /\ ToolType /\ SleepersInv /\ \A i \in Invocation : Honest(i)

LEMMA MostIsPositive ==
  ASSUME ToolType, NEW i \in Invocation
  PROVE  Most(i) \in Nat /\ Most(i) > 0
BY RetryAssumption DEF ToolType, Most, IsRetryPolicy

\* A step of an invocation that neither sleeps nor wakes leaves the sleepers alone.
LEMMA AwakeStep ==
  ASSUME RetryInv, NEW i \in Invocation, UNCHANGED clockVars, stage[i] # "asleep",
         \A j \in Invocation \ {i} : stage'[j] = stage[j]
  PROVE  ClockInv' /\ SleepersInv'
<1>1. ClockInv'
  BY DEF RetryInv, ClockInv, ClockType, clockVars, WakesBefore
<1>2. Asleep' = Asleep
  BY DEF Asleep, clockVars
<1>3. \A w \in Asleep : w.task \in Invocation
  BY DEF RetryInv, ClockInv, ClockType, Asleep, Waiter
<1>4. \A w \in Asleep : stage'[w.task] = "asleep"
  BY <1>3 DEF RetryInv, SleepersInv
<1> QED BY <1>1, <1>2, <1>4 DEF RetryInv, SleepersInv

LEMMA InvokeKeepsRetry ==
  ASSUME RetryInv, NEW i \in Invocation, Invoke(i)
  PROVE  RetryInv'
<1>1. ClockInv' /\ SleepersInv'
  <2>1. UNCHANGED clockVars /\ \A j \in Invocation \ {i} : stage'[j] = stage[j]
    BY DEF RetryInv, ToolType, Invoke
  <2> QED BY <2>1, AwakeStep DEF Invoke
<1>2. First(i) \in {"opening", "calling"}
  BY DEF First
<1>3. ToolType'
  BY <1>2 DEF RetryInv, ToolType, Invoke
<1>4. ASSUME NEW j \in Invocation PROVE Honest(j)'
  <2>1. CASE j = i
    BY <1>2, <2>1 DEF RetryInv, ToolType, Invoke, Honest, Most, Undecided
  <2>2. CASE j # i
    BY <2>2 DEF RetryInv, ToolType, Invoke, Honest, Most, Undecided
  <2> QED BY <2>1, <2>2
<1> QED BY <1>1, <1>3, <1>4 DEF RetryInv

\* The end of an attempt, in every stage that may end it.
LEMMA AttemptEndsKeepsRetry ==
  ASSUME RetryInv, NEW i \in Invocation, NEW outcome \in ToolResult,
         stage[i] \in {"opening", "calling", "closing"}, AttemptEnds(i, outcome)
  PROVE  RetryInv'
<1> DEFINE made == attempts[i]
<1>1. /\ made \in Seq(ToolResult) /\ Len(made) \in Nat /\ Len(made) < Most(i) /\ Most(i) \in Nat
      /\ \A k \in 1 .. Len(made) : made[k] = "error"
      /\ result[i] = "None"
  BY MostIsPositive DEF RetryInv, ToolType, Honest, Undecided
<1>2. /\ tool' = tool
      /\ attempts' = [attempts EXCEPT ![i] = Append(made, outcome)]
      /\ answered' = [answered EXCEPT ![i] = "None"]
  BY DEF AttemptEnds
<1>3. /\ attempts'[i] = Append(made, outcome) /\ Len(attempts'[i]) = Len(made) + 1
      /\ attempts'[i] \in Seq(ToolResult)
      /\ attempts'[i][Len(made) + 1] = outcome
      /\ \A k \in 1 .. Len(made) : attempts'[i][k] = "error"
  BY <1>1, <1>2 DEF RetryInv, ToolType
<1> HIDE DEF made
<1>4. ASSUME NEW j \in Invocation, j # i, stage'[j] = stage[j], result'[j] = result[j]
      PROVE  Honest(j)'
  <2>1. attempts'[j] = attempts[j] /\ answered'[j] = answered[j] /\ Most(j)' = Most(j)
    BY <1>2, <1>4 DEF RetryInv, ToolType, Most
  <2> QED BY <1>4, <2>1 DEF RetryInv, Honest
<1>5. CASE outcome = "error" /\ AttemptsRemain(i)
  <2> DEFINE d == Backoff(tool[i].retry, Len(made))
  <2>1. Sleep(i, d) /\ stage' = [stage EXCEPT ![i] = "asleep"] /\ result' = result
    BY <1>5 DEF AttemptEnds, made
  <2>2. Len(made) + 1 < Most(i)
    BY <1>5 DEF AttemptsRemain, Most, made
  <2>3. d \in Nat
    BY <1>1, BackoffAssumption DEF RetryInv, ToolType, Most
  <2> HIDE DEF d
  <2>4. ClockInv'
    BY <2>1, <2>3, SleepKeepsClock DEF RetryInv
  <2>5. ToolType'
    BY <1>2, <1>3, <2>1 DEF RetryInv, ToolType, ToolResult
  <2>6. SleepersInv'
    <3> DEFINE new == [at |-> now + d, seq |-> seq, task |-> i, done |-> FALSE]
    <3>1. Asleep' = Asleep \cup {new} /\ new.task = i
      BY <2>1 DEF Sleep, Asleep
    <3>2. \A w \in Asleep : stage[w.task] = "asleep" /\ w.task # i /\ w.task \in Invocation
      BY DEF RetryInv, SleepersInv, ClockInv, ClockType, Asleep, Waiter
    <3>3. \A w \in Asleep : stage'[w.task] = "asleep"
      BY <2>1, <3>2 DEF RetryInv, ToolType
    <3>4. stage'[i] = "asleep"
      BY <2>1 DEF RetryInv, ToolType
    <3> HIDE DEF new
    <3> QED BY <3>1, <3>2, <3>3, <3>4 DEF RetryInv, SleepersInv
  <2>7. Honest(i)'
    <3>1. stage'[i] = "asleep" /\ result'[i] = "None" /\ Most(i)' = Most(i)
      BY <1>1, <1>2, <2>1 DEF RetryInv, ToolType, Most
    <3>2. \A k \in 1 .. Len(made) + 1 : attempts'[i][k] = "error"
      BY <1>1, <1>3, <1>5
    <3> QED BY <1>1, <1>3, <2>2, <3>1, <3>2 DEF Honest
  <2>8. \A j \in Invocation : Honest(j)'
    BY <1>4, <2>1, <2>7 DEF RetryInv, ToolType
  <2> QED BY <2>4, <2>5, <2>6, <2>8 DEF RetryInv
<1>6. CASE ~(outcome = "error" /\ AttemptsRemain(i))
  <2>1. /\ stage' = [stage EXCEPT ![i] = "returned"] /\ result' = [result EXCEPT ![i] = outcome]
        /\ UNCHANGED clockVars
    BY <1>6 DEF AttemptEnds
  <2>2. outcome = "ok" \/ Len(made) + 1 = Most(i)
    BY <1>1, <1>6 DEF AttemptsRemain, Most, ToolResult, made
  <2>3. ClockInv' /\ SleepersInv'
    BY <2>1, AwakeStep DEF RetryInv, ToolType
  <2>4. ToolType'
    BY <1>2, <1>3, <2>1 DEF RetryInv, ToolType
  <2>5. Honest(i)'
    <3>1. stage'[i] = "returned" /\ result'[i] = outcome /\ Most(i)' = Most(i)
      BY <1>2, <2>1 DEF RetryInv, ToolType, Most
    <3> QED BY <1>1, <1>3, <2>2, <3>1 DEF Honest, Undecided
  <2>6. \A j \in Invocation : Honest(j)'
    BY <1>4, <2>1, <2>5 DEF RetryInv, ToolType
  <2> QED BY <2>3, <2>4, <2>6 DEF RetryInv
<1> QED BY <1>5, <1>6

\* The steps that begin a call, hear its answer or end a cancelled invocation.
LEMMA MoveKeepsRetry ==
  ASSUME RetryInv, NEW i \in Invocation,
         NEW to \in {"calling", "closing", "cancelled"},
         NEW heard \in ToolResult \cup {"cancelled", "None"},
         to = "closing" => heard # "None",
         stage[i] \in Undecided, stage[i] # "asleep",
         stage' = [stage EXCEPT ![i] = to], answered' = [answered EXCEPT ![i] = heard],
         UNCHANGED <<clockVars, tool, attempts, result>>
  PROVE  RetryInv'
<1>1. ClockInv' /\ SleepersInv'
  BY AwakeStep DEF RetryInv, ToolType
<1>2. ToolType'
  BY DEF RetryInv, ToolType
<1>3. ASSUME NEW j \in Invocation PROVE Honest(j)'
  <2>1. CASE j = i
    BY <2>1 DEF RetryInv, ToolType, Honest, Most, Undecided
  <2>2. CASE j # i
    BY <2>2 DEF RetryInv, ToolType, Honest, Most, Undecided
  <2> QED BY <2>1, <2>2
<1> QED BY <1>1, <1>2, <1>3 DEF RetryInv

LEMMA WorksKeepsRetry ==
  ASSUME RetryInv, NEW i \in Invocation, Works(i)
  PROVE  RetryInv'
<1>1. CASE OpenSession(i)
  <2>1. CASE AttemptEnds(i, "error")
    BY <1>1, <2>1, AttemptEndsKeepsRetry DEF OpenSession, ToolResult
  <2>2. CASE ~AttemptEnds(i, "error")
    <3>1. /\ stage[i] = "opening" /\ stage' = [stage EXCEPT ![i] = "calling"]
          /\ UNCHANGED <<clockVars, tool, attempts, answered, result>>
      BY <1>1, <2>2 DEF OpenSession
    <3>2. answered[i] \in ToolResult \cup {"cancelled", "None"}
          /\ answered' = [answered EXCEPT ![i] = answered[i]]
      BY <3>1 DEF RetryInv, ToolType
    <3> QED BY <3>1, <3>2, MoveKeepsRetry DEF Undecided
  <2> QED BY <2>1, <2>2
<1>2. CASE CloseSession(i)
  <2>1. answered[i] \in ToolResult \cup {"cancelled"}
    BY <1>2 DEF RetryInv, ToolType, Honest, CloseSession
  <2>2. CASE answered[i] # "cancelled" /\ AttemptEnds(i, answered[i])
    BY <1>2, <2>1, <2>2, AttemptEndsKeepsRetry DEF CloseSession
  <2>3. CASE AttemptEnds(i, "error")
    BY <1>2, <2>3, AttemptEndsKeepsRetry DEF CloseSession, ToolResult
  <2>4. CASE /\ stage' = [stage EXCEPT ![i] = "cancelled"]
             /\ answered' = [answered EXCEPT ![i] = "None"]
             /\ UNCHANGED <<clockVars, tool, attempts, result>>
    BY <1>2, <2>4, MoveKeepsRetry DEF CloseSession, Undecided
  <2> QED BY <1>2, <2>2, <2>3, <2>4 DEF CloseSession
<1>3. ASSUME NEW o \in ToolResult, BuiltinEnds(i, o) PROVE RetryInv'
  BY <1>3, AttemptEndsKeepsRetry DEF BuiltinEnds
<1>4. ASSUME NEW o \in ToolResult, CallTool(i, o) PROVE RetryInv'
  BY <1>4, MoveKeepsRetry DEF CallTool, Undecided, ToolResult
<1> QED BY <1>1, <1>2, <1>3, <1>4 DEF Works

LEMMA WakeUpKeepsRetry ==
  ASSUME RetryInv, NEW i \in Invocation, WakeUp(i)
  PROVE  RetryInv' /\ WakesBefore(woken, woken') /\ woken'.at <= now
<1>1. PICK w \in ready : w.task = i /\ Runs(w)
  BY DEF WakeUp
<1>2. /\ UNCHANGED <<now, seq, waiters, tool, attempts, answered, result>>
      /\ stage' = [stage EXCEPT ![i] = First(i)]
  BY DEF WakeUp
<1>3. ClockInv' /\ WakesBefore(woken, woken') /\ woken'.at <= now
  BY <1>1, <1>2, RunsKeepsClock DEF RetryInv
<1>4. First(i) \in {"opening", "calling"}
  BY DEF First
<1>5. stage[i] = "asleep" /\ w \in Asleep
  BY <1>1 DEF RetryInv, ClockInv, SleepersInv, Asleep
<1>6. Asleep' = Asleep \ {w}
  <2>1. ready' = ready \ {w} /\ waiters' = waiters
    BY <1>1, <1>2 DEF Runs
  <2>2. w \notin waiters
    BY <1>1 DEF RetryInv, ClockInv, ClockType, Waiter, WakesBefore
  <2> QED BY <2>1, <2>2 DEF Asleep
<1>7. SleepersInv'
  <2>1. \A x \in Asleep' : x.task # i /\ x.task \in Invocation /\ stage[x.task] = "asleep"
    BY <1>1, <1>5, <1>6 DEF RetryInv, SleepersInv, ClockInv, ClockType, Asleep, Waiter
  <2> QED BY <1>2, <1>6, <2>1 DEF RetryInv, SleepersInv, ToolType
<1>8. ToolType'
  BY <1>2, <1>4 DEF RetryInv, ToolType
<1>9. ASSUME NEW j \in Invocation PROVE Honest(j)'
  <2>1. CASE j = i
    BY <1>2, <1>4, <1>5, <2>1 DEF RetryInv, ToolType, Honest, Most, Undecided
  <2>2. CASE j # i
    BY <1>2, <2>2 DEF RetryInv, ToolType, Honest, Most, Undecided
  <2> QED BY <2>1, <2>2
<1> QED BY <1>3, <1>7, <1>8, <1>9 DEF RetryInv

LEMMA CancelKeepsRetry ==
  ASSUME RetryInv, NEW i \in Invocation, Cancel(i)
  PROVE  RetryInv'
<1> DEFINE closes == stage[i] = "calling" /\ tool[i].binding = "mcp"
<1>1. /\ stage[i] \in {"opening", "calling", "closing", "asleep"} /\ CancelSleep(i)
      /\ stage' = [stage EXCEPT ![i] = IF closes THEN "closing" ELSE "cancelled"]
      /\ answered' = [answered EXCEPT ![i] = IF closes THEN "cancelled" ELSE "None"]
      /\ UNCHANGED <<tool, attempts, result>>
  BY DEF Cancel
<1> HIDE DEF closes
<1>2. ClockInv'
  BY <1>1, CancelKeepsClock DEF RetryInv
<1>3. ToolType'
  BY <1>1 DEF RetryInv, ToolType
<1>4. \A x \in Asleep' : x \in Asleep /\ x.task # i /\ x.task \in Invocation
  <2>1. ASSUME NEW v \in waiters', ~v.done PROVE v \in waiters /\ v.task # i
    BY <1>1, <2>1, CancelledWaiters DEF RetryInv
  <2>2. \A x \in ready' : x \in ready /\ x.task # i
    BY <1>1 DEF CancelSleep
  <2> QED BY <2>1, <2>2 DEF RetryInv, ClockInv, ClockType, Asleep, Waiter
<1>5. SleepersInv'
  BY <1>1, <1>4 DEF RetryInv, SleepersInv, ToolType
<1>6. ASSUME NEW j \in Invocation PROVE Honest(j)'
  <2>1. CASE j = i
    BY <1>1, <2>1 DEF RetryInv, ToolType, Honest, Most, Undecided
  <2>2. CASE j # i
    BY <1>1, <2>2 DEF RetryInv, ToolType, Honest, Most, Undecided
  <2> QED BY <2>1, <2>2
<1> QED BY <1>2, <1>3, <1>5, <1>6 DEF RetryInv

LEMMA TimeKeepsRetry ==
  ASSUME RetryInv, NEW dt \in Tick, TimePasses(dt)
  PROVE  RetryInv'
<1>1. dt \in Nat /\ Advance(dt) /\ UNCHANGED <<tool, stage, attempts, answered, result>>
  BY RetryAssumption DEF TimePasses, invokeVars
<1>2. ClockInv' /\ \A x \in ready' : x \in waiters /\ ~x.done
  BY <1>1, AdvanceKeepsClock DEF RetryInv
<1>3. Asleep' \subseteq Asleep
  BY <1>1, <1>2 DEF Advance, Asleep
<1>4. SleepersInv'
  BY <1>1, <1>3 DEF RetryInv, SleepersInv
<1>5. ToolType' /\ \A i \in Invocation : Honest(i)'
  BY <1>1 DEF RetryInv, ToolType, Honest, Most
<1> QED BY <1>2, <1>4, <1>5 DEF RetryInv

LEMMA RetryInvInit == RetryInit => RetryInv
<1> SUFFICES ASSUME RetryInit PROVE RetryInv
  OBVIOUS
<1>1. ClockInv /\ SleepersInv
  BY DEF RetryInit, ClockInit, ClockInv, ClockType, WakesBefore, SleepersInv, Asleep
<1>2. ToolType
  BY DEF RetryInit, ToolType
<1>3. ASSUME NEW i \in Invocation PROVE Honest(i)
  BY <1>2, MostIsPositive DEF RetryInit, Honest, Undecided
<1> QED BY <1>1, <1>2, <1>3 DEF RetryInv

LEMMA RetryInvNext == RetryInv /\ [RetryNext]_retryVars => RetryInv'
<1> SUFFICES ASSUME RetryInv, [RetryNext]_retryVars PROVE RetryInv'
  OBVIOUS
<1>1. CASE UNCHANGED retryVars
  BY <1>1 DEF retryVars, invokeVars, clockVars, RetryInv, ClockInv, ClockType, WakesBefore, ToolType,
      SleepersInv, Asleep, Honest, Most
<1>2. CASE RetryNext
  BY <1>2, InvokeKeepsRetry, WorksKeepsRetry, WakeUpKeepsRetry, CancelKeepsRetry, TimeKeepsRetry
     DEF RetryNext
<1> QED BY <1>1, <1>2

\* Every variable keeps its type (tool.py, clock.py), the counters being unbounded.
THEOREM RetryTypeCorrect == RetrySpec => []RetryTypeOK
<1>1. RetryInv => RetryTypeOK
  BY DEF RetryInv, ClockInv, ClockType, ToolType, RetryTypeOK
<1> QED BY <1>1, RetryInvInit, RetryInvNext, PTL DEF RetrySpec

\* However the attempts fail, wherever an invocation is cancelled and however the other
\* invocations interleave, the loop sees one result, of the last attempt.
THEOREM RetryIsHonest == RetrySpec => []OneHonestResult
<1>1. RetryInv => OneHonestResult
  <2> SUFFICES ASSUME RetryInv, NEW i \in Invocation
               PROVE  LET made == attempts[i]
                      IN  /\ Len(made) <= Most(i)
                          /\ \A k \in DOMAIN made :
                               made[k] = "ok" => k = Len(made) /\ stage[i] = "returned"
                          /\ stage[i] = "returned" =>
                               /\ made # << >> /\ result[i] = made[Len(made)]
                               /\ result[i] = "ok" \/ Len(made) = Most(i)
                          /\ result[i] = "ToolDispatchError" => made = << >>
    BY DEF OneHonestResult, Most
  <2> DEFINE made == attempts[i]
  <2>1. made \in Seq(ToolResult) /\ Len(made) \in Nat /\ DOMAIN made = 1 .. Len(made)
    BY DEF RetryInv, ToolType
  <2>2. Most(i) \in Nat /\ Most(i) > 0 /\ Honest(i)
    BY MostIsPositive DEF RetryInv
  <2>3. stage[i] \in Undecided \cup {"refused", "returned"}
    BY DEF RetryInv, ToolType, Undecided
  <2>4. CASE stage[i] \in Undecided
    BY <2>1, <2>2, <2>4 DEF Honest, Undecided
  <2>5. CASE stage[i] = "refused"
    BY <2>1, <2>2, <2>5 DEF Honest
  <2>6. CASE stage[i] = "returned"
    <3>1. made[Len(made)] \in ToolResult
      BY <2>1, <2>2, <2>6 DEF Honest
    <3> QED BY <2>1, <2>2, <2>6, <3>1 DEF Honest, ToolResult
  <2> QED BY <2>3, <2>4, <2>5, <2>6
<1> QED BY <1>1, RetryInvInit, RetryInvNext, PTL DEF RetrySpec

\* Over every sequence of calls of advance(), sleeps and cancellations, tasks wake by
\* their deadlines and then in the order they went to sleep, none early.
THEOREM ClockWakesInOrder == RetrySpec => WakesInOrder
<1>1. RetryInv /\ [RetryNext]_retryVars
        => [woken' # woken => WakesBefore(woken, woken') /\ woken'.at <= now]_clockVars
  <2> SUFFICES ASSUME RetryInv, [RetryNext]_retryVars, woken' # woken
               PROVE  WakesBefore(woken, woken') /\ woken'.at <= now
    OBVIOUS
  <2>1. PICK i \in Invocation : WakeUp(i)
    BY DEF RetryNext, retryVars, clockVars, Invoke, Works, OpenSession, BuiltinEnds, CallTool,
           CloseSession, AttemptEnds, Sleep, Cancel, CancelSleep, TimePasses, Advance
  <2> QED BY <2>1, WakeUpKeepsRetry
<1> QED BY <1>1, RetryInvInit, RetryInvNext, PTL DEF RetrySpec, WakesInOrder

----------------------------------------------------------------------------
(* ProviderStream: its operators.                                          *)

\* Finitely many stamped events, no two of them at once.
IsStamped(R) ==
  /\ IsFiniteSet(R)
  /\ \A x \in R : x.at[1] \in Nat /\ x.at[2] \in Nat /\ x.at[3] \in Nat
  /\ \A x, y \in R : x = y \/ Earlier(x, y) \/ Earlier(y, x)

\* The first of them.
IsFirst(x, R) == x \in R /\ \A y \in R \ {x} : Earlier(x, y) /\ ~Earlier(y, x)

LEMMA StampedRest == ASSUME NEW R, IsStamped(R), NEW Q \in SUBSET R PROVE IsStamped(Q)
BY FS_Subset DEF IsStamped

\* Of stamped events one is the first.
LEMMA FirstExists ==
  ASSUME NEW R, IsStamped(R), R # {} PROVE \E x : IsFirst(x, R)
<1> DEFINE A == {x.at[1] : x \in R}
<1>1. PICK a \in A : \A i \in A : a <= i
  BY LeastNatural DEF IsStamped
<1> DEFINE S == {x \in R : x.at[1] = a}
           B == {x.at[2] : x \in S}
<1>2. PICK b \in B : \A i \in B : b <= i
  <2>1. B \subseteq Nat /\ B # {}
    BY <1>1 DEF IsStamped
  <2> HIDE DEF B
  <2> QED BY <2>1, LeastNatural
<1> DEFINE T == {x \in S : x.at[2] = b}
           C == {x.at[3] : x \in T}
<1>3. PICK c \in C : \A i \in C : c <= i
  <2>1. C \subseteq Nat /\ C # {}
    BY <1>2 DEF IsStamped
  <2> HIDE DEF C
  <2> QED BY <2>1, LeastNatural
<1>4. PICK x \in T : x.at[3] = c
  BY <1>3
<1>5. x \in R /\ x.at[1] = a /\ x.at[2] = b
  BY <1>4
<1>6. ASSUME NEW y \in R, Earlier(y, x) PROVE FALSE
  <2>1. /\ x.at[1] \in Nat /\ x.at[2] \in Nat /\ x.at[3] \in Nat
        /\ y.at[1] \in Nat /\ y.at[2] \in Nat /\ y.at[3] \in Nat
    BY <1>5 DEF IsStamped
  <2>2. a <= y.at[1]
    BY <1>1
  <2>3. y.at[1] = a
    BY <1>5, <1>6, <2>1, <2>2 DEF Earlier
  <2>4. b <= y.at[2]
    BY <1>2, <2>3
  <2>5. y.at[2] = b
    BY <1>5, <1>6, <2>1, <2>3, <2>4 DEF Earlier
  <2>6. c <= y.at[3]
    BY <1>3, <2>3, <2>5
  <2> QED BY <1>4, <1>5, <1>6, <2>1, <2>3, <2>5, <2>6 DEF Earlier
<1> QED BY <1>5, <1>6 DEF IsStamped, IsFirst

LEMMA ListingNone == Listing({}) = << >>
<1>1. Cardinality({}) = 0
  BY FS_EmptySet
<1> QED BY <1>1 DEF Listing

\* The events listed are the first one and then the rest.
LEMMA ListingMore ==
  ASSUME NEW R, IsStamped(R), NEW x, IsFirst(x, R)
  PROVE  /\ Listing(R) # << >> /\ Head(Listing(R)) = x.event
         /\ Tail(Listing(R)) = Listing(R \ {x})
<1> DEFINE Q == R \ {x}
           n == Cardinality(R)
           rank(y) == Cardinality({z \in R : Earlier(z, y)})
           rest(y) == Cardinality({z \in Q : Earlier(z, y)})
           L == [k \in 1 .. n |-> (CHOOSE y \in R : rank(y) = k - 1).event]
           S == {L[k] : k \in 1 .. n}
<1>1. x \in R /\ IsFiniteSet(R) /\ IsFiniteSet(Q)
  BY FS_Subset DEF IsFirst, IsStamped
<1>2. n \in Nat \ {0} /\ Cardinality(Q) = n - 1
  <2>1. n \in Nat /\ Cardinality(Q) \in Nat
    BY <1>1, FS_CardinalityType
  <2>2. Cardinality(Q) = n - 1
    BY <1>1, FS_RemoveElement
  <2> HIDE DEF n, Q
  <2> QED BY <2>1, <2>2
<1>3. rank(x) = 0
  <2>1. ~Earlier(x, x)
    <3>1. x.at[1] \in Nat /\ x.at[2] \in Nat /\ x.at[3] \in Nat
      BY <1>1 DEF IsStamped
    <3> QED BY <3>1 DEF Earlier
  <2>2. {z \in R : Earlier(z, x)} = {}
    BY <2>1 DEF IsFirst
  <2> QED BY <2>2, FS_EmptySet
<1>4. ASSUME NEW y \in Q PROVE rest(y) \in Nat /\ rank(y) = rest(y) + 1
  <2> DEFINE Z == {z \in Q : Earlier(z, y)}
  <2>1. {z \in R : Earlier(z, y)} = Z \cup {x} /\ x \notin Z
    BY DEF IsFirst
  <2>2. IsFiniteSet(Z)
    BY <1>1, FS_Subset
  <2>3. Cardinality(Z) \in Nat
    BY <2>2, FS_CardinalityType
  <2> HIDE DEF Z
  <2>4. Cardinality(Z \cup {x}) = Cardinality(Z) + 1
    BY <2>1, <2>2, FS_AddElement
  <2> QED BY <2>1, <2>3, <2>4 DEF Z
<1>5. Listing(R) = L
  BY DEF Listing
<1> HIDE DEF n, rank, rest
<1>6. L \in Seq(S) /\ Len(L) = n /\ L # << >> /\ DOMAIN L = 1 .. n
  <2>1. L \in [1 .. n -> S]
    OBVIOUS
  <2>2. DOMAIN L = 1 .. n
    OBVIOUS
  <2> HIDE DEF L, S
  <2> QED BY <1>2, <2>1, <2>2, EmptySeq
<1>7. L[1] = x.event
  <2>1. (CHOOSE y \in R : rank(y) = 0) = x
    <3>1. \A y \in R : rank(y) = 0 => y = x
      BY <1>4
    <3> QED BY <1>1, <1>3, <3>1
  <2> QED BY <1>2, <2>1
<1>8. Listing(Q) = [k \in 1 .. n - 1 |-> (CHOOSE y \in Q : rest(y) = k - 1).event]
  BY <1>2 DEF Listing, rest
<1>9. ASSUME NEW k \in 1 .. n - 1 PROVE L[k + 1] = Listing(Q)[k]
  <2>1. k + 1 \in 1 .. n /\ (k + 1) - 1 = k /\ k \in Nat \ {0}
    BY <1>2
  <2>2. {y \in R : rank(y) = k} = {y \in Q : rest(y) = k - 1}
    <3>1. \A y \in R : rank(y) = k <=> y \in Q /\ rest(y) = k - 1
      BY <1>3, <1>4, <2>1
    <3> QED BY <3>1
  <2>3. (CHOOSE y \in R : rank(y) = k) = (CHOOSE y \in Q : rest(y) = k - 1)
    <3> HIDE DEF Q
    <3>1. (CHOOSE y \in R : rank(y) = k) = (CHOOSE y : y \in {z \in R : rank(z) = k})
      OBVIOUS
    <3>2. (CHOOSE y \in Q : rest(y) = k - 1) = (CHOOSE y : y \in {z \in Q : rest(z) = k - 1})
      OBVIOUS
    <3> QED BY <2>2, <3>1, <3>2
  <2> QED BY <1>8, <2>1, <2>3
<1> HIDE DEF L, S
<1>10. Head(L) = L[1]
  BY <1>6
<1>11. Tail(L) = Listing(Q)
  <2>1. /\ Tail(L) \in Seq(S) /\ Len(Tail(L)) = n - 1
        /\ \A k \in 1 .. n - 1 : Tail(L)[k] = L[k + 1]
    BY <1>6, HeadTailProperties
  <2>2. Tail(L) \in [1 .. n - 1 -> S]
    BY <2>1, LenProperties
  <2> QED BY <1>8, <1>9, <2>1, <2>2
<1> QED BY <1>5, <1>6, <1>7, <1>10, <1>11

\* The sequences of a sequence, one after the other.
LEMMA FlattenNone == FlattenSeq(<< >>) = << >>
BY EmptySeq DEF FlattenSeq

Flattens(g, ss) == \A i \in 1 .. Len(ss) : g[i] = IF i = 1 THEN ss[1] ELSE g[i - 1] \o ss[i]

LEMMA FlattenBy ==
  ASSUME NEW S, NEW ss \in Seq(Seq(S)), ss # << >>
  PROVE  \E g \in [1 .. Len(ss) -> Seq(S)] : Flattens(g, ss) /\ FlattenSeq(ss) = g[Len(ss)]
<1> DEFINE l == Len(ss)
           Q == Seq(S)
           x == ss[1]
           H == [n \in Nat |-> [t \in Q |-> IF n \in 1 .. l THEN t \o ss[n] ELSE t]]
           body(g) == [i \in 1 .. l |-> IF i = 1 THEN ss[i] ELSE g[i - 1] \o ss[i]]
           flat == CHOOSE g : g = body(g)
<1>1. l \in Nat \ {0} /\ \A i \in 1 .. l : ss[i] \in Q
  BY EmptySeq, LenProperties
<1>2. H \in [Nat -> [Q -> Q]] /\ x \in Q
  BY <1>1
<1>3. PICK g \in [1 .. l -> Q] : RecursesTo(g, l, x, H)
  <2> HIDE DEF l, Q, x, H
  <2> QED BY ONLY <1>1, <1>2, ListRecursion
<1>4. ASSUME NEW i \in 1 .. l PROVE g[i] = IF i = 1 THEN ss[1] ELSE g[i - 1] \o ss[i]
  <2>1. g[i] = IF i = 1 THEN x ELSE H[i][g[i - 1]]
    <3> HIDE DEF H, x
    <3> QED BY <1>3 DEF RecursesTo
  <2>2. ASSUME i # 1 PROVE H[i][g[i - 1]] = g[i - 1] \o ss[i]
    <3>1. i - 1 \in 1 .. l /\ i \in Nat
      BY <1>1, <2>2
    <3>2. g[i - 1] \in Q
      BY <3>1
    <3> HIDE DEF Q, l
    <3> QED BY <3>1, <3>2
  <2> HIDE DEF H
  <2> QED BY <2>1, <2>2
<1>5. g = body(g)
  <2> HIDE DEF l, Q
  <2> QED BY <1>4
<1>6. flat = body(flat)
  BY <1>5
<1>7. FlattenSeq(ss) = flat[l]
  BY <1>1, EmptySeq DEF FlattenSeq
<1> HIDE DEF flat
<1>8. \A i \in 1 .. l : flat[i] = IF i = 1 THEN ss[1] ELSE flat[i - 1] \o ss[i]
  BY <1>6
<1> DEFINE T == {n \in Nat : n + 1 \in 1 .. l => flat[n + 1] = g[n + 1]}
<1>9. 0 \in T
  <2>1. 1 \in 1 .. l /\ 0 + 1 = 1
    BY <1>1
  <2>2. flat[1] = ss[1] /\ g[1] = ss[1]
    BY <1>4, <1>8, <2>1
  <2> QED BY <2>1, <2>2
<1>10. ASSUME NEW n \in Nat, n \in T PROVE n + 1 \in T
  <2> SUFFICES ASSUME (n + 1) + 1 \in 1 .. l PROVE flat[(n + 1) + 1] = g[(n + 1) + 1]
    OBVIOUS
  <2>1. n + 1 \in 1 .. l /\ (n + 1) + 1 # 1 /\ ((n + 1) + 1) - 1 = n + 1
    BY <1>1
  <2>2. flat[n + 1] = g[n + 1]
    BY <1>10, <2>1
  <2>3. flat[(n + 1) + 1] = flat[n + 1] \o ss[(n + 1) + 1]
    BY <1>8, <2>1
  <2>4. g[(n + 1) + 1] = g[n + 1] \o ss[(n + 1) + 1]
    BY <1>4, <2>1
  <2> QED BY <2>2, <2>3, <2>4
<1>11. l - 1 \in T
  <2>1. Nat \subseteq T
    <3> HIDE DEF T
    <3> QED BY <1>9, <1>10, Inductive
  <2> HIDE DEF T
  <2> QED BY <1>1, <2>1
<1>12. flat[l] = g[l]
  <2>1. (l - 1) + 1 = l /\ l \in 1 .. l
    BY <1>1
  <2> HIDE DEF l
  <2> QED BY <1>11, <2>1
<1> QED BY <1>3, <1>4, <1>7, <1>12 DEF Flattens

LEMMA FlattenType ==
  ASSUME NEW S, NEW ss \in Seq(Seq(S)) PROVE FlattenSeq(ss) \in Seq(S)
<1>1. CASE ss = << >>
  BY <1>1, FlattenNone, EmptySeq
<1>2. CASE ss # << >>
  <2>1. PICK g \in [1 .. Len(ss) -> Seq(S)] : FlattenSeq(ss) = g[Len(ss)]
    BY <1>2, FlattenBy
  <2>2. Len(ss) \in Nat \ {0}
    BY <1>2, EmptySeq
  <2>3. Len(ss) \in 1 .. Len(ss)
    BY <2>2
  <2> QED BY <2>1, <2>3
<1> QED BY <1>1, <1>2

LEMMA FlattenAppend ==
  ASSUME NEW S, NEW ss \in Seq(Seq(S)), NEW s \in Seq(S)
  PROVE  FlattenSeq(Append(ss, s)) = FlattenSeq(ss) \o s
<1> DEFINE l == Len(ss)
           tt == Append(ss, s)
<1>1. /\ l \in Nat /\ tt \in Seq(Seq(S)) /\ tt # << >> /\ Len(tt) = l + 1
      /\ tt[l + 1] = s /\ \A i \in 1 .. l : tt[i] = ss[i]
  BY AppendProperties, LenProperties
<1>2. PICK h \in [1 .. l + 1 -> Seq(S)] : Flattens(h, tt) /\ FlattenSeq(tt) = h[l + 1]
  <2> HIDE DEF tt
  <2> QED BY <1>1, FlattenBy
<1>3. \A i \in 1 .. l + 1 : h[i] = IF i = 1 THEN tt[1] ELSE h[i - 1] \o tt[i]
  <2> HIDE DEF tt, l
  <2> QED BY <1>1, <1>2 DEF Flattens
<1> HIDE DEF tt
<1>4. CASE ss = << >>
  <2>1. l = 0
    BY <1>4, EmptySeq
  <2>2. FlattenSeq(tt) = s
    BY <1>1, <1>2, <1>3, <2>1
  <2> QED BY <1>4, <2>2, FlattenNone, ConcatEmptySeq DEF tt
<1>5. CASE ss # << >>
  <2>1. PICK g \in [1 .. l -> Seq(S)] : Flattens(g, ss) /\ FlattenSeq(ss) = g[l]
    BY <1>5, FlattenBy
  <2>2. \A i \in 1 .. l : g[i] = IF i = 1 THEN ss[1] ELSE g[i - 1] \o ss[i]
    BY <2>1 DEF Flattens
  <2>3. l \in Nat \ {0}
    BY <1>5, EmptySeq
  <2> HIDE DEF l
  <2> DEFINE T == {n \in Nat : n + 1 \in 1 .. l => h[n + 1] = g[n + 1]}
  <2>4. 0 \in T
    <3>1. 1 \in 1 .. l /\ 1 \in 1 .. l + 1 /\ 0 + 1 = 1
      BY <2>3
    <3>2. h[1] = tt[1] /\ g[1] = ss[1] /\ tt[1] = ss[1]
      BY <1>1, <1>3, <2>2, <3>1
    <3> QED BY <3>1, <3>2
  <2>5. ASSUME NEW n \in Nat, n \in T PROVE n + 1 \in T
    <3> SUFFICES ASSUME (n + 1) + 1 \in 1 .. l PROVE h[(n + 1) + 1] = g[(n + 1) + 1]
      OBVIOUS
    <3>1. n + 1 \in 1 .. l /\ (n + 1) + 1 # 1 /\ ((n + 1) + 1) - 1 = n + 1 /\ (n + 1) + 1 \in 1 .. l + 1
      BY <2>3
    <3>2. h[n + 1] = g[n + 1]
      BY <2>5, <3>1
    <3>3. h[(n + 1) + 1] = h[n + 1] \o tt[(n + 1) + 1]
      BY <1>3, <3>1
    <3>4. g[(n + 1) + 1] = g[n + 1] \o ss[(n + 1) + 1]
      BY <2>2, <3>1
    <3> QED BY <1>1, <3>2, <3>3, <3>4
  <2>6. l - 1 \in T
    <3>1. Nat \subseteq T
      <4> HIDE DEF T
      <4> QED BY <2>4, <2>5, Inductive
    <3> HIDE DEF T
    <3> QED BY <2>3, <3>1
  <2>7. h[l] = g[l]
    <3>1. (l - 1) + 1 = l /\ l \in 1 .. l
      BY <2>3
    <3> QED BY <2>6, <3>1
  <2>8. h[l + 1] = h[l] \o s
    <3>1. l + 1 \in 1 .. l + 1 /\ l + 1 # 1 /\ (l + 1) - 1 = l
      BY <2>3
    <3> QED BY <1>1, <1>3, <3>1
  <2> QED BY <1>2, <2>1, <2>7, <2>8 DEF tt
<1> QED BY <1>4, <1>5

\* The pieces of a text are the text.
LEMMA Division ==
  ASSUME NEW a \in Nat, NEW b \in Nat \ {0}
  PROVE  a \div b \in Nat /\ a % b \in 0 .. b - 1 /\ a = b * (a \div b) + (a % b)
<1>1. b \in Nat /\ b > 0
  OBVIOUS
<1>2. a \div b \in Nat
  BY <1>1, SMT
<1>3. a % b \in 0 .. b - 1
  BY <1>1, SMT
<1>4. a = b * (a \div b) + (a % b)
  BY <1>1, SMT
<1> QED BY <1>2, <1>3, <1>4

LEMMA FragmentsAre ==
  ASSUME NEW text \in Texts, NEW n \in Nat
  PROVE  /\ Fragments(text, n) \in Seq(Texts)
         /\ FlattenSeq(Fragments(text, n)) = text
<1> DEFINE count == IF n = 0 \/ text = << >> THEN 1 ELSE Smallest(n, Len(text))
           q == Len(text) \div count
           r == Len(text) % count
           start(k) == k * q + Smallest(k, r)
           parts == [k \in 1 .. count |-> SubSeq(text, start(k - 1) + 1, start(k))]
<1>1. Fragments(text, n) = parts
  BY DEF Fragments
<1>2. count \in Nat \ {0}
  BY EmptySeq DEF Texts, Smallest
<1>3. Len(text) \in Nat
  BY LenProperties DEF Texts
<1> HIDE DEF count
<1>4. q \in Nat /\ r \in 0 .. count - 1 /\ Len(text) = count * q + r
  BY <1>2, <1>3, Division
<1> HIDE DEF q, r
<1>5. start(0) = 0 /\ start(count) = Len(text)
  BY <1>2, <1>4 DEF Smallest
<1>6. ASSUME NEW k \in 1 .. count
      PROVE  start(k - 1) \in Nat /\ start(k) \in Nat /\ start(k - 1) <= start(k) /\ start(k) <= Len(text)
  <2>1. k * q = (k - 1) * q + q /\ (k - 1) * q \in Nat
    BY <1>2, <1>4
  <2>2. k * q <= count * q
    <3>1. \E d \in Nat : count = k + d
      <4>1. count - k \in Nat /\ count = k + (count - k)
        BY <1>2
      <4> QED BY <4>1
    <3>2. PICK d \in Nat : count = k + d
      BY <3>1
    <3>3. count * q = k * q + d * q /\ d * q \in Nat
      BY <1>2, <1>4, <3>2
    <3> QED BY <1>4, <2>1, <3>3
  <2>3. Smallest(k - 1, r) \in Nat /\ Smallest(k, r) \in Nat /\ Smallest(k - 1, r) <= Smallest(k, r) /\ Smallest(k, r) <= r
    BY <1>2, <1>4 DEF Smallest
  <2>4. count * q \in Nat /\ k * q \in Nat /\ (k - 1) * q <= k * q
    BY <1>2, <1>4, <2>1
  <2> QED BY <1>4, <2>1, <2>2, <2>3, <2>4
<1> HIDE DEF start
<1>7. \A k \in 1 .. count : parts[k] = SubSeq(text, start(k - 1) + 1, start(k))
  OBVIOUS
<1>8. ASSUME NEW k \in 1 .. count PROVE parts[k] \in Texts
  <2>1. start(k - 1) + 1 \in Int /\ start(k) \in Int /\ \A i \in start(k - 1) + 1 .. start(k) : text[i] \in Nat
    BY <1>3, <1>6, ElementOfSeq DEF Texts
  <2> QED BY <1>7, <2>1, SubSeqProperties DEF Texts
<1>9. parts \in Seq(Texts) /\ Len(parts) = count /\ parts # << >>
  <2>1. parts \in [1 .. count -> Texts] /\ DOMAIN parts = 1 .. count
    BY <1>8
  <2> HIDE DEF parts
  <2> QED BY <1>2, <2>1, EmptySeq
<1> HIDE DEF parts
<1>10. PICK g \in [1 .. count -> Texts] : Flattens(g, parts) /\ FlattenSeq(parts) = g[count]
  BY <1>9, FlattenBy DEF Texts
<1>11. \A i \in 1 .. count : g[i] = IF i = 1 THEN parts[1] ELSE g[i - 1] \o parts[i]
  BY <1>9, <1>10 DEF Flattens
<1> DEFINE T == {m \in Nat : m + 1 \in 1 .. count => g[m + 1] = SubSeq(text, 1, start(m + 1))}
<1>12. 0 \in T
  <2>1. 1 \in 1 .. count /\ 0 + 1 = 1 /\ 1 - 1 = 0 /\ start(1 - 1) + 1 = 1
    BY <1>2, <1>5
  <2>2. g[1] = parts[1] /\ parts[1] = SubSeq(text, 1, start(1))
    BY <1>7, <1>11, <2>1
  <2> QED BY <2>1, <2>2
<1>13. ASSUME NEW m \in Nat, m \in T PROVE m + 1 \in T
  <2> SUFFICES ASSUME (m + 1) + 1 \in 1 .. count PROVE g[(m + 1) + 1] = SubSeq(text, 1, start((m + 1) + 1))
    OBVIOUS
  <2> DEFINE k == (m + 1) + 1
  <2>1. m + 1 \in 1 .. count /\ k # 1 /\ k - 1 = m + 1 /\ k \in 1 .. count
    BY <1>2
  <2>2. g[m + 1] = SubSeq(text, 1, start(m + 1))
    BY <1>13, <2>1
  <2>3. g[k] = g[m + 1] \o parts[k] /\ parts[k] = SubSeq(text, start(m + 1) + 1, start(k))
    BY <1>7, <1>11, <2>1
  <2>4. start(m + 1) \in 0 .. Len(text) /\ start(k) \in start(m + 1) .. Len(text)
    BY <1>3, <1>6, <2>1
  <2>5. SubSeq(text, 1, start(m + 1)) \o SubSeq(text, start(m + 1) + 1, start(k)) = SubSeq(text, 1, start(k))
    <3>1. 1 \in 1 .. Len(text) + 1 /\ start(m + 1) \in 1 - 1 .. Len(text) /\ start(k) \in start(m + 1) .. Len(text)
      BY <1>3, <2>4
    <3> HIDE DEF k
    <3> QED BY <3>1, ConcatAdjacentSubSeq DEF Texts
  <2> QED BY <2>2, <2>3, <2>5
<1>14. count - 1 \in T
  <2>1. Nat \subseteq T
    <3> HIDE DEF T
    <3> QED BY <1>12, <1>13, Inductive
  <2> HIDE DEF T
  <2> QED BY <1>2, <2>1
<1>15. g[count] = SubSeq(text, 1, Len(text))
  <2>1. (count - 1) + 1 = count /\ count \in 1 .. count
    BY <1>2
  <2> QED BY <1>5, <1>14, <2>1
<1> QED BY <1>1, <1>9, <1>10, <1>15, SubSeqFull DEF Texts

\* The first naturals, sorted, are themselves.
LEMMA SortedIs ==
  ASSUME NEW n \in Nat PROVE Sorted(0 .. n - 1) = [k \in 1 .. n |-> k - 1]
<1> DEFINE S == 0 .. n - 1
           rank(i) == Cardinality({j \in S : j < i})
<1>1. IsFiniteSet(S) /\ Cardinality(S) = n
  BY FS_Interval
<1>2. ASSUME NEW i \in S PROVE rank(i) = i
  <2>1. {j \in S : j < i} = 0 .. i - 1
    OBVIOUS
  <2>2. Cardinality(0 .. i - 1) = i
    <3>1. 0 \in Int /\ i - 1 \in Int
      OBVIOUS
    <3>2. Cardinality(0 .. i - 1) = IF 0 > i - 1 THEN 0 ELSE i - 1 - 0 + 1
      BY <3>1, FS_Interval
    <3> QED BY <3>2
  <2> QED BY <2>1, <2>2
<1>3. Sorted(S) = [k \in 1 .. n |-> CHOOSE i \in S : rank(i) = k - 1]
  BY <1>1 DEF Sorted
<1> HIDE DEF rank
<1>4. ASSUME NEW k \in 1 .. n PROVE (CHOOSE i \in S : rank(i) = k - 1) = k - 1
  <2>1. k - 1 \in S
    OBVIOUS
  <2> HIDE DEF S
  <2> QED BY <1>2, <2>1
<1> QED BY <1>3, <1>4

----------------------------------------------------------------------------
(* ProviderStream: the assembler.                                          *)

\* The strings, and those named here: that the one set holds the other the prover does
\* not know.
Name == STRING \cup {"", "text", "thinking", "tool_use", "end_turn", "max_tokens", "refusal"}

Stubs == [kind : Name, id : Name]

Buffer == [stub : Stubs, parts : Seq(Texts)]

Assembler ==
  [blocks : UNION {[D -> Buffer] : D \in SUBSET Nat}, stop_reason : Name, usage : Nat]

LEMMA AssemblerBlocks ==
  ASSUME NEW a \in Assembler
  PROVE  /\ DOMAIN a.blocks \in SUBSET Nat /\ a.blocks \in [DOMAIN a.blocks -> Buffer]
         /\ a.stop_reason \in Name /\ a.usage \in Nat
BY DEF Assembler

LEMMA FeedsStart ==
  ASSUME NEW a \in Assembler, NEW i \in Nat, NEW stub \in Stubs
  PROVE  LET f == Feed(a, ContentBlockStart(i, stub))
         IN  /\ f \in Assembler /\ DOMAIN f.blocks = DOMAIN a.blocks \cup {i}
             /\ f.blocks[i] = [stub |-> stub, parts |-> << >>]
             /\ \A j \in DOMAIN a.blocks \ {i} : f.blocks[j] = a.blocks[j]
             /\ f.stop_reason = a.stop_reason /\ f.usage = a.usage
<1> DEFINE b == [j \in DOMAIN a.blocks \cup {i} |->
                   IF j = i THEN [stub |-> stub, parts |-> << >>] ELSE a.blocks[j]]
<1>1. Feed(a, ContentBlockStart(i, stub)) = [a EXCEPT !.blocks = b]
  BY DEF Feed, ContentBlockStart
<1>2. DOMAIN a.blocks \in SUBSET Nat /\ a.blocks \in [DOMAIN a.blocks -> Buffer]
  BY AssemblerBlocks
<1>3. [stub |-> stub, parts |-> << >>] \in Buffer
  BY EmptySeq DEF Buffer
<1>4. b \in [DOMAIN a.blocks \cup {i} -> Buffer] /\ DOMAIN a.blocks \cup {i} \in SUBSET Nat
  BY <1>2, <1>3
<1>5. /\ DOMAIN b = DOMAIN a.blocks \cup {i} /\ b[i] = [stub |-> stub, parts |-> << >>]
      /\ \A j \in DOMAIN a.blocks \ {i} : b[j] = a.blocks[j]
  OBVIOUS
<1> HIDE DEF b
<1>6. /\ [a EXCEPT !.blocks = b] \in Assembler /\ [a EXCEPT !.blocks = b].blocks = b
      /\ [a EXCEPT !.blocks = b].stop_reason = a.stop_reason /\ [a EXCEPT !.blocks = b].usage = a.usage
  BY <1>4 DEF Assembler
<1> QED BY <1>1, <1>5, <1>6

LEMMA FeedsDelta ==
  ASSUME NEW a \in Assembler, NEW i \in DOMAIN a.blocks, NEW part \in Texts
  PROVE  LET f == Feed(a, ContentBlockDelta(i, part))
         IN  /\ f \in Assembler /\ DOMAIN f.blocks = DOMAIN a.blocks
             /\ f.blocks[i].stub = a.blocks[i].stub
             /\ f.blocks[i].parts = Append(a.blocks[i].parts, part)
             /\ \A j \in DOMAIN a.blocks \ {i} : f.blocks[j] = a.blocks[j]
             /\ f.stop_reason = a.stop_reason /\ f.usage = a.usage
<1> DEFINE b == [a.blocks EXCEPT ![i].parts = Append(@, part)]
<1>1. Feed(a, ContentBlockDelta(i, part)) = [a EXCEPT !.blocks = b]
  <2>1. Feed(a, ContentBlockDelta(i, part)) = [a EXCEPT !.blocks[i].parts = Append(@, part)]
    BY DEF Feed, ContentBlockDelta, BlockOf
  <2>2. a = [blocks |-> a.blocks, stop_reason |-> a.stop_reason, usage |-> a.usage]
    BY DEF Assembler
  <2> QED BY <2>1, <2>2
<1>2. DOMAIN a.blocks \in SUBSET Nat /\ a.blocks \in [DOMAIN a.blocks -> Buffer] /\ a.blocks[i] \in Buffer
  BY AssemblerBlocks
<1>3. a.blocks[i].parts \in Seq(Texts) /\ Append(a.blocks[i].parts, part) \in Seq(Texts)
  BY <1>2, AppendProperties DEF Buffer
<1>4. [a.blocks[i] EXCEPT !.parts = Append(@, part)] \in Buffer
  BY <1>2, <1>3 DEF Buffer
<1>5. /\ b[i] = [a.blocks[i] EXCEPT !.parts = Append(@, part)] /\ DOMAIN b = DOMAIN a.blocks
      /\ \A j \in DOMAIN a.blocks \ {i} : b[j] = a.blocks[j]
      /\ b = [j \in DOMAIN a.blocks |-> b[j]]
  BY <1>2
<1>6. b[i].stub = a.blocks[i].stub /\ b[i].parts = Append(a.blocks[i].parts, part)
  BY <1>2, <1>5 DEF Buffer
<1> HIDE DEF b
<1>7. b \in [DOMAIN a.blocks -> Buffer]
  <2>1. \A j \in DOMAIN a.blocks : b[j] \in Buffer
    BY <1>2, <1>4, <1>5
  <2> QED BY <1>5, <2>1
<1>8. /\ [a EXCEPT !.blocks = b] \in Assembler /\ [a EXCEPT !.blocks = b].blocks = b
      /\ [a EXCEPT !.blocks = b].stop_reason = a.stop_reason /\ [a EXCEPT !.blocks = b].usage = a.usage
  BY <1>2, <1>7 DEF Assembler
<1> QED BY <1>1, <1>5, <1>6, <1>8

LEMMA FeedsRest ==
  ASSUME NEW a \in Assembler
  PROVE  /\ LET f == Feed(a, MessageStart) IN f \in Assembler /\ f.blocks = a.blocks
         /\ \A i \in Nat : Feed(a, ContentBlockStop(i)) = a
         /\ Feed(a, MessageStop) = a
         /\ \A reason \in Name, n \in Nat :
              LET f == Feed(a, MessageDelta(reason, n))
              IN  f \in Assembler /\ f.blocks = a.blocks /\ f.stop_reason = reason /\ f.usage = n
<1>1. LET f == Feed(a, MessageStart) IN f \in Assembler /\ f.blocks = a.blocks
  BY DEF Feed, MessageStart, Assembler
<1>2. \A i \in Nat : Feed(a, ContentBlockStop(i)) = a
  BY DEF Feed, ContentBlockStop
<1>3. Feed(a, MessageStop) = a
  BY DEF Feed, MessageStop
<1>4. ASSUME NEW reason \in Name, NEW n \in Nat
      PROVE  LET f == Feed(a, MessageDelta(reason, n))
             IN  f \in Assembler /\ f.blocks = a.blocks /\ f.stop_reason = reason /\ f.usage = n
  <2>1. Feed(a, MessageDelta(reason, n)) = [a EXCEPT !.stop_reason = reason, !.usage = n]
    BY DEF Feed, MessageDelta
  <2> QED BY <2>1 DEF Assembler
<1> QED BY <1>1, <1>2, <1>3, <1>4

----------------------------------------------------------------------------
(* ProviderStream: the mock.                                               *)

\* The events of a scripted turn, by block, phase and round.
PartsOf(t, i) == Fragments(t.blocks[i].text, t.blocks[i].fragments)

Place(t, i, phase, round) ==
  IF t.interleave /\ Len(t.blocks) > 1 THEN <<phase, round, i>> ELSE <<i, phase, round>>

BlockEvent(t, i, phase, round) ==
  Stamped(Place(t, i, phase, round),
          IF phase = 1 THEN ContentBlockStart(i - 1, Stub(t.blocks[i].kind, t.blocks[i].id))
          ELSE IF phase = 2 THEN ContentBlockDelta(i - 1, PartsOf(t, i)[round])
          ELSE ContentBlockStop(i - 1))

IsBlockEvent(t, i, phase, round) ==
  /\ i \in 1 .. Len(t.blocks)
  /\ \/ phase = 1 /\ round = 0
     \/ phase = 2 /\ round \in 1 .. Len(PartsOf(t, i))
     \/ phase = 3 /\ round = 0

Begins == Stamped(<<0, 0, 0>>, MessageStart)
Reports(t) == Stamped(<<Len(t.blocks) + 4, 0, 0>>, MessageDelta(t.stop_reason, t.usage))
Ends(t) == Stamped(<<Len(t.blocks) + 4, 1, 0>>, MessageStop)

LEMMA ScriptedFacts ==
  ASSUME NEW t \in ScriptedTurn
  PROVE  /\ Len(t.blocks) \in Nat /\ DOMAIN t.blocks = 1 .. Len(t.blocks)
         /\ t.stop_reason \in Name /\ t.usage \in Nat
         /\ \A i \in 1 .. Len(t.blocks) :
              /\ t.blocks[i] \in ScriptedBlock
              /\ Stub(t.blocks[i].kind, t.blocks[i].id) \in Stubs
              /\ t.blocks[i].text \in Texts
              /\ PartsOf(t, i) \in Seq(Texts) /\ Len(PartsOf(t, i)) \in Nat
              /\ DOMAIN PartsOf(t, i) = 1 .. Len(PartsOf(t, i))
              /\ FlattenSeq(PartsOf(t, i)) = t.blocks[i].text
<1>1. t.blocks \in Seq(ScriptedBlock) /\ t.stop_reason \in Name /\ t.usage \in Nat
  BY DEF ScriptedTurn, Name
<1>2. Len(t.blocks) \in Nat /\ DOMAIN t.blocks = 1 .. Len(t.blocks)
  BY <1>1, LenProperties
<1>3. ASSUME NEW i \in 1 .. Len(t.blocks)
      PROVE  /\ t.blocks[i] \in ScriptedBlock
             /\ Stub(t.blocks[i].kind, t.blocks[i].id) \in Stubs
             /\ t.blocks[i].text \in Texts
             /\ PartsOf(t, i) \in Seq(Texts) /\ Len(PartsOf(t, i)) \in Nat
             /\ DOMAIN PartsOf(t, i) = 1 .. Len(PartsOf(t, i))
             /\ FlattenSeq(PartsOf(t, i)) = t.blocks[i].text
  <2>1. t.blocks[i] \in ScriptedBlock
    BY <1>1, ElementOfSeq
  <2>2. /\ t.blocks[i].kind \in Name /\ t.blocks[i].id \in Name
        /\ t.blocks[i].text \in Texts /\ t.blocks[i].fragments \in Nat
    <3>1. t.blocks[i] \in [kind : {"text", "thinking", "tool_use"}, id : STRING, text : Texts, fragments : Nat]
      BY <2>1 DEF ScriptedBlock
    <3> QED BY <3>1 DEF Name
  <2>3. PartsOf(t, i) \in Seq(Texts) /\ FlattenSeq(PartsOf(t, i)) = t.blocks[i].text
    BY <2>2, FragmentsAre DEF PartsOf
  <2>4. Len(PartsOf(t, i)) \in Nat /\ DOMAIN PartsOf(t, i) = 1 .. Len(PartsOf(t, i))
    BY <2>3, LenProperties
  <2> QED BY <2>1, <2>2, <2>3, <2>4 DEF Stub, Stubs
<1> QED BY <1>1, <1>2, <1>3

LEMMA TurnEventsAre ==
  ASSUME NEW t \in ScriptedTurn, NEW x
  PROVE  x \in TurnEvents(t) <=>
           \/ x = Begins \/ x = Reports(t) \/ x = Ends(t)
           \/ \E i, phase, round : IsBlockEvent(t, i, phase, round) /\ x = BlockEvent(t, i, phase, round)
<1> DEFINE n == Len(t.blocks)
           block(i) ==
             {Stamped(Place(t, i, 1, 0), ContentBlockStart(i - 1, Stub(t.blocks[i].kind, t.blocks[i].id)))}
               \cup {Stamped(Place(t, i, 2, k), ContentBlockDelta(i - 1, PartsOf(t, i)[k])) : k \in DOMAIN PartsOf(t, i)}
               \cup {Stamped(Place(t, i, 3, 0), ContentBlockStop(i - 1))}
<1>1. TurnEvents(t) = (UNION {block(i) : i \in 1 .. n}) \cup {Begins, Reports(t), Ends(t)}
  BY DEF TurnEvents, Place, PartsOf, Begins, Reports, Ends
<1>2. ASSUME NEW i \in 1 .. n
      PROVE  x \in block(i) <=> \E phase, round : IsBlockEvent(t, i, phase, round) /\ x = BlockEvent(t, i, phase, round)
  <2>1. DOMAIN PartsOf(t, i) = 1 .. Len(PartsOf(t, i))
    BY ScriptedFacts
  <2>2. ASSUME x \in block(i) PROVE \E phase, round : IsBlockEvent(t, i, phase, round) /\ x = BlockEvent(t, i, phase, round)
    <3>1. CASE x = Stamped(Place(t, i, 1, 0), ContentBlockStart(i - 1, Stub(t.blocks[i].kind, t.blocks[i].id)))
      <4>1. IsBlockEvent(t, i, 1, 0) /\ x = BlockEvent(t, i, 1, 0)
        BY <3>1 DEF IsBlockEvent, BlockEvent
      <4> QED BY <4>1
    <3>2. ASSUME NEW k \in DOMAIN PartsOf(t, i),
                 x = Stamped(Place(t, i, 2, k), ContentBlockDelta(i - 1, PartsOf(t, i)[k]))
          PROVE  \E phase, round : IsBlockEvent(t, i, phase, round) /\ x = BlockEvent(t, i, phase, round)
      <4>1. IsBlockEvent(t, i, 2, k) /\ x = BlockEvent(t, i, 2, k)
        BY <2>1, <3>2 DEF IsBlockEvent, BlockEvent
      <4> QED BY <4>1
    <3>3. CASE x = Stamped(Place(t, i, 3, 0), ContentBlockStop(i - 1))
      <4>1. IsBlockEvent(t, i, 3, 0) /\ x = BlockEvent(t, i, 3, 0)
        BY <3>3 DEF IsBlockEvent, BlockEvent
      <4> QED BY <4>1
    <3> QED BY <2>2, <3>1, <3>2, <3>3
  <2>3. ASSUME NEW phase, NEW round, IsBlockEvent(t, i, phase, round), x = BlockEvent(t, i, phase, round)
        PROVE  x \in block(i)
    BY <2>1, <2>3 DEF IsBlockEvent, BlockEvent
  <2> QED BY <2>2, <2>3
<1>3. \A i, phase, round : IsBlockEvent(t, i, phase, round) => i \in 1 .. n
  BY DEF IsBlockEvent
<1>4. x \in TurnEvents(t) <=> (\E i \in 1 .. n : x \in block(i)) \/ x \in {Begins, Reports(t), Ends(t)}
  <2> HIDE DEF block, n
  <2>1. x \in UNION {block(i) : i \in 1 .. n} <=> \E i \in 1 .. n : x \in block(i)
    OBVIOUS
  <2> QED BY <1>1, <2>1
<1> HIDE DEF block, n
<1> QED BY <1>2, <1>3, <1>4

\* Unions and images of finitely many are finite.
LEMMA FiniteImage ==
  ASSUME NEW S, IsFiniteSet(S), NEW f, f = [x \in S |-> f[x]] PROVE IsFiniteSet({f[x] : x \in S})
<1> DEFINE T == {f[x] : x \in S}
<1>1. f \in [S -> T]
  OBVIOUS
<1>2. f \in Surjection(S, T)
  BY <1>1 DEF Surjection
<1> QED BY <1>2, FS_Surjection

LEMMA FiniteUnion ==
  ASSUME NEW S, IsFiniteSet(S), NEW f, f = [x \in S |-> f[x]], \A x \in S : IsFiniteSet(f[x])
  PROVE  IsFiniteSet(UNION {f[x] : x \in S})
<1>1. IsFiniteSet({f[x] : x \in S})
  BY FiniteImage
<1>2. \A T \in {f[x] : x \in S} : IsFiniteSet(T)
  OBVIOUS
<1> QED BY <1>1, <1>2, FS_UNION

\* A block's phases come in order, and its rounds.
LEMMA PlacesAre ==
  ASSUME NEW t \in ScriptedTurn, NEW i, NEW p, NEW k, IsBlockEvent(t, i, p, k),
         NEW j, NEW q, NEW l, IsBlockEvent(t, j, q, l)
  PROVE  LET x == BlockEvent(t, i, p, k)
             y == BlockEvent(t, j, q, l)
         IN  /\ x = y <=> i = j /\ p = q /\ k = l
             /\ x = y \/ Earlier(x, y) \/ Earlier(y, x)
             /\ i = j /\ (p < q \/ (p = q /\ k < l)) => Earlier(x, y) /\ ~Earlier(y, x)
             /\ Earlier(Begins, x) /\ Earlier(x, Reports(t)) /\ Earlier(x, Ends(t))
             /\ x # Begins /\ x # Reports(t) /\ x # Ends(t)
             /\ x.at[1] \in Nat /\ x.at[2] \in Nat /\ x.at[3] \in Nat
<1> DEFINE n == Len(t.blocks)
<1>1. n \in Nat
  BY ScriptedFacts
<1>2. i \in 1 .. n /\ j \in 1 .. n
  BY DEF IsBlockEvent
<1>3. p \in 1 .. 3 /\ q \in 1 .. 3 /\ k \in Nat /\ l \in Nat
  BY <1>2, ScriptedFacts DEF IsBlockEvent
<1> DEFINE x == BlockEvent(t, i, p, k)
           y == BlockEvent(t, j, q, l)
<1>4. x.at = Place(t, i, p, k) /\ y.at = Place(t, j, q, l)
  BY DEF BlockEvent, Stamped
<1>5. /\ Begins.at = <<0, 0, 0>> /\ Reports(t).at = <<n + 4, 0, 0>> /\ Ends(t).at = <<n + 4, 1, 0>>
  BY DEF Begins, Reports, Ends, Stamped
<1>6. i = j /\ p = q /\ k = l => x = y
  OBVIOUS
<1> HIDE DEF x, y, n
<1>7. CASE t.interleave /\ n > 1
  <2>1. x.at[1] = p /\ x.at[2] = k /\ x.at[3] = i /\ y.at[1] = q /\ y.at[2] = l /\ y.at[3] = j
    BY <1>4, <1>7 DEF Place, n
  <2> QED BY <1>1, <1>2, <1>3, <1>5, <1>6, <2>1 DEF Earlier, x, y
<1>8. CASE ~(t.interleave /\ n > 1)
  <2>1. x.at[1] = i /\ x.at[2] = p /\ x.at[3] = k /\ y.at[1] = j /\ y.at[2] = q /\ y.at[3] = l
    BY <1>4, <1>8 DEF Place, n
  <2> QED BY <1>1, <1>2, <1>3, <1>5, <1>6, <2>1 DEF Earlier, x, y
<1> QED BY <1>7, <1>8

LEMMA TurnEventsStamped ==
  ASSUME NEW t \in ScriptedTurn PROVE IsStamped(TurnEvents(t))
<1> DEFINE n == Len(t.blocks)
           parts(i) == Fragments(t.blocks[i].text, t.blocks[i].fragments)
           delta(i) == [k \in DOMAIN parts(i) |-> Stamped(Place(t, i, 2, k), ContentBlockDelta(i - 1, parts(i)[k]))]
           block(i) ==
             {Stamped(Place(t, i, 1, 0), ContentBlockStart(i - 1, Stub(t.blocks[i].kind, t.blocks[i].id)))}
               \cup {delta(i)[k] : k \in DOMAIN parts(i)}
               \cup {Stamped(Place(t, i, 3, 0), ContentBlockStop(i - 1))}
           I == 1 .. n
           blocks == [i \in I |-> block(i)]
<1>1. n \in Nat /\ \A i \in 1 .. n : DOMAIN parts(i) = 1 .. Len(parts(i)) /\ Len(parts(i)) \in Nat
  BY ScriptedFacts DEF PartsOf
<1>2. TurnEvents(t) = (UNION {blocks[i] : i \in I}) \cup {Begins, Reports(t), Ends(t)}
  <2>1. TurnEvents(t) = (UNION {block(i) : i \in 1 .. n}) \cup {Begins, Reports(t), Ends(t)}
    <3>1. \A i \in 1 .. n : {delta(i)[k] : k \in DOMAIN parts(i)}
                               = {Stamped(Place(t, i, 2, k), ContentBlockDelta(i - 1, parts(i)[k])) : k \in DOMAIN parts(i)}
      OBVIOUS
    <3> HIDE DEF delta
    <3> QED BY <3>1 DEF TurnEvents, Place, Begins, Reports, Ends
  <2> HIDE DEF block
  <2>2. {block(i) : i \in 1 .. n} = {blocks[i] : i \in I}
    OBVIOUS
  <2> QED BY <2>1, <2>2
<1>3. IsFiniteSet(TurnEvents(t))
  <2>1. ASSUME NEW i \in 1 .. n PROVE IsFiniteSet(block(i))
    <3> DEFINE f == delta(i)
               D == DOMAIN parts(i)
    <3>1. IsFiniteSet(D)
      BY <1>1, FS_Interval
    <3>2. f = [k \in D |-> f[k]]
      OBVIOUS
    <3> HIDE DEF delta, f, D
    <3>3. IsFiniteSet({f[k] : k \in D})
      BY <3>1, <3>2, FiniteImage
    <3> HIDE DEF parts
    <3> QED BY <3>3, FS_Singleton, FS_Union DEF f, D
  <2>2. IsFiniteSet(I)
    BY <1>1, FS_Interval
  <2> HIDE DEF block, n
  <2>3. blocks = [i \in I |-> blocks[i]] /\ \A i \in I : IsFiniteSet(blocks[i])
    BY <2>1
  <2> HIDE DEF blocks, I
  <2>4. IsFiniteSet(UNION {blocks[i] : i \in I})
    BY <2>2, <2>3, FiniteUnion
  <2>5. IsFiniteSet({Begins, Reports(t), Ends(t)})
    <3>1. {Begins, Reports(t), Ends(t)} = ({Begins} \cup {Reports(t)}) \cup {Ends(t)}
      OBVIOUS
    <3>2. IsFiniteSet({Begins}) /\ IsFiniteSet({Reports(t)}) /\ IsFiniteSet({Ends(t)})
      BY FS_Singleton
    <3> DEFINE A == {Begins} \cup {Reports(t)}
               B == {Ends(t)}
    <3>3. IsFiniteSet(A) /\ IsFiniteSet(B)
      BY <3>2, FS_Union
    <3> HIDE DEF A, B
    <3>4. IsFiniteSet(A \cup B)
      BY <3>3, FS_Union
    <3> QED BY <3>1, <3>4 DEF A, B
  <2> QED BY <1>2, <2>4, <2>5, FS_Union
<1>4. /\ Begins.at[1] = 0 /\ Begins.at[2] = 0 /\ Begins.at[3] = 0
      /\ Reports(t).at[1] = n + 4 /\ Reports(t).at[2] = 0 /\ Reports(t).at[3] = 0
      /\ Ends(t).at[1] = n + 4 /\ Ends(t).at[2] = 1 /\ Ends(t).at[3] = 0
  BY DEF Begins, Reports, Ends, Stamped
<1> HIDE DEF n, blocks, I
<1>5. ASSUME NEW x \in TurnEvents(t) PROVE x.at[1] \in Nat /\ x.at[2] \in Nat /\ x.at[3] \in Nat
  <2>1. ASSUME NEW i, NEW p, NEW k, IsBlockEvent(t, i, p, k), x = BlockEvent(t, i, p, k)
        PROVE  x.at[1] \in Nat /\ x.at[2] \in Nat /\ x.at[3] \in Nat
    BY <2>1, PlacesAre
  <2> QED BY <1>1, <1>4, <2>1, TurnEventsAre
<1>6. ASSUME NEW x \in TurnEvents(t), NEW y \in TurnEvents(t) PROVE x = y \/ Earlier(x, y) \/ Earlier(y, x)
  <2>1. Earlier(Begins, Reports(t)) /\ Earlier(Begins, Ends(t)) /\ Earlier(Reports(t), Ends(t))
    BY <1>1, <1>4 DEF Earlier
  <2>2. ASSUME NEW i, NEW p, NEW k, IsBlockEvent(t, i, p, k), x = BlockEvent(t, i, p, k)
        PROVE  x = y \/ Earlier(x, y) \/ Earlier(y, x)
    <3>1. ASSUME NEW j, NEW q, NEW l, IsBlockEvent(t, j, q, l), y = BlockEvent(t, j, q, l)
          PROVE  x = y \/ Earlier(x, y) \/ Earlier(y, x)
      BY <2>2, <3>1, PlacesAre
    <3>2. Earlier(Begins, x) /\ Earlier(x, Reports(t)) /\ Earlier(x, Ends(t))
      BY <2>2, PlacesAre
    <3> QED BY <3>1, <3>2, TurnEventsAre
  <2>3. ASSUME NEW j, NEW q, NEW l, IsBlockEvent(t, j, q, l), y = BlockEvent(t, j, q, l)
        PROVE  Earlier(Begins, y) /\ Earlier(y, Reports(t)) /\ Earlier(y, Ends(t))
    BY <2>3, PlacesAre
  <2> QED BY <2>1, <2>2, <2>3, TurnEventsAre
<1> QED BY <1>3, <1>5, <1>6 DEF IsStamped

\* What the assembler has of a block, while the events R are still to be fed.
Fed(t, R, a, i) ==
  IF BlockEvent(t, i, 1, 0) \in R
  THEN i - 1 \notin DOMAIN a.blocks /\ \A k \in 1 .. Len(PartsOf(t, i)) : BlockEvent(t, i, 2, k) \in R
  ELSE /\ i - 1 \in DOMAIN a.blocks
       /\ a.blocks[i - 1].stub = Stub(t.blocks[i].kind, t.blocks[i].id)
       /\ \E m \in 0 .. Len(PartsOf(t, i)) :
            /\ a.blocks[i - 1].parts = SubSeq(PartsOf(t, i), 1, m)
            /\ \A k \in 1 .. Len(PartsOf(t, i)) : BlockEvent(t, i, 2, k) \in R <=> k > m

Drains(t, R, a) ==
  /\ R \subseteq TurnEvents(t) /\ a \in Assembler
  /\ DOMAIN a.blocks \subseteq 0 .. Len(t.blocks) - 1
  /\ \A i \in 1 .. Len(t.blocks) : Fed(t, R, a, i)
  /\ Reports(t) \in R \/ (Begins \notin R /\ a.stop_reason = t.stop_reason /\ a.usage = t.usage)

LEMMA FedStays ==
  ASSUME NEW t, NEW R, NEW a, NEW b, NEW x, NEW i, Fed(t, R, a, i),
         x # BlockEvent(t, i, 1, 0), \A k \in 1 .. Len(PartsOf(t, i)) : x # BlockEvent(t, i, 2, k),
         i - 1 \in DOMAIN b.blocks <=> i - 1 \in DOMAIN a.blocks,
         i - 1 \in DOMAIN a.blocks => b.blocks[i - 1] = a.blocks[i - 1]
  PROVE  Fed(t, R \ {x}, b, i)
BY DEF Fed

LEMMA DrainsStart ==
  ASSUME NEW t \in ScriptedTurn, NEW a,
         a \in Assembler, a.blocks = << >>
  PROVE  Drains(t, TurnEvents(t), a)
<1>1. DOMAIN a.blocks = {}
  BY EmptySeq
<1>2. Reports(t) \in TurnEvents(t)
  BY TurnEventsAre
<1>3. ASSUME NEW i \in 1 .. Len(t.blocks)
      PROVE  /\ BlockEvent(t, i, 1, 0) \in TurnEvents(t)
             /\ \A k \in 1 .. Len(PartsOf(t, i)) : BlockEvent(t, i, 2, k) \in TurnEvents(t)
  <2>1. IsBlockEvent(t, i, 1, 0) /\ \A k \in 1 .. Len(PartsOf(t, i)) : IsBlockEvent(t, i, 2, k)
    BY DEF IsBlockEvent
  <2> QED BY <2>1, TurnEventsAre
<1> QED BY <1>1, <1>2, <1>3 DEF Drains, Fed

LEMMA DrainsFeed ==
  ASSUME NEW t \in ScriptedTurn, NEW R, NEW a, Drains(t, R, a), NEW x, IsFirst(x, R)
  PROVE  Drains(t, R \ {x}, Feed(a, x.event))
<1> DEFINE n == Len(t.blocks)
           f == Feed(a, x.event)
<1>1. x \in R /\ x \in TurnEvents(t) /\ \A y \in R : y # x => ~Earlier(y, x)
  BY DEF IsFirst, Drains
<1>2. a \in Assembler /\ R \ {x} \subseteq TurnEvents(t) /\ \A i \in 1 .. n : Fed(t, R, a, i)
  BY DEF Drains
<1>3. ASSUME f \in Assembler, f.blocks = a.blocks, x \in {Begins, Reports(t), Ends(t)} \/
               \E i, k : IsBlockEvent(t, i, 3, k) /\ x = BlockEvent(t, i, 3, k)
      PROVE  DOMAIN f.blocks \subseteq 0 .. n - 1 /\ \A i \in 1 .. n : Fed(t, R \ {x}, f, i)
  <2>1. ASSUME NEW i \in 1 .. n
        PROVE  x # BlockEvent(t, i, 1, 0) /\ \A k \in 1 .. Len(PartsOf(t, i)) : x # BlockEvent(t, i, 2, k)
    <3>1. IsBlockEvent(t, i, 1, 0) /\ \A k \in 1 .. Len(PartsOf(t, i)) : IsBlockEvent(t, i, 2, k)
      BY DEF IsBlockEvent
    <3> QED BY <1>3, <3>1, PlacesAre
  <2>2. \A i \in 1 .. n : Fed(t, R \ {x}, f, i)
    <3> HIDE DEF f
    <3> QED BY <1>2, <1>3, <2>1, FedStays
  <2> QED BY <1>3, <2>2 DEF Drains
<1>4. Earlier(Begins, Reports(t)) /\ Begins # Reports(t) /\ Begins # Ends(t) /\ Reports(t) # Ends(t)
  <2>1. n \in Nat
    BY ScriptedFacts
  <2> QED BY <2>1 DEF Begins, Reports, Ends, Earlier, Stamped
<1>5. CASE x = Begins
  <2>1. f \in Assembler /\ f.blocks = a.blocks
    BY <1>2, <1>5, FeedsRest DEF Begins, Stamped
  <2>2. Reports(t) \in R \ {x}
    BY <1>1, <1>4, <1>5 DEF Drains
  <2> HIDE DEF f
  <2> QED BY <1>2, <1>3, <1>5, <2>1, <2>2 DEF Drains, f
<1>6. CASE x = Reports(t)
  <2>1. f \in Assembler /\ f.blocks = a.blocks /\ f.stop_reason = t.stop_reason /\ f.usage = t.usage
    <3>1. x.event = MessageDelta(t.stop_reason, t.usage)
      BY <1>6 DEF Reports, Stamped
    <3>2. t.stop_reason \in Name /\ t.usage \in Nat
      BY ScriptedFacts
    <3> HIDE DEF f
    <3>3. f = Feed(a, MessageDelta(t.stop_reason, t.usage))
      BY <3>1 DEF f
    <3> DEFINE g == Feed(a, MessageDelta(t.stop_reason, t.usage))
    <3>4. g \in Assembler /\ g.blocks = a.blocks /\ g.stop_reason = t.stop_reason /\ g.usage = t.usage
      BY <1>2, <3>2, FeedsRest
    <3> HIDE DEF g
    <3> QED BY <3>3, <3>4 DEF g
  <2>2. Begins \notin R \ {x}
    BY <1>1, <1>4, <1>6
  <2> HIDE DEF f
  <2> QED BY <1>2, <1>3, <1>6, <2>1, <2>2 DEF Drains, f
<1>7. CASE x = Ends(t)
  <2>1. f = a
    BY <1>2, <1>7, FeedsRest DEF Ends, Stamped
  <2>2. Reports(t) \in R \ {x} \/ (Begins \notin R \ {x} /\ f.stop_reason = t.stop_reason /\ f.usage = t.usage)
    BY <1>4, <1>7, <2>1 DEF Drains
  <2> HIDE DEF f
  <2> QED BY <1>2, <1>3, <1>7, <2>1, <2>2 DEF Drains, f
<1>8. ASSUME NEW i, NEW p, NEW k, IsBlockEvent(t, i, p, k), x = BlockEvent(t, i, p, k)
      PROVE  Drains(t, R \ {x}, f)
  <2>1. x # Begins /\ x # Reports(t) /\ i \in 1 .. n /\ i - 1 \in Nat /\ n \in Nat
    BY <1>8, PlacesAre, ScriptedFacts DEF IsBlockEvent
  <2>2. ASSUME f.stop_reason = a.stop_reason, f.usage = a.usage
        PROVE  Reports(t) \in R \ {x} \/ (Begins \notin R \ {x} /\ f.stop_reason = t.stop_reason /\ f.usage = t.usage)
    BY <2>1, <2>2 DEF Drains
  <2>3. ASSUME NEW j \in 1 .. n, j # i
        PROVE  x # BlockEvent(t, j, 1, 0) /\ \A l \in 1 .. Len(PartsOf(t, j)) : x # BlockEvent(t, j, 2, l)
    <3>1. IsBlockEvent(t, j, 1, 0) /\ \A l \in 1 .. Len(PartsOf(t, j)) : IsBlockEvent(t, j, 2, l)
      BY DEF IsBlockEvent
    <3> QED BY <1>8, <2>3, <3>1, PlacesAre
  <2>4. ASSUME \A j \in DOMAIN a.blocks \ {i - 1} : j \in DOMAIN f.blocks /\ f.blocks[j] = a.blocks[j],
               DOMAIN f.blocks \subseteq DOMAIN a.blocks \cup {i - 1}
        PROVE  /\ DOMAIN f.blocks \subseteq 0 .. n - 1
               /\ \A j \in 1 .. n : j # i => Fed(t, R \ {x}, f, j)
    <3>1. DOMAIN f.blocks \subseteq 0 .. n - 1
      BY <2>1, <2>4 DEF Drains
    <3> HIDE DEF f
    <3>2. ASSUME NEW j \in 1 .. n, j # i PROVE Fed(t, R \ {x}, f, j)
      <4>1. j - 1 # i - 1
        BY <2>1, <3>2
      <4> QED BY <1>2, <2>3, <2>4, <3>2, <4>1, FedStays
    <3> QED BY <3>1, <3>2
  <2>5. Fed(t, R, a, i)
    BY <1>2, <2>1
  <2>6. CASE p = 1
    <3>1. k = 0 /\ x.event = ContentBlockStart(i - 1, Stub(t.blocks[i].kind, t.blocks[i].id))
      BY <1>8, <2>6 DEF IsBlockEvent, BlockEvent, Stamped
    <3>2. /\ f \in Assembler /\ DOMAIN f.blocks = DOMAIN a.blocks \cup {i - 1}
          /\ f.blocks[i - 1] = [stub |-> Stub(t.blocks[i].kind, t.blocks[i].id), parts |-> << >>]
          /\ \A j \in DOMAIN a.blocks \ {i - 1} : f.blocks[j] = a.blocks[j]
          /\ f.stop_reason = a.stop_reason /\ f.usage = a.usage
      <4> DEFINE stub == Stub(t.blocks[i].kind, t.blocks[i].id)
                 g == Feed(a, ContentBlockStart(i - 1, stub))
      <4>1. stub \in Stubs
        BY <2>1, ScriptedFacts
      <4> HIDE DEF stub, f
      <4>2. /\ g \in Assembler /\ DOMAIN g.blocks = DOMAIN a.blocks \cup {i - 1}
            /\ g.blocks[i - 1] = [stub |-> stub, parts |-> << >>]
            /\ \A j \in DOMAIN a.blocks \ {i - 1} : g.blocks[j] = a.blocks[j]
            /\ g.stop_reason = a.stop_reason /\ g.usage = a.usage
        BY <1>2, <2>1, <4>1, FeedsStart
      <4>3. f = g
        BY <3>1 DEF f, stub
      <4> HIDE DEF g
      <4> QED BY <4>2, <4>3 DEF stub
    <3> HIDE DEF f
    <3>3. Fed(t, R \ {x}, f, i)
      <4>1. \A l \in 1 .. Len(PartsOf(t, i)) : BlockEvent(t, i, 2, l) \in R /\ BlockEvent(t, i, 2, l) # x
        <5>1. \A l \in 1 .. Len(PartsOf(t, i)) : BlockEvent(t, i, 2, l) \in R
          BY <1>1, <1>8, <2>5, <2>6, <3>1 DEF Fed
        <5>2. \A l \in 1 .. Len(PartsOf(t, i)) : IsBlockEvent(t, i, 2, l)
          BY <2>1 DEF IsBlockEvent
        <5> QED BY <1>8, <2>6, <5>1, <5>2, PlacesAre
      <4>2. BlockEvent(t, i, 1, 0) = x
        BY <1>8, <2>6, <3>1
      <4>3. SubSeq(PartsOf(t, i), 1, 0) = << >>
        <5>1. PartsOf(t, i) \in Seq(Texts) /\ Len(PartsOf(t, i)) \in Nat
          BY <2>1, ScriptedFacts
        <5> QED BY <5>1, SubSeqEmpty
      <4>4. 0 \in 0 .. Len(PartsOf(t, i)) /\ \A l \in 1 .. Len(PartsOf(t, i)) : l > 0
        BY <2>1, ScriptedFacts
      <4> QED BY <3>2, <4>1, <4>2, <4>3, <4>4 DEF Fed
    <3> QED BY <1>2, <2>2, <2>4, <3>2, <3>3 DEF Drains, f
  <2>7. CASE p = 2
    <3> DEFINE P == PartsOf(t, i)
    <3>1. /\ P \in Seq(Texts) /\ Len(P) \in Nat /\ k \in 1 .. Len(P) /\ P[k] \in Texts
          /\ x.event = ContentBlockDelta(i - 1, P[k])
      <4>1. P \in Seq(Texts) /\ Len(P) \in Nat /\ k \in 1 .. Len(P)
        BY <1>8, <2>1, <2>7, ScriptedFacts DEF IsBlockEvent
      <4>2. P[k] \in Texts
        BY <4>1, ElementOfSeq
      <4> QED BY <1>8, <2>7, <4>1, <4>2 DEF BlockEvent, Stamped
    <3>2. BlockEvent(t, i, 1, 0) \notin R /\ BlockEvent(t, i, 1, 0) # x
      <4>1. IsBlockEvent(t, i, 1, 0)
        BY <2>1 DEF IsBlockEvent
      <4>2. Earlier(BlockEvent(t, i, 1, 0), x) /\ BlockEvent(t, i, 1, 0) # x
        BY <1>8, <2>7, <4>1, PlacesAre
      <4> QED BY <1>1, <4>2
    <3> HIDE DEF P
    <3>3. PICK m \in 0 .. Len(P) :
            /\ a.blocks[i - 1].parts = SubSeq(P, 1, m)
            /\ \A l \in 1 .. Len(P) : BlockEvent(t, i, 2, l) \in R <=> l > m
      BY <2>5, <3>2 DEF Fed, P
    <3>4. i - 1 \in DOMAIN a.blocks /\ a.blocks[i - 1].stub = Stub(t.blocks[i].kind, t.blocks[i].id)
      BY <2>5, <3>2 DEF Fed
    <3>5. \A l \in 1 .. Len(P) : (BlockEvent(t, i, 2, l) = x <=> l = k) /\ (l < k => BlockEvent(t, i, 2, l) \notin R)
      <4>1. ASSUME NEW l \in 1 .. Len(P)
            PROVE  (BlockEvent(t, i, 2, l) = x <=> l = k) /\ (l < k => BlockEvent(t, i, 2, l) \notin R)
        <5>1. IsBlockEvent(t, i, 2, l)
          BY <2>1 DEF IsBlockEvent, P
        <5>2. BlockEvent(t, i, 2, l) = x <=> l = k
          BY <1>8, <2>7, <5>1, PlacesAre
        <5>3. l < k => Earlier(BlockEvent(t, i, 2, l), x)
          BY <1>8, <2>7, <5>1, PlacesAre
        <5> QED BY <1>1, <3>1, <5>2, <5>3
      <4> QED BY <4>1
    <3>6. k = m + 1
      <4>1. k > m
        BY <1>1, <3>1, <3>3, <3>5
      <4>2. ASSUME k > m + 1 PROVE FALSE
        <5>1. m + 1 \in 1 .. Len(P) /\ m + 1 > m /\ m + 1 < k
          BY <3>1, <3>3, <4>2
        <5> QED BY <3>3, <3>5, <5>1
      <4> QED BY <3>1, <3>3, <4>1, <4>2
    <3>7. /\ f \in Assembler /\ DOMAIN f.blocks = DOMAIN a.blocks
          /\ f.blocks[i - 1].stub = a.blocks[i - 1].stub
          /\ f.blocks[i - 1].parts = Append(a.blocks[i - 1].parts, P[k])
          /\ \A j \in DOMAIN a.blocks \ {i - 1} : f.blocks[j] = a.blocks[j]
          /\ f.stop_reason = a.stop_reason /\ f.usage = a.usage
      BY <1>2, <3>1, <3>4, FeedsDelta
    <3> HIDE DEF f
    <3>8. Append(SubSeq(P, 1, m), P[m + 1]) = SubSeq(P, 1, m + 1)
      BY <3>1, <3>3, <3>6
    <3>9. Fed(t, R \ {x}, f, i)
      <4>1. m + 1 \in 0 .. Len(P) /\ \A l \in 1 .. Len(P) : BlockEvent(t, i, 2, l) \in R \ {x} <=> l > m + 1
        BY <3>1, <3>3, <3>5, <3>6
      <4>2. f.blocks[i - 1].parts = SubSeq(P, 1, m + 1)
        BY <3>3, <3>6, <3>7, <3>8
      <4> QED BY <3>2, <3>4, <3>7, <4>1, <4>2 DEF Fed, P
    <3> QED BY <1>2, <2>2, <2>4, <3>4, <3>7, <3>9 DEF Drains, f
  <2>8. CASE p = 3
    <3>1. x.event = ContentBlockStop(i - 1)
      BY <1>8, <2>8 DEF BlockEvent, Stamped
    <3>2. f = a
      BY <1>2, <2>1, <3>1, FeedsRest
    <3> HIDE DEF f
    <3> QED BY <1>2, <1>3, <1>8, <2>2, <2>8, <3>2 DEF Drains, f
  <2> QED BY <1>8, <2>6, <2>7, <2>8 DEF IsBlockEvent
<1> QED BY <1>1, <1>5, <1>6, <1>7, <1>8, TurnEventsAre

\* The blocks of an assembler, and what finishing it does.
Content(a) ==
  LET index == Sorted(DOMAIN a.blocks)
  IN  [k \in DOMAIN index |->
         Block(a.blocks[index[k]].stub.kind, a.blocks[index[k]].stub.id, Joined(a.blocks[index[k]]))]

LEMMA FinishIs ==
  ASSUME NEW a, Finish(a)
  PROVE  \/ /\ status' = "returned" /\ turn' = AssistantTurn(Content(a), a.stop_reason, a.usage)
            /\ \A i \in DOMAIN a.blocks : Parses(a.blocks[i])
         \/ /\ status' = "JSONDecodeError" /\ turn' = turn
            /\ ~\A i \in DOMAIN a.blocks : Parses(a.blocks[i])
BY DEF Finish, Content

\* What was scripted.
Whole(t) ==
  AssistantTurn([i \in DOMAIN t.blocks |-> Block(t.blocks[i].kind, t.blocks[i].id, t.blocks[i].text)],
                t.stop_reason, t.usage)

LEMMA ScriptDrained ==
  ASSUME NEW t \in ScriptedTurn, NEW a, Drains(t, {}, a)
  PROVE  AssistantTurn(Content(a), a.stop_reason, a.usage) = Whole(t)
<1> DEFINE n == Len(t.blocks)
<1>1. n \in Nat /\ DOMAIN t.blocks = 1 .. n
  BY ScriptedFacts
<1>2. ASSUME NEW i \in 1 .. n
      PROVE  /\ i - 1 \in DOMAIN a.blocks
             /\ a.blocks[i - 1].stub = Stub(t.blocks[i].kind, t.blocks[i].id)
             /\ Joined(a.blocks[i - 1]) = t.blocks[i].text
  <2>1. Fed(t, {}, a, i)
    BY DEF Drains
  <2>2. /\ PartsOf(t, i) \in Seq(Texts) /\ Len(PartsOf(t, i)) \in Nat
        /\ FlattenSeq(PartsOf(t, i)) = t.blocks[i].text
    BY ScriptedFacts
  <2>3. PICK m \in 0 .. Len(PartsOf(t, i)) :
          a.blocks[i - 1].parts = SubSeq(PartsOf(t, i), 1, m) /\ \A k \in 1 .. Len(PartsOf(t, i)) : ~(k > m)
    BY <2>1 DEF Fed
  <2>4. m = Len(PartsOf(t, i))
    <3>1. ASSUME m < Len(PartsOf(t, i)) PROVE FALSE
      <4>1. m + 1 \in 1 .. Len(PartsOf(t, i)) /\ m + 1 > m
        BY <2>2, <2>3, <3>1
      <4> QED BY <2>3, <4>1
    <3> QED BY <2>2, <2>3, <3>1
  <2>5. a.blocks[i - 1].parts = PartsOf(t, i)
    BY <2>2, <2>3, <2>4, SubSeqFull
  <2> QED BY <2>1, <2>2, <2>5 DEF Fed, Joined
<1>3. DOMAIN a.blocks = 0 .. n - 1
  <2>1. DOMAIN a.blocks \subseteq 0 .. n - 1
    BY DEF Drains
  <2>2. ASSUME NEW j \in 0 .. n - 1 PROVE j \in DOMAIN a.blocks
    <3>1. j + 1 \in 1 .. n /\ (j + 1) - 1 = j
      BY <1>1
    <3> QED BY <1>2, <3>1
  <2> QED BY <2>1, <2>2
<1>4. Sorted(DOMAIN a.blocks) = [k \in 1 .. n |-> k - 1]
  BY <1>1, <1>3, SortedIs
<1> HIDE DEF n
<1>5. Content(a) = [i \in DOMAIN t.blocks |-> Block(t.blocks[i].kind, t.blocks[i].id, t.blocks[i].text)]
  <2>1. Content(a) = [k \in 1 .. n |-> Block(a.blocks[k - 1].stub.kind, a.blocks[k - 1].stub.id, Joined(a.blocks[k - 1]))]
    BY <1>4 DEF Content
  <2>2. ASSUME NEW i \in 1 .. n
        PROVE  Block(a.blocks[i - 1].stub.kind, a.blocks[i - 1].stub.id, Joined(a.blocks[i - 1]))
                 = Block(t.blocks[i].kind, t.blocks[i].id, t.blocks[i].text)
    <3> DEFINE stub == Stub(t.blocks[i].kind, t.blocks[i].id)
    <3>1. stub.kind = t.blocks[i].kind /\ stub.id = t.blocks[i].id
      BY DEF Stub
    <3> HIDE DEF stub
    <3>2. a.blocks[i - 1].stub = stub /\ Joined(a.blocks[i - 1]) = t.blocks[i].text
      BY <1>2 DEF stub
    <3> QED BY <3>1, <3>2
  <2> QED BY <1>1, <2>1, <2>2
<1>6. a.stop_reason = t.stop_reason /\ a.usage = t.usage
  BY DEF Drains
<1> QED BY <1>5, <1>6 DEF Whole

\* MockProvider: the script and how far it is, and while a turn is drained what is left.
MockInv ==
  provider = "mock" =>
    /\ script \in Script /\ cursor \in 0 .. Len(script)
    /\ status # "streaming"
    /\ IF status = "draining"
       THEN /\ cursor # 0 /\ turn = Absent
            /\ \E R : events = Listing(R) /\ R # {} /\ Drains(script[cursor], R, assembler)
       ELSE events = << >>
    /\ turn # Absent => cursor # 0 /\ turn = Whole(script[cursor])

LEMMA ScriptTurn ==
  ASSUME NEW s \in Script
  PROVE  Len(s) \in Nat /\ \A i \in 1 .. Len(s) : s[i] \in ScriptedTurn
<1>1. s \in Seq(ScriptedTurn)
  BY ProviderAssumption
<1> QED BY <1>1, ElementOfSeq, LenProperties

LEMMA EmptyIsAssembler == EmptyAssembler \in Assembler /\ EmptyAssembler.blocks = << >>
<1> DEFINE none == << >>
<1>1. DOMAIN none = {} /\ none \in [{} -> Buffer]
  BY EmptySeq
<1>2. none \in UNION {[D -> Buffer] : D \in SUBSET Nat}
  BY <1>1
<1> HIDE DEF none
<1> QED BY <1>2 DEF EmptyAssembler, Assembler, Name, none

LEMMA MockSteps == MockInv /\ [StreamNext]_streamVars => MockInv'
<1> SUFFICES ASSUME MockInv, [StreamNext]_streamVars, provider' = "mock" PROVE MockInv'
  BY DEF MockInv
<1> USE DEF scripted, wire, drained, streamVars
<1>1. provider = "mock"
  BY DEF StreamNext, Ask, Yield, StreamEnds, StreamBreaks, Chunk
<1>2. script \in Script /\ cursor \in 0 .. Len(script)
  BY <1>1 DEF MockInv
<1>3. Len(script) \in Nat /\ \A i \in 1 .. Len(script) : script[i] \in ScriptedTurn
  BY <1>2, ScriptTurn
<1>4. ASSUME NEW choice, Ask(choice) PROVE MockInv'
  <2>1. turn' = Absent /\ script' = script /\ status # "draining" /\ events = << >>
    BY <1>1, <1>4 DEF Ask, MockInv
  <2>2. CASE cursor = Len(script)
    BY <1>2, <1>3, <1>4, <2>1, <2>2 DEF Ask, MockInv
  <2>3. CASE cursor # Len(script) /\ status' = "ValueError"
    BY <1>2, <1>3, <1>4, <2>1, <2>3 DEF Ask, MockInv
  <2>4. CASE cursor # Len(script) /\ status' # "ValueError"
    <3> DEFINE t == script[cursor + 1]
    <3>1. /\ cursor' = cursor + 1 /\ events' = Listing(TurnEvents(t))
          /\ assembler' = EmptyAssembler /\ status' = "draining"
      BY <1>4, <2>4 DEF Ask
    <3>2. cursor + 1 \in 1 .. Len(script) /\ t \in ScriptedTurn
      BY <1>2, <1>3, <2>4
    <3> HIDE DEF t
    <3>3. Drains(t, TurnEvents(t), EmptyAssembler)
      BY <3>2, DrainsStart, EmptyIsAssembler
    <3>4. TurnEvents(t) # {}
      BY <3>2, TurnEventsAre
    <3>5. script'[cursor'] = t
      BY <2>1, <3>1 DEF t
    <3> QED BY <1>2, <2>1, <3>1, <3>2, <3>3, <3>4, <3>5 DEF MockInv
  <2> QED BY <2>2, <2>3, <2>4
<1>5. ASSUME Yield PROVE MockInv'
  <2> DEFINE t == script[cursor]
             f == Feed(assembler, Head(events))
  <2>1. events # << >> /\ script' = script /\ cursor' = cursor /\ events' = Tail(events) /\ assembler' = f
    BY <1>5 DEF Yield
  <2>2. status = "draining" /\ cursor # 0 /\ turn = Absent
    BY <1>1, <2>1 DEF MockInv
  <2>3. PICK R : events = Listing(R) /\ R # {} /\ Drains(t, R, assembler)
    BY <1>1, <2>2 DEF MockInv
  <2>4. t \in ScriptedTurn
    BY <1>2, <1>3, <2>2
  <2>5. IsStamped(R)
    BY <2>3, <2>4, TurnEventsStamped, StampedRest DEF Drains
  <2>6. PICK x : IsFirst(x, R)
    BY <2>3, <2>5, FirstExists
  <2>7. Head(events) = x.event /\ Tail(events) = Listing(R \ {x})
    BY <2>3, <2>5, <2>6, ListingMore
  <2> HIDE DEF t
  <2>8. Drains(t, R \ {x}, f)
    BY <2>3, <2>4, <2>6, <2>7, DrainsFeed
  <2>9. Tail(events) = << >> <=> R \ {x} = {}
    <3>1. ASSUME R \ {x} # {} PROVE Listing(R \ {x}) # << >>
      <4>1. IsStamped(R \ {x})
        BY <2>5, StampedRest
      <4> QED BY <3>1, <4>1, FirstExists, ListingMore
    <3> QED BY <2>7, <3>1, ListingNone
  <2> HIDE DEF f
  <2>10. CASE Tail(events) # << >>
    <3>1. status' = status /\ turn' = turn
      BY <1>5, <2>10 DEF Yield
    <3>2. Drains(script'[cursor'], R \ {x}, assembler') /\ R \ {x} # {} /\ events' = Listing(R \ {x})
      BY <2>1, <2>7, <2>8, <2>9, <2>10 DEF t
    <3> QED BY <1>2, <2>1, <2>2, <3>1, <3>2 DEF MockInv
  <2>11. CASE Tail(events) = << >>
    <3>1. Finish(f)
      BY <1>5, <2>1, <2>2, <2>11 DEF Yield
    <3>2. Drains(t, {}, f)
      BY <2>8, <2>9, <2>11
    <3>3. AssistantTurn(Content(f), f.stop_reason, f.usage) = Whole(t)
      BY <2>4, <3>2, ScriptDrained
    <3>4. /\ status' # "draining" /\ status' # "streaming"
          /\ turn' = Whole(t) \/ turn' = turn
      BY <3>1, <3>3, FinishIs
    <3> QED BY <1>2, <2>1, <2>2, <2>11, <3>4 DEF MockInv, t
  <2> QED BY <2>10, <2>11
<1>6. CASE UNCHANGED streamVars
  BY <1>6 DEF MockInv
<1> QED BY <1>1, <1>4, <1>5, <1>6 DEF StreamNext, StreamEnds, StreamBreaks, Chunk

----------------------------------------------------------------------------
(* ProviderStream: what a server sends.                                    *)

\* Sorted lists the naturals of a finite set, each once.
LEMMA SortedElements ==
  ASSUME NEW S \in SUBSET Nat, IsFiniteSet(S)
  PROVE  /\ DOMAIN Sorted(S) = 1 .. Cardinality(S) /\ Cardinality(S) \in Nat
         /\ \A k \in 1 .. Cardinality(S) : Sorted(S)[k] \in S
         /\ \A i \in S : \E k \in 1 .. Cardinality(S) : Sorted(S)[k] = i
<1> DEFINE n == Cardinality(S)
           Below(i) == {j \in S : j < i}
           place(i) == Cardinality(Below(i))
           rank == [i \in S |-> place(i)]
           T == 0 .. n - 1
<1>1. n \in Nat
  BY FS_CardinalityType
<1>2. ASSUME NEW i \in S PROVE IsFiniteSet(Below(i)) /\ rank[i] \in Nat
  <2>1. IsFiniteSet(Below(i))
    BY FS_Subset
  <2> QED BY <2>1, FS_CardinalityType
<1>3. ASSUME NEW i \in S, NEW j \in S \cup {n + 1}, Below(i) \cup {i} \subseteq Below(j), IsFiniteSet(Below(j))
      PROVE  rank[i] < Cardinality(Below(j))
  <2>1. i \notin Below(i)
    OBVIOUS
  <2>2. Cardinality(Below(i) \cup {i}) = rank[i] + 1 /\ IsFiniteSet(Below(i) \cup {i})
    <3> HIDE DEF Below
    <3> QED BY <1>2, <2>1, FS_AddElement
  <2>3. Cardinality(Below(i) \cup {i}) <= Cardinality(Below(j)) /\ Cardinality(Below(j)) \in Nat
    <3> HIDE DEF Below
    <3> QED BY <1>3, FS_Subset, FS_CardinalityType
  <2> HIDE DEF Below, rank
  <2> QED BY <1>2, <2>2, <2>3
<1>4. ASSUME NEW i \in S, NEW j \in S, i < j PROVE rank[i] < rank[j]
  <2>1. Below(i) \cup {i} \subseteq Below(j)
    <3>1. \A k \in S : k \in Nat
      OBVIOUS
    <3>2. \A k \in S : k < i \/ k = i => k < j
      BY <1>4, <3>1
    <3> QED BY <3>2
  <2>2. rank[j] = Cardinality(Below(j)) /\ IsFiniteSet(Below(j))
    BY <1>2
  <2> HIDE DEF Below, rank
  <2> QED BY <1>3, <2>1, <2>2
<1>5. ASSUME NEW i \in S PROVE rank[i] \in T
  <2> DEFINE B == Below(i)
  <2>1. B \cup {i} \subseteq S /\ i \notin B /\ IsFiniteSet(B) /\ rank[i] = Cardinality(B)
    BY <1>2
  <2> HIDE DEF B, Below, rank
  <2>2. Cardinality(B \cup {i}) = rank[i] + 1
    BY <2>1, FS_AddElement
  <2>3. Cardinality(B \cup {i}) <= n
    BY <2>1, FS_Subset
  <2> HIDE DEF n
  <2> QED BY <1>1, <1>2, <2>2, <2>3
<1>6. rank \in Injection(S, T)
  <2>1. rank \in [S -> T]
    <3>1. rank = [i \in S |-> rank[i]]
      OBVIOUS
    <3> HIDE DEF rank, T
    <3> QED BY <1>5, <3>1
  <2>2. ASSUME NEW i \in S, NEW j \in S, rank[i] = rank[j] PROVE i = j
    <3>1. i \in Nat /\ j \in Nat /\ rank[i] \in Nat
      BY <1>2
    <3>2. i < j => rank[i] < rank[j]
      BY <1>4
    <3>3. j < i => rank[j] < rank[i]
      BY <1>4
    <3> HIDE DEF rank
    <3> QED BY <2>2, <3>1, <3>2, <3>3
  <2> HIDE DEF rank, T
  <2> QED BY <2>1, <2>2 DEF Injection, IsInjective
<1>7. IsFiniteSet(T) /\ Cardinality(T) = n
  <2> HIDE DEF n
  <2> QED BY <1>1, FS_Interval
<1>8. rank \in Surjection(S, T)
  <2> HIDE DEF rank, T
  <2> QED BY <1>6, <1>7, FS_Injection
<1>9. Sorted(S) = [k \in 1 .. n |-> CHOOSE i \in S : place(i) = k - 1]
  BY DEF Sorted
<1>12. \A i \in S : rank[i] = place(i)
  OBVIOUS
<1> HIDE DEF rank, place, n
<1>10. ASSUME NEW k \in 1 .. n PROVE Sorted(S)[k] \in S
  <2>1. k - 1 \in T
    BY <1>1
  <2>2. \E i \in S : place(i) = k - 1
    <3> HIDE DEF T
    <3> QED BY <1>8, <1>12, <2>1 DEF Surjection
  <2> QED BY <1>9, <2>2
<1>11. ASSUME NEW i \in S PROVE \E k \in 1 .. n : Sorted(S)[k] = i
  <2>1. place(i) + 1 \in 1 .. n /\ (place(i) + 1) - 1 = place(i)
    BY <1>1, <1>5, <1>12
  <2>2. \A j \in S : rank[j] = rank[i] => j = i
    BY <1>6 DEF Injection, IsInjective
  <2>3. \A j \in S : place(j) = place(i) => j = i
    BY <1>12, <2>2
  <2>4. Sorted(S)[place(i) + 1] = i
    BY <1>9, <2>1, <2>3
  <2> QED BY <2>1, <2>4
<1> QED BY <1>1, <1>9, <1>10, <1>11 DEF n

\* Each channel has a block of its own.
LEMMA BlockIndexIs ==
  ASSUME NEW c \in Channel
  PROVE  /\ BlockIndex(c) \in Nat /\ Kind(c) \in Name
         /\ IsCall(c) <=> Kind(c) = "tool_use"
         /\ \A d \in Channel : BlockIndex(c) = BlockIndex(d) => c = d
<1>1. ASSUME NEW d \in Channel
      PROVE  \/ d = <<"content", 0>> /\ BlockIndex(d) = 0 /\ Kind(d) = "text" /\ ~IsCall(d)
             \/ d = <<"reasoning", 0>> /\ BlockIndex(d) = 1 /\ Kind(d) = "thinking" /\ ~IsCall(d)
             \/ \E i \in Nat : d = <<"tool_calls", i>> /\ BlockIndex(d) = 2 + i /\ Kind(d) = "tool_use" /\ IsCall(d)
  BY DEF Channel, BlockIndex, Kind, IsCall
<1>2. BlockIndex(c) \in Nat /\ Kind(c) \in Name /\ (IsCall(c) <=> Kind(c) = "tool_use")
  <2>1. CASE c = <<"content", 0>> /\ BlockIndex(c) = 0 /\ Kind(c) = "text" /\ ~IsCall(c)
    BY <2>1 DEF Name
  <2>2. CASE c = <<"reasoning", 0>> /\ BlockIndex(c) = 1 /\ Kind(c) = "thinking" /\ ~IsCall(c)
    BY <2>2 DEF Name
  <2>3. ASSUME NEW i \in Nat, BlockIndex(c) = 2 + i, Kind(c) = "tool_use", IsCall(c)
        PROVE  BlockIndex(c) \in Nat /\ Kind(c) \in Name /\ (IsCall(c) <=> Kind(c) = "tool_use")
    BY <2>3 DEF Name
  <2> QED BY <1>1, <2>1, <2>2, <2>3
<1>3. ASSUME NEW d \in Channel, BlockIndex(c) = BlockIndex(d) PROVE c = d
  BY <1>1, <1>3
<1> QED BY <1>2, <1>3

\* What the first n pieces of a channel carry.
Of(m, c, n) == FlattenSeq([k \in 1 .. n |-> m.pieces[c][k].part])

LEMMA PieceIs ==
  ASSUME NEW m, WireMessage(m), NEW c \in DOMAIN m.pieces
  PROVE  /\ c \in Channel /\ Len(m.pieces[c]) \in Nat
         /\ \A k \in 1 .. Len(m.pieces[c]) :
              m.pieces[c][k].id \in Name /\ m.pieces[c][k].part \in Texts
<1>1. c \in Channel /\ m.pieces[c] \in Seq([id : STRING, part : Texts])
  BY DEF WireMessage
<1>2. Len(m.pieces[c]) \in Nat
  BY <1>1, LenProperties
<1>3. ASSUME NEW k \in 1 .. Len(m.pieces[c])
      PROVE  m.pieces[c][k].id \in Name /\ m.pieces[c][k].part \in Texts
  <2>1. m.pieces[c][k] \in [id : STRING, part : Texts]
    BY <1>1, ElementOfSeq
  <2> QED BY <2>1 DEF Name
<1> QED BY <1>1, <1>2, <1>3

LEMMA OfNone == \A m, c : Of(m, c, 0) = << >>
<1> SUFFICES ASSUME NEW m, NEW c PROVE Of(m, c, 0) = << >>
  OBVIOUS
<1>1. [k \in 1 .. 0 |-> m.pieces[c][k].part] = << >>
  BY EmptySeq
<1> QED BY <1>1, FlattenNone DEF Of

LEMMA OfMore ==
  ASSUME NEW m, WireMessage(m), NEW c \in DOMAIN m.pieces, NEW n \in 0 .. Len(m.pieces[c])
  PROVE  /\ Of(m, c, n) \in Texts
         /\ n + 1 <= Len(m.pieces[c]) => Of(m, c, n + 1) = Of(m, c, n) \o m.pieces[c][n + 1].part
<1> DEFINE ps(l) == [k \in 1 .. l |-> m.pieces[c][k].part]
<1>1. /\ Len(m.pieces[c]) \in Nat /\ n \in Nat
      /\ \A k \in 1 .. Len(m.pieces[c]) : m.pieces[c][k].part \in Texts
  BY PieceIs
<1>2. ASSUME NEW l \in Nat, l <= Len(m.pieces[c]) PROVE ps(l) \in Seq(Texts) /\ Len(ps(l)) = l
  <2>1. \A k \in 1 .. l : ps(l)[k] \in Texts
    BY <1>1, <1>2
  <2>2. ps(l) \in [1 .. l -> Texts] /\ DOMAIN ps(l) = 1 .. l
    BY <2>1
  <2> HIDE DEF ps
  <2> QED BY <2>2
<1>3. Of(m, c, n) \in Texts
  <2>1. ps(n) \in Seq(Seq(Nat))
    BY <1>1, <1>2 DEF Texts
  <2> HIDE DEF ps
  <2>2. FlattenSeq(ps(n)) \in Seq(Nat)
    BY <2>1, FlattenType
  <2> QED BY <2>2 DEF Of, ps, Texts
<1>4. ASSUME n + 1 <= Len(m.pieces[c]) PROVE Of(m, c, n + 1) = Of(m, c, n) \o m.pieces[c][n + 1].part
  <2> DEFINE p == m.pieces[c][n + 1].part
  <2>1. p \in Texts
    BY <1>1, <1>4
  <2>2. ps(n + 1) = Append(ps(n), p)
    <3>1. ps(n + 1) \in Seq(Texts) /\ Len(ps(n + 1)) = n + 1 /\ ps(n) \in Seq(Texts) /\ Len(ps(n)) = n
      <4>1. n + 1 \in Nat /\ n <= Len(m.pieces[c])
        BY <1>1, <1>4
      <4> HIDE DEF ps
      <4> QED BY <1>1, <1>2, <1>4, <4>1
    <3>2. \A k \in 1 .. n + 1 : ps(n + 1)[k] = IF k <= n THEN ps(n)[k] ELSE p
      BY <1>1
    <3> HIDE DEF ps, p
    <3>3. /\ Append(ps(n), p) \in Seq(Texts) /\ Len(Append(ps(n), p)) = n + 1
          /\ \A k \in 1 .. n : Append(ps(n), p)[k] = ps(n)[k]
          /\ Append(ps(n), p)[n + 1] = p
      BY <2>1, <3>1, AppendProperties
    <3> DEFINE u == ps(n + 1)
               v == Append(ps(n), p)
    <3>4. \A k \in 1 .. n + 1 : u[k] = v[k]
      BY <1>1, <3>2, <3>3
    <3>5. u \in Seq(Texts) /\ v \in Seq(Texts) /\ Len(u) = Len(v) /\ Len(u) = n + 1
      BY <3>1, <3>3
    <3> HIDE DEF u, v
    <3>6. u = v
      BY <3>4, <3>5, SeqEqual
    <3> QED BY <3>6 DEF u, v
  <2> HIDE DEF p
  <2>3. ps(n) \in Seq(Seq(Nat)) /\ p \in Seq(Nat)
    BY <1>1, <1>2, <2>1 DEF Texts
  <2> HIDE DEF ps
  <2>4. FlattenSeq(ps(n + 1)) = FlattenSeq(ps(n)) \o p
    BY <2>2, <2>3, FlattenAppend
  <2> QED BY <2>4 DEF Of, ps, p
<1> QED BY <1>3, <1>4

LEMMA TextJoins ==
  ASSUME NEW a \in Texts, NEW b \in Texts, NEW c \in Texts
  PROVE  a \o b \in Texts /\ (a \o b) \o c = a \o (b \o c)
<1>1. a \in Seq(Nat) /\ b \in Seq(Nat) /\ c \in Seq(Nat)
  BY DEF Texts
<1> QED BY <1>1, ConcatProperties, ConcatAssociative DEF Texts

\* What has been sent is the beginning of what will be.
LEMMA OfBegins ==
  ASSUME NEW m, WireMessage(m), NEW c \in DOMAIN m.pieces, NEW n \in 0 .. Len(m.pieces[c])
  PROVE  \E rest \in Texts : Of(m, c, Len(m.pieces[c])) = Of(m, c, n) \o rest
<1> DEFINE L == Len(m.pieces[c])
           extends(d) == n + d <= L => \E rest \in Texts : Of(m, c, n + d) = Of(m, c, n) \o rest
           T == {d \in Nat : extends(d)}
<1>1. L \in Nat /\ n \in Nat
  BY PieceIs
<1> HIDE DEF L
<1>2. 0 \in T
  <2>1. << >> \in Texts /\ Of(m, c, n) \in Texts /\ n + 0 = n
    BY <1>1, EmptySeq, OfMore DEF Texts
  <2>2. Of(m, c, n) \o << >> = Of(m, c, n)
    BY <2>1, ConcatEmptySeq DEF Texts
  <2> QED BY <2>1, <2>2
<1>3. ASSUME NEW d \in Nat, d \in T PROVE d + 1 \in T
  <2> SUFFICES ASSUME n + (d + 1) <= L PROVE \E rest \in Texts : Of(m, c, n + (d + 1)) = Of(m, c, n) \o rest
    <3>1. d + 1 \in Nat
      OBVIOUS
    <3>2. extends(d + 1) => d + 1 \in T
      <4> HIDE DEF extends
      <4> QED BY <3>1
    <3> QED BY <3>2
  <2>1. n + d \in 0 .. L /\ (n + d) + 1 <= L /\ (n + d) + 1 = n + (d + 1) /\ n + d <= L
    BY <1>1
  <2>2. PICK rest \in Texts : Of(m, c, n + d) = Of(m, c, n) \o rest
    BY <1>3, <2>1
  <2> DEFINE p == m.pieces[c][(n + d) + 1].part
  <2>3. p \in Texts
    BY <1>1, <2>1, PieceIs DEF L
  <2>4. Of(m, c, (n + d) + 1) = Of(m, c, n + d) \o p
    BY <2>1, OfMore DEF L
  <2>5. Of(m, c, n) \in Texts
    BY OfMore
  <2> HIDE DEF p
  <2>6. (Of(m, c, n) \o rest) \o p = Of(m, c, n) \o (rest \o p) /\ rest \o p \in Texts
    BY <2>3, <2>5, TextJoins
  <2> QED BY <2>1, <2>2, <2>4, <2>6
<1>4. extends(L - n)
  <2>1. Nat \subseteq T
    <3> HIDE DEF T
    <3> QED BY <1>2, <1>3, Inductive
  <2>2. L - n \in Nat
    BY <1>1 DEF L
  <2> HIDE DEF extends
  <2> QED BY <2>1, <2>2
<1>5. n + (L - n) = L /\ L <= L
  BY <1>1
<1> QED BY <1>4, <1>5 DEF L

\* The channels whose blocks are opened when s of their pieces have been sent, and the
\* events that open a block and that bring it the last of those pieces.
Sending(m, s) ==
  WireMessage(m) /\ s \in [DOMAIN m.pieces -> Nat] /\ \A c \in DOMAIN m.pieces : s[c] <= Len(m.pieces[c])

Begun(m, s) == {c \in DOMAIN m.pieces : s[c] # 0 /\ (IsCall(c) \/ Of(m, c, s[c]) # << >>)}

PartOf(m, s, c) == m.pieces[c][s[c]].part

Opens(m, c) == Stamped(<<BlockIndex(c), 0, 0>>, ContentBlockStart(BlockIndex(c), Opening(c, m.pieces[c][1])))
Brings(m, s, c) == Stamped(<<BlockIndex(c), 1, 0>>, ContentBlockDelta(BlockIndex(c), PartOf(m, s, c)))

\* The events that leave the blocks alone.
Plain(e) ==
  \/ e = MessageStart \/ e = MessageStop \/ \E i \in Nat : e = ContentBlockStop(i)
  \/ \E reason \in Name, n \in Nat : e = MessageDelta(reason, n)

\* What the assembler has of a channel and what R brings it make what was sent.
Kept(m, s, R, a, c) ==
  LET coming == IF Brings(m, s, c) \in R THEN PartOf(m, s, c) ELSE << >>
  IN  IF Opens(m, c) \in R
      THEN BlockIndex(c) \notin DOMAIN a.blocks /\ Of(m, c, s[c]) = coming
      ELSE /\ BlockIndex(c) \in DOMAIN a.blocks
           /\ a.blocks[BlockIndex(c)].stub = Opening(c, m.pieces[c][1])
           /\ Of(m, c, s[c]) = Joined(a.blocks[BlockIndex(c)]) \o coming

Streams(m, s, R, a) ==
  /\ IsStamped(R) /\ a \in Assembler
  /\ \A x \in R : Plain(x.event) \/ \E c \in Begun(m, s) : x = Opens(m, c) \/ x = Brings(m, s, c)
  /\ DOMAIN a.blocks \subseteq {BlockIndex(c) : c \in Begun(m, s)}
  /\ \A c \in Begun(m, s) : Kept(m, s, R, a, c)

LEMMA BegunIs ==
  ASSUME NEW m, NEW s, Sending(m, s), NEW c \in Begun(m, s)
  PROVE  /\ c \in DOMAIN m.pieces /\ c \in Channel /\ BlockIndex(c) \in Nat
         /\ s[c] \in 1 .. Len(m.pieces[c]) /\ PartOf(m, s, c) \in Texts
         /\ Opening(c, m.pieces[c][1]) \in Stubs /\ Of(m, c, s[c]) \in Texts
<1>1. c \in DOMAIN m.pieces /\ s[c] # 0 /\ s[c] \in Nat /\ s[c] <= Len(m.pieces[c]) /\ WireMessage(m)
  BY DEF Begun, Sending
<1>2. c \in Channel /\ Len(m.pieces[c]) \in Nat
  BY <1>1, PieceIs
<1>3. s[c] \in 1 .. Len(m.pieces[c]) /\ 1 \in 1 .. Len(m.pieces[c]) /\ s[c] \in 0 .. Len(m.pieces[c])
  BY <1>1, <1>2
<1>4. m.pieces[c][1].id \in Name /\ PartOf(m, s, c) \in Texts
  BY <1>1, <1>3, PieceIs DEF PartOf
<1>5. "" \in Name /\ Kind(c) \in Name /\ BlockIndex(c) \in Nat
  BY <1>2, BlockIndexIs DEF Name
<1>6. Opening(c, m.pieces[c][1]) \in Stubs
  BY <1>4, <1>5 DEF Opening, Stub, Stubs
<1>7. Of(m, c, s[c]) \in Texts
  BY <1>1, <1>3, OfMore
<1> QED BY <1>1, <1>2, <1>3, <1>4, <1>5, <1>6, <1>7

LEMMA EventsDiffer ==
  ASSUME NEW m, NEW s, NEW c \in Channel
  PROVE  /\ \A d \in Channel : /\ (Opens(m, c) = Opens(m, d) <=> c = d)
                               /\ (Brings(m, s, c) = Brings(m, s, d) <=> c = d)
                               /\ Opens(m, c) # Brings(m, s, d)
         /\ Earlier(Opens(m, c), Brings(m, s, c))
         /\ ~Plain(Opens(m, c).event) /\ ~Plain(Brings(m, s, c).event)
         /\ Opens(m, c).event = ContentBlockStart(BlockIndex(c), Opening(c, m.pieces[c][1]))
         /\ Brings(m, s, c).event = ContentBlockDelta(BlockIndex(c), PartOf(m, s, c))
<1>1. \A d \in Channel : /\ Opens(m, d).at[1] = BlockIndex(d) /\ Opens(m, d).at[2] = 0
                         /\ Opens(m, d).event = ContentBlockStart(BlockIndex(d), Opening(d, m.pieces[d][1]))
                         /\ Brings(m, s, d).at[1] = BlockIndex(d) /\ Brings(m, s, d).at[2] = 1
                         /\ Brings(m, s, d).event = ContentBlockDelta(BlockIndex(d), PartOf(m, s, d))
  BY DEF Opens, Brings, Stamped
<1>2. BlockIndex(c) \in Nat /\ \A d \in Channel : BlockIndex(c) = BlockIndex(d) => c = d
  BY BlockIndexIs
<1>3. ~Plain(Opens(m, c).event) /\ ~Plain(Brings(m, s, c).event)
  <2>1. ASSUME NEW e, Plain(e) PROVE e.type # "content_block_start" /\ e.type # "content_block_delta"
    <3>1. MessageStart.type = "message_start" /\ MessageStop.type = "message_stop"
      BY DEF MessageStart, MessageStop
    <3>2. \A i \in Nat : ContentBlockStop(i).type = "content_block_stop"
      BY DEF ContentBlockStop
    <3>3. \A reason \in Name, n \in Nat : MessageDelta(reason, n).type = "message_delta"
      BY DEF MessageDelta
    <3> QED BY <2>1, <3>1, <3>2, <3>3 DEF Plain
  <2>2. Opens(m, c).event.type = "content_block_start" /\ Brings(m, s, c).event.type = "content_block_delta"
    <3>1. \A i, o : ContentBlockStart(i, o).type = "content_block_start"
      BY DEF ContentBlockStart
    <3>2. \A i, p : ContentBlockDelta(i, p).type = "content_block_delta"
      BY DEF ContentBlockDelta
    <3> QED BY <1>1, <3>1, <3>2
  <2> QED BY <2>1, <2>2
<1>4. Earlier(Opens(m, c), Brings(m, s, c))
  BY <1>1, <1>2 DEF Earlier
<1> QED BY <1>1, <1>2, <1>3, <1>4

LEMMA FeedsPlain ==
  ASSUME NEW a \in Assembler, NEW e, Plain(e)
  PROVE  Feed(a, e) \in Assembler /\ Feed(a, e).blocks = a.blocks
<1>1. ASSUME NEW reason \in Name, NEW n \in Nat, e = MessageDelta(reason, n)
      PROVE  Feed(a, e) \in Assembler /\ Feed(a, e).blocks = a.blocks
  <2> DEFINE g == Feed(a, MessageDelta(reason, n))
  <2>1. g \in Assembler /\ g.blocks = a.blocks
    BY FeedsRest
  <2> QED BY <1>1, <2>1
<1>2. CASE e = MessageStart
  <2> DEFINE g == Feed(a, MessageStart)
  <2>1. g \in Assembler /\ g.blocks = a.blocks
    BY FeedsRest
  <2> QED BY <1>2, <2>1
<1>3. CASE e = MessageStop \/ \E i \in Nat : e = ContentBlockStop(i)
  BY <1>3, FeedsRest
<1> QED BY <1>1, <1>2, <1>3 DEF Plain

LEMMA StreamsFeed ==
  ASSUME NEW m, NEW s, Sending(m, s), NEW R, NEW a, Streams(m, s, R, a), NEW x, IsFirst(x, R)
  PROVE  Streams(m, s, R \ {x}, Feed(a, x.event))
<1> DEFINE f == Feed(a, x.event)
           B == Begun(m, s)
<1>1. x \in R /\ a \in Assembler /\ \A y \in R : y # x => ~Earlier(y, x)
  BY DEF Streams, IsFirst
<1>2. IsStamped(R \ {x})
  BY StampedRest DEF Streams
<1>3. \A y \in R \ {x} : Plain(y.event) \/ \E c \in B : y = Opens(m, c) \/ y = Brings(m, s, c)
  BY DEF Streams
<1>4. ASSUME NEW c \in B, x # Opens(m, c), x # Brings(m, s, c),
             BlockIndex(c) \in DOMAIN f.blocks <=> BlockIndex(c) \in DOMAIN a.blocks,
             BlockIndex(c) \in DOMAIN a.blocks => f.blocks[BlockIndex(c)] = a.blocks[BlockIndex(c)]
      PROVE  Kept(m, s, R \ {x}, f, c)
  <2>1. Kept(m, s, R, a, c)
    BY DEF Streams
  <2>2. Opens(m, c) \in R \ {x} <=> Opens(m, c) \in R
    BY <1>4
  <2>3. Brings(m, s, c) \in R \ {x} <=> Brings(m, s, c) \in R
    BY <1>4
  <2> HIDE DEF f
  <2> QED BY <1>4, <2>1, <2>2, <2>3 DEF Kept
<1>5. \A c \in B : c \in Channel /\ BlockIndex(c) \in Nat
  BY BegunIs
<1>6. CASE Plain(x.event)
  <2>1. f \in Assembler /\ f.blocks = a.blocks
    BY <1>1, <1>6, FeedsPlain
  <2>2. \A c \in B : x # Opens(m, c) /\ x # Brings(m, s, c)
    BY <1>5, <1>6, EventsDiffer
  <2> HIDE DEF f, B
  <2>3. \A c \in B : Kept(m, s, R \ {x}, f, c)
    BY <1>4, <2>1, <2>2
  <2> QED BY <1>2, <1>3, <2>1, <2>3 DEF Streams, f, B
<1>7. ASSUME NEW c \in B, \A d \in B : d # c => x # Opens(m, d) /\ x # Brings(m, s, d),
             f \in Assembler, DOMAIN f.blocks = DOMAIN a.blocks \cup {BlockIndex(c)},
             \A j \in DOMAIN a.blocks \ {BlockIndex(c)} : f.blocks[j] = a.blocks[j],
             Kept(m, s, R \ {x}, f, c)
      PROVE  Streams(m, s, R \ {x}, f)
  <2>1. ASSUME NEW d \in B PROVE Kept(m, s, R \ {x}, f, d)
    <3>1. CASE d = c
      BY <1>7, <3>1
    <3>2. CASE d # c
      <4>1. BlockIndex(d) # BlockIndex(c)
        BY <1>5, <3>2, BlockIndexIs
      <4> HIDE DEF f, B
      <4> QED BY <1>4, <1>7, <3>2, <4>1
    <3> QED BY <3>1, <3>2
  <2>2. DOMAIN f.blocks \subseteq {BlockIndex(d) : d \in B}
    BY <1>7 DEF Streams
  <2> HIDE DEF f
  <2> QED BY <1>2, <1>3, <1>7, <2>1, <2>2 DEF Streams
<1>8. ASSUME NEW c \in B, x = Opens(m, c) PROVE Streams(m, s, R \ {x}, f)
  <2> DEFINE i == BlockIndex(c)
             o == Opening(c, m.pieces[c][1])
  <2>1. c \in Channel /\ i \in Nat /\ o \in Stubs /\ PartOf(m, s, c) \in Texts
    BY BegunIs
  <2>2. x.event = ContentBlockStart(i, o) /\ x # Brings(m, s, c)
    BY <1>8, <2>1, EventsDiffer
  <2>3. i \notin DOMAIN a.blocks /\ Kept(m, s, R, a, c)
    BY <1>1, <1>8 DEF Streams, Kept
  <2>4. \A d \in B : d # c => x # Opens(m, d) /\ x # Brings(m, s, d)
    BY <1>5, <1>8, EventsDiffer
  <2>5. /\ f \in Assembler /\ DOMAIN f.blocks = DOMAIN a.blocks \cup {i}
        /\ f.blocks[i] = [stub |-> o, parts |-> << >>]
        /\ \A j \in DOMAIN a.blocks \ {i} : f.blocks[j] = a.blocks[j]
    <3> HIDE DEF i, o
    <3> QED BY <1>1, <2>1, <2>2, FeedsStart
  <2> HIDE DEF f
  <2>6. f.blocks[i].stub = o /\ Joined(f.blocks[i]) = << >>
    BY <2>5, FlattenNone DEF Joined
  <2>7. Kept(m, s, R \ {x}, f, c)
    <3> DEFINE coming == IF Brings(m, s, c) \in R THEN PartOf(m, s, c) ELSE << >>
    <3>1. Of(m, c, s[c]) = coming /\ coming = IF Brings(m, s, c) \in R \ {x} THEN PartOf(m, s, c) ELSE << >>
      BY <1>1, <1>8, <2>2, <2>3 DEF Kept
    <3>2. coming \in Seq(Nat)
      BY <2>1, EmptySeq DEF Texts
    <3> HIDE DEF coming
    <3>3. << >> \o coming = coming
      BY <3>2, ConcatEmptySeq
    <3> QED BY <1>8, <2>5, <2>6, <3>1, <3>3 DEF Kept
  <2> QED BY <1>7, <2>4, <2>5, <2>7
<1>9. ASSUME NEW c \in B, x = Brings(m, s, c) PROVE Streams(m, s, R \ {x}, f)
  <2> DEFINE i == BlockIndex(c)
             p == PartOf(m, s, c)
  <2>1. c \in Channel /\ i \in Nat /\ p \in Texts
    BY BegunIs
  <2>2. x.event = ContentBlockDelta(i, p) /\ x # Opens(m, c) /\ Earlier(Opens(m, c), x)
    BY <1>9, <2>1, EventsDiffer
  <2>3. Opens(m, c) \notin R
    BY <1>1, <2>2
  <2>4. /\ i \in DOMAIN a.blocks /\ a.blocks[i].stub = Opening(c, m.pieces[c][1])
        /\ Of(m, c, s[c]) = Joined(a.blocks[i]) \o p
    <3>1. Kept(m, s, R, a, c)
      BY DEF Streams
    <3> QED BY <1>1, <1>9, <2>3, <3>1 DEF Kept
  <2>5. \A d \in B : d # c => x # Opens(m, d) /\ x # Brings(m, s, d)
    BY <1>5, <1>9, EventsDiffer
  <2> HIDE DEF i, p
  <2>6. /\ f \in Assembler /\ DOMAIN f.blocks = DOMAIN a.blocks
        /\ f.blocks[i].stub = a.blocks[i].stub
        /\ f.blocks[i].parts = Append(a.blocks[i].parts, p)
        /\ \A j \in DOMAIN a.blocks \ {i} : f.blocks[j] = a.blocks[j]
    BY <1>1, <2>1, <2>2, <2>4, FeedsDelta
  <2> HIDE DEF f
  <2>7. Joined(f.blocks[i]) = Joined(a.blocks[i]) \o p /\ Joined(f.blocks[i]) \in Seq(Nat)
    <3> DEFINE ps == a.blocks[i].parts
    <3>1. ps \in Seq(Seq(Nat)) /\ p \in Seq(Nat)
      <4>1. a.blocks[i] \in Buffer
        BY <1>1, <2>4, AssemblerBlocks
      <4> QED BY <2>1, <4>1 DEF Buffer, Texts
    <3> HIDE DEF ps
    <3>2. FlattenSeq(Append(ps, p)) = FlattenSeq(ps) \o p /\ FlattenSeq(ps) \in Seq(Nat)
      BY <3>1, FlattenAppend, FlattenType
    <3>3. FlattenSeq(ps) \o p \in Seq(Nat)
      BY <3>1, <3>2, ConcatProperties
    <3> QED BY <2>6, <3>2, <3>3 DEF Joined, ps
  <2>8. Kept(m, s, R \ {x}, f, c)
    <3>1. Joined(f.blocks[i]) \o << >> = Joined(f.blocks[i])
      BY <2>7, ConcatEmptySeq
    <3>2. Brings(m, s, c) \notin R \ {x} /\ Opens(m, c) \notin R \ {x}
      BY <1>9, <2>3
    <3> QED BY <2>4, <2>6, <2>7, <3>1, <3>2 DEF Kept, i
  <2>9. DOMAIN f.blocks = DOMAIN a.blocks \cup {i}
    BY <2>4, <2>6
  <2> QED BY <1>7, <2>5, <2>6, <2>8, <2>9 DEF i
<1> QED BY <1>1, <1>6, <1>8, <1>9 DEF Streams

\* A chunk: its events bring what it sends, and the blocks it opens are the ones begun.
LEMMA StreamsChunk ==
  ASSUME NEW C \in SUBSET Unsent, NEW t, t = [c \in DOMAIN sent |-> IF c \in C THEN sent[c] + 1 ELSE sent[c]],
         Sending(message, sent), opened = {BlockIndex(c) : c \in Begun(message, sent)},
         Streams(message, sent, {}, assembler)
  PROVE  LET es == UNION {PieceEvents(c, message.pieces[c][sent[c] + 1]) : c \in C}
         IN  /\ Sending(message, t) /\ Streams(message, t, es, assembler)
             /\ opened \cup {x.event.index : x \in es} = {BlockIndex(c) : c \in Begun(message, t)}
<1> DEFINE D == DOMAIN message.pieces
           next(c) == message.pieces[c][sent[c] + 1]
           F == [c \in C |-> PieceEvents(c, next(c))]
           es == UNION {F[c] : c \in C}
<1>1. DOMAIN sent = D /\ C \subseteq D /\ IsFiniteSet(D) /\ WireMessage(message)
  BY DEF Sending, Unsent, WireMessage
<1>2. ASSUME NEW c \in D
      PROVE  /\ c \in Channel /\ BlockIndex(c) \in Nat /\ Len(message.pieces[c]) \in Nat
             /\ sent[c] \in 0 .. Len(message.pieces[c]) /\ t[c] \in 0 .. Len(message.pieces[c])
             /\ c \in C => t[c] = sent[c] + 1 /\ t[c] \in 1 .. Len(message.pieces[c]) /\ PartOf(message, t, c) = next(c).part
             /\ c \notin C => t[c] = sent[c] /\ PartOf(message, t, c) = PartOf(message, sent, c)
  <2>1. c \in Channel /\ BlockIndex(c) \in Nat /\ Len(message.pieces[c]) \in Nat
    BY <1>1, PieceIs, BlockIndexIs
  <2>2. sent[c] \in 0 .. Len(message.pieces[c])
    BY <2>1 DEF Sending
  <2>3. c \in C => sent[c] < Len(message.pieces[c])
    BY DEF Unsent
  <2>4. t[c] = IF c \in C THEN sent[c] + 1 ELSE sent[c]
    BY <1>1
  <2> QED BY <2>1, <2>2, <2>3, <2>4 DEF PartOf
<1>3. Sending(message, t)
  <2>1. t \in [D -> Nat]
    <3>1. t = [c \in D |-> t[c]]
      BY <1>1
    <3>2. \A c \in D : t[c] \in Nat
      BY <1>2
    <3> QED BY <3>1, <3>2
  <2>2. \A c \in D : t[c] <= Len(message.pieces[c])
    BY <1>2
  <2> QED BY ONLY <1>1, <2>1, <2>2 DEF Sending
<1>4. ASSUME NEW c \in C
      PROVE  /\ PartOf(message, t, c) \in Texts
             /\ Of(message, c, t[c]) = Of(message, c, sent[c]) \o PartOf(message, t, c)
             /\ Of(message, c, sent[c]) \in Texts
  <2>1. c \in D /\ sent[c] \in 0 .. Len(message.pieces[c]) /\ sent[c] + 1 <= Len(message.pieces[c])
        /\ t[c] = sent[c] + 1 /\ t[c] \in 1 .. Len(message.pieces[c])
    BY <1>1, <1>2
  <2>2. PartOf(message, t, c) \in Texts
    BY <1>1, <2>1, PieceIs DEF PartOf
  <2>3. Of(message, c, sent[c] + 1) = Of(message, c, sent[c]) \o message.pieces[c][sent[c] + 1].part
        /\ Of(message, c, sent[c]) \in Texts
    BY <1>1, <2>1, OfMore
  <2> QED BY <2>1, <2>2, <2>3 DEF PartOf
<1>5. ASSUME NEW c \in D, c \notin Begun(message, sent)
      PROVE  Of(message, c, sent[c]) = << >> /\ (IsCall(c) => sent[c] = 0)
  BY <1>5, OfNone DEF Begun
<1>6. ASSUME NEW c \in C
      PROVE  c \in Begun(message, t) <=>
               c \in Begun(message, sent) \/ IsCall(c) \/ PartOf(message, t, c) # << >>
  <2>1. c \in D /\ t[c] # 0 /\ PartOf(message, t, c) \in Seq(Nat) /\ Of(message, c, sent[c]) \in Seq(Nat)
    <3>1. c \in D /\ t[c] # 0
      BY <1>1, <1>2
    <3>2. PartOf(message, t, c) \in Texts /\ Of(message, c, sent[c]) \in Texts
      BY <1>4
    <3> QED BY <3>1, <3>2 DEF Texts
  <2>2. Of(message, c, t[c]) = << >> <=> Of(message, c, sent[c]) = << >> /\ PartOf(message, t, c) = << >>
    <3> DEFINE o == Of(message, c, sent[c])
               p == PartOf(message, t, c)
    <3>1. o \in Seq(Nat) /\ p \in Seq(Nat)
      BY <2>1
    <3>2. o \o p = << >> <=> o = << >> /\ p = << >>
      <4> HIDE DEF o, p
      <4>1. << >> \o << >> = << >>
        BY ConcatEmptySeq, EmptySeq
      <4> QED BY <3>1, <4>1, ConcatSimplifications
    <3> QED BY <1>4, <3>2
  <2>3. c \in Begun(message, sent) => IsCall(c) \/ Of(message, c, sent[c]) # << >>
    BY DEF Begun
  <2> QED BY <1>5, <2>1, <2>2, <2>3 DEF Begun
<1>7. ASSUME NEW c \in D, c \notin C
      PROVE  c \in Begun(message, t) <=> c \in Begun(message, sent)
  BY <1>2, <1>7 DEF Begun
<1>8. ASSUME NEW c \in C
      PROVE  /\ BlockIndex(c) \in opened <=> c \in Begun(message, sent)
             /\ c \notin Begun(message, sent) => Opening(c, next(c)) = Opening(c, message.pieces[c][1])
  <2>1. c \in Channel /\ c \in D
    BY <1>1, <1>2
  <2>2. \A d \in Begun(message, sent) : d \in Channel
    BY <1>2 DEF Begun
  <2>3. BlockIndex(c) \in opened <=> c \in Begun(message, sent)
    BY <2>1, <2>2, BlockIndexIs
  <2>4. c \notin Begun(message, sent) => Opening(c, next(c)) = Opening(c, message.pieces[c][1])
    <3>1. IsCall(c) /\ c \notin Begun(message, sent) => sent[c] + 1 = 1
      BY <1>5, <2>1
    <3> QED BY <3>1 DEF Opening
  <2> QED BY <2>3, <2>4
<1>9. ASSUME NEW c \in C, NEW x
      PROVE  x \in F[c] <=> \/ x = Opens(message, c) /\ c \in Begun(message, t) /\ c \notin Begun(message, sent)
                            \/ x = Brings(message, t, c) /\ PartOf(message, t, c) # << >>
  <2> DEFINE i == BlockIndex(c)
             opens == i \notin opened /\ (IsCall(c) \/ next(c).part # << >>)
             start == Stamped(<<i, 0, 0>>, ContentBlockStart(i, Opening(c, next(c))))
             delta == Stamped(<<i, 1, 0>>, ContentBlockDelta(i, next(c).part))
  <2>1. F[c] = (IF opens THEN {start} ELSE {}) \cup IF next(c).part = << >> THEN {} ELSE {delta}
    BY DEF PieceEvents
  <2>2. PartOf(message, t, c) = next(c).part
    BY <1>1, <1>2
  <2>3. delta = Brings(message, t, c)
    BY <2>2 DEF Brings
  <2>4. opens <=> c \in Begun(message, t) /\ c \notin Begun(message, sent)
    BY <1>6, <1>8, <2>2
  <2>5. opens => start = Opens(message, c)
    BY <1>8 DEF Opens
  <2> HIDE DEF F, opens, start, delta, next
  <2> QED BY <2>1, <2>2, <2>3, <2>4, <2>5
<1>10. \A x : x \in es <=> \E c \in C : x \in F[c]
  <2> HIDE DEF F
  <2> QED OBVIOUS
<1>11. UNION {PieceEvents(c, next(c)) : c \in C} = es
  OBVIOUS
<1>12. IsFiniteSet(es)
  <2>1. IsFiniteSet(C)
    BY <1>1, FS_Subset
  <2>2. ASSUME NEW c \in C PROVE IsFiniteSet(F[c])
    <3> DEFINE pair == {Opens(message, c)} \cup {Brings(message, t, c)}
    <3>1. F[c] \subseteq pair
      BY <1>9
    <3>2. IsFiniteSet(pair)
      BY FS_Singleton, FS_Union
    <3> HIDE DEF pair, F
    <3> QED BY <3>1, <3>2, FS_Subset
  <2>3. F = [c \in C |-> F[c]]
    OBVIOUS
  <2> HIDE DEF F
  <2> QED BY <2>1, <2>2, <2>3, FiniteUnion
<1> HIDE DEF F, es
<1>13. ASSUME NEW x \in es
       PROVE  /\ \E c \in Begun(message, t) : x = Opens(message, c) \/ x = Brings(message, t, c)
              /\ \E c \in C : /\ c \in Begun(message, t) /\ c \in Channel
                              /\ x = Opens(message, c) \/ x = Brings(message, t, c)
  <2>1. PICK c \in C : x \in F[c]
    BY <1>10
  <2>2. x = Opens(message, c) \/ x = Brings(message, t, c)
    BY <1>9, <2>1
  <2>3. c \in Begun(message, t) /\ c \in Channel
    BY <1>1, <1>2, <1>6, <1>9, <2>1
  <2> QED BY <2>2, <2>3
<1>14. \A c \in Channel :
         /\ Opens(message, c).at = <<BlockIndex(c), 0, 0>> /\ Opens(message, c).event.index = BlockIndex(c)
         /\ Brings(message, t, c).at = <<BlockIndex(c), 1, 0>> /\ Brings(message, t, c).event.index = BlockIndex(c)
  BY DEF Opens, Brings, Stamped, ContentBlockStart, ContentBlockDelta
<1>15. IsStamped(es)
  <2>1. ASSUME NEW x \in es PROVE x.at[1] \in Nat /\ x.at[2] \in Nat /\ x.at[3] \in Nat
    BY <1>13, <1>14, BlockIndexIs
  <2>2. ASSUME NEW x \in es, NEW y \in es PROVE x = y \/ Earlier(x, y) \/ Earlier(y, x)
    <3>1. PICK c \in C : c \in Channel /\ (x = Opens(message, c) \/ x = Brings(message, t, c))
      BY <1>13
    <3>2. PICK d \in C : d \in Channel /\ (y = Opens(message, d) \/ y = Brings(message, t, d))
      BY <1>13
    <3>3. x.at[1] = BlockIndex(c) /\ y.at[1] = BlockIndex(d) /\ BlockIndex(c) \in Nat /\ BlockIndex(d) \in Nat
      <4>1. \A e \in Channel : Opens(message, e).at[1] = BlockIndex(e) /\ Brings(message, t, e).at[1] = BlockIndex(e)
        BY <1>14
      <4>2. x.at[1] = BlockIndex(c)
        BY <3>1, <4>1
      <4>3. y.at[1] = BlockIndex(d)
        BY <3>2, <4>1
      <4> QED BY <3>1, <3>2, <4>2, <4>3, BlockIndexIs
    <3>4. CASE BlockIndex(c) # BlockIndex(d)
      BY <3>3, <3>4 DEF Earlier
    <3>5. CASE c = d
      BY <3>1, <3>2, <3>5, EventsDiffer
    <3> QED BY <3>1, <3>2, <3>4, <3>5, BlockIndexIs
  <2> QED BY <1>12, <2>1, <2>2 DEF IsStamped
<1>16. /\ assembler \in Assembler /\ DOMAIN assembler.blocks \subseteq {BlockIndex(c) : c \in Begun(message, sent)}
       /\ \A c \in Begun(message, sent) : Kept(message, sent, {}, assembler, c)
  BY DEF Streams
<1>17. Begun(message, sent) \subseteq Begun(message, t)
  <2>1. Begun(message, sent) \subseteq D
    BY DEF Begun
  <2> QED BY <1>6, <1>7, <2>1
<1>18. ASSUME NEW c \in Begun(message, t) PROVE Kept(message, t, es, assembler, c)
  <2>1. c \in D /\ c \in Channel
    BY <1>3, BegunIs DEF Begun
  <2>2. Opens(message, c) \in es <=> c \in C /\ c \notin Begun(message, sent)
    <3>1. ASSUME Opens(message, c) \in es PROVE c \in C /\ c \notin Begun(message, sent)
      <4>1. PICK d \in C : Opens(message, c) \in F[d]
        BY <1>10, <3>1
      <4>2. d \in Channel
        BY <1>1, <1>2
      <4>3. Opens(message, c) # Brings(message, t, d) /\ (Opens(message, c) = Opens(message, d) => c = d)
        <5>1. \A e \in Channel : Opens(message, c) # Brings(message, t, e)
          BY ONLY <2>1, EventsDiffer
        <5>2. \A e \in Channel : Opens(message, c) = Opens(message, e) => c = e
          BY ONLY <2>1, EventsDiffer
        <5> QED BY <4>2, <5>1, <5>2
      <4> QED BY <1>9, <4>1, <4>3
    <3>2. ASSUME c \in C, c \notin Begun(message, sent) PROVE Opens(message, c) \in es
      BY <1>9, <1>10, <3>2
    <3> QED BY <3>1, <3>2
  <2>3. Brings(message, t, c) \in es <=> c \in C /\ PartOf(message, t, c) # << >>
    <3>1. ASSUME Brings(message, t, c) \in es PROVE c \in C /\ PartOf(message, t, c) # << >>
      <4>1. PICK d \in C : Brings(message, t, c) \in F[d]
        BY <1>10, <3>1
      <4>2. d \in Channel
        BY <1>1, <1>2
      <4>3. Opens(message, d) # Brings(message, t, c)
        <5>1. \A e \in Channel : Opens(message, d) # Brings(message, t, e)
          BY ONLY <4>2, EventsDiffer
        <5> QED BY <2>1, <5>1
      <4>4. Brings(message, t, c) = Brings(message, t, d) => c = d
        <5>1. \A e \in Channel : Brings(message, t, c) = Brings(message, t, e) => c = e
          BY ONLY <2>1, EventsDiffer
        <5> QED BY <4>2, <5>1
      <4> QED BY <1>9, <4>1, <4>3, <4>4
    <3>2. ASSUME c \in C, PartOf(message, t, c) # << >> PROVE Brings(message, t, c) \in es
      BY <1>9, <1>10, <3>2
    <3> QED BY <3>1, <3>2
  <2>4. c \notin C => c \in Begun(message, sent) /\ t[c] = sent[c]
    BY <1>2, <1>7, <2>1
  <2>5. CASE c \in Begun(message, sent)
    <3> DEFINE b == assembler.blocks[BlockIndex(c)]
    <3>1. /\ BlockIndex(c) \in DOMAIN assembler.blocks /\ b.stub = Opening(c, message.pieces[c][1])
          /\ Of(message, c, sent[c]) = Joined(b) \o << >>
      BY <1>16, <2>5 DEF Kept
    <3>2. Joined(b) \in Seq(Nat)
      <4>1. b \in Buffer
        BY <1>16, <3>1, AssemblerBlocks
      <4>2. b.parts \in Seq(Seq(Nat))
        BY <4>1 DEF Buffer, Texts
      <4> QED BY <4>2, FlattenType DEF Joined
    <3> HIDE DEF b
    <3>3. Joined(b) \o << >> = Joined(b)
      BY <3>2, ConcatEmptySeq
    <3>4. ASSUME c \in C
          PROVE  Of(message, c, t[c]) = Joined(b) \o (IF Brings(message, t, c) \in es THEN PartOf(message, t, c) ELSE << >>)
      BY <1>4, <2>3, <3>1, <3>3, <3>4
    <3>5. ASSUME c \notin C
          PROVE  Of(message, c, t[c]) = Joined(b) \o (IF Brings(message, t, c) \in es THEN PartOf(message, t, c) ELSE << >>)
      BY <2>3, <2>4, <3>1, <3>5
    <3> QED BY <2>2, <2>5, <3>1, <3>4, <3>5 DEF Kept, b
  <2>6. CASE c \notin Begun(message, sent)
    <3>1. c \in C
      BY <2>4, <2>6
    <3>2. BlockIndex(c) \notin DOMAIN assembler.blocks
      <4>1. \A d \in Begun(message, sent) : d \in Channel
        BY <1>2 DEF Begun
      <4> QED BY <1>16, <2>1, <2>6, <4>1, BlockIndexIs
    <3>3. Of(message, c, t[c]) = PartOf(message, t, c)
      <4>1. Of(message, c, sent[c]) = << >> /\ PartOf(message, t, c) \in Seq(Nat)
        BY <1>4, <1>5, <2>1, <2>6, <3>1 DEF Texts
      <4>2. << >> \o PartOf(message, t, c) = PartOf(message, t, c)
        BY <4>1, ConcatEmptySeq
      <4> QED BY <1>4, <3>1, <4>1, <4>2
    <3> QED BY <2>2, <2>3, <2>6, <3>1, <3>2, <3>3 DEF Kept
  <2> QED BY <2>5, <2>6
<1>19. Streams(message, t, es, assembler)
  BY <1>13, <1>15, <1>16, <1>17, <1>18 DEF Streams
<1>20. opened \cup {x.event.index : x \in es} = {BlockIndex(c) : c \in Begun(message, t)}
  <2>1. ASSUME NEW x \in es PROVE x.event.index \in {BlockIndex(c) : c \in Begun(message, t)}
    BY <1>13, <1>14
  <2>2. ASSUME NEW c \in Begun(message, t), c \notin Begun(message, sent)
        PROVE  BlockIndex(c) \in {x.event.index : x \in es}
    <3>1. c \in D /\ c \in Channel
      BY <1>3, BegunIs DEF Begun
    <3>2. c \in C
      BY <1>7, <2>2, <3>1
    <3>3. Opens(message, c) \in es
      BY <1>9, <1>10, <2>2, <3>2
    <3> QED BY <1>14, <3>1, <3>3
  <2> QED BY <1>17, <2>1, <2>2
<1> QED BY <1>3, <1>11, <1>19, <1>20

\* The blocks of what was sent.
BlockFor(m, s, c) ==
  Block(Opening(c, m.pieces[c][1]).kind, Opening(c, m.pieces[c][1]).id, Of(m, c, s[c]))

BlocksOf(m, s) ==
  LET index == Sorted({BlockIndex(c) : c \in Begun(m, s)})
  IN  [k \in DOMAIN index |-> BlockFor(m, s, CHOOSE c \in Begun(m, s) : BlockIndex(c) = index[k])]

LEMMA BlocksHold ==
  ASSUME NEW m, NEW s, Sending(m, s)
  PROVE  /\ \A k \in DOMAIN BlocksOf(m, s) : \E c \in Begun(m, s) : BlocksOf(m, s)[k] = BlockFor(m, s, c)
         /\ \A c \in Begun(m, s) : \E k \in DOMAIN BlocksOf(m, s) : BlocksOf(m, s)[k] = BlockFor(m, s, c)
         /\ IsFiniteSet({BlockIndex(c) : c \in Begun(m, s)})
<1> DEFINE B == Begun(m, s)
           S == {BlockIndex(c) : c \in B}
           of(i) == CHOOSE c \in B : BlockIndex(c) = i
           index == Sorted(S)
<1>1. \A c \in B : c \in Channel /\ BlockIndex(c) \in Nat
  BY BegunIs
<1>2. IsFiniteSet(B)
  <2>1. IsFiniteSet(DOMAIN m.pieces)
    BY DEF Sending, WireMessage
  <2> QED BY <2>1, FS_Subset DEF Begun
<1>3. \A c \in B : of(BlockIndex(c)) = c
  <2> SUFFICES ASSUME NEW c \in B PROVE of(BlockIndex(c)) = c
    OBVIOUS
  <2>1. \A d \in B : BlockIndex(d) = BlockIndex(c) => d = c
    BY <1>1, BlockIndexIs
  <2> HIDE DEF B
  <2> QED BY <2>1
<1>4. S \in SUBSET Nat
  BY <1>1
<1>5. IsFiniteSet(S)
  <2> DEFINE f == [c \in B |-> BlockIndex(c)]
  <2>1. S = {f[c] : c \in B} /\ f = [c \in B |-> f[c]]
    OBVIOUS
  <2> HIDE DEF f, B
  <2> QED BY <1>2, <2>1, FiniteImage
<1>6. BlocksOf(m, s) = [k \in DOMAIN index |-> BlockFor(m, s, of(index[k]))]
  BY DEF BlocksOf
<1> HIDE DEF of
<1>7. /\ \A k \in DOMAIN index : index[k] \in S
      /\ \A i \in S : \E k \in DOMAIN index : index[k] = i
  <2> HIDE DEF S
  <2> QED BY <1>4, <1>5, SortedElements
<1> HIDE DEF index
<1>8. ASSUME NEW k \in DOMAIN index PROVE \E c \in B : BlocksOf(m, s)[k] = BlockFor(m, s, c)
  <2>1. PICK c \in B : index[k] = BlockIndex(c)
    BY <1>7
  <2> QED BY <1>3, <1>6, <2>1
<1>9. ASSUME NEW c \in B PROVE \E k \in DOMAIN index : BlocksOf(m, s)[k] = BlockFor(m, s, c)
  <2>1. PICK k \in DOMAIN index : index[k] = BlockIndex(c)
    BY <1>7
  <2> QED BY <1>3, <1>6, <2>1
<1> QED BY <1>5, <1>6, <1>8, <1>9

\* A call has all of its arguments, or none.
WholeCalls(m, s) ==
  \A c \in Begun(m, s) : IsCall(c) => Of(m, c, s[c]) = << >> \/ IsJson(Of(m, c, s[c]))

LEMMA StreamDrained ==
  ASSUME NEW m, NEW s, Sending(m, s), NEW a, Streams(m, s, {}, a)
  PROVE  /\ Content(a) = BlocksOf(m, s)
         /\ (\A i \in DOMAIN a.blocks : Parses(a.blocks[i])) <=> WholeCalls(m, s)
<1> DEFINE B == Begun(m, s)
           S == {BlockIndex(c) : c \in B}
           index == Sorted(S)
           stub(c) == Opening(c, m.pieces[c][1])
<1>1. ASSUME NEW c \in B
      PROVE  /\ BlockIndex(c) \in DOMAIN a.blocks /\ a.blocks[BlockIndex(c)].stub = stub(c)
             /\ Joined(a.blocks[BlockIndex(c)]) = Of(m, c, s[c])
             /\ c \in Channel
             /\ stub(c).kind = Kind(c)
  <2> DEFINE b == a.blocks[BlockIndex(c)]
  <2>1. Kept(m, s, {}, a, c) /\ a \in Assembler
    BY DEF Streams
  <2>2. BlockIndex(c) \in DOMAIN a.blocks /\ b.stub = stub(c) /\ Of(m, c, s[c]) = Joined(b) \o << >>
    BY <2>1 DEF Kept
  <2>3. Joined(b) \in Seq(Nat)
    <3>1. b \in Buffer
      BY <2>1, <2>2, AssemblerBlocks
    <3>2. b.parts \in Seq(Seq(Nat))
      BY <3>1 DEF Buffer, Texts
    <3> QED BY <3>2, FlattenType DEF Joined
  <2> HIDE DEF b
  <2>4. Joined(b) \o << >> = Joined(b)
    BY <2>3, ConcatEmptySeq
  <2>5. c \in Channel
    BY BegunIs
  <2>6. stub(c).kind = Kind(c)
    BY DEF Opening, Stub
  <2> QED BY <2>2, <2>4, <2>5, <2>6 DEF b
<1>2. DOMAIN a.blocks = S
  BY <1>1 DEF Streams
<1>3. /\ Content(a) = [k \in DOMAIN index |->
                         Block(a.blocks[index[k]].stub.kind, a.blocks[index[k]].stub.id, Joined(a.blocks[index[k]]))]
      /\ BlocksOf(m, s) = [k \in DOMAIN index |-> BlockFor(m, s, CHOOSE c \in B : BlockIndex(c) = index[k])]
  BY <1>2 DEF Content, BlocksOf
<1>4. \A k \in DOMAIN index : index[k] \in S
  <2>1. S \in SUBSET Nat
    BY <1>1, BlockIndexIs
  <2>2. IsFiniteSet(S)
    BY BlocksHold
  <2> HIDE DEF S
  <2> QED BY <2>1, <2>2, SortedElements
<1> HIDE DEF index
<1>5. ASSUME NEW k \in DOMAIN index
      PROVE  Block(a.blocks[index[k]].stub.kind, a.blocks[index[k]].stub.id, Joined(a.blocks[index[k]]))
               = BlockFor(m, s, CHOOSE c \in B : BlockIndex(c) = index[k])
  <2> DEFINE c == CHOOSE d \in B : BlockIndex(d) = index[k]
  <2>1. c \in B /\ BlockIndex(c) = index[k]
    BY <1>4
  <2> HIDE DEF c
  <2>2. a.blocks[index[k]].stub = stub(c) /\ Joined(a.blocks[index[k]]) = Of(m, c, s[c])
    BY <1>1, <2>1
  <2>3. Block(a.blocks[index[k]].stub.kind, a.blocks[index[k]].stub.id, Joined(a.blocks[index[k]])) = BlockFor(m, s, c)
    BY <2>2 DEF BlockFor
  <2> QED BY <2>3 DEF c
<1>6. Content(a) = BlocksOf(m, s)
  BY <1>3, <1>5
<1>7. \A c \in B : Parses(a.blocks[BlockIndex(c)]) <=>
                     (IsCall(c) => Of(m, c, s[c]) = << >> \/ IsJson(Of(m, c, s[c])))
  <2> SUFFICES ASSUME NEW c \in B
               PROVE  Parses(a.blocks[BlockIndex(c)]) <=>
                        (IsCall(c) => Of(m, c, s[c]) = << >> \/ IsJson(Of(m, c, s[c])))
    OBVIOUS
  <2>1. a.blocks[BlockIndex(c)].stub.kind = "tool_use" <=> IsCall(c)
    BY <1>1, BlockIndexIs
  <2> QED BY <1>1, <2>1 DEF Parses
<1>8. (\A i \in DOMAIN a.blocks : Parses(a.blocks[i])) <=> WholeCalls(m, s)
  BY <1>2, <1>7 DEF WholeCalls
<1> QED BY <1>6, <1>8

\* When everything is sent.
Full(m) == [c \in DOMAIN m.pieces |-> Len(m.pieces[c])]

LEMMA FullIs ==
  ASSUME NEW m, WireMessage(m)
  PROVE  /\ Sending(m, Full(m))
         /\ \A c \in DOMAIN m.pieces : IsCall(c) => Of(m, c, Full(m)[c]) = << >> \/ IsArguments(Of(m, c, Full(m)[c]))
         /\ Begun(m, Full(m)) = {c \in DOMAIN m.pieces : IsCall(c) \/ Of(m, c, Len(m.pieces[c])) # << >>}
         /\ WholeCalls(m, Full(m))
<1>1. \A c \in DOMAIN m.pieces : Full(m)[c] = Len(m.pieces[c]) /\ Full(m)[c] \in Nat
  BY PieceIs DEF Full
<1>2. Sending(m, Full(m))
  <2>1. Full(m) = [c \in DOMAIN m.pieces |-> Full(m)[c]]
    BY DEF Full
  <2>2. Full(m) \in [DOMAIN m.pieces -> Nat]
    BY <1>1, <2>1
  <2> QED BY <1>1, <2>2 DEF Sending
<1>3. ASSUME NEW c \in DOMAIN m.pieces, IsCall(c)
      PROVE  /\ Of(m, c, Full(m)[c]) = << >> \/ IsArguments(Of(m, c, Full(m)[c]))
             /\ Full(m)[c] # 0
  <2> DEFINE whole == FlattenSeq([k \in DOMAIN m.pieces[c] |-> m.pieces[c][k].part])
  <2>1. /\ m.pieces[c] # << >> /\ m.pieces[c] \in Seq([id : STRING, part : Texts])
        /\ whole = << >> \/ IsArguments(whole)
    BY <1>3 DEF WireMessage
  <2>2. DOMAIN m.pieces[c] = 1 .. Len(m.pieces[c]) /\ Len(m.pieces[c]) # 0
    BY <2>1, LenProperties, EmptySeq
  <2> QED BY <1>1, <2>1, <2>2 DEF Of
<1>4. Begun(m, Full(m)) = {c \in DOMAIN m.pieces : IsCall(c) \/ Of(m, c, Len(m.pieces[c])) # << >>}
  BY <1>1, <1>3, OfNone DEF Begun
<1>5. ASSUME NEW t \in Texts, IsArguments(t) PROVE IsJson(t)
  <2>1. Len(t) \in DOMAIN t
    BY <1>5, EmptySeq DEF Texts, IsArguments
  <2> QED BY <1>5, <2>1 DEF IsArguments, IsJson, Last
<1>6. WholeCalls(m, Full(m))
  <2> SUFFICES ASSUME NEW c \in Begun(m, Full(m)), IsCall(c)
               PROVE  Of(m, c, Full(m)[c]) = << >> \/ IsJson(Of(m, c, Full(m)[c]))
    BY DEF WholeCalls
  <2>1. c \in DOMAIN m.pieces /\ Of(m, c, Full(m)[c]) \in Texts
    BY <1>2, BegunIs
  <2> QED BY <1>3, <1>5, <2>1
<1> QED BY <1>2, <1>3, <1>4, <1>6

LEMMA SaidIs == Said = BlocksOf(message, Full(message)) \/ ~WireMessage(message)
<1> SUFFICES ASSUME WireMessage(message) PROVE Said = BlocksOf(message, Full(message))
  OBVIOUS
<1> DEFINE B == Begun(message, Full(message))
           spoken == {c \in DOMAIN message.pieces : IsCall(c) \/ Carried(c, Len(message.pieces[c])) # << >>}
           index == Sorted({BlockIndex(c) : c \in B})
           whole(c) == Carried(c, Len(message.pieces[c]))
           said(c) == Block(Opening(c, message.pieces[c][1]).kind, Opening(c, message.pieces[c][1]).id, whole(c))
<1>1. B = spoken
  BY FullIs DEF Carried, Of
<1>2. Said = [k \in DOMAIN index |-> said(CHOOSE c \in B : BlockIndex(c) = index[k])]
  <2>1. Said = [k \in DOMAIN Sorted({BlockIndex(c) : c \in spoken}) |->
                  said(CHOOSE c \in spoken : BlockIndex(c) = Sorted({BlockIndex(d) : d \in spoken})[k])]
    BY DEF Said
  <2> HIDE DEF B, spoken, said
  <2> QED BY <1>1, <2>1
<1>3. \A c \in B : said(c) = BlockFor(message, Full(message), c)
  <2>1. \A c \in B : Full(message)[c] = Len(message.pieces[c])
    BY DEF Begun, Full
  <2> QED BY <2>1 DEF BlockFor, Carried, Of
<1>4. \A k \in DOMAIN index : \E c \in B : BlockIndex(c) = index[k]
  <2> DEFINE S == {BlockIndex(c) : c \in B}
  <2>1. S \in SUBSET Nat /\ IsFiniteSet(S)
    BY FullIs, BegunIs, BlocksHold
  <2> HIDE DEF B, S
  <2>2. \A k \in DOMAIN Sorted(S) : Sorted(S)[k] \in S
    BY <2>1, SortedElements
  <2> QED BY <2>2 DEF S
<1> HIDE DEF index, said, B
<1>5. \A k \in DOMAIN index : said(CHOOSE c \in B : BlockIndex(c) = index[k])
                                = BlockFor(message, Full(message), CHOOSE c \in B : BlockIndex(c) = index[k])
  BY <1>3, <1>4
<1> QED BY <1>2, <1>5 DEF BlocksOf, index, B

----------------------------------------------------------------------------
(* ProviderStream: its theorems.                                           *)

Reason(f) == IF f = Absent THEN "end_turn" ELSE StopReason(f)
Count(n) == IF n = Absent THEN 0 ELSE n

Report(f, n) == Stamped(<<1, 0, 0>>, MessageDelta(Reason(f), Count(n)))

\* The last events: until the report is fed it is to come.
Ending(R, a, f, n) ==
  /\ \A x \in R : x = Report(f, n) \/ x.event = MessageStop \/ \E i \in Nat : x.event = ContentBlockStop(i)
  /\ Report(f, n) \in R \/ (a.stop_reason = Reason(f) /\ a.usage = Count(n))

\* OpenRouterProvider: the blocks opened are the ones begun, what the assembler has and
\* what the events bring it are what was sent, and the turn is that.
WireInv ==
  provider = "openrouter" =>
    /\ message \in Response /\ Sending(message, sent)
    /\ opened = {BlockIndex(c) : c \in Begun(message, sent)}
    /\ finish # Absent => finish = message.finish /\ sent = Full(message)
    /\ usage # Absent => usage = message.usage
    /\ CASE status = "streaming" ->
              turn = Absent /\ \E R : events = Listing(R) /\ Streams(message, sent, R, assembler)
         [] status = "draining" ->
              /\ turn = Absent
              /\ \E R : /\ events = Listing(R) /\ R # {}
                        /\ Streams(message, sent, R, assembler) /\ Ending(R, assembler, finish, usage)
         [] OTHER -> events = << >>
    /\ status = "JSONDecodeError" => finish = Absent
    /\ turn # Absent =>
         turn = AssistantTurn(BlocksOf(message, sent), Reason(finish), Count(usage)) /\ WholeCalls(message, sent)

LEMMA ReasonIs ==
  ASSUME NEW m, WireMessage(m), NEW f, f # Absent => f = m.finish, NEW n, n # Absent => n = m.usage
  PROVE  Reason(f) \in Name /\ Count(n) \in Nat
<1>1. \A r \in DOMAIN FinishReason : FinishReason[r] \in Name
  <2>1. DOMAIN FinishReason = {"stop", "tool_calls", "function_call", "length", "content_filter"}
    BY DEF FinishReason
  <2>2. /\ FinishReason["stop"] = "end_turn" /\ FinishReason["tool_calls"] = "tool_use"
        /\ FinishReason["function_call"] = "tool_use"
        /\ FinishReason["length"] = "max_tokens" /\ FinishReason["content_filter"] = "refusal"
    BY DEF FinishReason
  <2> QED BY <2>1, <2>2 DEF Name
<1>2. "end_turn" \in Name
  BY DEF Name
<1>3. StopReason(f) \in Name
  BY <1>1, <1>2 DEF StopReason
<1>4. m.usage \in Nat
  BY DEF WireMessage
<1> QED BY <1>2, <1>3, <1>4 DEF Reason, Count

LEMMA ListingOne == ASSUME NEW x PROVE Listing({x}) = << x.event >> \/ Earlier(x, x)
<1> SUFFICES ASSUME ~Earlier(x, x) PROVE Listing({x}) = << x.event >>
  OBVIOUS
<1>1. Cardinality({x}) = 1 /\ Cardinality({}) = 0
  BY FS_Singleton, FS_EmptySet
<1>2. {y \in {x} : Earlier(y, x)} = {}
  OBVIOUS
<1>3. (CHOOSE y \in {x} : Cardinality({z \in {x} : Earlier(z, y)}) = 1 - 1) = x
  BY <1>1, <1>2
<1>4. Listing({x}) = [k \in 1 .. 1 |-> (CHOOSE y \in {x} : Cardinality({z \in {x} : Earlier(z, y)}) = k - 1).event]
  BY <1>1 DEF Listing
<1>5. \A k \in 1 .. 1 : k = 1
  OBVIOUS
<1>6. Listing({x}) = [k \in 1 .. 1 |-> x.event]
  BY <1>3, <1>4, <1>5
<1> QED BY <1>6

LEMMA ListingEmpty ==
  ASSUME NEW R, IsStamped(R), Listing(R) = << >> PROVE R = {}
BY FirstExists, ListingMore

LEMMA StreamsPlain ==
  ASSUME NEW m, NEW s, Sending(m, s), NEW a, Streams(m, s, {}, a),
         NEW R, IsStamped(R), \A x \in R : Plain(x.event)
  PROVE  Streams(m, s, R, a)
<1>1. ASSUME NEW c \in Begun(m, s) PROVE Kept(m, s, R, a, c)
  <2>1. c \in Channel /\ Kept(m, s, {}, a, c)
    BY BegunIs DEF Streams
  <2>2. Opens(m, c) \notin R /\ Brings(m, s, c) \notin R
    BY <2>1, EventsDiffer
  <2> QED BY <2>1, <2>2 DEF Kept
<1> QED BY <1>1 DEF Streams

LEMMA EndingFeed ==
  ASSUME NEW m, WireMessage(m), NEW R, NEW a \in Assembler, NEW f, f # Absent => f = m.finish,
         NEW n, n # Absent => n = m.usage, Ending(R, a, f, n), NEW x \in R
  PROVE  Ending(R \ {x}, Feed(a, x.event), f, n)
<1>1. CASE x = Report(f, n)
  <2> DEFINE g == Feed(a, MessageDelta(Reason(f), Count(n)))
  <2>1. Reason(f) \in Name /\ Count(n) \in Nat
    BY ReasonIs
  <2>2. g.stop_reason = Reason(f) /\ g.usage = Count(n)
    BY <2>1, FeedsRest
  <2>3. x.event = MessageDelta(Reason(f), Count(n))
    BY <1>1 DEF Report, Stamped
  <2> HIDE DEF g
  <2>4. Feed(a, x.event) = g
    BY <2>3 DEF g
  <2> QED BY <2>2, <2>4 DEF Ending
<1>2. CASE x # Report(f, n)
  <2>1. x.event = MessageStop \/ \E i \in Nat : x.event = ContentBlockStop(i)
    BY <1>2 DEF Ending
  <2>2. Feed(a, x.event) = a
    BY <2>1, FeedsRest
  <2> QED BY <1>2, <2>2 DEF Ending
<1> QED BY <1>1, <1>2

\* The last events, when the stream ends.
LEMMA StreamsEnd ==
  ASSUME Sending(message, sent), opened = {BlockIndex(c) : c \in Begun(message, sent)},
         Streams(message, sent, {}, assembler),
         finish # Absent => finish = message.finish, usage # Absent => usage = message.usage
  PROVE  LET R == {Stamped(<<0, i, 0>>, ContentBlockStop(i)) : i \in opened}
                    \cup {Report(finish, usage), Stamped(<<1, 1, 0>>, MessageStop)}
         IN  R # {} /\ Streams(message, sent, R, assembler) /\ Ending(R, assembler, finish, usage)
<1> DEFINE f == [i \in opened |-> Stamped(<<0, i, 0>>, ContentBlockStop(i))]
           stops == {f[i] : i \in opened}
           last == Stamped(<<1, 1, 0>>, MessageStop)
           report == Report(finish, usage)
           R == stops \cup {report, last}
<1>1. R = {Stamped(<<0, i, 0>>, ContentBlockStop(i)) : i \in opened} \cup {report, last}
  OBVIOUS
<1>2. opened \subseteq Nat /\ IsFiniteSet(opened)
  BY BegunIs, BlocksHold
<1>3. /\ report.at[1] = 1 /\ report.at[2] = 0 /\ report.at[3] = 0
      /\ report.event = MessageDelta(Reason(finish), Count(usage))
      /\ last.at[1] = 1 /\ last.at[2] = 1 /\ last.at[3] = 0 /\ last.event = MessageStop
  BY DEF Report, Stamped
<1>4. ASSUME NEW i \in opened
      PROVE f[i].at[1] = 0 /\ f[i].at[2] = i /\ f[i].at[3] = 0 /\ f[i].event = ContentBlockStop(i) /\ i \in Nat
  BY <1>2 DEF Stamped
<1>5. IsFiniteSet(R)
  <2>1. f = [i \in opened |-> f[i]]
    OBVIOUS
  <2> HIDE DEF f
  <2>2. IsFiniteSet(stops)
    BY <1>2, <2>1, FiniteImage
  <2>3. R = (stops \cup {report}) \cup {last}
    OBVIOUS
  <2> HIDE DEF stops, R, report, last
  <2> DEFINE some == stops \cup {report}
  <2>4. IsFiniteSet(some)
    BY <2>2, FS_Singleton, FS_Union
  <2> HIDE DEF some
  <2>5. IsFiniteSet(some \cup {last})
    BY <2>4, FS_Singleton, FS_Union
  <2> QED BY <2>3, <2>5 DEF some
<1>6. \A x : x \in R <=> x = report \/ x = last \/ \E i \in opened : x = f[i]
  <2> HIDE DEF f, report, last
  <2> QED OBVIOUS
<1> HIDE DEF f, stops, last, report, R
<1>7. ASSUME NEW x \in R PROVE x.at[1] \in Nat /\ x.at[2] \in Nat /\ x.at[3] \in Nat
  BY <1>3, <1>4, <1>6
<1>8. ASSUME NEW x \in R, NEW y \in R PROVE x = y \/ Earlier(x, y) \/ Earlier(y, x)
  <2>1. ASSUME NEW i \in opened, NEW j \in opened, x = f[i], y = f[j] PROVE x = y \/ Earlier(x, y) \/ Earlier(y, x)
    <3>1. CASE i = j
      BY <2>1, <3>1
    <3>2. CASE i # j
      BY <1>4, <2>1, <3>2 DEF Earlier
    <3> QED BY <3>1, <3>2
  <2>2. ASSUME NEW i \in opened, NEW z \in {report, last} PROVE Earlier(f[i], z)
    BY <1>3, <1>4, <2>2 DEF Earlier
  <2>3. Earlier(report, last)
    BY <1>3 DEF Earlier
  <2> QED BY <1>6, <2>1, <2>2, <2>3
<1>9. IsStamped(R)
  BY <1>5, <1>7, <1>8 DEF IsStamped
<1>10. Reason(finish) \in Name /\ Count(usage) \in Nat
  <2>1. WireMessage(message)
    BY DEF Sending
  <2> QED BY <2>1, ReasonIs
<1>11. \A x \in R : Plain(x.event)
  BY <1>3, <1>4, <1>6, <1>10 DEF Plain
<1>12. Streams(message, sent, R, assembler)
  BY <1>9, <1>11, StreamsPlain
<1>13. Ending(R, assembler, finish, usage) /\ R # {}
  BY <1>3, <1>4, <1>6 DEF Ending, report
<1> QED BY <1>1, <1>12, <1>13 DEF report, last

LEMMA MockStarts == StreamInit => MockInv
<1> SUFFICES ASSUME StreamInit, provider = "mock" PROVE MockInv
  BY DEF MockInv
<1>1. script \in Script /\ cursor = 0 /\ status = "idle" /\ events = << >> /\ turn = Absent
  BY DEF StreamInit
<1>2. Len(script) \in Nat
  BY <1>1, ScriptTurn
<1> QED BY <1>1, <1>2 DEF MockInv

LEMMA WireStarts == StreamInit => WireInv
<1> SUFFICES ASSUME StreamInit, provider = "openrouter" PROVE WireInv
  BY DEF WireInv
<1> DEFINE x == Stamped(<<0, 0, 0>>, MessageStart)
<1>1. /\ message \in Response /\ sent = [c \in DOMAIN message.pieces |-> 0] /\ finish = Absent /\ usage = Absent
      /\ opened = {} /\ events = <<MessageStart>> /\ status = "streaming" /\ assembler = EmptyAssembler /\ turn = Absent
  BY DEF StreamInit
<1>2. WireMessage(message)
  BY <1>1, ProviderAssumption
<1>3. Sending(message, sent)
  <2>1. \A c \in DOMAIN message.pieces : sent[c] = 0 /\ Len(message.pieces[c]) \in Nat
    BY <1>1, <1>2, PieceIs
  <2> QED BY <1>1, <1>2, <2>1 DEF Sending
<1>4. Begun(message, sent) = {}
  BY <1>1 DEF Begun
<1>5. x.at[1] = 0 /\ x.at[2] = 0 /\ x.at[3] = 0 /\ x.event = MessageStart
  BY DEF Stamped
<1> HIDE DEF x
<1>6. IsStamped({x})
  BY <1>5, FS_Singleton DEF IsStamped
<1>7. events = Listing({x})
  BY <1>1, <1>5, ListingOne DEF Earlier
<1>8. Streams(message, sent, {x}, assembler)
  <2>1. DOMAIN assembler.blocks = {}
    BY <1>1, EmptyIsAssembler, EmptySeq
  <2> QED BY <1>1, <1>4, <1>5, <1>6, <2>1, EmptyIsAssembler DEF Streams, Plain
<1> QED BY <1>1, <1>3, <1>4, <1>7, <1>8 DEF WireInv

LEMMA WireSteps == WireInv /\ [StreamNext]_streamVars => WireInv'
<1> SUFFICES ASSUME WireInv, [StreamNext]_streamVars, provider' = "openrouter" PROVE WireInv'
  BY DEF WireInv
<1> USE DEF scripted, wire, drained, streamVars
<1>1. provider = "openrouter"
  BY DEF StreamNext, Ask, Yield, StreamEnds, StreamBreaks, Chunk
<1>2. /\ message \in Response /\ Sending(message, sent)
      /\ opened = {BlockIndex(c) : c \in Begun(message, sent)}
      /\ finish # Absent => finish = message.finish /\ sent = Full(message)
      /\ usage # Absent => usage = message.usage
      /\ WireMessage(message)
  BY <1>1, ProviderAssumption DEF WireInv
<1>3. ASSUME status = "streaming", events = << >>
      PROVE  turn = Absent /\ Streams(message, sent, {}, assembler)
  <2>1. PICK R : events = Listing(R) /\ Streams(message, sent, R, assembler)
    BY <1>1, <1>3 DEF WireInv
  <2>2. R = {}
    BY <1>3, <2>1, ListingEmpty DEF Streams
  <2>3. turn = Absent
    BY <1>1, <1>3 DEF WireInv
  <2> QED BY <2>1, <2>2, <2>3
<1>4. ASSUME Yield PROVE WireInv'
  <2> DEFINE f == Feed(assembler, Head(events))
  <2>1. /\ events # << >> /\ events' = Tail(events) /\ assembler' = f
        /\ message' = message /\ sent' = sent /\ opened' = opened /\ finish' = finish /\ usage' = usage
    BY <1>4 DEF Yield
  <2>2. turn = Absent /\ status \in {"streaming", "draining"}
    BY <1>1, <2>1 DEF WireInv
  <2>3. PICK R : /\ events = Listing(R) /\ Streams(message, sent, R, assembler)
                 /\ status = "draining" => Ending(R, assembler, finish, usage)
    BY <1>1, <2>1, <2>2 DEF WireInv
  <2>4. IsStamped(R) /\ R # {} /\ assembler \in Assembler
    BY <2>1, <2>3, ListingNone DEF Streams
  <2>5. PICK x : IsFirst(x, R)
    BY <2>4, FirstExists
  <2>6. x \in R /\ Head(events) = x.event /\ Tail(events) = Listing(R \ {x})
    BY <2>3, <2>4, <2>5, ListingMore DEF IsFirst
  <2>7. Streams(message, sent, R \ {x}, f)
    BY <1>2, <2>3, <2>5, <2>6, StreamsFeed
  <2>8. status = "draining" => Ending(R \ {x}, f, finish, usage)
    BY <1>2, <2>3, <2>4, <2>6, EndingFeed
  <2>9. Tail(events) = << >> <=> R \ {x} = {}
    BY <2>6, <2>7, ListingEmpty, ListingNone DEF Streams
  <2> HIDE DEF f
  <2>10. CASE status = "streaming" \/ Tail(events) # << >>
    <3>1. status' = status /\ turn' = turn
      BY <1>4, <2>10 DEF Yield
    <3>2. status' # "JSONDecodeError"
      BY <2>2, <3>1
    <3>3. /\ message' \in Response /\ Sending(message', sent')
          /\ opened' = {BlockIndex(c) : c \in Begun(message', sent')}
          /\ finish' # Absent => finish' = message'.finish /\ sent' = Full(message')
          /\ usage' # Absent => usage' = message'.usage
      BY <1>2, <2>1
    <3>4. events' = Listing(R \ {x}) /\ Streams(message', sent', R \ {x}, assembler')
      BY <2>1, <2>6, <2>7
    <3>5. status' = "draining" => R \ {x} # {} /\ Ending(R \ {x}, assembler', finish', usage')
      BY <2>1, <2>8, <2>9, <2>10, <3>1
    <3>6. turn' = Absent
      BY <2>2, <3>1
    <3>7. CASE status' = "streaming"
      BY <3>3, <3>4, <3>6, <3>7 DEF WireInv
    <3>8. CASE status' = "draining"
      BY <3>3, <3>4, <3>5, <3>6, <3>8 DEF WireInv
    <3> QED BY <2>2, <3>1, <3>7, <3>8
  <2>11. CASE status = "draining" /\ Tail(events) = << >>
    <3>1. Finish(f)
      BY <1>4, <2>1, <2>11 DEF Yield
    <3>2. Streams(message, sent, {}, f) /\ f.stop_reason = Reason(finish) /\ f.usage = Count(usage)
      BY <2>7, <2>8, <2>9, <2>11 DEF Ending
    <3>3. /\ Content(f) = BlocksOf(message, sent)
          /\ (\A i \in DOMAIN f.blocks : Parses(f.blocks[i])) <=> WholeCalls(message, sent)
      BY <1>2, <3>2, StreamDrained
    <3>4. \/ /\ status' = "returned" /\ WholeCalls(message, sent)
             /\ turn' = AssistantTurn(BlocksOf(message, sent), Reason(finish), Count(usage))
          \/ status' = "JSONDecodeError" /\ turn' = Absent /\ ~WholeCalls(message, sent)
      <4>1. \/ /\ status' = "returned" /\ turn' = AssistantTurn(Content(f), f.stop_reason, f.usage)
               /\ \A i \in DOMAIN f.blocks : Parses(f.blocks[i])
            \/ /\ status' = "JSONDecodeError" /\ turn' = turn
               /\ ~\A i \in DOMAIN f.blocks : Parses(f.blocks[i])
        BY <3>1, FinishIs
      <4>2. turn = Absent
        BY <2>2
      <4> QED BY <3>2, <3>3, <4>1, <4>2
    <3>5. finish # Absent => WholeCalls(message, sent)
      BY <1>2, FullIs
    <3>6. /\ message' \in Response /\ Sending(message', sent')
          /\ opened' = {BlockIndex(c) : c \in Begun(message', sent')}
          /\ finish' # Absent => finish' = message'.finish /\ sent' = Full(message')
          /\ usage' # Absent => usage' = message'.usage
          /\ events' = << >>
      BY <1>2, <2>1, <2>11
    <3>7. CASE status' = "returned"
      <4>1. turn' # Absent => /\ turn' = AssistantTurn(BlocksOf(message', sent'), Reason(finish'), Count(usage'))
                              /\ WholeCalls(message', sent')
        BY <2>1, <3>4, <3>7
      <4> QED BY <3>6, <3>7, <4>1 DEF WireInv
    <3>8. CASE status' = "JSONDecodeError"
      <4>1. turn' = Absent /\ finish' = Absent
        BY <2>1, <3>4, <3>5, <3>8
      <4> QED BY <3>6, <3>8, <4>1 DEF WireInv
    <3> QED BY <3>4, <3>7, <3>8
  <2> QED BY <2>2, <2>10, <2>11
<1>5. ASSUME NEW C \in SUBSET Unsent, NEW finishes \in BOOLEAN, NEW counts \in BOOLEAN, Chunk(C, finishes, counts)
      PROVE  WireInv'
  <2> DEFINE es == UNION {PieceEvents(c, message.pieces[c][sent[c] + 1]) : c \in C}
             t == [c \in DOMAIN sent |-> IF c \in C THEN sent[c] + 1 ELSE sent[c]]
  <2>1. /\ status = "streaming" /\ events = << >> /\ status' = status /\ message' = message
        /\ sent' = t /\ opened' = opened \cup {x.event.index : x \in es} /\ events' = Listing(es)
        /\ assembler' = assembler /\ turn' = turn
        /\ finish' = (IF finishes THEN message.finish ELSE finish)
        /\ usage' = (IF counts THEN message.usage ELSE usage)
        /\ finishes => C = Unsent /\ \A c \in C : sent[c] + 1 = Len(message.pieces[c])
    BY <1>5 DEF Chunk
  <2>2. /\ Sending(message, t) /\ Streams(message, t, es, assembler)
        /\ opened \cup {x.event.index : x \in es} = {BlockIndex(c) : c \in Begun(message, t)}
    <3>1. t = [c \in DOMAIN sent |-> IF c \in C THEN sent[c] + 1 ELSE sent[c]]
      OBVIOUS
    <3>2. Streams(message, sent, {}, assembler)
      BY <1>3, <2>1
    <3> HIDE DEF t
    <3> QED BY <1>2, <3>1, <3>2, StreamsChunk
  <2>3. finish' # Absent => finish' = message.finish /\ t = Full(message)
    <3> SUFFICES ASSUME finish' # Absent PROVE finish' = message.finish /\ t = Full(message)
      OBVIOUS
    <3>1. finish' = message.finish
      BY <1>2, <2>1
    <3>2. \A c \in DOMAIN message.pieces : sent[c] \in Nat /\ Len(message.pieces[c]) \in Nat /\ sent[c] <= Len(message.pieces[c])
      BY <1>2, PieceIs DEF Sending
    <3>3. DOMAIN sent = DOMAIN message.pieces
      BY <1>2 DEF Sending
    <3>4. ASSUME NEW c \in DOMAIN message.pieces PROVE t[c] = Len(message.pieces[c])
      <4>1. CASE finishes
        <5>1. c \notin C => ~(sent[c] < Len(message.pieces[c]))
          BY <2>1, <3>3, <4>1 DEF Unsent
        <5>2. c \in C => sent[c] + 1 = Len(message.pieces[c])
          BY <2>1, <4>1
        <5> QED BY <3>2, <3>3, <5>1, <5>2
      <4>2. CASE ~finishes
        <5>1. sent[c] = Len(message.pieces[c])
          BY <1>2, <2>1, <4>2 DEF Full
        <5>2. c \notin C
          BY <3>2, <5>1 DEF Unsent
        <5> QED BY <3>3, <5>1, <5>2
      <4> QED BY <4>1, <4>2
    <3> QED BY <3>1, <3>3, <3>4 DEF Full
  <2> HIDE DEF es, t
  <2>4. usage' # Absent => usage' = message.usage
    BY <1>2, <2>1
  <2>5. turn = Absent
    BY <1>3, <2>1
  <2> QED BY <1>2, <2>1, <2>2, <2>3, <2>4, <2>5 DEF WireInv
<1>6. ASSUME StreamEnds PROVE WireInv'
  <2> DEFINE R == {Stamped(<<0, i, 0>>, ContentBlockStop(i)) : i \in opened}
                    \cup {Report(finish, usage), Stamped(<<1, 1, 0>>, MessageStop)}
  <2>1. /\ status = "streaming" /\ events = << >> /\ status' = "draining" /\ events' = Listing(R)
        /\ message' = message /\ sent' = sent /\ opened' = opened /\ finish' = finish /\ usage' = usage
        /\ assembler' = assembler /\ turn' = turn
    BY <1>6 DEF StreamEnds, Report, Reason, Count
  <2>2. R # {} /\ Streams(message, sent, R, assembler) /\ Ending(R, assembler, finish, usage)
    BY <1>2, <1>3, <2>1, StreamsEnd
  <2>3. turn = Absent
    BY <1>3, <2>1
  <2> HIDE DEF R
  <2> QED BY <1>2, <2>1, <2>2, <2>3 DEF WireInv
<1>7. ASSUME StreamBreaks PROVE WireInv'
  <2>1. turn = Absent
    BY <1>3, <1>7 DEF StreamBreaks
  <2> QED BY <1>2, <1>7, <2>1 DEF StreamBreaks, WireInv
<1>8. CASE UNCHANGED streamVars
  BY <1>1, <1>8 DEF WireInv
<1> QED BY <1>1, <1>4, <1>5, <1>6, <1>7, <1>8 DEF StreamNext, Ask

LEMMA StreamInvariant == StreamSpec => [](MockInv /\ WireInv)
<1>1. StreamInit => MockInv /\ WireInv
  BY MockStarts, WireStarts
<1>2. MockInv /\ WireInv /\ [StreamNext]_streamVars => (MockInv /\ WireInv)'
  BY MockSteps, WireSteps
<1> QED BY <1>1, <1>2, PTL DEF StreamSpec

\* One turn whatever the framing.
LEMMA InvAssembled == MockInv /\ WireInv => AssembledIsSent
<1> SUFFICES ASSUME MockInv, WireInv PROVE AssembledIsSent
  OBVIOUS
<1>1. ASSUME provider = "mock", turn # Absent PROVE turn = Whole(script[cursor])
  BY <1>1 DEF MockInv
<1>2. ASSUME provider = "openrouter", finish # Absent
      PROVE  /\ status # "JSONDecodeError"
             /\ turn # Absent =>
                  turn = AssistantTurn(Said, StopReason(message.finish), IF usage = Absent THEN 0 ELSE usage)
  <2>1. status # "JSONDecodeError" /\ WireMessage(message) /\ finish = message.finish /\ sent = Full(message)
    BY <1>2, ProviderAssumption DEF WireInv
  <2>2. turn # Absent => turn = AssistantTurn(BlocksOf(message, sent), Reason(finish), Count(usage))
    BY <1>2 DEF WireInv
  <2>3. BlocksOf(message, sent) = Said
    BY <2>1, SaidIs
  <2>4. Reason(finish) = StopReason(message.finish) /\ Count(usage) = IF usage = Absent THEN 0 ELSE usage
    BY <1>2, <2>1 DEF Reason, Count
  <2> QED BY <2>1, <2>2, <2>3, <2>4
<1> QED BY <1>1, <1>2 DEF AssembledIsSent, Whole

\* What was sent of a channel is the beginning of what it says, of a call all of it.
LEMMA PartIsPrefix ==
  ASSUME NEW a \in Texts, NEW rest \in Texts
  PROVE  /\ IsPrefix(a, a \o rest)
         /\ IsJson(a) /\ IsArguments(a \o rest) => a = a \o rest
<1> DEFINE b == a \o rest
<1>1. a \in Seq(Nat) /\ rest \in Seq(Nat) /\ Len(a) \in Nat /\ Len(rest) \in Nat
  BY LenProperties DEF Texts
<1>2. /\ b \in Seq(Nat) /\ Len(b) = Len(a) + Len(rest) /\ DOMAIN b = 1 .. Len(b)
      /\ \A i \in 1 .. Len(a) : b[i] = a[i]
  <2>1. /\ b \in Seq(Nat) /\ Len(b) = Len(a) + Len(rest)
        /\ \A i \in 1 .. Len(a) + Len(rest) : b[i] = IF i <= Len(a) THEN a[i] ELSE rest[i - Len(a)]
    BY <1>1, ConcatProperties
  <2>2. \A i \in 1 .. Len(a) : i \in 1 .. Len(a) + Len(rest) /\ i <= Len(a)
    BY <1>1
  <2> HIDE DEF b
  <2> QED BY <2>1, <2>2, LenProperties
<1>3. IsPrefix(a, b)
  <2>1. CASE Len(a) = 0
    <3>1. SubSeq(a, 1, 0) = << >> /\ SubSeq(b, 1, 0) = << >>
      BY <1>1, <1>2, SubSeqEmpty
    <3> HIDE DEF b
    <3> QED BY <1>1, <1>2, <2>1, <3>1 DEF IsPrefix
  <2>2. CASE Len(a) # 0
    <3>1. 1 \in 1 .. Len(a) /\ Len(a) \in 1 .. Len(a)
      BY <1>1, <2>2
    <3>2. SubSeq(b, 1, Len(a)) = SubSeq(a, 1, Len(a))
      BY <1>1, <3>1, SubSeqOfConcat1
    <3> HIDE DEF b
    <3> QED BY <1>1, <1>2, <3>2 DEF IsPrefix
  <2> QED BY <2>1, <2>2
<1>4. ASSUME IsJson(a), IsArguments(b) PROVE a = b
  <2>1. Len(a) \in 1 .. Len(a) /\ a[Len(a)] = 0
    <3>1. a # << >> /\ a[Len(a)] = 0
      BY <1>4 DEF IsJson, Last
    <3>2. Len(a) # 0
      BY <1>1, <3>1, EmptySeq
    <3> QED BY <1>1, <3>1, <3>2
  <2>2. Len(a) \in DOMAIN b /\ b[Len(a)] = 0
    <3> HIDE DEF b
    <3>1. b[Len(a)] = a[Len(a)]
      BY <1>2, <2>1
    <3>2. Len(a) \in 1 .. Len(b)
      BY <1>1, <1>2, <2>1
    <3> QED BY <1>2, <2>1, <3>1, <3>2
  <2>3. Len(a) = Len(b)
    <3> HIDE DEF b
    <3> QED BY <1>4, <2>2 DEF IsArguments
  <2>4. rest = << >>
    <3>1. Len(rest) = 0
      <4> HIDE DEF b
      <4> QED BY <1>1, <1>2, <2>3
    <3> QED BY <1>1, <3>1, EmptySeq
  <2> QED BY <1>1, <2>4, ConcatEmptySeq
<1> QED BY <1>3, <1>4

LEMMA InvPartial == WireInv => PartialTurnIsPrefix
<1> SUFFICES ASSUME WireInv, provider = "openrouter", turn # Absent
             PROVE  /\ finish = Absent => turn.stop_reason = "end_turn"
                    /\ \A k \in DOMAIN turn.content :
                         LET b == turn.content[k]
                         IN  \E j \in DOMAIN Said :
                               /\ Said[j].kind = b.kind /\ Said[j].id = b.id
                               /\ IF b.kind = "tool_use" THEN b.text \in {<< >>, Said[j].text} ELSE IsPrefix(b.text, Said[j].text)
  BY DEF PartialTurnIsPrefix
<1> DEFINE full == Full(message)
           said == BlocksOf(message, full)
           content == BlocksOf(message, sent)
<1>1. WireMessage(message) /\ Sending(message, sent) /\ WholeCalls(message, sent)
  BY ProviderAssumption DEF WireInv
<1>2. turn.content = content /\ turn.stop_reason = Reason(finish)
  BY DEF WireInv, AssistantTurn
<1>3. Said = said /\ Sending(message, full)
  BY <1>1, SaidIs, FullIs
<1>4. finish = Absent => turn.stop_reason = "end_turn"
  BY <1>2 DEF Reason
<1> HIDE DEF full, said, content
<1>5. ASSUME NEW k \in DOMAIN content
      PROVE  \E j \in DOMAIN said :
               /\ said[j].kind = content[k].kind /\ said[j].id = content[k].id
               /\ IF content[k].kind = "tool_use" THEN content[k].text \in {<< >>, said[j].text}
                  ELSE IsPrefix(content[k].text, said[j].text)
  <2>1. PICK c \in Begun(message, sent) : content[k] = BlockFor(message, sent, c)
    BY <1>1, BlocksHold DEF content
  <2> DEFINE a == Of(message, c, sent[c])
             w == Of(message, c, full[c])
  <2>2. /\ c \in DOMAIN message.pieces /\ c \in Channel /\ a \in Texts
        /\ sent[c] \in 0 .. Len(message.pieces[c]) /\ full[c] = Len(message.pieces[c])
    <3>1. c \in DOMAIN message.pieces /\ c \in Channel /\ a \in Texts /\ sent[c] \in 1 .. Len(message.pieces[c])
      BY <1>1, BegunIs
    <3>2. Len(message.pieces[c]) \in Nat
      BY <1>1, <3>1, PieceIs
    <3> QED BY <3>1, <3>2 DEF full, Full
  <2>3. PICK rest \in Texts : w = a \o rest
    BY <1>1, <2>2, OfBegins
  <2>4. IsPrefix(a, w) /\ (IsJson(a) /\ IsArguments(w) => a = w)
    BY <2>2, <2>3, PartIsPrefix
  <2> HIDE DEF a, w
  <2>5. c \in Begun(message, full)
    <3>1. IsCall(c) \/ a # << >>
      BY DEF Begun, a
    <3>2. a # << >> => w # << >>
      <4>1. a \in Seq(Nat) /\ rest \in Seq(Nat)
        BY <2>2 DEF Texts
      <4> QED BY <2>3, <4>1, ConcatSimplifications
    <3> QED BY <1>1, <2>2, <3>1, <3>2, FullIs DEF full, w
  <2>6. PICK j \in DOMAIN said : said[j] = BlockFor(message, full, c)
    BY <1>3, <2>5, BlocksHold DEF said
  <2>7. /\ said[j].kind = content[k].kind /\ said[j].id = content[k].id
        /\ content[k].text = a /\ said[j].text = w
        /\ content[k].kind = "tool_use" <=> IsCall(c)
    <3>1. Opening(c, message.pieces[c][1]).kind = Kind(c)
      BY DEF Opening, Stub
    <3> QED BY <2>1, <2>2, <2>6, <3>1, BlockIndexIs DEF BlockFor, Block, a, w
  <2>8. IsCall(c) => a \in {<< >>, w}
    <3>1. IsCall(c) => (w = << >> \/ IsArguments(w)) /\ (a = << >> \/ IsJson(a))
      BY <1>1, <2>2, FullIs DEF WholeCalls, full, a, w
    <3>2. w = << >> => a = << >>
      <4>1. a \in Seq(Nat) /\ rest \in Seq(Nat)
        BY <2>2 DEF Texts
      <4> QED BY <2>3, <4>1, ConcatSimplifications
    <3> QED BY <2>4, <3>1, <3>2
  <2> QED BY <2>4, <2>7, <2>8
<1> QED BY <1>2, <1>3, <1>4, <1>5

\* One turn whatever the framing: what MockProvider was scripted to say and what a
\* server sent in any chunks is what drain() returns, and no stream that was finished
\* is refused (_assembler.py, mock_provider.py, openrouter.py).
THEOREM SentIsAssembled == StreamSpec => []AssembledIsSent
BY StreamInvariant, InvAssembled, PTL

\* A stream that ends early gives the beginning of its message, calls whole or empty.
THEOREM PartsArePrefixes == StreamSpec => []PartialTurnIsPrefix
BY StreamInvariant, InvPartial, PTL
=============================================================================
