--------------------------- MODULE ObserveStream ---------------------------
(***************************************************************************)
(* InMemoryStore.observe: an async generator that replays the log after a  *)
(* cursor and then follows it live.  Appends fan out to the queues of the  *)
(* registered observers.  The log is one total order, so an entry is       *)
(* represented by its offset.                                              *)
(*                                                                         *)
(* The consumer side is what every projection does: open at its saved      *)
(* cursor, take entries, save the cursor of the last one handled, and be   *)
(* closed (aclose, cancellation or a crash) at any point.                  *)
(***************************************************************************)
EXTENDS Naturals, Sequences

CONSTANTS
  Observer,   \* concurrent consumers
  MaxLog,     \* bound: entries the log may hold
  MaxOpen,    \* bound: times each consumer opens a stream
  None        \* no cursor

ASSUME StreamAssumption == MaxLog \in Nat /\ MaxOpen \in Nat /\ None \notin Nat

VARIABLES
  length,     \* len(_Index.log): offsets 0 .. length-1 are logged
  phase,      \* of each generator: closed, created (body not entered),
              \* backlog or live
  since,      \* the cursor each generator was opened with
  backlog,    \* the rest of the slice it replays
  ids,        \* backlog_ids: what the slice held and the queue has not
  queue,      \* its asyncio.Queue
  delivered,  \* what it has yielded since it was opened
  saved,      \* the cursor each consumer has persisted
  handled,    \* history: every entry a consumer has handled and saved
  opens       \* openings so far, for the bound

stream == <<phase, since, backlog, ids, queue, delivered>>
vars == <<length, stream, saved, handled, opens>>

Phase == {"closed", "created", "backlog", "live"}
Cursor == Nat \cup {None}

Registered(o) == phase[o] \in {"backlog", "live"}

\* The offsets a .. b-1 in order.
Offsets(a, b) == [n \in 1 .. (IF b > a THEN b - a ELSE 0) |-> a + n - 1]

ItemsOf(s) == {s[n] : n \in DOMAIN s}

Init ==
  /\ length = 0
  /\ phase = [o \in Observer |-> "closed"]
  /\ since = [o \in Observer |-> None]
  /\ backlog = [o \in Observer |-> << >>]
  /\ ids = [o \in Observer |-> {}]
  /\ queue = [o \in Observer |-> << >>]
  /\ delivered = [o \in Observer |-> << >>]
  /\ saved = [o \in Observer |-> None]
  /\ handled = [o \in Observer |-> {}]
  /\ opens = [o \in Observer |-> 0]

----------------------------------------------------------------------------
(* Bugs for the mutation runs: a fan-out that skips observers still on     *)
(* their backlog, one whose queue is unregistered at the end of the        *)
(* replay, a cursor taken before its entry is yielded, ...                 *)

FanOutLiveOnly(e) ==
  queue' = [o \in Observer |->
              IF phase[o] = "live" THEN Append(queue[o], e) ELSE queue[o]]

FanOutReplayOnly(e) ==
  queue' = [o \in Observer |->
              IF phase[o] = "backlog" THEN Append(queue[o], e) ELSE queue[o]]

NextCursor(o) ==
  IF backlog[o] # << >> THEN Head(backlog[o])
  ELSE IF delivered[o] # << >> THEN delivered[o][Len(delivered[o])] ELSE None

----------------------------------------------------------------------------
(* The store's side.                                                       *)

FanOut(e) ==
  queue' = [o \in Observer |->
              IF Registered(o) THEN Append(queue[o], e) ELSE queue[o]]

AppendEntry ==
  /\ length < MaxLog
  /\ length' = length + 1
  /\ FanOut(length)
  /\ UNCHANGED <<phase, since, backlog, ids, delivered, saved, handled, opens>>

\* The first offset after the cursor the stream was opened with.
First(o) == IF since[o] = None THEN 0 ELSE since[o] + 1

\* ... and a slice that starts at the cursor instead of after it.
StartAtCursor(o) ==
  LET first == IF since[o] = None THEN 0 ELSE since[o]
  IN  /\ phase[o] = "created"
      /\ phase' = [phase EXCEPT ![o] = "backlog"]
      /\ backlog' = [backlog EXCEPT ![o] = Offsets(first, length)]
      /\ ids' = [ids EXCEPT ![o] = ItemsOf(Offsets(first, length))]
      /\ queue' = [queue EXCEPT ![o] = << >>]
      /\ UNCHANGED <<length, since, delivered, saved, handled, opens>>

\* The generator's body is entered on the first __anext__: the queue is
\* registered and the slice taken in one step, with nothing in between.
Start(o) ==
  /\ phase[o] = "created"
  /\ phase' = [phase EXCEPT ![o] = "backlog"]
  /\ backlog' = [backlog EXCEPT ![o] = Offsets(First(o), length)]
  /\ ids' = [ids EXCEPT ![o] = ItemsOf(Offsets(First(o), length))]
  /\ queue' = [queue EXCEPT ![o] = << >>]
  /\ UNCHANGED <<length, since, delivered, saved, handled, opens>>

YieldBacklog(o) ==
  /\ phase[o] = "backlog"
  /\ backlog[o] # << >>
  /\ delivered' = [delivered EXCEPT ![o] = Append(@, Head(backlog[o]))]
  /\ backlog' = [backlog EXCEPT ![o] = Tail(@)]
  /\ UNCHANGED <<length, phase, since, ids, queue, saved, handled, opens>>

GoLive(o) ==
  /\ phase[o] = "backlog"
  /\ backlog[o] = << >>
  /\ phase' = [phase EXCEPT ![o] = "live"]
  /\ UNCHANGED <<length, since, backlog, ids, queue, delivered, saved, handled, opens>>

\* An entry already delivered from the slice is dropped, once.
YieldLive(o) ==
  LET e == Head(queue[o])
  IN  /\ phase[o] = "live"
      /\ queue[o] # << >>
      /\ queue' = [queue EXCEPT ![o] = Tail(@)]
      /\ ids' = [ids EXCEPT ![o] = @ \ {e}]
      /\ delivered' = [delivered EXCEPT ![o] = IF e \in ids[o] THEN @ ELSE Append(@, e)]
      /\ UNCHANGED <<length, phase, since, backlog, saved, handled, opens>>

----------------------------------------------------------------------------
(* The consumer's side.                                                    *)

Open(o) ==
  /\ phase[o] = "closed" /\ opens[o] < MaxOpen
  /\ phase' = [phase EXCEPT ![o] = "created"]
  /\ since' = [since EXCEPT ![o] = saved[o]]
  /\ delivered' = [delivered EXCEPT ![o] = << >>]
  /\ opens' = [opens EXCEPT ![o] = @ + 1]
  /\ UNCHANGED <<length, backlog, ids, queue, saved, handled>>

\* The cursor of the last entry taken.
LastCursor(o) ==
  IF delivered[o] # << >> THEN delivered[o][Len(delivered[o])] ELSE None

\* Handle what has been yielded and persist the cursor of the last entry.
Save(o) ==
  /\ LastCursor(o) \notin {None, saved[o]}
  /\ phase[o] # "closed"
  /\ saved' = [saved EXCEPT ![o] = LastCursor(o)]
  /\ handled' = [handled EXCEPT ![o] = @ \cup ItemsOf(delivered[o])]
  /\ UNCHANGED <<length, stream, opens>>

\* aclose, a cancelled __anext__ or a crash: the finally discards the queue.
Close(o) ==
  /\ phase[o] # "closed"
  /\ phase' = [phase EXCEPT ![o] = "closed"]
  /\ backlog' = [backlog EXCEPT ![o] = << >>]
  /\ ids' = [ids EXCEPT ![o] = {}]
  /\ queue' = [queue EXCEPT ![o] = << >>]
  /\ delivered' = [delivered EXCEPT ![o] = << >>]
  /\ since' = [since EXCEPT ![o] = None]
  /\ UNCHANGED <<length, saved, handled, opens>>

Generate(o) == Start(o) \/ YieldBacklog(o) \/ GoLive(o) \/ YieldLive(o)

Next ==
  \/ AppendEntry
  \/ \E o \in Observer : Generate(o) \/ Open(o) \/ Save(o) \/ Close(o)

\* The generator runs whenever its consumer asks, and projections loop on it.
Fairness == \A o \in Observer : WF_vars(Generate(o))

Spec == Init /\ [][Next]_vars
FairSpec == Spec /\ Fairness

----------------------------------------------------------------------------
(* Properties.                                                             *)

TypeOK ==
  /\ length \in Nat
  /\ phase \in [Observer -> Phase]
  /\ since \in [Observer -> Cursor]
  /\ backlog \in [Observer -> Seq(Nat)]
  /\ ids \in [Observer -> SUBSET Nat]
  /\ queue \in [Observer -> Seq(Nat)]
  /\ delivered \in [Observer -> Seq(Nat)]
  /\ saved \in [Observer -> Cursor]
  /\ handled \in [Observer -> SUBSET Nat]
  /\ opens \in [Observer -> Nat]

\* A stream is gap-free, duplicate-free and in log order: what it has yielded is
\* the log from just after its cursor, entry by entry, however appends interleave
\* with the replay.
DeliveredInOrder ==
  \A o \in Observer : \A n \in DOMAIN delivered[o] :
    delivered[o][n] = First(o) + n - 1

\* Nothing is lost or doubled at the seam between replay and live: the rest of
\* the slice followed by the queue is exactly the rest of the log, and nothing
\* queued was in the slice.
NothingLost ==
  \A o \in Observer : Registered(o) =>
    /\ backlog[o] \o queue[o] = Offsets(First(o) + Len(delivered[o]), length)
    /\ ItemsOf(queue[o]) \cap ids[o] = {}

\* A consumer that resumes from its saved cursor has handled every entry up to
\* it: closing, crashing and reopening lose nothing.
ResumeLosesNothing ==
  \A o \in Observer : saved[o] # None => \A e \in 0 .. saved[o] : e \in handled[o]

\* A stream that stays open delivers every entry logged after its cursor: those of its
\* backlog and those appended before its body is entered, during the replay or live.
EventuallyDelivered ==
  \A o \in Observer, e \in 0 .. MaxLog - 1 :
    (phase[o] # "closed" /\ e >= First(o) /\ e < length)
      ~> (phase[o] = "closed" \/ e \in ItemsOf(delivered[o]))
=============================================================================
