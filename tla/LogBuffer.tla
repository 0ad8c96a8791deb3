----------------------------- MODULE LogBuffer -----------------------------
(***************************************************************************)
(* The server's own log: internal/logbuffer's ring buffer, the slog        *)
(* handler that writes to it, and the streams of the "self" provider that  *)
(* follow it.                                                              *)
(*                                                                         *)
(* Any goroutine may log (a writer).  Handle stores the entry and copies   *)
(* the set of subscribers under the buffer's lock, then offers the entry   *)
(* to each of those channels without the lock, then hands it to the file.  *)
(* A follower replays a snapshot, then subscribes, then forwards what its  *)
(* channel receives until it is cancelled.                                 *)
(*                                                                         *)
(* An entry is the number of its turn in the buffer: 1 is stored first.    *)
(* A subscription id, never reused, is the follower that holds it.         *)
(***************************************************************************)
EXTENDS Integers, Sequences, FiniteSets

CONSTANTS
  Writers,      \* goroutines that log
  Followers,    \* streams of the self provider
  Size,         \* entries the ring holds
  Capacity,     \* entries a subscriber's channel holds
  Tails,        \* values of StreamOpts.Tail
  MaxEntries    \* bound on the entries logged

ASSUME SizeAssumption == Size \in Nat \ {0}
ASSUME BoundAssumption ==
  /\ Capacity \in Nat \ {0}
  /\ MaxEntries \in Nat
  /\ Tails \subseteq Nat

VARIABLES
  entries, pos, full,   \* the ring
  subs,                 \* subscribers
  chan,                 \* follower -> what its channel holds
  closed,               \* followers whose channel is closed
  wpc, mine, targets,   \* writer -> where it is, its entry, channels left to offer it to
  filed,                \* entries handed to the file
  fpc, follow,          \* follower -> where it is, StreamOpts.Follow
  pending,              \* follower -> entries taken but not yet sent on
  got,                  \* follower -> entries sent on
  \* history, read by the properties only:
  stored,               \* number of entries stored
  base,                 \* follower -> the entries that were to reach it by replay
  joined,               \* follower -> number of entries stored when it subscribed
  dropped,              \* follower -> entries its full channel refused
  crossed               \* <<x, y>>: x was still being offered when y was stored

ring      == <<entries, pos, full>>
writers   == <<wpc, mine, targets>>
followers == <<fpc, follow, pending, got>>
history   == <<base, joined, crossed>>
vars == <<ring, subs, chan, closed, writers, filed, followers, stored, dropped, history>>

Slots == 0..(Size - 1)
Entries == 1..MaxEntries
Elems(s) == {s[i] : i \in 1..Len(s)}

Init ==
  /\ entries = [i \in Slots |-> 0] /\ pos = 0 /\ full = FALSE
  /\ subs = {} /\ closed = {} /\ filed = {} /\ stored = 0 /\ crossed = {}
  /\ chan = [f \in Followers |-> <<>>]
  /\ wpc = [w \in Writers |-> "idle"]
  /\ mine = [w \in Writers |-> 0]
  /\ targets = [w \in Writers |-> {}]
  /\ fpc = [f \in Followers |-> "idle"]
  /\ follow = [f \in Followers |-> FALSE]
  /\ pending = [f \in Followers |-> <<>>]
  /\ got = [f \in Followers |-> <<>>]
  /\ base = [f \in Followers |-> {}]
  /\ joined = [f \in Followers |-> 0]
  /\ dropped = [f \in Followers |-> {}]

-----------------------------------------------------------------------------
(* Write, under the lock: store the entry, copy the subscribers. *)
AdvanceOn(p) == p + 1                   \* fault: no wrap-around

Advance(p) == (p + 1) % Size

NeverFull(p) == full                    \* fault: the ring never counts as full

Wrapped(p) == full \/ Advance(p) = 0

Store(w) ==
  /\ wpc[w] = "idle"
  /\ stored < MaxEntries
  /\ entries' = [entries EXCEPT ![pos] = stored + 1]
  /\ full' = Wrapped(pos)
  /\ pos' = Advance(pos)
  /\ wpc' = [wpc EXCEPT ![w] = "offer"]
  /\ mine' = [mine EXCEPT ![w] = stored + 1]
  /\ targets' = [targets EXCEPT ![w] = subs]
  /\ stored' = stored + 1
  /\ crossed' = crossed \cup {<<mine[v], stored + 1>> : v \in {v \in Writers : wpc[v] # "idle"}}
  /\ UNCHANGED <<subs, chan, closed, filed, followers, base, joined, dropped>>

(* Write, after the lock: a non-blocking send.  Sending on a closed channel
   panics, which ends the writer's goroutine. *)
CopiedLate(w) == subs                   \* fault: subscribers read after the lock

Copied(w) == targets[w]

HasRoom(f) == Len(chan[f]) < Capacity

Offered(w, f) ==
  /\ wpc[w] = "offer"
  /\ f \in Copied(w) \ closed
  /\ targets' = [targets EXCEPT ![w] = @ \ {f}]
  /\ UNCHANGED <<ring, subs, closed, wpc, mine, filed, followers, stored, history>>

Send(w, f) ==
  /\ Offered(w, f)
  /\ HasRoom(f)
  /\ chan' = [chan EXCEPT ![f] = Append(@, mine[w])]
  /\ UNCHANGED dropped

DropNever(w, f) == FALSE                \* fault: the select has no default case

Drop(w, f) ==
  /\ Offered(w, f)
  /\ ~HasRoom(f)
  /\ dropped' = [dropped EXCEPT ![f] = @ \cup {mine[w]}]
  /\ UNCHANGED chan

OfferClosed(w, f) ==
  /\ wpc[w] = "offer"
  /\ f \in targets[w] \cap closed
  /\ wpc' = [wpc EXCEPT ![w] = "panicked"]
  /\ UNCHANGED <<ring, subs, chan, closed, mine, targets, filed, followers,
                 stored, dropped, history>>

(* Handle, after Write: standard error and the log file. *)
File(w) ==
  /\ wpc[w] = "offer" /\ targets[w] = {}
  /\ filed' = filed \cup {mine[w]}
  /\ wpc' = [wpc EXCEPT ![w] = "idle"]
  /\ mine' = [mine EXCEPT ![w] = 0]
  /\ UNCHANGED <<ring, subs, chan, closed, targets, followers, stored, dropped, history>>

-----------------------------------------------------------------------------
Held == IF full THEN Size ELSE pos

Asked(n) == IF n <= 0 \/ n > Held THEN Held ELSE n

StartLate(n) == (pos - n + Size + 1) % Size   \* fault: off by one

Start(n) == IF full THEN (pos - n + Size) % Size ELSE pos - n

(* Snapshot, under the read lock. *)
Snapshot(n) ==
  [i \in 1..Asked(n) |-> entries[(Start(Asked(n)) + i - 1) % Size]]

(* Stream: the goroutine starts with the snapshot, if one is wanted. *)
Open(f, n, following) ==
  LET replay == IF n > 0 THEN Snapshot(n) ELSE <<>> IN
  /\ fpc[f] = "idle"
  /\ fpc' = [fpc EXCEPT ![f] = "replay"]
  /\ follow' = [follow EXCEPT ![f] = following]
  /\ pending' = [pending EXCEPT ![f] = replay]
  /\ base' = [base EXCEPT ![f] = Elems(replay)]
  /\ UNCHANGED <<ring, subs, chan, closed, writers, filed, got, stored,
                 joined, dropped, crossed>>

(* The next entry goes to the stream's reader, once the reader takes it. *)
Deliver(f) ==
  /\ fpc[f] \in {"replay", "follow"}
  /\ pending[f] # <<>>
  /\ got' = [got EXCEPT ![f] = Append(@, Head(pending[f]))]
  /\ pending' = [pending EXCEPT ![f] = Tail(@)]
  /\ UNCHANGED <<ring, subs, chan, closed, writers, filed, fpc, follow,
                 stored, dropped, history>>

(* The stream is over: its goroutine returns, and what it held is forgotten. *)
Return(f) ==
  /\ fpc' = [fpc EXCEPT ![f] = "done"]
  /\ pending' = [pending EXCEPT ![f] = <<>>]
  /\ chan' = [chan EXCEPT ![f] = <<>>]
  /\ got' = [got EXCEPT ![f] = <<>>]
  /\ base' = [base EXCEPT ![f] = {}]
  /\ joined' = [joined EXCEPT ![f] = 0]
  /\ dropped' = [dropped EXCEPT ![f] = {}]

End(f) ==
  /\ fpc[f] = "replay" /\ pending[f] = <<>> /\ ~follow[f]
  /\ Return(f)
  /\ UNCHANGED <<ring, subs, closed, writers, filed, follow, stored, crossed>>

Subscribe(f) ==
  /\ fpc[f] = "replay" /\ pending[f] = <<>> /\ follow[f]
  /\ fpc' = [fpc EXCEPT ![f] = "follow"]
  /\ subs' = subs \cup {f}
  /\ joined' = [joined EXCEPT ![f] = stored]
  /\ UNCHANGED <<ring, chan, closed, writers, filed, follow, pending, got,
                 stored, dropped, base, crossed>>

Receive(f) ==
  /\ fpc[f] = "follow" /\ pending[f] = <<>> /\ chan[f] # <<>>
  /\ pending' = [pending EXCEPT ![f] = <<Head(chan[f])>>]
  /\ chan' = [chan EXCEPT ![f] = Tail(@)]
  /\ UNCHANGED <<ring, subs, closed, writers, filed, fpc, follow, got,
                 stored, dropped, history>>

(* The stream's context ends.  Unsubscribe deletes and closes under the lock. *)
StaysSubscribed(f) == subs              \* fault: closed but not deleted

Unsubscribed(f) == subs \ {f}

Cancel(f) ==
  /\ \/ fpc[f] = "follow"
     \/ fpc[f] = "replay" /\ pending[f] # <<>>
  /\ subs' = Unsubscribed(f)
  /\ closed' = IF fpc[f] = "follow" THEN closed \cup {f} ELSE closed
  /\ Return(f)
  /\ UNCHANGED <<ring, writers, filed, follow, stored, crossed>>

-----------------------------------------------------------------------------
Offer(w, f) == Send(w, f) \/ Drop(w, f) \/ OfferClosed(w, f)

Finishing(w) == (\E f \in Followers : Offer(w, f)) \/ File(w)

Forward(f) == Deliver(f) \/ End(f) \/ Subscribe(f) \/ Receive(f)

Next ==
  \/ \E w \in Writers : Store(w) \/ Finishing(w)
  \/ \E f \in Followers :
       \/ \E n \in Tails, following \in BOOLEAN : Open(f, n, following)
       \/ Forward(f)
       \/ Cancel(f)

(* A writer's goroutine runs on.  Nothing obliges anyone to log, to open a
   stream, to cancel one, or to read from one. *)
Spec == Init /\ [][Next]_vars /\ \A w \in Writers : WF_vars(Finishing(w))
-----------------------------------------------------------------------------
TypeOK ==
  /\ entries \in [Slots -> 0..MaxEntries] /\ pos \in Slots /\ full \in BOOLEAN
  /\ stored \in 0..MaxEntries
  /\ subs \subseteq Followers /\ closed \subseteq Followers
  /\ filed \subseteq Entries
  /\ crossed \subseteq Entries \X Entries
  /\ chan \in [Followers -> Seq(Entries)]
  /\ wpc \in [Writers -> {"idle", "offer", "panicked"}]
  /\ mine \in [Writers -> 0..MaxEntries]
  /\ targets \in [Writers -> SUBSET Followers]
  /\ fpc \in [Followers -> {"idle", "replay", "follow", "done"}]
  /\ follow \in [Followers -> BOOLEAN]
  /\ pending \in [Followers -> Seq(Entries)]
  /\ got \in [Followers -> Seq(Entries)]
  /\ base \in [Followers -> SUBSET Entries]
  /\ joined \in [Followers -> 0..MaxEntries]
  /\ dropped \in [Followers -> SUBSET Entries]
  /\ \A f \in Followers : Len(chan[f]) <= Capacity

(* "captures the last 2,000 log lines in a ring buffer": whatever the number of
   entries asked for, before and after the ring has wrapped, a snapshot is the
   newest entries in the order they were stored. *)
SnapshotIsTail ==
  \A n \in 0..(Size + 1) :
    LET k == IF n = 0 \/ n > Size THEN Size ELSE n
        m == IF k > stored THEN stored ELSE k
    IN Snapshot(n) = [i \in 1..m |-> stored - m + i]

Stream(f)   == got[f] \o pending[f] \o chan[f]
Underway(f) == {mine[w] : w \in {w \in Writers : f \in targets[w]}}

(* No stream repeats an entry, although it replays a snapshot before it
   subscribes and entries are offered to its channel outside the lock. *)
NoEntryTwice ==
  \A f \in Followers :
    /\ \A i, j \in 1..Len(Stream(f)) : i # j => Stream(f)[i] # Stream(f)[j]
    /\ Elems(Stream(f)) \cap Underway(f) = {}

(* A stream that follows the log misses exactly two kinds of entry: those stored
   between its snapshot and its subscription, and those its full channel
   refused.  Every other entry reaches it, or its writer has still to offer it,
   unless that writer panicked before it came to this stream. *)
NothingElseMissed ==
  \A f \in Followers : fpc[f] = "follow" =>
    Elems(Stream(f)) \cup dropped[f] \cup Underway(f)
      = base[f] \cup (joined[f] + 1)..stored

(* A stream may show two entries in the wrong order only when the older one was
   still being offered while the newer one was stored. *)
OrderedUnlessCrossed ==
  \A f \in Followers : \A i, j \in 1..Len(Stream(f)) :
    (i < j /\ Stream(f)[i] > Stream(f)[j]) => <<Stream(f)[j], Stream(f)[i]>> \in crossed

(* Closing a stream can panic a writer, which stored its entry while the stream
   was subscribed, but never a write that starts after the stream closed. *)
PanicOnlyOnCopiedChannel ==
  [][\A w \in Writers : wpc[w] = "idle" /\ wpc'[w] = "offer" => targets'[w] \cap closed = {}]_vars

(* A stream that nobody reads never holds a writer up: Handle always returns or
   panics, although it sends to every subscriber. *)
WritersNeverWait ==
  \A w \in Writers : wpc[w] = "offer" ~> wpc[w] # "offer"

(* server-mode.md: the self provider captures the log lines in a ring buffer
   "and, in server mode, also writes logs to /var/log/avalok". *)
CapturedIsFiled ==
  \A e \in 1..stored : e \in filed \/ \E w \in Writers : wpc[w] = "offer" /\ mine[w] = e

(* What a stream of the self provider is given: no entry twice, none missed
   but those told of above, and the others in order (Buffer.Write, Stream). *)
FollowedFaithfully == NoEntryTwice /\ NothingElseMissed /\ OrderedUnlessCrossed
=============================================================================
