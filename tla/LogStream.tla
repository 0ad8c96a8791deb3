----------------------------- MODULE LogStream -----------------------------
(***************************************************************************)
(* One open log stream over a WebSocket (handleWebSocketStream), with the  *)
(* fan-in of internal/stream.                                              *)
(*                                                                         *)
(* The handler writes the recent lines of every instance (a "source"),     *)
(* then opens a live stream of each from the moment before it fetched, and *)
(* forwards what they yield.  One goroutine per source moves entries into  *)
(* a shared channel, one reads the client's commands, and the handler      *)
(* drains the channel.  Any of them may stop first.                        *)
(*                                                                         *)
(* What a source yields is up to its provider.  Those that hand the time   *)
(* asked for on (docker, containerd, journalctl, kubernetes without        *)
(* tail_lines) are the sources in Exact: their history is the last lines,  *)
(* their live stream has everything from that time on, and perhaps a       *)
(* little before, as the time is cut to the second.  The entries of such a *)
(* source are numbered as it logs them, so a position is also a time.      *)
(* The others ignore the time: a file is read from its first line, tail -f *)
(* and Get-Content repeat lines, the server's own log and the Windows      *)
(* event log begin when they are opened, a bucket is read and polled.      *)
(* Their entries are numbered as the live stream yields them, and history  *)
(* and live stream may be any of them.  Where a provider reads two outputs *)
(* side by side (stdout and stderr, the containers of a pod) each of them  *)
(* counts as a source.                                                     *)
(***************************************************************************)
EXTENDS Integers, Sequences, FiniteSets

CONSTANTS
  Sources,      \* instances of the service
  Exact,        \* those whose provider honours the lines and time asked for
  Capacity,     \* of the merged channel
  TailLines,    \* the stream_tail_lines setting
  MaxLines,     \* bound on the entries of a source
  MaxCommands   \* bound on the client's pause and resume commands

ASSUME StreamAssumption ==
  /\ Capacity \in Nat \ {0} /\ TailLines \in Nat
  /\ MaxLines \in Nat /\ MaxCommands \in Nat
  /\ IsFiniteSet(Sources) /\ Exact \subseteq Sources

VARIABLES
  logged,     \* source -> entries it has logged
  live,       \* ?mode=live: no history
  phase,      \* of the handler: "accepted", "history", "streaming", "closed"
  since,      \* source -> the position its live stream starts after
  fetch,      \* sources whose history is still to be fetched
  opened,     \* sources whose live stream opened
  next,       \* source -> the next entry its live stream yields
  fwd,        \* source -> the entry its forwarder holds, or 0
  running,    \* sources whose forwarder still runs
  out,        \* the merged channel
  hold,       \* the entry the handler is about to write, or <<>>
  paused,     \* set by the client's commands
  reading,    \* the command reader runs
  cancelled,  \* the connection's context is done
  commands,   \* commands so far (bounded by MaxCommands)
  \* history, read by the properties only:
  shown,      \* entries written to the client
  discarded,  \* entries that came while paused
  last,       \* source -> its last entry written live
  late        \* entries written since the stream was last paused

fanin   == <<next, fwd, running, out>>
control == <<paused, reading, commands>>
account == <<shown, discarded, last, late>>
vars == <<logged, live, phase, since, fetch, opened, fanin, hold, control, cancelled, account>>

Init ==
  /\ logged = [s \in Sources |-> 0]
  /\ live \in BOOLEAN
  /\ phase = "accepted"
  /\ since = [s \in Sources |-> 0] /\ next = [s \in Sources |-> 0]
  /\ fwd = [s \in Sources |-> 0] /\ last = [s \in Sources |-> 0]
  /\ fetch = {} /\ opened = {} /\ running = {}
  /\ out = <<>> /\ hold = <<>>
  /\ paused = FALSE /\ reading = FALSE /\ cancelled = FALSE
  /\ commands = 0 /\ late = 0
  /\ shown = {} /\ discarded = {}

(* A provider's instance logs another entry, at any time.  Lines logged after
   the stream is over make no difference to it. *)
LogLine(s) ==
  /\ logged[s] < MaxLines
  /\ ~cancelled
  /\ logged' = [logged EXCEPT ![s] = @ + 1]
  /\ UNCHANGED <<live, phase, since, fetch, opened, fanin, hold, control, cancelled, account>>

-----------------------------------------------------------------------------
(* The client goes away, access is revoked, or the server stops. *)
Cancel ==
  /\ phase # "closed" /\ ~cancelled
  /\ cancelled' = TRUE
  /\ UNCHANGED <<logged, live, phase, since, fetch, opened, fanin, hold, control, account>>

(* The handler returns: its deferred calls cancel the context, and what it has
   shown is forgotten. *)
Return ==
  /\ phase' = "closed"
  /\ cancelled' = TRUE
  /\ hold' = <<>>
  /\ shown' = {} /\ discarded' = {} /\ late' = 0
  /\ last' = [s \in Sources |-> 0]
  /\ UNCHANGED <<logged, live, since, fetch, opened, fanin, control>>

(* fetchStart is taken before any history is fetched. *)
Start ==
  /\ phase = "accepted"
  /\ phase' = "history"
  /\ since' = logged
  /\ fetch' = IF TailLines > 0 /\ ~live THEN Sources ELSE {}
  /\ UNCHANGED <<logged, live, opened, fanin, hold, control, cancelled, account>>

(* Fetch the history of one source and write it: from Exact ones the last
   lines, at most TailLines of them, from the others any. *)
Newest(s) == {i..logged[s] : i \in {i \in 1..(logged[s] + 1) : logged[s] - i < TailLines}}

History(s) == {{s} \X es : es \in IF s \in Exact THEN Newest(s) ELSE SUBSET (1..logged[s])}

Fetch(s) ==
  /\ phase = "history" /\ s \in fetch /\ ~cancelled
  /\ fetch' = fetch \ {s}
  /\ \E lines \in History(s) : shown' = shown \cup lines
  /\ UNCHANGED <<logged, live, phase, since, opened, fanin, hold, control, cancelled,
                 discarded, last, late>>

FetchFails(s) ==
  /\ phase = "history" /\ s \in fetch
  /\ fetch' = fetch \ {s}
  /\ UNCHANGED <<logged, live, phase, since, opened, fanin, hold, control, cancelled, account>>

(* Open the live streams that can be opened, start the forwarders and the
   command reader.  first is where each of them begins. *)
FromNow == logged                 \* fault: live from the moment it opens

From == IF live THEN logged ELSE since

Begins(s) == 1..((IF s \in Exact THEN From[s] ELSE MaxLines) + 1)

Open(ok, first) ==
  /\ phase = "history" /\ fetch = {} /\ ok # {}
  /\ phase' = "streaming"
  /\ opened' = ok /\ running' = ok
  /\ since' = [s \in Sources |-> 0]       \* not read again
  /\ \A s \in ok : first[s] \in Begins(s)
  /\ next' = [s \in Sources |-> IF s \in ok THEN first[s] ELSE 0]
  /\ reading' = TRUE
  /\ UNCHANGED <<logged, live, fetch, fwd, out, hold, paused, commands, cancelled, account>>

OpenNone ==
  /\ phase = "history" /\ fetch = {}
  /\ Return

(* Writing the history fails. *)
HistoryAborts ==
  /\ phase = "history" /\ fetch # {} /\ cancelled
  /\ Return

-----------------------------------------------------------------------------
(* MergeAll: one forwarder per source. *)
RoundRobin(s) ==                  \* fault: every source takes its turn
  fwd[s] = 0 /\ \A t \in running : next[t] >= next[s]

MayTake(s) == fwd[s] = 0

Take(s) ==
  /\ s \in running /\ MayTake(s) /\ next[s] <= logged[s]
  /\ fwd' = [fwd EXCEPT ![s] = next[s]]
  /\ next' = [next EXCEPT ![s] = @ + 1]
  /\ UNCHANGED <<logged, live, phase, since, fetch, opened, running, out, hold, control,
                 cancelled, account>>

PutKeeps(s) == fwd[s]             \* fault: the entry is sent again

Kept(s) == 0

RoomAlways == TRUE                \* fault: the merged channel is unbounded

Room == Len(out) < Capacity

Put(s) ==
  /\ s \in running /\ fwd[s] # 0 /\ Room
  /\ out' = Append(out, <<s, fwd[s]>>)
  /\ fwd' = [fwd EXCEPT ![s] = Kept(s)]
  /\ UNCHANGED <<logged, live, phase, since, fetch, opened, next, running, hold, control,
                 cancelled, account>>

(* A forwarder ends when its source does, or in either select when the context
   is done; what it holds then is lost. *)
DeafForwarder(s) == FALSE         \* fault: the inner select ignores the context

Stops(s) == cancelled

EndForwarder(s) ==
  /\ s \in running
  /\ Stops(s) \/ fwd[s] = 0
  /\ running' = running \ {s}
  /\ UNCHANGED <<logged, live, phase, since, fetch, opened, next, fwd, out, hold, control,
                 cancelled, account>>

-----------------------------------------------------------------------------
(* The handler's loop: receive, look at the pause flag, write. *)
NeverPaused == FALSE              \* fault: the flag is not looked at again

IsPaused == paused

Receive ==
  /\ phase = "streaming" /\ hold = <<>> /\ out # <<>> /\ ~IsPaused
  /\ hold' = Head(out)
  /\ out' = Tail(out)
  /\ UNCHANGED <<logged, live, phase, since, fetch, opened, next, fwd, running, control,
                 cancelled, account>>

Discard ==
  /\ phase = "streaming" /\ hold = <<>> /\ out # <<>> /\ IsPaused
  /\ discarded' = discarded \cup {Head(out)}
  /\ out' = Tail(out)
  /\ UNCHANGED <<logged, live, phase, since, fetch, opened, next, fwd, running, hold, control,
                 cancelled, shown, last, late>>

Write ==
  /\ phase = "streaming" /\ hold # <<>> /\ ~cancelled
  /\ shown' = shown \cup {hold}
  /\ last' = [last EXCEPT ![hold[1]] = hold[2]]
  /\ late' = IF paused THEN late + 1 ELSE late
  /\ hold' = <<>>
  /\ UNCHANGED <<logged, live, phase, since, fetch, opened, fanin, control, cancelled, discarded>>

WriteFails ==
  /\ phase = "streaming" /\ hold # <<>> /\ cancelled
  /\ Return

(* Every forwarder has ended, so the merged channel is closed and drained. *)
StreamEnds ==
  /\ phase = "streaming" /\ hold = <<>> /\ out = <<>> /\ running = {}
  /\ Return

(* The command reader. *)
Command(p) ==
  /\ reading /\ ~cancelled /\ commands < MaxCommands
  /\ paused' = p
  /\ late' = IF p /\ ~paused THEN 0 ELSE late
  /\ commands' = commands + 1
  /\ UNCHANGED <<logged, live, phase, since, fetch, opened, fanin, hold, reading, cancelled,
                 shown, discarded, last>>

ReaderEnds ==
  /\ reading /\ cancelled
  /\ reading' = FALSE
  /\ UNCHANGED <<logged, live, phase, since, fetch, opened, fanin, hold, paused, commands,
                 cancelled, account>>

-----------------------------------------------------------------------------
Handler ==
  \/ Start \/ OpenNone \/ HistoryAborts
  \/ \E s \in Sources : Fetch(s) \/ FetchFails(s)
  \/ \E ok \in SUBSET Sources : \E first \in [ok -> 1..(MaxLines + 1)] : Open(ok, first)
  \/ Receive \/ Discard \/ Write \/ WriteFails \/ StreamEnds

Forwarder(s) == Take(s) \/ Put(s) \/ (cancelled /\ EndForwarder(s))

Next ==
  \/ Handler
  \/ \E s \in Sources : LogLine(s) \/ Forwarder(s) \/ EndForwarder(s)
  \/ \E p \in BOOLEAN : Command(p)
  \/ ReaderEnds
  \/ Cancel

(* Every goroutine of the server runs on, and a write either completes or
   fails.  Nothing obliges a source to log or to end, or the client to act. *)
Spec ==
  /\ Init /\ [][Next]_vars
  /\ WF_vars(Handler) /\ WF_vars(ReaderEnds)
  /\ \A s \in Sources : WF_vars(Forwarder(s))
-----------------------------------------------------------------------------
InFlight(s) ==
  {e \in 1..MaxLines : \/ <<s, e>> \in shown \cup discarded
                       \/ fwd[s] = e \/ hold = <<s, e>>
                       \/ \E i \in 1..Len(out) : out[i] = <<s, e>>}

Seen(s) == {e \in 1..MaxLines : <<s, e>> \in shown}

TypeOK ==
  /\ logged \in [Sources -> 0..MaxLines] /\ live \in BOOLEAN
  /\ phase \in {"accepted", "history", "streaming", "closed"}
  /\ since \in [Sources -> 0..MaxLines]
  /\ fetch \subseteq Sources /\ opened \subseteq Sources /\ running \subseteq opened
  /\ next \in [Sources -> 0..(MaxLines + 1)]
  /\ fwd \in [Sources -> 0..MaxLines]
  /\ out \in Seq(Sources \X (1..MaxLines)) /\ Len(out) <= Capacity
  /\ hold \in {<<>>} \cup (Sources \X (1..MaxLines))
  /\ paused \in BOOLEAN /\ reading \in BOOLEAN /\ cancelled \in BOOLEAN
  /\ commands \in 0..MaxCommands
  /\ shown \subseteq Sources \X (1..MaxLines)
  /\ discarded \subseteq Sources \X (1..MaxLines)
  /\ last \in [Sources -> 0..MaxLines]
  /\ late \in Nat

(* Where the provider honours what it is asked for, there is no gap between the
   history and the live lines: while the stream is up, every entry from the
   oldest line shown to the newest one taken was shown, was discarded by a
   pause, or is on its way. *)
NoGap ==
  (phase = "streaming" /\ ~cancelled) =>
    \A s \in opened \cap Exact : Seen(s) # {} =>
      \A e \in 1..(next[s] - 1) :
        (\E o \in Seen(s) : o <= e) => e \in InFlight(s)

(* The fan-in keeps each source's order and repeats nothing: along the path
   client <- hold <- out <- fwd <- next, a source's entries strictly increase. *)
Held     == IF hold = <<>> THEN <<>> ELSE <<hold>>
Taken(s) == IF fwd[s] = 0 THEN <<>> ELSE <<<<s, fwd[s]>>>>

Path(s) == <<<<s, last[s]>>>> \o Held \o out \o Taken(s) \o <<<<s, next[s]>>>>

Increases(s, path) ==
  \A i, j \in 1..Len(path) :
    (i < j /\ path[i][1] = s /\ path[j][1] = s) => path[i][2] < path[j][2]

OrderPerSource == phase = "streaming" => \A s \in opened : Increases(s, Path(s))

(* The pause flag is read before the write, outside the lock: once the client
   has paused, at most one more line is written. *)
PauseTakesHold == paused => late <= 1

Waiting(s) == s \in running /\ fwd[s] = 0 /\ next[s] <= logged[s]

(* The comment of MergeAll: unlike Merge "this never blocks on a slow source".
   Whatever the other sources do, an entry that is there is taken, unless the
   stream stops or the source ends. *)
NoSourceWaitsForAnother == \A s \in Sources : Waiting(s) ~> ~Waiting(s)

(* However the stream ends, nothing of it stays behind: the handler returns and
   every forwarder and the command reader end. *)
NothingLeaks ==
  cancelled ~> (phase = "closed" /\ running = {} /\ ~reading)

(* api-reference.md: "The server buffers lines while paused." *)
PausedLinesKept == discarded = {}

(* What a client is sent (handleWebSocketStream, MergeAll): each source's live
   lines in the order it yields them, none while paused, and no gap after the
   history where the source's provider honours the time it is asked for. *)
SentFaithfully == NoGap /\ OrderPerSource /\ PauseTakesHold
=============================================================================
